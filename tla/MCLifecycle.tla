---------------------------- MODULE MCLifecycle ----------------------------
(***************************************************************************)
(* Values for the constants of Lifecycle in TLC's runs.                    *)
(***************************************************************************)
EXTENDS ConfigRefinement, TLC

AllCalls == CallLabels \cup {"authenticate", "get_bot", "list_stale"}

\* Updates and acknowledgements of one bot.
Writers == {{"update", "ack"}}

CallerSymmetry == Permutations(Callers)
=============================================================================
