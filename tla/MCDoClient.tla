----------------------------- MODULE MCDoClient -----------------------------
(***************************************************************************)
(* Values for the constants of DoClient in TLC's run.                      *)
(***************************************************************************)
EXTENDS DoClient, TLC

Stormy == {"timeout", "gateway", "unavailable", "rate_limit", "reject", "garbled"}

\* With timeouts, and without.
BothWeathers == {Stormy, Stormy \ {"timeout"}}
=============================================================================
