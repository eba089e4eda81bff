----------------------------- MODULE MCHttpApi -----------------------------
(***************************************************************************)
(* Values for the constants of HttpApi and UserText in TLC's runs.         *)
(***************************************************************************)
EXTENDS HttpApi, UserText

TokenPool == 1 .. Cardinality(Bots) + Cardinality(Droplets) + Cardinality(Handlers)

AllCalls == Working \cup {"increment", "get_by_id", "rate_limit"}

\* Handlers are interchangeable.
HandlerSymmetry == Permutations(Handlers)

\* A rollback always finds the database up, and the cleanup DigitalOcean.
FaultsButRollback == AllCalls \ {"hard_delete", "cleanup_droplet"}

\* Replies get lost, but not of the two calls that are repeated though they are not
\* idempotent.
LossesButRepeats == AllCalls \ {"create_droplet", "decrement"}
=============================================================================
