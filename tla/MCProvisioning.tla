--------------------------- MODULE MCProvisioning ---------------------------
(***************************************************************************)
(* Values for the constants of Provisioning in TLC's runs.                 *)
(***************************************************************************)
EXTENDS QuotaRefinement, TLC

TokenPool == 1 .. Cardinality(Bots) + Cardinality(Droplets) + Cardinality(Handlers)

\* Handlers are interchangeable.
HandlerSymmetry == Permutations(Handlers)
=============================================================================
