-------------------------- MODULE MCControlPlane --------------------------
(***************************************************************************)
(* Values for the constants of ControlPlane in TLC's runs.                 *)
(***************************************************************************)
EXTENDS ControlPlane, TLC

TokenPool == 1 .. Cardinality(Bots) + Cardinality(Droplets) + Cardinality(Handlers)
=============================================================================
