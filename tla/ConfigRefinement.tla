-------------------------- MODULE ConfigRefinement --------------------------
(***************************************************************************)
(* Lifecycle implements ConfigRegister, whatever fails and whichever calls *)
(* are dropped, as long as no update of a bot overlaps an acknowledgement  *)
(* of it: the clients have to see to that, the server does not.            *)
(***************************************************************************)
EXTENDS Lifecycle

Register == INSTANCE ConfigRegister WITH
    stored <- [b \in Bots |-> Latest(b)],
    desired <- [b \in Bots |-> bots[b].desired],
    applied <- [b \in Bots |-> bots[b].applied]

\* The service behaves like the register: only stored configs are offered, only the one
\* on offer is acknowledged, and updates and acknowledgements do not undo each other,
\* though updates draw the same versions, fail half way and write what they read before.
ImplementsRegister == Register!RegisterSpec
=============================================================================
