--------------------------- MODULE ConfigRegister ---------------------------
(***************************************************************************)
(* What the config lifecycle promises about a bot, without calls, reads    *)
(* and failures: configs are numbered as they are stored; the owner offers *)
(* one of them, which leaves what was acknowledged as it is; the agent     *)
(* acknowledges the one on offer, which leaves the offer as it is.         *)
(***************************************************************************)
EXTENDS Naturals

CONSTANT Bots

VARIABLES stored, desired, applied   \* for each bot, version numbers

registerVars == <<stored, desired, applied>>

Init ==
    /\ stored = [b \in Bots |-> 1]
    /\ desired = [b \in Bots |-> 1]
    /\ applied = [b \in Bots |-> 0]

Store(b) ==
    /\ stored' = [stored EXCEPT ![b] = @ + 1]
    /\ UNCHANGED <<desired, applied>>

Offer(b) ==
    /\ \E v \in 1 .. stored[b] : desired' = [desired EXCEPT ![b] = v]
    /\ UNCHANGED <<stored, applied>>

Acknowledge(b) ==
    /\ applied' = [applied EXCEPT ![b] = desired[b]]
    /\ UNCHANGED <<stored, desired>>

Next == \E b \in Bots : Store(b) \/ Offer(b) \/ Acknowledge(b)

RegisterSpec == Init /\ [][Next]_registerVars
=============================================================================
