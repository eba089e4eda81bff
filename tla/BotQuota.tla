------------------------------ MODULE BotQuota ------------------------------
(***************************************************************************)
(* What the bot counter of an account promises: a bot is only added while  *)
(* the counter is under the limit, and the counter is never below the      *)
(* number of bots that hold a place.  Failures may make it too high, which *)
(* costs the account places; nothing may make it too low.                  *)
(*                                                                         *)
(* Provisioning implements this specification as long as its clients and   *)
(* the database keep to what QuotaRefinement assumes of them.              *)
(***************************************************************************)
EXTENDS Naturals, FiniteSets

CONSTANTS Accounts, Bots

VARIABLES count, limit, holders

quotaVars == <<count, limit, holders>>

QuotaInit ==
    /\ count = [a \in Accounts |-> 0]
    /\ limit \in [Accounts -> Nat]
    /\ holders = [a \in Accounts |-> {}]

\* A bot of the account gets a place.
Reserve(a, b) ==
    /\ count[a] < limit[a]
    /\ \A other \in Accounts : b \notin holders[other]
    /\ count' = [count EXCEPT ![a] = @ + 1]
    /\ holders' = [holders EXCEPT ![a] = @ \cup {b}]
    /\ UNCHANGED limit

\* A place is taken that nobody gets: its request died or never knew.
Leak(a) ==
    /\ count[a] < limit[a]
    /\ count' = [count EXCEPT ![a] = @ + 1]
    /\ UNCHANGED <<limit, holders>>

Release(a, b) ==
    /\ b \in holders[a]
    /\ count' = [count EXCEPT ![a] = IF @ > 0 THEN @ - 1 ELSE 0]
    /\ holders' = [holders EXCEPT ![a] = @ \ {b}]
    /\ UNCHANGED limit

\* A bot goes without giving its place back.
Forget(a, b) ==
    /\ b \in holders[a]
    /\ holders' = [holders EXCEPT ![a] = @ \ {b}]
    /\ UNCHANGED <<count, limit>>

ChangeLimit(a) ==
    /\ limit'[a] \in Nat
    /\ limit' = [limit EXCEPT ![a] = limit'[a]]
    /\ UNCHANGED <<count, holders>>

QuotaNext ==
    \E a \in Accounts :
        \/ Leak(a) \/ ChangeLimit(a)
        \/ \E b \in Bots : Reserve(a, b) \/ Release(a, b) \/ Forget(a, b)

QuotaSpec == QuotaInit /\ [][QuotaNext]_quotaVars

----------------------------------------------------------------------------

QuotaTypeOK ==
    /\ count \in [Accounts -> Nat]
    /\ limit \in [Accounts -> Nat]
    /\ holders \in [Accounts -> SUBSET Bots]

\* The counter covers every bot that holds a place.
Covered == \A a \in Accounts : Cardinality(holders[a]) <= count[a]
=============================================================================
