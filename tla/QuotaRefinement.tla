--------------------------- MODULE QuotaRefinement ---------------------------
(***************************************************************************)
(* Provisioning implements BotQuota: the counter is                        *)
(* account_bot_counters.current_count, the limit max_count, and a place is *)
(* held by every live bot and by every request that has one reserved or    *)
(* has not given it back yet.                                              *)
(***************************************************************************)
EXTENDS Provisioning

\* What the quota depends on.  The code does not establish any of it.
Disciplined ==
    /\ ~Overlap                             \* one request at a time on a bot
    /\ ~ReuseDestroyed                      \* none on a destroyed bot
    /\ "hard_delete" \notin Faults          \* create_bot's rollback deletes the row
    /\ "decrement" \notin LostReplies       \* the retried decrement is not repeated

Quota == INSTANCE BotQuota
             WITH count <- [a \in Accounts |-> accounts[a].current_count],
                  limit <- [a \in Accounts |-> Limit(a)],
                  holders <- [a \in Accounts |-> SlotHolders(a)]

\* Every step of the handlers is a step of the quota or changes nothing of it.
ImplementsQuota == Quota!QuotaSpec
=============================================================================
