----------------------------- MODULE QuotaProofs -----------------------------
(***************************************************************************)
(* The bot counter, proved for any number of accounts, handlers and bots   *)
(* that keep to what QuotaRefinement calls Disciplined: Provisioning       *)
(* implements BotQuota, the counter covers the bots of its account, and an *)
(* account only grows within its limit.                                    *)
(*                                                                         *)
(* The argument is that a request in flight always holds a place: its bot  *)
(* is live, or it is a creation or a deletion that still has to give the   *)
(* place back.  A place can then only go when a request ends.              *)
(***************************************************************************)
EXTENDS OwnershipProofs, QuotaRefinement, FiniteSetTheorems

----------------------------------------------------------------------------
(* The inductive invariant.                                                 *)

\* Where a request of operation op can stand, given the status of its bot's row.
Fits(pc, op, status) ==
    /\ pc \in CreateLabels \cup RollbackLabels => op = "create"
    /\ op = "create" => /\ pc \in CreateLabels \cup RollbackLabels \cup SpawnLabels
                        /\ status # "destroyed"
    /\ op # "create" => status # "absent"
    /\ op # "create" /\ status = "destroyed" =>
         pc = "decrement" \/ (pc = "delete_bot" /\ "delete_bot" \in LostReplies)
    /\ pc = "decrement" => status = "destroyed"
    /\ pc = "give_back" => status = "absent"

\* A request knows its bot's account, and the row is as it left it.
Settled(p) ==
    InFlight(p) =>
        /\ req[p].account \in Accounts
        /\ BotExists(req[p].bot) => bots[req[p].bot].account = req[p].account
        /\ Fits(req[p].pc, req[p].op, bots[req[p].bot].status)

\* No two requests in flight are on one bot.
Alone == \A p, q \in Handlers : InFlight(p) /\ InFlight(q) /\ req[p].bot = req[q].bot => p = q

AccountsKnown ==
    /\ \A b \in Bots : BotExists(b) => bots[b].account \in Accounts
    /\ \A a \in Accounts : accounts[a].tier = "none" => accounts[a].current_count = 0

SlotInv == Ownership /\ Alone /\ AccountsKnown /\ \A p \in Handlers : Settled(p)

----------------------------------------------------------------------------
(* The steps of a request in flight: it only touches its own bot's row,     *)
(* keeps what Settled says of it and, where it holds no place that the row  *)
(* does not show, ends with the row live.                                   *)

\* Request p may end with the row at that status.
Ending(p, result, status) ==
    \/ Cancellation /\ result = "dropped"
    \/ req[p].pc \in {"give_back", "decrement"}
    \/ req[p].pc = "delete_bot" /\ "delete_bot" \in LostReplies
    \/ status \notin {"absent", "destroyed"}

Own(p) ==
    /\ uuids' = uuids
    /\ \A q \in Handlers \ {p} : req'[q] = req[q]
    /\ \A b \in Bots \ {req[p].bot} : bots'[b] = bots[b]
    /\ bots'[req[p].bot].status # "absent" => bots'[req[p].bot].account = req[p].account
    /\ InFlight(p)' => /\ req'[p].bot = req[p].bot
                       /\ req'[p].account = req[p].account
                       /\ Fits(req'[p].pc, req'[p].op, bots'[req[p].bot].status)
    /\ InFlight(p)' \/ Ending(p, req'[p].pc, bots'[req[p].bot].status)

\* Request p may become r when the status of its bot's row is the given one.
Going(p, r, status) ==
    /\ r.pc \in Working => /\ r.bot = req[p].bot /\ r.account = req[p].account
                           /\ Fits(r.pc, r.op, status)
    /\ r.pc \in Working \/ Ending(p, r.pc, status)

\* Where requests go.
LEMMA GoingOn ==
    ASSUME TypeOK, NEW p \in Handlers, InFlight(p), NEW status
    PROVE  /\ \A label \in Working :
                 Fits(label, req[p].op, status) => Going(p, At(req[p], label), status)
           /\ \A result \in {"ok", "failed", "dropped"} :
                 Ending(p, result, status) => Going(p, Answered(req[p], result), status)
           /\ status # "destroyed" /\ (req[p].op = "create" \/ status # "absent")
                => Going(p, Failed(req[p]), status)
           /\ \A giveUp : Fits(req[p].pc, req[p].op, status) /\ Going(p, giveUp, status)
                            => Going(p, Retried(req[p], giveUp), status)
<1>1. \A label \in Working :
        Fits(label, req[p].op, status) => Going(p, At(req[p], label), status)
  BY DEF Going, At, TypeOK, Requests
<1>2. \A result \in {"ok", "failed", "dropped"} :
        Ending(p, result, status) => Going(p, Answered(req[p], result), status)
  BY LabelTypes DEF Going, Answered, Idle
<1>3. status # "destroyed" /\ (req[p].op = "create" \/ status # "absent")
        => Going(p, Failed(req[p]), status)
  <2>1. status # "destroyed" /\ req[p].op = "create" => Fits("hard_delete", req[p].op, status)
    BY DEF Fits, RollbackLabels
  <2> QED  BY <1>1, <1>2, <2>1, LabelTypes DEF Failed, Ending
<1>4. \A giveUp : Fits(req[p].pc, req[p].op, status) /\ Going(p, giveUp, status)
                    => Going(p, Retried(req[p], giveUp), status)
  BY DEF Going, Retried, TypeOK, Requests, InFlight
<1> QED  BY <1>1, <1>2, <1>3, <1>4

\* A step that writes no bot is the request's own when it goes where it may.
LEMMA MoveIsOwn ==
    ASSUME SlotInv, NEW p \in Handlers, InFlight(p), UNCHANGED <<bots, uuids>>,
           NEW r, Becomes(p, r), Going(p, r, bots[req[p].bot].status)
    PROVE  Own(p)
BY DEF SlotInv, Settled, Own, Going, Becomes, BotExists, InFlight, Ownership, TypeOK

\* So is an update of the bot's row that keeps its account.
LEMMA UpdateIsOwn ==
    ASSUME SlotInv, NEW p \in Handlers, InFlight(p), NEW row, NEW next, NEW error,
           UpdateBot(p, WithBot(req[p].bot, row), next, error),
           Going(p, error, bots[req[p].bot].status),
           BotExists(req[p].bot) =>
               /\ row.account = bots[req[p].bot].account
               /\ Going(p, next, row.status)
               /\ req[p].pc \in LostReplies => Going(p, error, row.status)
    PROVE  Own(p)
<1> DEFINE b == req[p].bot
<1>1. PICK o \in Outcomes(req[p].pc) :
        /\ bots' = After(o, WithBot(b, row), bots)
        /\ Becomes(p, IF o = "done" /\ BotExists(b) THEN next ELSE error)
        /\ UNCHANGED uuids
  BY DEF UpdateBot
<1>2. /\ TypeOK /\ b \in Bots
      /\ BotExists(b) => bots[b].account = req[p].account
  BY DEF SlotInv, Settled, Ownership, IdsDrawn, TypeOK, StoreTypeOK
<1>3. CASE BotExists(b) /\ o # "refused"
  <2>1. bots' = [bots EXCEPT ![b] = row]
    BY <1>1, <1>3 DEF After, WithBot
  <2>2. /\ \A x \in Bots \ {b} : bots'[x] = bots[x]
        /\ bots'[b] = row
    BY <1>2, <2>1 DEF TypeOK, StoreTypeOK
  <2>3. PICK r \in {next, error} : Becomes(p, r) /\ Going(p, r, row.status)
    BY <1>1, <1>3 DEF Outcomes
  <2>4. /\ \A q \in Handlers \ {p} : req'[q] = req[q]
        /\ req'[p] = r
    BY <1>2, <2>3 DEF Becomes, TypeOK
  <2> QED  BY <1>1, <1>2, <1>3, <2>2, <2>3, <2>4 DEF Own, Going, InFlight
<1>4. CASE ~(BotExists(b) /\ o # "refused")
  <2>1. bots' = bots /\ Becomes(p, error)
    BY <1>1, <1>4 DEF After, WithBot
  <2> QED  BY <1>1, <2>1, MoveIsOwn
<1> QED  BY <1>3, <1>4

\* Every action of a request in flight is its own, if the rollback deletes the row.
LEMMA OwnSteps ==
    ASSUME SlotInv, NEW p \in Handlers, InFlight(p), Step(p) \/ Cancel(p),
           "hard_delete" \notin Faults
    PROVE  Own(p)
<1> DEFINE b == req[p].bot
           op == req[p].op
           status == bots[b].status
<1>1. /\ TypeOK /\ b \in Bots /\ bots[b] \in BotRows
      /\ BotExists(b) => bots[b].account = req[p].account
      /\ Fits(req[p].pc, op, status)
  BY DEF SlotInv, Settled, Ownership, IdsDrawn, TypeOK, StoreTypeOK
<1>2. \A s : /\ \A label \in Working : Fits(label, op, s) => Going(p, At(req[p], label), s)
             /\ \A result \in {"ok", "failed", "dropped"} :
                   Ending(p, result, s) => Going(p, Answered(req[p], result), s)
             /\ s # "destroyed" /\ (op = "create" \/ s # "absent") => Going(p, Failed(req[p]), s)
             /\ \A giveUp : Fits(req[p].pc, op, s) /\ Going(p, giveUp, s)
                              => Going(p, Retried(req[p], giveUp), s)
  BY <1>1, GoingOn
<1>3. ASSUME NEW s, NEW next, NEW error, UpdateBot(p, WithStatus(b, s), next, error),
             Going(p, error, status), Going(p, next, s),
             req[p].pc \in LostReplies => Going(p, error, s)
      PROVE  Own(p)
  <2> DEFINE row == [bots[b] EXCEPT !.status = s]
  <2>1. row.account = bots[b].account /\ row.status = s
    BY <1>1 DEF BotRows
  <2> HIDE DEF row
  <2> QED  BY <1>3, <2>1, UpdateIsOwn DEF WithStatus, row
<1>4. ASSUME NEW row, NEW next, NEW error, UpdateBot(p, WithBot(b, row), next, error),
             row.account = bots[b].account, row.status = status,
             Going(p, next, status) \/ status = "absent", Going(p, error, status)
      PROVE  Own(p)
  BY <1>4, UpdateIsOwn DEF BotExists
<1> HIDE DEF status
<1> USE LabelTypes DEF Fits, Ending, CreateLabels, SpawnLabels, RollbackLabels
\* Calls that write the bot's status.
<1>5. ASSUME SetProvisioning(p) PROVE Own(p)
  BY <1>1, <1>2, <1>3, <1>5 DEF SetProvisioning
<1>6. ASSUME SetPending(p) \/ SetError(p) \/ MarkFailed(p) PROVE Own(p)
  BY <1>1, <1>2, <1>3, <1>6 DEF SetPending, SetError, MarkFailed
<1>7. ASSUME SetPaused(p) \/ SetOnline(p) PROVE Own(p)
  BY <1>1, <1>2, <1>3, <1>7 DEF SetPaused, SetOnline
<1>8. ASSUME DeleteBot(p) PROVE Own(p)
  BY <1>1, <1>2, <1>3, <1>8 DEF DeleteBot, Deleted
\* Calls that write another column of it.
<1>9. ASSUME SetDesired(p) PROVE Own(p)
  <2> DEFINE row == [bots[b] EXCEPT !.desired = 1, !.applied = 0]
  <2>1. row.account = bots[b].account /\ row.status = status
    BY <1>1 DEF BotRows, status
  <2> HIDE DEF row
  <2> QED  BY <1>1, <1>2, <1>4, <1>9, <2>1 DEF SetDesired, WithConfigVersion, row
<1>10. ASSUME SetToken(p) PROVE Own(p)
  <2> DEFINE t == CHOOSE token \in FreshTokens : TRUE
             row == [bots[b] EXCEPT !.token = t]
             next == [At(req[p], "create_droplet") EXCEPT !.token = t]
  <2>1. row.account = bots[b].account /\ row.status = status
    BY <1>1 DEF BotRows, status
  <2>2. Going(p, next, status)
    BY <1>1, <1>10 DEF SetToken, Going, At, TypeOK, Requests
  <2> HIDE DEF row, next
  <2> QED  BY <1>1, <1>2, <1>4, <1>10, <2>1, <2>2 DEF SetToken, WithToken, row, next
<1>11. ASSUME LinkDroplet(p) PROVE Own(p)
  <2> DEFINE row == [bots[b] EXCEPT !.droplet = req[p].droplet]
  <2>1. row.account = bots[b].account /\ row.status = status
    BY <1>1 DEF BotRows, status
  <2> HIDE DEF row
  <2> QED  BY <1>1, <1>2, <1>4, <1>11, <2>1 DEF LinkDroplet, WithDroplet, row
<1>12. ASSUME UnlinkDroplet(p) PROVE Own(p)
  <2> DEFINE row == [bots[b] EXCEPT !.droplet = NoDroplet]
  <2>1. row.account = bots[b].account /\ row.status = status
    BY <1>1 DEF BotRows, status
  <2> HIDE DEF row
  <2> QED  BY <1>1, <1>2, <1>4, <1>12, <2>1 DEF UnlinkDroplet, WithDroplet, row
\* The row's INSERT and DELETE.
<1>13. ASSUME InsertBot(p) PROVE Own(p)
  <2>1. PICK o \in Outcomes("create_bot") :
          /\ bots' = After(o, Inserted(b, req[p].account), bots)
          /\ Becomes(p, IF o = "done" THEN At(req[p], "create_config") ELSE Failed(req[p]))
          /\ uuids' = uuids
    BY <1>13 DEF InsertBot
  <2>2. CASE bots' = bots
    BY <1>1, <1>2, <1>13, <2>1, <2>2, MoveIsOwn DEF InsertBot, status
  <2>3. CASE bots' = Inserted(b, req[p].account)
    <3>1. /\ bots'[b].status = "pending" /\ bots'[b].account = req[p].account
          /\ \A x \in Bots \ {b} : bots'[x] = bots[x]
      BY <1>1, <2>3 DEF Inserted, NoBotRow, TypeOK, StoreTypeOK
    <3>2. PICK r : Becomes(p, r) /\ Going(p, r, "pending")
      BY <1>1, <1>2, <1>13, <2>1 DEF InsertBot
    <3> QED  BY <1>1, <2>1, <3>1, <3>2 DEF Own, Going, Becomes, InFlight, TypeOK
  <2> QED  BY <2>1, <2>2, <2>3, AfterIsEither
<1>14. ASSUME RollbackBot(p) PROVE Own(p)
  <2>1. /\ bots' = HardDeleted(b)
        /\ Becomes(p, At(req[p], "give_back"))
        /\ uuids' = uuids
    BY <1>14 DEF RollbackBot, Outcomes, After
  <2>2. bots'[b].status = "absent" /\ \A x \in Bots \ {b} : bots'[x] = bots[x]
    BY <1>1, <2>1 DEF HardDeleted, NoBotRow, TypeOK, StoreTypeOK
  <2>3. Going(p, At(req[p], "give_back"), "absent")
    BY <1>1, <1>2, <1>14 DEF RollbackBot
  <2> QED  BY <1>1, <2>1, <2>2, <2>3 DEF Own, Going, Becomes, InFlight, TypeOK
\* Calls that write no bot.
<1>15. ASSUME UNCHANGED <<bots, uuids>>, NEW r, Becomes(p, r), Going(p, r, status)
       PROVE  Own(p)
  BY <1>15, MoveIsOwn DEF status
<1>16. ASSUME InsertConfig(p) \/ RollbackCounter(p) PROVE Own(p)
  BY <1>1, <1>2, <1>15, <1>16 DEF InsertConfig, RollbackCounter
<1>17. ASSUME CreateDroplet(p) PROVE Own(p)
  <2>1. /\ Going(p, [At(req[p], "insert_droplet") EXCEPT !.droplet = NewDroplet, !.token = 0],
                 status)
        /\ \A label \in {"set_pending", "set_error"} :
             Going(p, [At(req[p], label) EXCEPT !.token = 0], status)
        /\ Going(p, [req[p] EXCEPT !.tries = @ + 1], status)
    BY <1>1, <1>17 DEF CreateDroplet, Going, At, TypeOK, Requests
  <2> QED  BY <1>15, <1>17, <2>1 DEF CreateDroplet, tables
<1>18. ASSUME InsertDroplet(p) \/ AssignDroplet(p) \/ CleanupDroplet(p) PROVE Own(p)
  BY <1>1, <1>2, <1>15, <1>18 DEF InsertDroplet, AssignDroplet, CleanupDroplet, tables
<1>19. ASSUME DestroyDroplet(p) \/ RedeployDestroy(p) PROVE Own(p)
  BY <1>1, <1>2, <1>15, <1>19 DEF DestroyDroplet, RedeployDestroy, DestroyCall, tables
<1>20. ASSUME MarkDestroyed(p) \/ RedeployMark(p) PROVE Own(p)
  BY <1>1, <1>2, <1>15, <1>20 DEF MarkDestroyed, RedeployMark, MarkCall
<1>21. ASSUME ReleaseSlot(p) \/ Shutdown(p) \/ GetDroplet(p) \/ Reboot(p) PROVE Own(p)
  BY <1>1, <1>2, <1>15, <1>21 DEF ReleaseSlot, Shutdown, GetDroplet, Reboot, tables
<1>22. ASSUME GetLatest(p) PROVE Own(p)
  <2>1. Going(p, [At(req[p], "set_provisioning") EXCEPT !.droplet = NoDroplet], status)
    BY <1>1, <1>22 DEF GetLatest, Going, At, TypeOK, Requests
  <2> QED  BY <1>1, <1>2, <1>15, <1>22, <2>1 DEF GetLatest, tables
<1>23. ASSUME Cancel(p) PROVE Own(p)
  BY <1>2, <1>15, <1>23 DEF Cancel, tables
<1> QED
  BY <1>5, <1>6, <1>7, <1>8, <1>9, <1>10, <1>11, <1>12, <1>13, <1>14, <1>16, <1>17, <1>18,
     <1>19, <1>20, <1>21, <1>22, <1>23, LabelTypes DEF Step, Reply, InFlight

----------------------------------------------------------------------------
(* Every step keeps the invariant, as long as clients send one request at a *)
(* time on a bot, none on a destroyed one, and the rollback deletes the row.*)

OneAtATime == ~Overlap /\ ~ReuseDestroyed /\ "hard_delete" \notin Faults

\* A counter row is only written for accounts that exist.
LEMMA CountersKnown ==
    ASSUME AccountsKnown, TypeOK, NEW a,
           \/ accounts' = accounts \/ accounts' = Incremented(a) \/ accounts' = Decremented(a)
    PROVE  \A x \in Accounts : accounts'[x].tier = "none" => accounts'[x].current_count = 0
<1>1. \A x \in Accounts : UnderLimit(x) => accounts[x].tier # "none"
  BY DEF AccountsKnown, UnderLimit, Limit, MaxBots
<1> QED  BY <1>1 DEF AccountsKnown, Incremented, Decremented, TypeOK, StoreTypeOK, AccountRows

\* An own step keeps the invariant.
LEMMA OwnKeepsSlots ==
    ASSUME SlotInv, Ownership', NEW p \in Handlers, InFlight(p), Own(p),
           \A x \in Accounts : accounts'[x].tier = "none" => accounts'[x].current_count = 0
    PROVE  SlotInv'
<1>1. /\ req[p].bot \in Bots /\ req[p].account \in Accounts
      /\ \A q \in Handlers : InFlight(q) => req[q].bot \in Bots
  BY DEF SlotInv, Settled, Ownership, IdsDrawn, TypeOK, StoreTypeOK
<1>2. \A q \in Handlers : InFlight(q)' => InFlight(q) /\ req'[q].bot = req[q].bot
  BY DEF Own, InFlight
<1>3. Alone'
  BY <1>2 DEF SlotInv, Alone
<1>4. AccountsKnown'
  BY <1>1 DEF SlotInv, AccountsKnown, Own, BotExists
<1>5. Settled(p)'
  BY <1>1 DEF SlotInv, Settled, Own, BotExists, InFlight
<1>6. ASSUME NEW q \in Handlers \ {p} PROVE Settled(q)'
  <2> SUFFICES ASSUME InFlight(q)' PROVE Settled(q)'
    BY DEF Settled
  <2>1. /\ req'[q] = req[q] /\ InFlight(q) /\ req[q].bot \in Bots
        /\ req[q].bot # req[p].bot
    BY <1>1, <1>2 DEF Own, SlotInv, Alone
  <2>2. bots'[req[q].bot] = bots[req[q].bot]
    BY <2>1 DEF Own
  <2> QED  BY <2>1, <2>2 DEF SlotInv, Settled, BotExists
<1> QED  BY <1>3, <1>4, <1>5, <1>6 DEF SlotInv

\* Which steps write the counter.
LEMMA CounterSteps ==
    ASSUME NEW p \in Handlers, Step(p) \/ Cancel(p)
    PROVE  \/ accounts' = accounts
           \/ RollbackCounter(p) /\ accounts' = Decremented(req[p].account)
           \/ ReleaseSlot(p) /\ accounts' = Decremented(req[p].account)
<1>1. RollbackCounter(p) \/ ReleaseSlot(p) =>
        accounts' = accounts \/ accounts' = Decremented(req[p].account)
  BY AfterIsEither DEF RollbackCounter, ReleaseSlot
<1> QED
  BY <1>1
     DEF Step, InsertBot, InsertConfig, SetDesired, SetProvisioning, SetToken, CreateDroplet,
         SetPending, SetError, InsertDroplet, AssignDroplet, LinkDroplet, CleanupDroplet, MarkFailed,
         RollbackBot, DestroyDroplet, RedeployDestroy, DestroyCall, MarkDestroyed, RedeployMark,
         MarkCall, UnlinkDroplet, DeleteBot, GetLatest, Shutdown, SetPaused, GetDroplet, Reboot,
         SetOnline, Reply, Cancel, UpdateBot, tables

\* A step that leaves the tables alone and starts or ends one request at most keeps the
\* invariant when a request it starts is settled and alone.
LEMMA StartKeepsSlots ==
    ASSUME SlotInv, Ownership', UNCHANGED bots, NEW p \in Handlers,
           \A x \in Accounts : accounts'[x].tier = "none" => accounts'[x].current_count = 0,
           \A q \in Handlers \ {p} : req'[q] = req[q],
           InFlight(p)' => /\ Settled(p)'
                           /\ \A q \in Handlers \ {p} : InFlight(q) => req[q].bot # req'[p].bot
    PROVE  SlotInv'
<1>1. Alone'
  BY DEF SlotInv, Alone, InFlight
<1>2. \A q \in Handlers : Settled(q)'
  BY DEF SlotInv, Settled, InFlight, BotExists
<1> QED  BY <1>1, <1>2 DEF SlotInv, AccountsKnown, BotExists

\* Where a request on an existing bot starts.
FirstLabels == {"failed", "destroy_droplet", "unlink_droplet", "shutdown", "set_paused",
                "get_droplet", "redeploy_destroy", "get_latest"}

\* A new request's bot is not destroyed, and nobody else works on it.
LEMMA BeginKeepsSlots ==
    ASSUME SlotInv, Ownership', OneAtATime, NEW p \in Handlers, NEW op \in Operations \ {"create"},
           NEW b \in Bots,
           NEW found \in FirstLabels, Begin(p, op, b, found)
    PROVE  SlotInv'
<1>1. /\ \A q \in Handlers : InFlight(q) => req[q].bot # b
      /\ bots[b].status # "destroyed"
      /\ UNCHANGED <<bots, accounts>>
  BY DEF Begin, MayRequest, OneAtATime, tables
<1>2. PICK r : /\ Becomes(p, r)
               /\ r.pc \in Working => BotExists(b) /\ r = At(Reading(op, b), found)
  <2>1. Answered(Reading(op, b), "failed").pc \notin Working
    BY LabelTypes DEF Answered, Idle
  <2> QED  BY <2>1 DEF Begin
<1>3. req'[p] = r /\ \A q \in Handlers \ {p} : req'[q] = req[q]
  BY <1>2 DEF Becomes, SlotInv, Ownership, TypeOK
<1>4. ASSUME InFlight(p)' PROVE Settled(p)' /\ req'[p].bot = b
  <2>1. /\ BotExists(b)
        /\ r.pc = found /\ r.op = op /\ r.bot = b /\ r.account = bots[b].account
    BY <1>2, <1>3, <1>4 DEF InFlight, At, Reading, Idle
  <2> QED  BY <1>1, <1>3, <2>1 DEF Settled, Fits, CreateLabels, RollbackLabels, SpawnLabels, BotExists,
              SlotInv, AccountsKnown, FirstLabels
<1> QED  BY <1>1, <1>3, <1>4, StartKeepsSlots DEF SlotInv, AccountsKnown

\* A creation starts on an id nobody has drawn, for an account that is there.
LEMMA ReserveKeepsSlots ==
    ASSUME SlotInv, Ownership', NEW p \in Handlers, NEW a \in Accounts, ReserveSlot(p, a)
    PROVE  SlotInv'
<1> DEFINE b == CHOOSE id \in Bots \ uuids : TRUE
           new == [Idle EXCEPT !.pc = "create_bot", !.op = "create", !.bot = b, !.account = a]
<1>1. b \in Bots \ uuids /\ UNCHANGED bots /\ TypeOK
  BY DEF ReserveSlot, SlotInv, Ownership, TypeOK, StoreTypeOK
<1>2. \A q \in Handlers : InFlight(q) => req[q].bot # b
  BY <1>1 DEF SlotInv, Ownership, IdsDrawn
<1>3. bots[b].status = "absent"
  BY <1>1 DEF SlotInv, Ownership, IdsDrawn, BotExists
<1>4. PICK r : Becomes(p, r) /\ (r.pc \in Working => r = new)
  <2>1. [Idle EXCEPT !.pc = "failed", !.op = "create"].pc \notin Working
    BY LabelTypes DEF Idle
  <2> HIDE DEF new
  <2> QED  BY <2>1 DEF ReserveSlot, new
<1>5. req'[p] = r /\ \A q \in Handlers \ {p} : req'[q] = req[q]
  BY <1>1, <1>4 DEF Becomes, TypeOK
<1>6. new.pc = "create_bot" /\ new.op = "create" /\ new.bot = b /\ new.account = a
  BY DEF Idle
<1>7. ASSUME InFlight(p)' PROVE Settled(p)' /\ req'[p].bot = b
  <2>1. r = new
    BY <1>4, <1>5, <1>7 DEF InFlight
  <2> HIDE DEF new
  <2> QED  BY <1>1, <1>3, <1>5, <1>6, <2>1
           DEF Settled, Fits, CreateLabels, RollbackLabels, SpawnLabels, BotExists
<1>8. accounts' = accounts \/ accounts' = Incremented(a)
  BY DEF ReserveSlot
<1> HIDE DEF b, new
<1> QED  BY <1>1, <1>2, <1>5, <1>7, <1>8, CountersKnown, StartKeepsSlots DEF SlotInv

\* No request is in flight initially.
LEMMA SlotInit == Init => SlotInv
<1> SUFFICES ASSUME Init PROVE SlotInv
  OBVIOUS
<1>1. /\ \A b \in Bots : ~BotExists(b)
      /\ \A p \in Handlers : req[p].pc = "idle"
      /\ \A a \in Accounts : accounts[a].current_count = 0
  BY DEF Init, StoreInit, BotExists, NoBotRow, Idle
<1> QED  BY <1>1, OwnershipInit, LabelTypes DEF SlotInv, Alone, AccountsKnown, Settled, InFlight

\* Only the reply is a step of a request that is not in flight.
LEMMA IdleSteps ==
    ASSUME NEW p \in Handlers, Step(p) \/ Cancel(p), ~InFlight(p)
    PROVE  Reply(p)
BY LabelTypes
   DEF Step, InsertBot, InsertConfig, SetDesired, SetProvisioning, SetToken, CreateDroplet,
       SetPending, SetError, InsertDroplet, AssignDroplet, LinkDroplet, CleanupDroplet, MarkFailed,
       RollbackBot, RollbackCounter, DestroyDroplet, MarkDestroyed, UnlinkDroplet, DeleteBot,
       ReleaseSlot, RedeployDestroy, RedeployMark, GetLatest, Shutdown, SetPaused, GetDroplet,
       Reboot, SetOnline, Cancel, InFlight

\* Every step of the service keeps the invariant.
LEMMA SlotNext == OneAtATime /\ SlotInv /\ [Next]_vars => SlotInv'
<1> SUFFICES ASSUME OneAtATime, SlotInv, [Next]_vars PROVE SlotInv'
  OBVIOUS
<1>0. Ownership'
  BY OwnershipNext DEF SlotInv
<1>1. CASE UNCHANGED <<bots, req>> /\ (\A x \in Accounts : accounts'[x].tier = "none"
                                                            => accounts'[x].current_count = 0)
  BY <1>0, <1>1 DEF SlotInv, Alone, AccountsKnown, Settled, InFlight, BotExists
<1>2. ASSUME NEW a \in Accounts, NEW tier \in TierChoices,
             CreateAccount(a, tier) \/ UpdateSubscription(a, tier)
      PROVE  SlotInv'
  <2>1. tier # "none"
    BY <1>2, ProvisioningAssumption
  <2>2. \A x \in Accounts : accounts'[x].tier = "none" => accounts'[x].current_count = 0
    BY <1>2, <2>1 DEF CreateAccount, UpdateSubscription, SlotInv, AccountsKnown, Ownership, TypeOK,
                      StoreTypeOK, AccountRows
  <2> QED  BY <1>1, <1>2, <2>2 DEF CreateAccount, UpdateSubscription
<1>3. ASSUME NEW p \in Handlers, Step(p) \/ Cancel(p) PROVE SlotInv'
  <2>1. CASE InFlight(p)
    BY <1>0, <1>3, <2>1, OwnSteps, CounterSteps, CountersKnown, OwnKeepsSlots
       DEF OneAtATime, SlotInv, Ownership
  <2>2. CASE ~InFlight(p)
    <3>1. Reply(p)
      BY <1>3, <2>2, IdleSteps
    <3>2. /\ UNCHANGED <<bots, accounts>>
          /\ req'[p].pc = "idle" /\ \A q \in Handlers \ {p} : req'[q] = req[q]
      BY <3>1 DEF Reply, Becomes, Idle, tables, SlotInv, Ownership, TypeOK
    <3> QED  BY <1>0, <3>2, StartKeepsSlots, LabelTypes DEF InFlight, SlotInv, AccountsKnown
  <2> QED  BY <2>1, <2>2
<1>4. ASSUME NEW p \in Handlers, Start(p) PROVE SlotInv'
  <2>1. CASE \E a \in Accounts : ReserveSlot(p, a)
    BY <1>0, <2>1, ReserveKeepsSlots
  <2>2. ASSUME NEW b \in Bots, BeginDestroy(p, b) \/ BeginPause(p, b)
                                 \/ BeginResume(p, b) \/ BeginRedeploy(p, b)
        PROVE  SlotInv'
    BY <1>0, <2>2, BeginKeepsSlots
       DEF BeginDestroy, BeginPause, BeginResume, BeginRedeploy, Operations, FirstLabels
  <2> QED  BY <1>4, <2>1, <2>2 DEF Start
<1> QED
  BY <1>1, <1>2, <1>3, <1>4 DEF Next, vars, tables, Boot, PowerOff, SlotInv, AccountsKnown

----------------------------------------------------------------------------
(* Who holds a place.                                                       *)

\* A request in flight always does.
LEMMA InFlightHolds ==
    ASSUME SlotInv, NEW p \in Handlers, InFlight(p)
    PROVE  /\ req[p].bot \in Bots /\ req[p].account \in Accounts
           /\ req[p].bot \in SlotHolders(req[p].account)
<1>1. /\ req[p].bot \in Bots /\ req[p].account \in Accounts
      /\ BotExists(req[p].bot) => bots[req[p].bot].account = req[p].account
      /\ Fits(req[p].pc, req[p].op, bots[req[p].bot].status)
  BY DEF SlotInv, Settled, Ownership, IdsDrawn, TypeOK, StoreTypeOK
<1>2. HoldsSlot(p) \/ IsLive(req[p].bot)
  BY <1>1 DEF Fits, HoldsSlot, IsLive
<1> QED  BY <1>1, <1>2 DEF SlotHolders, IsLive, BotExists

\* Only a bot whose id is drawn does.
LEMMA HoldersDrawn ==
    ASSUME SlotInv, NEW a
    PROVE  SlotHolders(a) \subseteq uuids
BY DEF SlotHolders, HoldsSlot, SlotInv, Ownership, IdsDrawn, IsLive, BotExists

\* When a request moves, its bot keeps its place or is the only one to lose it.
LEMMA OwnHolders ==
    ASSUME SlotInv, SlotInv', NEW p \in Handlers, InFlight(p), Own(p),
           NEW b, b = req[p].bot, NEW a, a = req[p].account
    PROVE  /\ \A x \in Accounts \ {a} : SlotHolders(x)' = SlotHolders(x)
           /\ InFlight(p)' \/ IsLive(b)' => SlotHolders(a)' = SlotHolders(a)
           /\ ~InFlight(p)' /\ ~IsLive(b)' => SlotHolders(a)' = SlotHolders(a) \ {b}
<1>1. /\ b \in Bots /\ a \in Accounts /\ b \in SlotHolders(a)
      /\ BotExists(b) => bots[b].account = a
  BY InFlightHolds DEF SlotInv, Settled
<1>2. \A x \in Accounts, y \in Bots \ {b} : y \in SlotHolders(x)' <=> y \in SlotHolders(x)
  <2>1. \A q \in Handlers : req[q].bot # b => req'[q] = req[q]
    BY DEF Own
  <2>2. \A q \in Handlers : req'[q].bot # b => req'[q] = req[q] \/ ~InFlight(q)'
    BY DEF Own
  <2> SUFFICES ASSUME NEW x \in Accounts, NEW y \in Bots \ {b}
               PROVE  y \in SlotHolders(x)' <=> y \in SlotHolders(x)
    OBVIOUS
  <2>3. bots'[y] = bots[y]
    BY DEF Own
  <2>4. \A q \in Handlers :
          /\ req[q].bot = y /\ HoldsSlot(q) => HoldsSlot(q)' /\ req'[q] = req[q]
          /\ req'[q].bot = y /\ HoldsSlot(q)' => HoldsSlot(q) /\ req'[q] = req[q]
    BY <2>1, <2>2 DEF HoldsSlot, InFlight
  <2> QED  BY <2>3, <2>4 DEF SlotHolders, IsLive
<1>3. \A q \in Handlers \ {p} :
        /\ InFlight(q) => req[q].bot # b
        /\ req'[q] = req[q]
  BY DEF SlotInv, Alone, Own
<1>4. \A q \in Handlers : HoldsSlot(q)' /\ req'[q].bot = b => q = p /\ InFlight(p)'
  BY <1>3 DEF HoldsSlot, InFlight
<1>5. \A q \in Handlers : HoldsSlot(q) /\ req[q].bot = b => q = p
  BY <1>3 DEF HoldsSlot
<1>6. /\ InFlight(p)' => req'[p].bot = b /\ req'[p].account = a
      /\ IsLive(b)' => bots'[b].account = a
      /\ IsLive(b) => bots[b].account = a
  BY <1>1 DEF Own, IsLive, BotExists
<1>7. \A x \in Accounts \ {a} : b \notin SlotHolders(x) /\ b \notin SlotHolders(x)'
  BY <1>4, <1>5, <1>6 DEF SlotHolders
<1>8. IsLive(b)' => b \in SlotHolders(a)'
  BY <1>1, <1>6 DEF SlotHolders
<1>9. InFlight(p)' => b \in SlotHolders(a)'
  <2>1. InFlight(p)' => HoldsSlot(p)' \/ IsLive(b)'
    BY DEF Own, Fits, HoldsSlot, IsLive
  <2> QED  BY <1>6, <1>8, <2>1 DEF SlotHolders
<1>10. ~InFlight(p)' /\ ~IsLive(b)' => b \notin SlotHolders(a)'
  BY <1>4 DEF SlotHolders
<1>11. \A x \in Accounts : SlotHolders(x) \subseteq Bots /\ SlotHolders(x)' \subseteq Bots
  BY DEF SlotHolders, SlotInv, Ownership, IdsDrawn, TypeOK, StoreTypeOK, HoldsSlot
<1> QED  BY <1>1, <1>2, <1>7, <1>8, <1>9, <1>10, <1>11

----------------------------------------------------------------------------
(* Provisioning implements BotQuota, and what keeps it from leaking places. *)

\* The counts and the sets BotQuota speaks of are numbers and finite sets.
LEMMA QuotaTypes ==
    ASSUME SlotInv
    PROVE  \A a \in Accounts :
             /\ accounts[a].current_count \in Nat /\ Limit(a) \in Nat
             /\ IsFiniteSet(SlotHolders(a)) /\ Cardinality(SlotHolders(a)) \in Nat
<1>1. TypeOK
  BY DEF SlotInv, Ownership
<1>2. \A a \in Accounts : IsFiniteSet(SlotHolders(a))
  BY <1>1, HoldersDrawn, FS_Subset, StoreAssumption DEF TypeOK, StoreTypeOK
<1> QED  BY <1>1, <1>2, FS_CardinalityType DEF TypeOK, StoreTypeOK, AccountRows, Limit, MaxBots, Tiers

\* No request is dropped, and no call that moves the counter has a failure that a retry
\* or a rollback does not mend.
NothingLeaks ==
    /\ Disciplined
    /\ ~Cancellation
    /\ {"increment", "delete_bot"} \cap LostReplies = {}
    /\ {"give_back", "decrement"} \cap Faults = {}

Exact == \A a \in Accounts : Cardinality(SlotHolders(a)) = accounts[a].current_count

\* What a step of the handlers is to the quota.
QuotaMove ==
    \/ UNCHANGED Quota!quotaVars
    \/ \E a \in Accounts :
         \/ Quota!ChangeLimit(a)
         \/ (Quota!Leak(a) /\ ~NothingLeaks)
         \/ \E b \in Bots : \/ Quota!Reserve(a, b)
                           \/ Quota!Release(a, b)
                           \/ (Quota!Forget(a, b) /\ ~(NothingLeaks /\ Exact))

\* A place is taken with the count: increment_bot_counter adds one under the limit.
LEMMA ReserveIsQuota ==
    ASSUME SlotInv, SlotInv', NEW p \in Handlers, NEW a \in Accounts, ReserveSlot(p, a)
    PROVE  QuotaMove
<1>1. PICK b : b = CHOOSE id \in Bots \ uuids : TRUE
  OBVIOUS
<1> DEFINE new == [Idle EXCEPT !.pc = "create_bot", !.op = "create", !.bot = b, !.account = a]
           refusal == [Idle EXCEPT !.pc = "failed", !.op = "create"]
<1>2. /\ b \in Bots \ uuids /\ TypeOK /\ bots' = bots /\ ~InFlight(p)
      /\ \A x : b \notin SlotHolders(x)
  BY <1>1, LabelTypes, HoldersDrawn
     DEF ReserveSlot, SlotInv, Ownership, TypeOK, StoreTypeOK, InFlight
<1>3. /\ new.pc = "create_bot" /\ new.op = "create" /\ new.bot = b /\ new.account = a
      /\ refusal.pc = "failed"
  BY DEF Idle
<1>4. ASSUME NEW r, Becomes(p, r)
      PROVE  req'[p] = r /\ \A q \in Handlers \ {p} : req'[q] = req[q]
  BY <1>2, <1>4 DEF Becomes, TypeOK
<1> HIDE DEF new, refusal
<1>5. ASSUME Becomes(p, refusal) PROVE \A x : SlotHolders(x)' = SlotHolders(x)
  <2>1. \A q \in Handlers : HoldsSlot(q)' <=> HoldsSlot(q)
    BY <1>2, <1>3, <1>4, <1>5, LabelTypes DEF HoldsSlot, InFlight
  <2> QED  BY <1>2, <1>4, <1>5, <2>1 DEF SlotHolders, IsLive, HoldsSlot
<1>6. ASSUME Becomes(p, new)
      PROVE  SlotHolders(a)' = SlotHolders(a) \cup {b} /\ \A x \in Accounts \ {a} :
                 SlotHolders(x)' = SlotHolders(x)
  <2>1. /\ HoldsSlot(p)' /\ req'[p].bot = b /\ req'[p].account = a
        /\ ~HoldsSlot(p)
        /\ \A q \in Handlers \ {p} : (HoldsSlot(q)' <=> HoldsSlot(q)) /\ req'[q] = req[q]
    BY <1>2, <1>3, <1>4, <1>6, LabelTypes DEF HoldsSlot, InFlight
  <2> QED  BY <1>2, <2>1 DEF SlotHolders, IsLive
<1>7. CASE accounts' = accounts /\ Becomes(p, refusal)
  BY <1>5, <1>7 DEF QuotaMove, Quota!quotaVars, Limit
<1>8. /\ \A x \in Accounts : Limit(x) \in Nat /\ accounts[x].current_count \in Nat
      /\ accounts' = Incremented(a) =>
           \/ accounts' = accounts
           \/ /\ UnderLimit(a)
              /\ \A x \in Accounts : Limit(x)' = Limit(x)
              /\ accounts'[a].current_count = accounts[a].current_count + 1
              /\ \A x \in Accounts \ {a} : accounts'[x].current_count = accounts[x].current_count
  BY <1>2 DEF Incremented, Limit, MaxBots, TypeOK, StoreTypeOK, AccountRows, Tiers
<1>9. CASE UnderLimit(a) /\ accounts' = Incremented(a) /\ Becomes(p, new)
  <2>1. accounts' # accounts
    BY <1>2, <1>9 DEF Incremented, TypeOK, StoreTypeOK, AccountRows
  <2>2. Quota!Reserve(a, b)
    BY <1>2, <1>6, <1>8, <1>9, <2>1 DEF Quota!Reserve, UnderLimit
  <2> QED  BY <1>2, <2>2 DEF QuotaMove
<1>10. CASE /\ accounts' = Incremented(a) /\ accounts' # accounts /\ Becomes(p, refusal)
            /\ "increment" \in LostReplies
  <2>1. Quota!Leak(a)
    BY <1>5, <1>8, <1>10 DEF Quota!Leak, UnderLimit
  <2> QED  BY <1>10, <2>1 DEF QuotaMove, NothingLeaks
<1> QED
  <2>1. PICK o \in Outcomes("increment") :
          LET refused == o = "refused" \/ accounts[a].tier = "none" \/ IncrementRaises
          IN  /\ accounts' = IF refused THEN accounts ELSE Incremented(a)
              /\ IF o = "done" /\ ~refused /\ UnderLimit(a) THEN Becomes(p, new)
                                                            ELSE Becomes(p, refusal)
    BY <1>1 DEF ReserveSlot, new, refusal
  <2>2. ~UnderLimit(a) => Incremented(a) = accounts
    BY DEF Incremented
  <2>3. o \in {"done", "refused"} \/ "increment" \in LostReplies
    BY DEF Outcomes
  <2> QED  BY <1>7, <1>9, <1>10, <2>1, <2>2, <2>3

\* The requests that give a place back.
LEMMA LastSteps ==
    ASSUME NEW p \in Handlers, Step(p) \/ Cancel(p), ~Cancellation,
           req[p].pc \in {"give_back", "decrement"}
    PROVE  RollbackCounter(p) \/ ReleaseSlot(p)
BY DEF Step, InsertBot, InsertConfig, SetDesired, SetProvisioning, SetToken, CreateDroplet,
       SetPending, SetError, InsertDroplet, AssignDroplet, LinkDroplet, CleanupDroplet, MarkFailed,
       RollbackBot, DestroyDroplet, MarkDestroyed, UnlinkDroplet, DeleteBot, RedeployDestroy,
       RedeployMark, GetLatest, Shutdown, SetPaused, GetDroplet, Reboot, SetOnline, Reply, Cancel

\* A request that moves keeps its place, gives it back with the count, or is dropped
\* with it.
LEMMA MoveIsQuota ==
    ASSUME OneAtATime, "decrement" \notin LostReplies, SlotInv, SlotInv',
           NEW p \in Handlers, InFlight(p), Step(p) \/ Cancel(p)
    PROVE  QuotaMove
<1>1. PICK b, a : b = req[p].bot /\ a = req[p].account
  OBVIOUS
<1>2. /\ TypeOK /\ b \in Bots /\ a \in Accounts /\ b \in SlotHolders(a)
      /\ Own(p)
      /\ Fits(req[p].pc, req[p].op, bots[b].status)
  BY <1>1, OwnSteps, InFlightHolds DEF OneAtATime, SlotInv, Ownership, Settled
<1>3. /\ \A x \in Accounts \ {a} : SlotHolders(x)' = SlotHolders(x)
      /\ \/ SlotHolders(a)' = SlotHolders(a)
         \/ SlotHolders(a)' = SlotHolders(a) \ {b}
      /\ ~InFlight(p)' /\ ~IsLive(b)' => SlotHolders(a)' = SlotHolders(a) \ {b}
  BY <1>1, <1>2, OwnHolders
<1>4. CASE accounts' = accounts
  <2>1. CASE SlotHolders(a)' = SlotHolders(a)
    BY <1>3, <1>4, <2>1 DEF QuotaMove, Quota!quotaVars, Limit
  <2>2. CASE SlotHolders(a)' = SlotHolders(a) \ {b}
    <3>1. Quota!Forget(a, b)
      BY <1>2, <1>3, <1>4, <2>2 DEF Quota!Forget, Limit
    <3>2. ASSUME NothingLeaks, Exact PROVE FALSE
      <4>1. ~InFlight(p)' /\ ~IsLive(b)'
        BY <1>1, <1>2, <2>2, OwnHolders
      <4>2. req[p].pc \in {"give_back", "decrement"}
        BY <1>1, <1>2, <3>2, <4>1 DEF Own, Ending, NothingLeaks, IsLive
      <4>3. RollbackCounter(p) \/ ReleaseSlot(p)
        BY <3>2, <4>2, LastSteps DEF NothingLeaks
      <4>4. accounts' = Decremented(a)
        BY <1>1, <3>2, <4>3
           DEF NothingLeaks, Disciplined, RollbackCounter, ReleaseSlot, Outcomes, After
      <4>5. accounts[a].current_count # 0
        BY <1>2, <3>2, QuotaTypes, FS_EmptySet DEF Exact
      <4>6. accounts'[a].current_count # accounts[a].current_count
        BY <1>2, <4>4, <4>5 DEF Decremented, TypeOK, StoreTypeOK, AccountRows
      <4> QED  BY <1>4, <4>6
    <3> QED  BY <1>2, <3>1, <3>2 DEF QuotaMove
  <2> QED  BY <1>3, <2>1, <2>2
<1>5. CASE accounts' # accounts
  <2>1. /\ RollbackCounter(p) \/ ReleaseSlot(p)
        /\ accounts' = Decremented(a)
    BY <1>1, <1>5, CounterSteps
  <2>2. ~IsLive(b) /\ bots' = bots
    BY <1>1, <1>2, <2>1 DEF RollbackCounter, ReleaseSlot, Fits, IsLive
  <2>3. PICK result \in {"ok", "failed"} : Becomes(p, Answered(req[p], result))
    BY <1>5, <2>1 DEF RollbackCounter, ReleaseSlot, Outcomes, After
  <2>4. ~InFlight(p)' /\ ~IsLive(b)'
    BY <1>2, <2>2, <2>3, LabelTypes DEF Becomes, Answered, Idle, InFlight, IsLive, TypeOK
  <2>5. /\ \A x \in Accounts : Limit(x)' = Limit(x)
        /\ accounts'[a].current_count
             = IF accounts[a].current_count > 0 THEN accounts[a].current_count - 1 ELSE 0
        /\ \A x \in Accounts \ {a} : accounts'[x].current_count = accounts[x].current_count
    BY <1>2, <2>1 DEF Decremented, Limit, TypeOK, StoreTypeOK, AccountRows
  <2>6. Quota!Release(a, b)
    BY <1>2, <1>3, <2>4, <2>5 DEF Quota!Release
  <2> QED  BY <1>2, <2>6 DEF QuotaMove
<1> QED  BY <1>4, <1>5

\* What leaves the rows alone, and only moves requests that have no place, is nothing to
\* the quota.
LEMMA StutterIsQuota ==
    ASSUME UNCHANGED <<bots, accounts>>, \A q \in Handlers : HoldsSlot(q)' <=> HoldsSlot(q),
           \A q \in Handlers : HoldsSlot(q) => req'[q] = req[q]
    PROVE  UNCHANGED Quota!quotaVars
<1>1. \A x : SlotHolders(x)' = SlotHolders(x)
  BY DEF SlotHolders, IsLive
<1> QED  BY <1>1 DEF Quota!quotaVars, Limit

\* Every step is a step of the quota or nothing to it.
LEMMA QuotaStep ==
    ASSUME OneAtATime, "decrement" \notin LostReplies, SlotInv, SlotInv', [Next]_vars
    PROVE  QuotaMove
<1>0. TypeOK
  BY DEF SlotInv, Ownership
<1>1. CASE UNCHANGED <<accounts, bots, req>>
  BY <1>1, StutterIsQuota DEF QuotaMove, HoldsSlot, InFlight
<1>2. ASSUME NEW a \in Accounts, NEW tier \in TierChoices,
             CreateAccount(a, tier) \/ UpdateSubscription(a, tier)
      PROVE  QuotaMove
  <2>1. \A x : SlotHolders(x)' = SlotHolders(x)
    BY <1>2 DEF CreateAccount, UpdateSubscription, SlotHolders, HoldsSlot, InFlight, IsLive
  <2>2. \A x \in Accounts : accounts'[x].current_count = accounts[x].current_count
    BY <1>0, <1>2 DEF CreateAccount, UpdateSubscription, SlotInv, AccountsKnown, TypeOK, StoreTypeOK,
                      AccountRows
  <2>3. /\ \A x \in Accounts \ {a} : Limit(x)' = Limit(x)
        /\ Limit(a)' \in Nat
    BY <1>0, <1>2, ProvisioningAssumption
       DEF CreateAccount, UpdateSubscription, Limit, MaxBots, TypeOK, StoreTypeOK, AccountRows
  <2>4. Quota!ChangeLimit(a)
    BY <2>1, <2>2, <2>3 DEF Quota!ChangeLimit
  <2> QED  BY <2>4 DEF QuotaMove
<1>3. ASSUME NEW p \in Handlers, ~InFlight(p), Step(p) \/ Cancel(p)
      PROVE  UNCHANGED Quota!quotaVars
  <2>1. Reply(p)
    BY <1>3, IdleSteps
  <2>2. /\ UNCHANGED <<accounts, bots>>
        /\ req'[p].pc = "idle" /\ \A q \in Handlers \ {p} : req'[q] = req[q]
    BY <1>0, <2>1 DEF Reply, Becomes, Idle, tables, TypeOK
  <2> QED  BY <1>3, <2>2, LabelTypes, StutterIsQuota DEF HoldsSlot, InFlight
<1>4. ASSUME NEW p \in Handlers, NEW op \in Operations \ {"create"}, NEW b \in Bots,
             NEW found \in FirstLabels, Begin(p, op, b, found)
      PROVE  UNCHANGED Quota!quotaVars
  <2>1. PICK r : Becomes(p, r) /\ r.op # "create" /\ r.pc \notin {"delete_bot", "decrement"}
    <3>1. /\ Answered(Reading(op, b), "failed").op = op
          /\ Answered(Reading(op, b), "failed").pc = "failed"
          /\ At(Reading(op, b), found).op = op /\ At(Reading(op, b), found).pc = found
      BY DEF Answered, At, Reading, Idle
    <3> QED  BY <1>4, <3>1 DEF Begin, FirstLabels
  <2>2. /\ UNCHANGED <<accounts, bots>>
        /\ req'[p] = r /\ \A q \in Handlers \ {p} : req'[q] = req[q]
        /\ ~HoldsSlot(p)
    BY <1>0, <1>4, <2>1, LabelTypes DEF Begin, Becomes, tables, TypeOK, HoldsSlot, InFlight
  <2> QED  BY <2>1, <2>2, StutterIsQuota DEF HoldsSlot, InFlight
<1>5. ASSUME NEW p \in Handlers, NEW b \in Bots, BeginDestroy(p, b) \/ BeginPause(p, b)
                                                   \/ BeginResume(p, b) \/ BeginRedeploy(p, b)
      PROVE  UNCHANGED Quota!quotaVars
  BY <1>4, <1>5
     DEF BeginDestroy, BeginPause, BeginResume, BeginRedeploy, Operations, FirstLabels
<1> QED
  BY <1>1, <1>2, <1>3, <1>5, MoveIsQuota, ReserveIsQuota
     DEF Next, Start, vars, tables, Boot, PowerOff, QuotaMove

----------------------------------------------------------------------------
(* The theorems.                                                            *)

\* The invariant holds in every reachable state of a service whose clients send one
\* request at a time on a bot.
THEOREM SlotsHold == ASSUME OneAtATime PROVE Spec => []SlotInv
<1>1. SlotInv /\ [Next]_vars => SlotInv'
  BY SlotNext
<1> QED  BY <1>1, SlotInit, PTL DEF Spec

\* The handlers of provisioning.rs treat the counter as BotQuota says: they take a place
\* only with the count and under the limit, and give it back at most once.
THEOREM ImplementsQuotaHolds == ASSUME Disciplined PROVE Spec => ImplementsQuota
<1>1. OneAtATime /\ "decrement" \notin LostReplies
  BY DEF Disciplined, OneAtATime
<1>2. Init => Quota!QuotaInit
  <2> SUFFICES ASSUME Init PROVE Quota!QuotaInit
    OBVIOUS
  <2>1. /\ \A b \in Bots : ~IsLive(b)
        /\ \A p \in Handlers : ~HoldsSlot(p)
        /\ \A a \in Accounts : accounts[a].current_count = 0 /\ Limit(a) \in Nat
    BY LabelTypes DEF Init, StoreInit, IsLive, NoBotRow, HoldsSlot, InFlight, Idle, Limit, MaxBots
  <2>2. \A a : SlotHolders(a) = {}
    BY <2>1 DEF SlotHolders
  <2> QED  BY <2>1, <2>2 DEF Quota!QuotaInit
<1>3. SlotInv /\ SlotInv' /\ [Next]_vars => [Quota!QuotaNext]_Quota!quotaVars
  BY <1>1, QuotaStep DEF QuotaMove, Quota!QuotaNext
<1>4. Spec => []SlotInv
  BY <1>1, SlotsHold
<1> QED  BY <1>2, <1>3, <1>4, PTL DEF Spec, ImplementsQuota, Quota!QuotaSpec

Decrement(n) == IF n > 0 THEN n - 1 ELSE 0

\* How a step of the quota changes one account.
LEMMA QuotaSteps ==
    ASSUME QuotaMove, NEW a \in Accounts, accounts[a].current_count \in Nat
    PROVE  \/ /\ SlotHolders(a)' = SlotHolders(a)
              /\ \/ accounts'[a].current_count = accounts[a].current_count
                 \/ /\ accounts'[a].current_count = accounts[a].current_count + 1
                    /\ ~NothingLeaks
           \/ \E b \in Bots :
                /\ accounts[a].current_count < Limit(a)
                /\ b \notin SlotHolders(a)
                /\ accounts'[a].current_count = accounts[a].current_count + 1
                /\ SlotHolders(a)' = SlotHolders(a) \cup {b}
           \/ \E b \in Bots :
                /\ b \in SlotHolders(a)
                /\ SlotHolders(a)' = SlotHolders(a) \ {b}
                /\ \/ accounts'[a].current_count = Decrement(accounts[a].current_count)
                   \/ /\ accounts'[a].current_count = accounts[a].current_count
                      /\ ~(NothingLeaks /\ Exact)
<1> DEFINE P == /\ SlotHolders(a)' = SlotHolders(a)
                /\ \/ accounts'[a].current_count = accounts[a].current_count
                   \/ /\ accounts'[a].current_count = accounts[a].current_count + 1
                      /\ ~NothingLeaks
<1>1. CASE UNCHANGED Quota!quotaVars
  BY <1>1 DEF Quota!quotaVars
<1>2. ASSUME NEW x \in Accounts, (Quota!Leak(x) /\ ~NothingLeaks) \/ Quota!ChangeLimit(x)
      PROVE  P
  BY <1>2 DEF Quota!Leak, Quota!ChangeLimit
<1>3. ASSUME NEW x \in Accounts, NEW b \in Bots,
             Quota!Reserve(x, b) \/ Quota!Release(x, b) \/ Quota!Forget(x, b), x # a
      PROVE  P
  BY <1>3 DEF Quota!Reserve, Quota!Release, Quota!Forget
<1>4. ASSUME NEW b \in Bots,
             \/ Quota!Reserve(a, b)
             \/ Quota!Release(a, b)
             \/ (Quota!Forget(a, b) /\ ~(NothingLeaks /\ Exact))
      PROVE  \/ /\ accounts[a].current_count < Limit(a)
                /\ b \notin SlotHolders(a)
                /\ accounts'[a].current_count = accounts[a].current_count + 1
                /\ SlotHolders(a)' = SlotHolders(a) \cup {b}
             \/ /\ b \in SlotHolders(a)
                /\ SlotHolders(a)' = SlotHolders(a) \ {b}
                /\ \/ accounts'[a].current_count = Decrement(accounts[a].current_count)
                   \/ /\ accounts'[a].current_count = accounts[a].current_count
                      /\ ~(NothingLeaks /\ Exact)
  BY <1>4 DEF Quota!Reserve, Quota!Release, Quota!Forget, Decrement
<1> QED  BY <1>1, <1>2, <1>3, <1>4 DEF QuotaMove

\* A step keeps the counter above the bots, and only lets them grow within the limit.
LEMMA QuotaKeepsCovered ==
    ASSUME SlotInv, SlotInv', CounterCoversBots, QuotaMove, NEW a \in Accounts
    PROVE  /\ Cardinality(SlotHolders(a)') <= accounts'[a].current_count
           /\ Cardinality(SlotHolders(a)') > Cardinality(SlotHolders(a))
                => Cardinality(SlotHolders(a)') <= Limit(a)
<1> DEFINE held == SlotHolders(a)
           n == accounts[a].current_count
<1>1. /\ n \in Nat /\ Limit(a) \in Nat /\ IsFiniteSet(held) /\ Cardinality(held) \in Nat
      /\ Cardinality(held) <= n
  BY QuotaTypes DEF CounterCoversBots
<1>2. ASSUME NEW b, b \notin held, held' = held \cup {b}
      PROVE  Cardinality(held') = Cardinality(held) + 1
  BY <1>1, <1>2, FS_AddElement
<1>3. ASSUME NEW b, b \in held, held' = held \ {b}
      PROVE  Cardinality(held') = Cardinality(held) - 1
  BY <1>1, <1>3, FS_RemoveElement
<1> QED  BY <1>1, <1>2, <1>3, QuotaSteps DEF Decrement

\* Where nothing leaks, it keeps the counter equal to them.
LEMMA QuotaKeepsExact ==
    ASSUME NothingLeaks, SlotInv, SlotInv', Exact, QuotaMove, NEW a \in Accounts
    PROVE  Cardinality(SlotHolders(a)') = accounts'[a].current_count
<1> DEFINE held == SlotHolders(a)
           n == accounts[a].current_count
<1>1. n \in Nat /\ IsFiniteSet(held) /\ Cardinality(held) = n
  BY QuotaTypes DEF Exact
<1>2. ASSUME NEW b, b \notin held, held' = held \cup {b}
      PROVE  Cardinality(held') = Cardinality(held) + 1
  BY <1>1, <1>2, FS_AddElement
<1>3. ASSUME NEW b, b \in held, held' = held \ {b}
      PROVE  Cardinality(held') = Cardinality(held) - 1 /\ n # 0
  BY <1>1, <1>3, FS_RemoveElement, FS_EmptySet
<1> QED  BY <1>1, <1>2, <1>3, QuotaSteps DEF Decrement

\* The counter is never below the bots the account has or is creating.
THEOREM CounterCoversBotsHolds == ASSUME Disciplined PROVE Spec => []CounterCoversBots
<1>1. OneAtATime /\ "decrement" \notin LostReplies
  BY DEF Disciplined, OneAtATime
<1>2. Init => CounterCoversBots
  <2>1. ASSUME Init, NEW a \in Accounts PROVE SlotHolders(a) = {} /\ accounts[a].current_count = 0
    BY <2>1, LabelTypes
       DEF Init, StoreInit, SlotHolders, IsLive, NoBotRow, HoldsSlot, InFlight, Idle
  <2> QED  BY <2>1, FS_EmptySet DEF CounterCoversBots
<1>3. SlotInv /\ SlotInv' /\ CounterCoversBots /\ [Next]_vars => CounterCoversBots'
  BY <1>1, QuotaStep, QuotaKeepsCovered DEF CounterCoversBots
<1>4. Spec => []SlotInv
  BY <1>1, SlotsHold
<1> QED  BY <1>2, <1>3, <1>4, PTL DEF Spec

\* No step gives an account more bots than the limit in force allows.
THEOREM GrowthWithinLimitHolds == ASSUME Disciplined PROVE Spec => GrowthWithinLimit
<1> DEFINE Within == \A a \in Accounts :
              Cardinality(SlotHolders(a)') > Cardinality(SlotHolders(a))
                => Cardinality(SlotHolders(a)') <= Limit(a)
<1>1. OneAtATime /\ "decrement" \notin LostReplies
  BY DEF Disciplined, OneAtATime
<1>2. SlotInv /\ SlotInv' /\ CounterCoversBots /\ [Next]_vars => [Within]_vars
  BY <1>1, QuotaStep, QuotaKeepsCovered
<1>3. Spec => []SlotInv
  BY <1>1, SlotsHold
<1>4. Spec => []CounterCoversBots
  BY CounterCoversBotsHolds
<1> QED  BY <1>2, <1>3, <1>4, PTL DEF Spec, GrowthWithinLimit

\* Where no failure can leak a place, the counter is exact whenever nothing is in flight.
THEOREM CounterIsExactHolds == ASSUME NothingLeaks PROVE Spec => []CounterIsExact
<1>1. OneAtATime /\ "decrement" \notin LostReplies
  BY DEF NothingLeaks, Disciplined, OneAtATime
<1>2. Init => Exact
  <2>1. ASSUME Init, NEW a \in Accounts PROVE SlotHolders(a) = {} /\ accounts[a].current_count = 0
    BY <2>1, LabelTypes
       DEF Init, StoreInit, SlotHolders, IsLive, NoBotRow, HoldsSlot, InFlight, Idle
  <2> QED  BY <2>1, FS_EmptySet DEF Exact
<1>3. SlotInv /\ SlotInv' /\ Exact /\ [Next]_vars => Exact'
  BY <1>1, QuotaStep, QuotaKeepsExact DEF Exact
<1>4. Exact => CounterIsExact
  <2>1. ASSUME \A p \in Handlers : ~InFlight(p), NEW a
        PROVE  SlotHolders(a) = {b \in Bots : IsLive(b) /\ bots[b].account = a}
    BY <2>1 DEF SlotHolders, HoldsSlot
  <2> QED  BY <2>1 DEF Exact, CounterIsExact
<1>5. Spec => []SlotInv
  BY <1>1, SlotsHold
<1> QED  BY <1>2, <1>3, <1>4, <1>5, PTL DEF Spec
=============================================================================
