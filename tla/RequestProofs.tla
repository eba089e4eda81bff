---------------------------- MODULE RequestProofs ----------------------------
(***************************************************************************)
(* What a request leaves behind, proved for any number of handlers, bots   *)
(* and droplets: failed creations are undone, destroyed bots leave no      *)
(* droplet, no droplet is left running unknown, the running droplet of a   *)
(* bot has the token of its row, and the status shown of a bot is true of  *)
(* its droplet.  Each theorem names what it needs of the clients and of    *)
(* the calls that fail.                                                    *)
(***************************************************************************)
EXTENDS QuotaProofs

----------------------------------------------------------------------------
(* A bot, its droplets and the request on it.                               *)

\* No droplet is created or given up without a request that knows of it.
Attended ==
    /\ OneAtATime
    /\ ~Cancellation
    /\ "cleanup_droplet" \notin Faults
    /\ "create_droplet" \notin LostReplies

Up(c, d) == d \in Droplets /\ c[d].power \notin {"none", "gone"}

\* Labels at which the request's droplet is the one its bot's row names.
HeldLabels == {"destroy_droplet", "mark_destroyed", "redeploy_destroy", "redeploy_mark", "get_latest",
               "shutdown", "set_paused", "get_droplet", "reboot", "set_online"}

\* Labels at which neither the request nor the row has a droplet that is up.
DownLabels == {"mark_destroyed", "unlink_droplet", "delete_bot", "decrement",
               "redeploy_mark", "get_latest",
               "create_bot", "create_config", "set_desired", "set_provisioning", "set_token",
               "create_droplet", "set_pending", "set_error"}
                \cup (IF "cleanup_droplet" \in Faults THEN {}
                                                      ELSE {"mark_failed", "hard_delete", "give_back"})

NewLabels == {"insert_droplet", "assign_droplet", "link_droplet"}

\* Where request r stands with its bot's row and DigitalOcean.
Placed(r, row, c) ==
    /\ r.pc \in HeldLabels => row.droplet = r.droplet
    /\ r.pc \in DownLabels => ~Up(c, r.droplet) /\ ~Up(c, row.droplet)
    /\ r.pc \in {"delete_bot", "decrement"} => row.droplet = NoDroplet
    /\ r.pc = "create_droplet" => r.token = row.token
    /\ r.pc \in NewLabels => /\ Up(c, r.droplet) /\ ~Up(c, row.droplet)
                             /\ c[r.droplet].token = row.token
    /\ r.pc = "cleanup_droplet" => row.droplet = r.droplet \/ ~Up(c, row.droplet)

\* A row that is gone or marked has no droplet, and a droplet that is up the row's token.
RowTrue(row, c) ==
    /\ row.status \in {"absent", "destroyed"} => row.droplet = NoDroplet
    /\ Up(c, row.droplet) => c[row.droplet].token = row.token

\* Every droplet of bot b that is up is known to its row or to the request on it.
Known(b, r, row, c) ==
    Attended => \A d \in Droplets : Up(c, d) /\ c[d].bot = b =>
                    row.droplet = d \/ (r.pc \in Working /\ r.droplet = d)

\* How bot b, its row and the request r on it (Idle without one) fit together.
Sound(b, r, row, c) ==
    RowTrue(row, c) /\ Known(b, r, row, c) /\ (r.pc \in Working => Placed(r, row, c))

AllSound ==
    \A b \in Bots :
        /\ \A p \in Handlers : InFlight(p) /\ req[p].bot = b => Sound(b, req[p], bots[b], cloud)
        /\ Quiet(b) => Sound(b, Idle, bots[b], cloud)

\* Every droplet was created for a bot.
DropletsHaveBots == \A d \in Droplets : IsUp(d) => cloud[d].bot \in Bots

\* A destroy request is at a label of destroy_bot, and only succeeds when the row is
\* marked.
DestroysMark ==
    \A p \in Handlers : req[p].op = "destroy" =>
        /\ InFlight(p) => req[p].pc \in DestroyLabels
        /\ \A b \in Bots : req[p].pc = "ok" /\ req[p].bot = b => bots[b].status = "destroyed"

Linked == SlotInv /\ AllSound /\ DropletsHaveBots /\ DestroysMark

----------------------------------------------------------------------------
(* The creation of a bot.                                                   *)

\* A creation is at a label of create_bot, each on a bot of its own.
Creations ==
    /\ \A p \in Handlers : InFlight(p) =>
         /\ req[p].pc \in CreateLabels \cup RollbackLabels => req[p].op = "create"
         /\ req[p].op = "create" => req[p].pc \in CreateLabels \cup RollbackLabels \cup SpawnLabels
    /\ \A p \in Handlers : req[p].op = "create" => req[p].bot \in uuids \cup {NoBot}
    /\ \A p, q \in Handlers :
         req[p].op = "create" /\ req[q].op = "create" /\ req[p].bot = req[q].bot /\ req[p].bot # NoBot
           => p = q

\* Nothing is left when the row is gone, and if the rollback's DELETE is never refused,
\* the row is gone when a creation failed.
Undone ==
    /\ \A b \in Bots : configs[b] # {} => BotExists(b)
    /\ "hard_delete" \notin Faults => \A p \in Handlers : \A b \in Bots :
         req[p].op = "create" /\ req[p].pc \in {"give_back", "failed"} /\ req[p].bot = b
           => ~BotExists(b)

\* A bot without a config to run is then still being created.
Told ==
    ~Cancellation /\ "hard_delete" \notin Faults =>
    \A b \in Bots : BotExists(b) /\ bots[b].desired = 0 =>
        \E p \in Handlers : /\ req[p].op = "create" /\ req[p].bot = b
                            /\ req[p].pc \in {"create_config", "set_desired", "hard_delete"}

CreationInv == Ownership /\ Creations /\ Undone /\ Told

\* Most steps insert and delete no row, and store and set no version.  Request p may
\* become r in such a step.
MildTo(p, r) ==
    /\ r.op = "create" => req[p].op = "create" /\ r.bot = req[p].bot
    /\ r.pc \in Working =>
         /\ r.pc \in CreateLabels \cup RollbackLabels => r.op = "create"
         /\ r.op = "create" => r.pc \in CreateLabels \cup RollbackLabels \cup SpawnLabels
    /\ r.op = "create" /\ r.pc \in {"give_back", "failed"} => req[p].pc = "give_back"
    /\ req[p].op = "create" /\ req[p].pc \in {"create_config", "set_desired", "hard_delete"}
         => Cancellation

Mild(p) ==
    /\ UNCHANGED <<configs, uuids>>
    /\ \A b \in Bots : (BotExists(b)' <=> BotExists(b)) /\ bots'[b].desired = bots[b].desired
    /\ \A q \in Handlers \ {p} : req'[q] = req[q]
    /\ MildTo(p, req'[p])

\* A mild step keeps the invariant.
LEMMA MildKeepsCreation ==
    ASSUME CreationInv, Ownership', NEW p \in Handlers, Mild(p)
    PROVE  CreationInv'
<1>1. Creations'
  BY DEF CreationInv, Creations, Mild, MildTo, InFlight
<1>2. Undone'
  BY DEF CreationInv, Undone, Mild, MildTo
<1>3. Told'
  <2> SUFFICES ASSUME ~Cancellation, "hard_delete" \notin Faults,
                      NEW b \in Bots, BotExists(b)', bots'[b].desired = 0
               PROVE  \E q \in Handlers :
                        /\ req'[q].op = "create" /\ req'[q].bot = b
                        /\ req'[q].pc \in {"create_config", "set_desired", "hard_delete"}
    BY DEF Told
  <2>1. PICK q \in Handlers : /\ req[q].op = "create" /\ req[q].bot = b
                              /\ req[q].pc \in {"create_config", "set_desired", "hard_delete"}
    BY DEF CreationInv, Told, Mild
  <2>2. q # p
    BY <2>1 DEF Mild, MildTo
  <2> QED  BY <2>1, <2>2 DEF Mild
<1> QED  BY <1>1, <1>2, <1>3 DEF CreationInv

\* Where requests may go in a mild step.
LEMMA MildGoing ==
    ASSUME TypeOK, Creations, NEW p \in Handlers, InFlight(p),
           req[p].pc \in {"create_config", "set_desired", "hard_delete"} => Cancellation
    PROVE  /\ \A label \in Working :
                 /\ label \in CreateLabels \cup RollbackLabels => req[p].op = "create"
                 /\ req[p].op = "create" =>
                      label \in (CreateLabels \cup RollbackLabels \cup SpawnLabels) \ {"give_back"}
                 => MildTo(p, At(req[p], label))
           /\ \A result \in {"ok", "dropped"} : MildTo(p, Answered(req[p], result))
           /\ req[p].op # "create" \/ req[p].pc = "give_back"
                => MildTo(p, Answered(req[p], "failed"))
           /\ MildTo(p, Failed(req[p]))
           /\ \A giveUp : MildTo(p, giveUp) => MildTo(p, Retried(req[p], giveUp))
<1>1. \A label \in Working :
        /\ label \in CreateLabels \cup RollbackLabels => req[p].op = "create"
        /\ req[p].op = "create" =>
             label \in (CreateLabels \cup RollbackLabels \cup SpawnLabels) \ {"give_back"}
        => MildTo(p, At(req[p], label))
  BY LabelTypes DEF MildTo, At, TypeOK, Requests
<1>2. /\ \A result \in {"ok", "dropped"} : MildTo(p, Answered(req[p], result))
      /\ req[p].op # "create" \/ req[p].pc = "give_back" => MildTo(p, Answered(req[p], "failed"))
  BY LabelTypes DEF MildTo, Answered, Idle, Working
<1>3. MildTo(p, Failed(req[p]))
  BY <1>1, <1>2, LabelTypes DEF Failed, RollbackLabels
<1>4. \A giveUp : MildTo(p, giveUp) => MildTo(p, Retried(req[p], giveUp))
  BY LabelTypes DEF MildTo, Retried, TypeOK, Requests, Creations, InFlight
<1> QED  BY <1>1, <1>2, <1>3, <1>4

\* A step that writes no bot and no config is mild when its request goes where it may.
LEMMA MoveIsMild ==
    ASSUME TypeOK, NEW p \in Handlers, UNCHANGED <<bots, configs, uuids>>,
           NEW r, Becomes(p, r), MildTo(p, r)
    PROVE  Mild(p)
BY DEF Mild, Becomes, BotExists, TypeOK

\* So is an update of the row that keeps it and the version it is told to run.
LEMMA UpdateIsMild ==
    ASSUME TypeOK, NEW p \in Handlers, NEW row, NEW next, NEW error,
           UpdateBot(p, WithBot(req[p].bot, row), next, error), MildTo(p, next), MildTo(p, error),
           BotExists(req[p].bot) => row.status # "absent" /\ row.desired = bots[req[p].bot].desired
    PROVE  Mild(p)
<1>1. PICK b : b = req[p].bot
  OBVIOUS
<1>2. /\ bots' = bots \/ (BotExists(b) /\ bots' = [bots EXCEPT ![b] = row])
      /\ Becomes(p, next) \/ Becomes(p, error)
      /\ UNCHANGED <<configs, uuids>>
  BY <1>1 DEF UpdateBot, After, WithBot
<1>3. \A x \in Bots : (BotExists(x)' <=> BotExists(x)) /\ bots'[x].desired = bots[x].desired
  BY <1>1, <1>2 DEF BotExists, TypeOK, StoreTypeOK
<1> QED  BY <1>2, <1>3 DEF Mild, Becomes, TypeOK

MildStep(p) ==
    \/ SetProvisioning(p) \/ SetToken(p) \/ CreateDroplet(p) \/ SetPending(p) \/ SetError(p)
    \/ InsertDroplet(p) \/ AssignDroplet(p) \/ LinkDroplet(p)
    \/ CleanupDroplet(p) \/ MarkFailed(p) \/ RollbackCounter(p)
    \/ DestroyDroplet(p) \/ MarkDestroyed(p) \/ UnlinkDroplet(p) \/ DeleteBot(p) \/ ReleaseSlot(p)
    \/ RedeployDestroy(p) \/ RedeployMark(p) \/ GetLatest(p)
    \/ Shutdown(p) \/ SetPaused(p) \/ GetDroplet(p) \/ Reboot(p) \/ SetOnline(p)

\* Every action of MildStep is mild.
LEMMA MildSteps ==
    ASSUME CreationInv, NEW p \in Handlers, MildStep(p)
    PROVE  Mild(p)
<1> DEFINE op == req[p].op
<1>1. TypeOK /\ Creations
  BY DEF CreationInv, Ownership
<1>2. /\ InFlight(p)
      /\ req[p].pc \notin {"create_bot", "create_config", "set_desired", "hard_delete"}
  BY LabelTypes
     DEF MildStep, SetProvisioning, SetToken, CreateDroplet, SetPending, SetError, InsertDroplet,
         AssignDroplet, LinkDroplet, CleanupDroplet, MarkFailed, RollbackCounter, DestroyDroplet,
         MarkDestroyed, UnlinkDroplet, DeleteBot, ReleaseSlot, RedeployDestroy, RedeployMark,
         GetLatest, Shutdown, SetPaused, GetDroplet, Reboot, SetOnline, InFlight
<1>3. /\ req[p].bot \in Bots /\ bots[req[p].bot] \in BotRows
      /\ req[p].pc \in RollbackLabels => op = "create"
      /\ op = "create" => req[p].pc \in RollbackLabels \cup SpawnLabels
  BY <1>1, <1>2 DEF CreationInv, Ownership, IdsDrawn, TypeOK, StoreTypeOK, Creations, CreateLabels
<1>4. /\ \A label \in Working \ (CreateLabels \cup RollbackLabels) :
            (op = "create" => label \in SpawnLabels) => MildTo(p, At(req[p], label))
      /\ \A result \in {"ok", "dropped"} : MildTo(p, Answered(req[p], result))
      /\ op # "create" \/ req[p].pc = "give_back" => MildTo(p, Answered(req[p], "failed"))
      /\ MildTo(p, Failed(req[p]))
      /\ \A giveUp : MildTo(p, giveUp) => MildTo(p, Retried(req[p], giveUp))
  BY <1>1, <1>2, MildGoing, LabelTypes DEF RollbackLabels
<1>5. ASSUME NEW row, NEW next, NEW error, UpdateBot(p, WithBot(req[p].bot, row), next, error),
             row.status \in {bots[req[p].bot].status} \cup BotStatus,
             row.desired = bots[req[p].bot].desired, MildTo(p, next), MildTo(p, error)
      PROVE  Mild(p)
  BY <1>1, <1>5, UpdateIsMild DEF BotExists, BotStatus
<1>6. ASSUME NEW s \in BotStatus, NEW next, NEW error,
             UpdateBot(p, WithStatus(req[p].bot, s), next, error), MildTo(p, next), MildTo(p, error)
      PROVE  Mild(p)
  <2> DEFINE row == [bots[req[p].bot] EXCEPT !.status = s]
  <2>1. row.status = s /\ row.desired = bots[req[p].bot].desired
    BY <1>3 DEF BotRows
  <2> HIDE DEF row
  <2> QED  BY <1>5, <1>6, <2>1 DEF WithStatus, row
<1>7. ASSUME UNCHANGED <<bots, configs, uuids>>, NEW r, Becomes(p, r), MildTo(p, r)
      PROVE  Mild(p)
  BY <1>1, <1>7, MoveIsMild
<1> HIDE DEF op
<1> USE LabelTypes DEF CreateLabels, RollbackLabels, SpawnLabels
<1>8. ASSUME SetProvisioning(p) \/ SetPending(p) \/ SetError(p) \/ MarkFailed(p) PROVE Mild(p)
  BY <1>4, <1>6, <1>8 DEF SetProvisioning, SetPending, SetError, MarkFailed, BotStatus
<1>9. ASSUME SetPaused(p) \/ SetOnline(p) \/ DeleteBot(p) PROVE Mild(p)
  BY <1>3, <1>4, <1>6, <1>9 DEF SetPaused, SetOnline, DeleteBot, Deleted, BotStatus
<1>10. ASSUME SetToken(p) PROVE Mild(p)
  <2> DEFINE t == CHOOSE token \in FreshTokens : TRUE
             row == [bots[req[p].bot] EXCEPT !.token = t]
             next == [At(req[p], "create_droplet") EXCEPT !.token = t]
  <2>1. row.status = bots[req[p].bot].status /\ row.desired = bots[req[p].bot].desired
    BY <1>3 DEF BotRows
  <2>2. MildTo(p, next)
    BY <1>1, <1>2, <1>3 DEF MildTo, At, TypeOK, Requests
  <2> HIDE DEF row, next
  <2> QED  BY <1>4, <1>5, <1>10, <2>1, <2>2 DEF SetToken, WithToken, row, next
<1>11. ASSUME LinkDroplet(p) PROVE Mild(p)
  <2> DEFINE row == [bots[req[p].bot] EXCEPT !.droplet = req[p].droplet]
  <2>1. row.status = bots[req[p].bot].status /\ row.desired = bots[req[p].bot].desired
    BY <1>3 DEF BotRows
  <2> HIDE DEF row
  <2> QED  BY <1>4, <1>5, <1>11, <2>1 DEF LinkDroplet, WithDroplet, row
<1>12. ASSUME UnlinkDroplet(p) PROVE Mild(p)
  <2> DEFINE row == [bots[req[p].bot] EXCEPT !.droplet = NoDroplet]
  <2>1. row.status = bots[req[p].bot].status /\ row.desired = bots[req[p].bot].desired
    BY <1>3 DEF BotRows
  <2> HIDE DEF row
  <2> QED  BY <1>3, <1>4, <1>5, <1>12, <2>1 DEF UnlinkDroplet, WithDroplet, row
<1>13. ASSUME CreateDroplet(p) PROVE Mild(p)
  <2>1. /\ MildTo(p, [At(req[p], "insert_droplet") EXCEPT !.droplet = NewDroplet, !.token = 0])
        /\ \A label \in {"set_pending", "set_error"} :
             MildTo(p, [At(req[p], label) EXCEPT !.token = 0])
        /\ MildTo(p, [req[p] EXCEPT !.tries = @ + 1])
    BY <1>1, <1>2, <1>3, <1>13 DEF CreateDroplet, MildTo, At, TypeOK, Requests
  <2> QED  BY <1>7, <1>13, <2>1 DEF CreateDroplet, tables
<1>14. ASSUME GetLatest(p) PROVE Mild(p)
  <2>1. MildTo(p, [At(req[p], "set_provisioning") EXCEPT !.droplet = NoDroplet])
    BY <1>1, <1>2, <1>3, <1>14 DEF GetLatest, MildTo, At, TypeOK, Requests
  <2> QED  BY <1>3, <1>4, <1>7, <1>14, <2>1 DEF GetLatest, tables
<1>15. ASSUME InsertDroplet(p) \/ AssignDroplet(p) \/ CleanupDroplet(p) \/ RollbackCounter(p)
       PROVE  Mild(p)
  BY <1>4, <1>7, <1>15 DEF InsertDroplet, AssignDroplet, CleanupDroplet, RollbackCounter, tables
<1>16. ASSUME DestroyDroplet(p) \/ RedeployDestroy(p) \/ MarkDestroyed(p) \/ RedeployMark(p)
       PROVE  Mild(p)
  BY <1>3, <1>4, <1>7, <1>16
     DEF DestroyDroplet, RedeployDestroy, DestroyCall, MarkDestroyed, RedeployMark, MarkCall, tables
<1>17. ASSUME ReleaseSlot(p) \/ Shutdown(p) \/ GetDroplet(p) \/ Reboot(p) PROVE Mild(p)
  BY <1>3, <1>4, <1>7, <1>17 DEF ReleaseSlot, Shutdown, GetDroplet, Reboot, tables
<1> QED
  BY <1>8, <1>9, <1>10, <1>11, <1>12, <1>13, <1>14, <1>15, <1>16, <1>17 DEF MildStep

\* A new creation is the only one on its bot.
LEMMA ReserveKeepsCreation ==
    ASSUME CreationInv, Ownership', NEW p \in Handlers, NEW a \in Accounts, ReserveSlot(p, a)
    PROVE  CreationInv'
<1>1. PICK b : b = CHOOSE id \in Bots \ uuids : TRUE
  OBVIOUS
<1>2. /\ b \in Bots \ uuids /\ b # NoBot /\ UNCHANGED <<bots, configs>> /\ TypeOK
      /\ req[p].pc = "idle"
  BY <1>1, StoreAssumption DEF ReserveSlot, CreationInv, Ownership, TypeOK, StoreTypeOK
<1>3. PICK r : /\ Becomes(p, r)
               /\ r.op = "create"
               /\ \/ r.pc = "create_bot" /\ r.bot = b /\ uuids' = uuids \cup {b}
                  \/ r.pc = "failed" /\ r.bot = NoBot /\ uuids' = uuids
  <2>1. LET new == [Idle EXCEPT !.pc = "create_bot", !.op = "create", !.bot = b, !.account = a]
        IN  new.pc = "create_bot" /\ new.op = "create" /\ new.bot = b
    BY DEF Idle
  <2>2. LET none == [Idle EXCEPT !.pc = "failed", !.op = "create"]
        IN  none.pc = "failed" /\ none.op = "create" /\ none.bot = NoBot
    BY DEF Idle
  <2> QED  BY <1>1, <2>1, <2>2 DEF ReserveSlot
<1>4. req'[p] = r /\ \A q \in Handlers \ {p} : req'[q] = req[q]
  BY <1>2, <1>3 DEF Becomes, TypeOK
<1>5. Creations'
  BY <1>2, <1>3, <1>4, LabelTypes DEF CreationInv, Creations, CreateLabels, RollbackLabels, InFlight
<1>6. Undone'
  BY <1>2, <1>3, <1>4, StoreAssumption DEF CreationInv, Undone, BotExists
<1>7. Told'
  BY <1>2, <1>4 DEF CreationInv, Told, BotExists
<1> QED  BY <1>5, <1>6, <1>7 DEF CreationInv

\* The steps of a creation that write its row or its config.
LEMMA CreateStepKeepsCreation ==
    ASSUME CreationInv, Ownership', NEW p \in Handlers,
           InsertBot(p) \/ InsertConfig(p) \/ SetDesired(p) \/ RollbackBot(p)
    PROVE  CreationInv'
<1>1. PICK b : b = req[p].bot
  OBVIOUS
<1>2. /\ TypeOK /\ InFlight(p) /\ b \in Bots /\ b # NoBot /\ uuids' = uuids
      /\ req[p].op = "create" /\ req[p].pc \notin {"idle", "ok", "failed", "dropped", "give_back"}
      /\ \A q \in Handlers \ {p} : req[q].op = "create" => req[q].bot # b
  <2>1. /\ req[p].pc \in {"create_bot", "create_config", "set_desired", "hard_delete"}
        /\ InFlight(p) /\ uuids' = uuids
    BY LabelTypes DEF InsertBot, InsertConfig, SetDesired, RollbackBot, UpdateBot, InFlight
  <2>2. TypeOK /\ b \in Bots
    BY <1>1, <2>1 DEF CreationInv, Ownership, IdsDrawn, TypeOK, StoreTypeOK
  <2>3. req[p].op = "create"
    BY <2>1 DEF CreationInv, Creations, CreateLabels, RollbackLabels
  <2> QED  BY <1>1, <2>1, <2>2, <2>3, StoreAssumption DEF CreationInv, Creations
<1>3. ASSUME NEW label, Becomes(p, At(req[p], label))
      PROVE  /\ req'[p].pc = label /\ req'[p].op = "create" /\ req'[p].bot = b
             /\ \A q \in Handlers \ {p} : req'[q] = req[q]
  BY <1>1, <1>2, <1>3 DEF Becomes, At, TypeOK, Requests
<1>4. \A x \in Bots \ {b} : bots'[x] = bots[x] /\ configs'[x] = configs[x]
  BY <1>1, <1>2
     DEF InsertBot, InsertConfig, SetDesired, RollbackBot, UpdateBot, After, WithConfigVersion,
         WithBot, Inserted, HardDeleted, ConfigsWith, ConfigsWithout, TypeOK, StoreTypeOK
<1>5. PICK label \in {"create_config", "set_desired", "set_provisioning", "hard_delete", "give_back"} :
        /\ Becomes(p, At(req[p], label))
        /\ label = "set_provisioning" => bots'[b].desired = 1
        /\ label = "give_back" /\ "hard_delete" \notin Faults => bots'[b].status = "absent"
        /\ configs'[b] # {} => bots'[b].status # "absent"
  <2>1. Failed(req[p]) = At(req[p], "hard_delete")
    BY <1>2 DEF Failed
  <2>2. configs[b] # {} => bots[b].status # "absent"
    BY <1>2 DEF CreationInv, Undone, BotExists
  <2>3. CASE InsertBot(p)
    <3>1. UNCHANGED configs /\ ~BotExists(b)
      BY <1>1, <2>3 DEF InsertBot, CreationInv, Ownership, InsertedOnce
    <3>2. \E label \in {"create_config", "hard_delete"} : Becomes(p, At(req[p], label))
      BY <2>1, <2>3 DEF InsertBot
    <3> QED  BY <2>2, <3>1, <3>2 DEF BotExists
  <2>4. CASE InsertConfig(p)
    <3>1. /\ UNCHANGED bots
          /\ configs' = configs \/ bots[b].status # "absent"
      BY <1>1, <2>4 DEF InsertConfig, After, ConfigsWith, ConfigInsertable, BotExists
    <3>2. \E label \in {"set_desired", "hard_delete"} : Becomes(p, At(req[p], label))
      BY <2>1, <2>4 DEF InsertConfig
    <3> QED  BY <2>2, <3>1, <3>2
  <2>5. CASE SetDesired(p)
    <3> DEFINE row == [bots[b] EXCEPT !.desired = 1, !.applied = 0]
    <3>1. row.desired = 1 /\ row.status = bots[b].status
      BY <1>2 DEF TypeOK, StoreTypeOK, BotRows
    <3> HIDE DEF row
    <3>2. PICK o \in Outcomes("set_desired") :
            /\ bots' = After(o, WithBot(b, row), bots)
            /\ Becomes(p, IF o = "done" /\ BotExists(b)
                          THEN At(req[p], "set_provisioning") ELSE At(req[p], "hard_delete"))
            /\ UNCHANGED configs
      BY <1>1, <2>1, <2>5 DEF SetDesired, UpdateBot, WithConfigVersion, row
    <3>3. bots'[b].status = bots[b].status
      BY <1>2, <3>1, <3>2 DEF After, WithBot, TypeOK, StoreTypeOK
    <3>4. o = "done" /\ BotExists(b) => bots'[b].desired = 1
      BY <1>2, <3>1, <3>2 DEF After, WithBot, TypeOK, StoreTypeOK
    <3> QED  BY <2>2, <3>2, <3>3, <3>4
  <2>6. CASE RollbackBot(p)
    <3>1. /\ \/ bots' = HardDeleted(b) /\ configs' = ConfigsWithout(b)
             \/ UNCHANGED <<bots, configs>> /\ "hard_delete" \in Faults
          /\ Becomes(p, At(req[p], "give_back"))
      BY <1>1, <2>6 DEF RollbackBot, Outcomes, After
    <3>2. bots' = HardDeleted(b) => bots'[b].status = "absent"
      BY <1>2 DEF HardDeleted, NoBotRow, TypeOK, StoreTypeOK
    <3>3. configs' = ConfigsWithout(b) => configs'[b] = {}
      BY <1>2 DEF ConfigsWithout, TypeOK, StoreTypeOK
    <3> QED  BY <2>2, <3>1, <3>2, <3>3
  <2> QED  BY <2>3, <2>4, <2>5, <2>6
<1>6. /\ req'[p].pc = label /\ req'[p].op = "create" /\ req'[p].bot = b
      /\ \A q \in Handlers \ {p} : req'[q] = req[q]
  BY <1>3, <1>5
<1>7. Creations'
  <2>1. req'[p].pc \in CreateLabels \cup RollbackLabels \cup SpawnLabels
    BY <1>5, <1>6 DEF CreateLabels, RollbackLabels, SpawnLabels
  <2>2. b \in uuids
    BY <1>1, <1>2 DEF CreationInv, Ownership, IdsDrawn
  <2> QED  BY <1>2, <1>6, <2>1, <2>2 DEF CreationInv, Creations, InFlight
<1>8. Undone'
  <2>1. \A x \in Bots : configs'[x] # {} => BotExists(x)'
    BY <1>4, <1>5 DEF CreationInv, Undone, BotExists
  <2>2. ASSUME "hard_delete" \notin Faults, NEW q \in Handlers, NEW x \in Bots,
               req'[q].op = "create", req'[q].pc \in {"give_back", "failed"}, req'[q].bot = x
        PROVE  ~BotExists(x)'
    BY <1>2, <1>4, <1>5, <1>6, <2>2 DEF CreationInv, Undone, BotExists
  <2> QED  BY <2>1, <2>2 DEF Undone
<1>9. Told'
  <2> SUFFICES ASSUME ~Cancellation, "hard_delete" \notin Faults,
                      NEW x \in Bots, BotExists(x)', bots'[x].desired = 0
               PROVE  \E q \in Handlers :
                        /\ req'[q].op = "create" /\ req'[q].bot = x
                        /\ req'[q].pc \in {"create_config", "set_desired", "hard_delete"}
    BY DEF Told
  <2>1. CASE x = b
    BY <1>5, <1>6, <2>1 DEF BotExists
  <2>2. CASE x # b
    <3>1. PICK q \in Handlers : /\ req[q].op = "create" /\ req[q].bot = x
                                /\ req[q].pc \in {"create_config", "set_desired", "hard_delete"}
      BY <1>4, <2>2 DEF CreationInv, Told, BotExists
    <3> QED  BY <1>1, <1>6, <2>2, <3>1
  <2> QED  BY <2>1, <2>2
<1> QED  BY <1>7, <1>8, <1>9 DEF CreationInv

\* A creation starts without rows and configs.
LEMMA CreationInit == Init => CreationInv
<1> SUFFICES ASSUME Init PROVE CreationInv
  OBVIOUS
<1>1. /\ \A b \in Bots : ~BotExists(b) /\ configs[b] = {}
      /\ \A p \in Handlers : req[p].pc = "idle" /\ req[p].op = "none"
  BY DEF Init, StoreInit, BotExists, NoBotRow, Idle
<1> QED  BY <1>1, OwnershipInit, LabelTypes DEF CreationInv, Creations, Undone, Told, InFlight

\* Every step of the service keeps the invariant.
LEMMA CreationNext == CreationInv /\ [Next]_vars => CreationInv'
<1> SUFFICES ASSUME CreationInv, [Next]_vars PROVE CreationInv'
  OBVIOUS
<1>0. Ownership' /\ TypeOK
  BY OwnershipNext DEF CreationInv, Ownership
<1>1. CASE UNCHANGED <<bots, configs, uuids, req>>
  BY <1>0, <1>1 DEF CreationInv, Creations, Undone, Told, InFlight, BotExists
<1>2. ASSUME NEW p \in Handlers, Start(p) PROVE CreationInv'
  <2>1. CASE \E a \in Accounts : ReserveSlot(p, a)
    BY <1>0, <2>1, ReserveKeepsCreation
  <2>2. ASSUME NEW op \in Operations \ {"create"}, NEW b \in Bots,
               NEW found \in FirstLabels, Begin(p, op, b, found)
        PROVE  CreationInv'
    <3>1. /\ MildTo(p, Answered(Reading(op, b), "failed"))
          /\ MildTo(p, At(Reading(op, b), found))
      BY <2>2, LabelTypes
         DEF Begin, MildTo, Answered, At, Reading, Idle, FirstLabels, CreateLabels, RollbackLabels
    <3>2. UNCHANGED <<bots, configs, uuids>> /\ \E r : Becomes(p, r) /\ MildTo(p, r)
      BY <2>2, <3>1 DEF Begin, tables
    <3> QED  BY <1>0, <3>2, MoveIsMild, MildKeepsCreation
  <2>3. ASSUME NEW b \in Bots, BeginDestroy(p, b) \/ BeginPause(p, b)
                                 \/ BeginResume(p, b) \/ BeginRedeploy(p, b)
        PROVE  CreationInv'
    BY <2>2, <2>3
       DEF BeginDestroy, BeginPause, BeginResume, BeginRedeploy, Operations, FirstLabels
  <2> QED  BY <1>2, <2>1, <2>3 DEF Start
<1>3. ASSUME NEW p \in Handlers, Step(p) \/ Cancel(p) PROVE CreationInv'
  <2>1. CASE Reply(p)
    <3>1. MildTo(p, Idle)
      BY <2>1, LabelTypes DEF Reply, MildTo, Idle
    <3> QED  BY <1>0, <2>1, <3>1, MoveIsMild, MildKeepsCreation DEF Reply, tables
  <2>2. CASE Cancel(p)
    <3>1. MildTo(p, Answered(req[p], "dropped"))
      BY <1>0, <2>2, MildGoing DEF Cancel, CreationInv
    <3> QED  BY <1>0, <2>2, <3>1, MoveIsMild, MildKeepsCreation DEF Cancel, tables
  <2>3. CASE MildStep(p)
    BY <1>0, <2>3, MildSteps, MildKeepsCreation
  <2>4. CASE InsertBot(p) \/ InsertConfig(p) \/ SetDesired(p) \/ RollbackBot(p)
    BY <1>0, <2>4, CreateStepKeepsCreation
  <2> QED  BY <1>3, <2>1, <2>2, <2>3, <2>4 DEF Step, MildStep
<1> QED
  BY <1>1, <1>2, <1>3
     DEF Next, vars, tables, CreateAccount, UpdateSubscription, Boot, PowerOff

\* As long as the rollback's DELETE finds the database up, a create request that failed
\* leaves no bot behind and no config, whatever else fails, whichever requests overlap
\* and wherever one is dropped.
THEOREM FailedCreateLeavesNothingHolds ==
    ASSUME "hard_delete" \notin Faults
    PROVE  Spec => []FailedCreateLeavesNothing
<1>1. CreationInv => FailedCreateLeavesNothing
  BY DEF CreationInv, Undone, FailedCreateLeavesNothing
<1> QED  BY <1>1, CreationInit, CreationNext, PTL DEF Spec

\* With requests that are not dropped on the way, moreover, every bot that nobody works
\* on has a stored config and was told to run one.
THEOREM QuietBotsHaveConfigHolds ==
    ASSUME "hard_delete" \notin Faults, ~Cancellation
    PROVE  Spec => []QuietBotsHaveConfig
<1>1. CreationInv => QuietBotsHaveConfig
  <2> SUFFICES ASSUME CreationInv, NEW b \in Bots, BotExists(b), Quiet(b)
               PROVE  configs[b] # {} /\ bots[b].desired # 0
    BY DEF QuietBotsHaveConfig
  <2>1. bots[b].desired # 0
    BY LabelTypes DEF CreationInv, Told, Quiet, InFlight
  <2> QED  BY <2>1 DEF CreationInv, Ownership, DesiredConfigExists
<1> QED  BY <1>1, CreationInit, CreationNext, PTL DEF Spec

----------------------------------------------------------------------------
(* The droplets of a bot: what the steps of a request leave to the others.  *)

\* A step of request p only touches droplets of its bot, and the ones it creates.
CloudFrame(p) ==
    \A d \in Droplets :
        cloud'[d] = cloud[d]
          \/ (cloud'[d].bot = req[p].bot /\ (cloud[d].power = "none" \/ cloud[d].bot = req[p].bot))

\* What holds of another bot is not disturbed by it.
LEMMA OthersStaySound ==
    ASSUME Linked, NEW p \in Handlers, CloudFrame(p),
           NEW b \in Bots \ {req[p].bot}, bots'[b] = bots[b],
           NEW r, r.pc \in Working => \E q \in Handlers : InFlight(q) /\ req[q].bot = b /\ r = req[q],
           Sound(b, r, bots[b], cloud)
    PROVE  Sound(b, r, bots'[b], cloud')
<1>1. ASSUME NEW d \in Droplets, cloud[d].power # "none", cloud[d].bot = b
      PROVE  cloud'[d] = cloud[d]
  BY <1>1 DEF CloudFrame
<1>2. bots[b].droplet \in Droplets => cloud'[bots[b].droplet] = cloud[bots[b].droplet]
  BY <1>1 DEF Linked, SlotInv, Ownership, DropletsKnown
<1>3. r.pc \in Working /\ r.droplet \in Droplets => cloud'[r.droplet] = cloud[r.droplet]
  BY <1>1 DEF Linked, SlotInv, Ownership, DropletsKnown
<1>4. RowTrue(bots'[b], cloud')
  BY <1>2 DEF Sound, RowTrue, Up
<1>5. Known(b, r, bots'[b], cloud')
  BY <1>1 DEF Sound, Known, Up, CloudFrame
<1>6. r.pc \in Working => Placed(r, bots'[b], cloud')
  BY <1>2, <1>3 DEF Sound, Placed, Up
<1> QED  BY <1>4, <1>5, <1>6 DEF Sound

\* A step of a request on bot b keeps the invariant when b, its row and the request
\* still fit together.
LEMMA OwnKeepsLinked ==
    ASSUME Linked, SlotInv', DestroysMark', NEW p \in Handlers, InFlight(p), Own(p), CloudFrame(p),
           Sound(req[p].bot, req'[p], bots'[req[p].bot], cloud')
    PROVE  Linked'
<1>1. PICK b \in Bots : req[p].bot = b
  BY DEF Linked, SlotInv, Ownership, IdsDrawn, TypeOK, StoreTypeOK
<1>2. DropletsHaveBots'
  BY <1>1 DEF Linked, DropletsHaveBots, CloudFrame, IsUp
<1>3. /\ \A q \in Handlers \ {p} : req'[q] = req[q] /\ (InFlight(q) => req[q].bot # b)
      /\ InFlight(p)' => req'[p].bot = b
  BY <1>1 DEF Own, Linked, SlotInv, Alone
<1>4. ASSUME NEW x \in Bots, NEW q \in Handlers, InFlight(q)', req'[q].bot = x
      PROVE  Sound(x, req'[q], bots'[x], cloud')
  <2>1. CASE x = b
    BY <1>1, <1>3, <1>4, <2>1 DEF InFlight
  <2>2. CASE x # b
    <3>1. q # p /\ InFlight(q) /\ req'[q] = req[q] /\ bots'[x] = bots[x]
      BY <1>1, <1>3, <1>4, <2>2 DEF InFlight, Own
    <3>2. Sound(x, req[q], bots[x], cloud)
      BY <1>4, <3>1 DEF Linked, AllSound
    <3> QED  BY <1>1, <1>4, <2>2, <3>1, <3>2, OthersStaySound
  <2> QED  BY <2>1, <2>2
<1>5. ASSUME NEW x \in Bots, Quiet(x)' PROVE Sound(x, Idle, bots'[x], cloud')
  <2>0. Idle.pc \notin Working
    BY LabelTypes DEF Idle
  <2>1. CASE x = b
    <3>1. ~InFlight(p)'
      BY <1>3, <1>5, <2>1 DEF Quiet
    <3> QED  BY <1>1, <2>0, <2>1, <3>1 DEF Sound, Known, InFlight
  <2>2. CASE x # b
    <3>1. Quiet(x) /\ bots'[x] = bots[x]
      BY <1>1, <1>3, <1>5, <2>2 DEF Quiet, InFlight, Own
    <3>2. Sound(x, Idle, bots[x], cloud)
      BY <3>1 DEF Linked, AllSound
    <3> QED  BY <1>1, <2>0, <2>2, <3>1, <3>2, OthersStaySound
  <2> QED  BY <2>1, <2>2
<1>6. AllSound'
  BY <1>4, <1>5 DEF AllSound
<1> QED  BY <1>2, <1>6 DEF Linked

\* What a droplet does by itself, or a power action does to it, changes nothing here.
CloudAlike ==
    \A d \in Droplets : /\ cloud'[d].bot = cloud[d].bot /\ cloud'[d].token = cloud[d].token
                        /\ Up(cloud', d) <=> Up(cloud, d)

\* It all fits together as before.
LEMMA AlikeIsSound ==
    ASSUME CloudAlike, NEW b, NEW r, NEW row, Sound(b, r, row, cloud)
    PROVE  Sound(b, r, row, cloud')
<1>1. \A d : Up(cloud', d) <=> Up(cloud, d)
  BY DEF CloudAlike, Up
<1>2. \A d : Up(cloud, d) => d \in Droplets
  BY DEF Up
<1> QED  BY <1>1, <1>2 DEF CloudAlike, Sound, RowTrue, Known, Placed

\* Request r of a row and a droplet may become next, if it leaves these as they are: its
\* new label asks no more of them, or it ends with the row naming its droplet.
May(r, next, row, c) ==
    \/ next.pc \in Working /\ next.droplet = r.droplet /\ Placed(next, row, c)
    \/ next.pc \notin Working /\ (Attended /\ Up(c, r.droplet) => row.droplet = r.droplet)

\* The rest of the row may change.
LEMMA MovedIsSound ==
    ASSUME NEW b, NEW r, NEW row, NEW c, Sound(b, r, row, c), r.pc \in Working,
           NEW next, May(r, next, row, c),
           NEW new, new.droplet = row.droplet, new.token = row.token,
           new.status \in {"absent", "destroyed"} => new.droplet = NoDroplet
    PROVE  Sound(b, next, new, c)
<1>1. RowTrue(new, c)
  BY DEF Sound, RowTrue
<1>2. Known(b, next, new, c)
  BY DEF Sound, Known, May
<1>3. next.pc \in Working => Placed(next, new, c)
  BY DEF May, Placed
<1> QED  BY <1>1, <1>2, <1>3 DEF Sound

\* Where a request may go.
LEMMA Moving ==
    ASSUME NEW r \in Requests, r.pc \in Working, NEW row, NEW c, Placed(r, row, c)
    PROVE  /\ \A label : /\ At(r, label).pc = label /\ At(r, label).droplet = r.droplet
                         /\ At(r, label).token = r.token
           /\ r.pc \in HeldLabels \cup DownLabels \/ ~Attended =>
                \A result \in {"ok", "failed", "dropped"} : May(r, Answered(r, result), row, c)
           /\ r.pc \in DownLabels \/ "cleanup_droplet" \in Faults => May(r, Failed(r), row, c)
           /\ \A giveUp : May(r, giveUp, row, c) => May(r, Retried(r, giveUp), row, c)
<1>1. \A label : /\ At(r, label).pc = label /\ At(r, label).droplet = r.droplet
                /\ At(r, label).token = r.token
  BY DEF At, Requests
<1>2. ASSUME NEW result \in {"ok", "failed", "dropped"},
             r.pc \in HeldLabels \cup DownLabels \/ ~Attended
      PROVE  May(r, Answered(r, result), row, c)
  <2>1. Answered(r, result).pc \notin Working
    BY LabelTypes DEF Answered, Idle
  <2>2. Attended /\ Up(c, r.droplet) => row.droplet = r.droplet
    BY <1>2 DEF Placed
  <2> QED  BY <2>1, <2>2 DEF May
<1>3. r.pc \in DownLabels \/ "cleanup_droplet" \in Faults => May(r, Failed(r), row, c)
  <2> SUFFICES ASSUME r.pc \in DownLabels \/ "cleanup_droplet" \in Faults
               PROVE  May(r, Failed(r), row, c)
    OBVIOUS
  <2>1. Placed(At(r, "hard_delete"), row, c)
    BY <1>1 DEF Placed, HeldLabels, DownLabels, NewLabels
  <2>2. May(r, At(r, "hard_delete"), row, c)
    BY <1>1, <2>1, LabelTypes DEF May
  <2> QED  BY <1>2, <2>2 DEF Failed, Attended
<1>4. \A giveUp : May(r, giveUp, row, c) => May(r, Retried(r, giveUp), row, c)
  <2> DEFINE again == [r EXCEPT !.tries = @ + 1]
  <2>1. again.pc = r.pc /\ again.droplet = r.droplet /\ again.token = r.token
    BY DEF Requests
  <2> HIDE DEF again
  <2>2. Placed(again, row, c)
    BY <2>1 DEF Placed
  <2>3. May(r, again, row, c)
    BY <2>1, <2>2 DEF May
  <2> QED  BY <2>3 DEF Retried, again
<1> QED  BY <1>1, <1>2, <1>3, <1>4

----------------------------------------------------------------------------
(* A destroy request.                                                       *)

\* A request stays with its operation and its bot to its answer.
LEMMA SameOperation ==
    ASSUME TypeOK, NEW p \in Handlers, InFlight(p), Step(p) \/ Cancel(p)
    PROVE  /\ req'[p].op = req[p].op /\ req'[p].bot = req[p].bot
           /\ \A q \in Handlers \ {p} : req'[q] = req[q]
<1> DEFINE Same(r) == r.op = req[p].op /\ r.bot = req[p].bot
           Goal == \E r : Becomes(p, r) /\ Same(r)
<1>0. req[p] \in Requests
  BY DEF TypeOK
<1>1. /\ \A label : Same(At(req[p], label))
      /\ \A result : Same(Answered(req[p], result))
      /\ Same(Failed(req[p]))
      /\ \A giveUp : Same(giveUp) => Same(Retried(req[p], giveUp))
  BY <1>0 DEF At, Answered, Idle, Failed, Retried, Requests
<1>2. /\ \A label : \A t : Same([At(req[p], label) EXCEPT !.token = t])
      /\ \A label : \A d : Same([At(req[p], label) EXCEPT !.droplet = d])
      /\ \A label : \A d : Same([At(req[p], label) EXCEPT !.droplet = d, !.token = 0])
      /\ Same([req[p] EXCEPT !.tries = @ + 1])
  BY <1>0 DEF At, Requests
<1> HIDE DEF Same
<1>3. ASSUME NEW new, NEW next, NEW error, UpdateBot(p, new, next, error), Same(next), Same(error)
      PROVE  Goal
  BY <1>3 DEF UpdateBot
<1>4. ASSUME InsertBot(p) \/ InsertConfig(p) \/ RollbackBot(p) \/ RollbackCounter(p) \/ Cancel(p)
      PROVE  Goal
  BY <1>1, <1>4 DEF InsertBot, InsertConfig, RollbackBot, RollbackCounter, Cancel
<1>5. ASSUME SetDesired(p) \/ SetProvisioning(p) \/ SetPending(p) \/ SetError(p) \/ MarkFailed(p)
      PROVE  Goal
  BY <1>1, <1>3, <1>5 DEF SetDesired, SetProvisioning, SetPending, SetError, MarkFailed
<1>6. ASSUME SetToken(p) \/ LinkDroplet(p) \/ UnlinkDroplet(p) \/ DeleteBot(p)
             \/ SetPaused(p) \/ SetOnline(p)
      PROVE  Goal
  BY <1>1, <1>2, <1>3, <1>6
     DEF SetToken, LinkDroplet, UnlinkDroplet, DeleteBot, SetPaused, SetOnline
<1>7. ASSUME CreateDroplet(p) \/ GetLatest(p) PROVE Goal
  BY <1>1, <1>2, <1>7 DEF CreateDroplet, GetLatest
<1>8. ASSUME InsertDroplet(p) \/ AssignDroplet(p) \/ CleanupDroplet(p) \/ Shutdown(p)
             \/ GetDroplet(p) \/ Reboot(p) \/ ReleaseSlot(p)
      PROVE  Goal
  BY <1>1, <1>8
     DEF InsertDroplet, AssignDroplet, CleanupDroplet, Shutdown, GetDroplet, Reboot, ReleaseSlot
<1>9. ASSUME DestroyDroplet(p) \/ RedeployDestroy(p) \/ MarkDestroyed(p) \/ RedeployMark(p)
      PROVE  Goal
  BY <1>1, <1>9
     DEF DestroyDroplet, RedeployDestroy, DestroyCall, MarkDestroyed, RedeployMark, MarkCall
<1>10. Goal
  BY <1>4, <1>5, <1>6, <1>7, <1>8, <1>9, LabelTypes DEF Step, Reply, InFlight
<1> QED  BY <1>10 DEF Same, Becomes, TypeOK

\* A bot marked destroyed stays so.
LEMMA DestroyedStays ==
    ASSUME SlotInv, NEW p \in Handlers, InFlight(p), Step(p) \/ Cancel(p), Own(p),
           NEW b \in Bots, bots[b].status = "destroyed"
    PROVE  bots'[b].status = "destroyed"
<1>1. CASE b # req[p].bot
  BY <1>1 DEF Own
<1>2. CASE b = req[p].bot
  <2>1. req[p].pc \in {"delete_bot", "decrement"}
    BY <1>2 DEF SlotInv, Settled, Fits
  <2>2. DeleteBot(p) \/ UNCHANGED bots
    BY <2>1
       DEF Step, InsertBot, InsertConfig, SetDesired, SetProvisioning, SetToken, CreateDroplet,
           SetPending, SetError, InsertDroplet, AssignDroplet, LinkDroplet, CleanupDroplet,
           MarkFailed, RollbackBot, RollbackCounter, DestroyDroplet, MarkDestroyed, UnlinkDroplet,
           ReleaseSlot, RedeployDestroy, RedeployMark, GetLatest, Shutdown, SetPaused, GetDroplet,
           Reboot, SetOnline, Reply, Cancel, tables
  <2>3. DeleteBot(p) => \/ bots' = bots
                        \/ bots' = [bots EXCEPT ![b] = [bots[b] EXCEPT !.status = "destroyed"]]
    BY <1>2 DEF DeleteBot, UpdateBot, Deleted, WithStatus, WithBot, After
  <2>4. [bots[b] EXCEPT !.status = "destroyed"].status = "destroyed"
    BY DEF SlotInv, Ownership, TypeOK, StoreTypeOK, BotRows
  <2> QED  BY <2>2, <2>3, <2>4 DEF SlotInv, Ownership, TypeOK, StoreTypeOK
<1> QED  BY <1>1, <1>2

\* A destroy request follows the labels of destroy_bot, and ends well from the last only.
LEMMA OwnDestroysMark ==
    ASSUME SlotInv, DestroysMark, NEW p \in Handlers, InFlight(p), Step(p) \/ Cancel(p), Own(p)
    PROVE  DestroysMark'
<1>1. PICK b \in Bots : req[p].bot = b
  BY DEF SlotInv, Ownership, IdsDrawn, TypeOK, StoreTypeOK
<1>2. TypeOK /\ Fits(req[p].pc, req[p].op, bots[b].status)
  BY <1>1 DEF SlotInv, Settled, Ownership
<1>3. /\ req'[p].op = req[p].op /\ req'[p].bot = b
      /\ \A q \in Handlers \ {p} : req'[q] = req[q]
  BY <1>1, <1>2, SameOperation
<1>4. ASSUME req[p].op = "destroy"
      PROVE  /\ InFlight(p)' => req'[p].pc \in DestroyLabels
             /\ req'[p].pc = "ok" => req[p].pc = "decrement"
  <2>1. req[p].pc \in DestroyLabels
    BY <1>4 DEF DestroysMark
  <2>2. PICK r : /\ Becomes(p, r)
                 /\ r.pc \in DestroyLabels \cup {"ok", "failed", "dropped"}
                 /\ r.pc = "ok" => req[p].pc = "decrement"
    <3>1. /\ \A label : At(req[p], label).pc = label
          /\ \A result : Answered(req[p], result).pc = result
          /\ \A giveUp : Retried(req[p], giveUp).pc \in {req[p].pc, giveUp.pc}
      BY <1>2 DEF At, Answered, Idle, Retried, TypeOK, Requests
    <3>2. \/ DestroyDroplet(p) \/ MarkDestroyed(p) \/ UnlinkDroplet(p) \/ DeleteBot(p)
          \/ ReleaseSlot(p) \/ Cancel(p)
      BY <2>1
         DEF DestroyLabels, Step, InsertBot, InsertConfig, SetDesired, SetProvisioning, SetToken,
             CreateDroplet, SetPending, SetError, InsertDroplet, AssignDroplet, LinkDroplet,
             CleanupDroplet, MarkFailed, RollbackBot, RollbackCounter, RedeployDestroy, RedeployMark,
             GetLatest, Shutdown, SetPaused, GetDroplet, Reboot, SetOnline, Reply
    <3> USE <3>1 DEF DestroyLabels
    <3>3. CASE DestroyDroplet(p)
      BY <3>3 DEF DestroyDroplet, DestroyCall
    <3>4. CASE MarkDestroyed(p)
      BY <3>4 DEF MarkDestroyed, MarkCall
    <3>5. CASE UnlinkDroplet(p)
      BY <3>5 DEF UnlinkDroplet, UpdateBot
    <3>6. CASE DeleteBot(p)
      BY <3>6 DEF DeleteBot, UpdateBot
    <3>7. CASE ReleaseSlot(p)
      BY <3>7 DEF ReleaseSlot
    <3>8. CASE Cancel(p)
      BY <3>8 DEF Cancel
    <3> QED  BY <3>2, <3>3, <3>4, <3>5, <3>6, <3>7, <3>8
  <2>3. req'[p] = r
    BY <1>2, <2>2 DEF Becomes, TypeOK
  <2> QED  BY <2>2, <2>3, LabelTypes DEF InFlight
<1>5. req[p].pc = "decrement" => bots'[b].status = "destroyed"
  BY <1>2, DestroyedStays DEF Fits
<1>6. ASSUME NEW q \in Handlers \ {p}, NEW x \in Bots,
             req[q].op = "destroy", req[q].pc = "ok", req[q].bot = x
      PROVE  bots'[x].status = "destroyed"
  BY <1>6, DestroyedStays DEF DestroysMark
<1> QED  BY <1>3, <1>4, <1>5, <1>6 DEF DestroysMark, InFlight

----------------------------------------------------------------------------
(* The steps of a request, one by one.                                      *)

\* What each of them has to show.
KeptSound(p) == CloudFrame(p) /\ Sound(req[p].bot, req'[p], bots'[req[p].bot], cloud')

\* What is known of the request that takes the step.
LEMMA Standing ==
    ASSUME Linked, NEW p \in Handlers, InFlight(p)
    PROVE  /\ req[p].bot \in Bots /\ req[p] \in Requests /\ bots[req[p].bot] \in BotRows
           /\ Sound(req[p].bot, req[p], bots[req[p].bot], cloud)
           /\ RowTrue(bots[req[p].bot], cloud)
           /\ Placed(req[p], bots[req[p].bot], cloud)
           /\ Fits(req[p].pc, req[p].op, bots[req[p].bot].status)
           /\ req[p].droplet \in Droplets =>
                cloud[req[p].droplet].power # "none" /\ cloud[req[p].droplet].bot = req[p].bot
           /\ bots[req[p].bot].droplet \in Droplets =>
                cloud[bots[req[p].bot].droplet].power # "none"
<1>1. req[p].bot \in Bots /\ req[p] \in Requests /\ bots[req[p].bot] \in BotRows
  BY DEF Linked, SlotInv, Ownership, IdsDrawn, TypeOK, StoreTypeOK
<1>2. Sound(req[p].bot, req[p], bots[req[p].bot], cloud)
  BY <1>1 DEF Linked, AllSound
<1>3. Fits(req[p].pc, req[p].op, bots[req[p].bot].status)
  BY DEF Linked, SlotInv, Settled
<1> QED  BY <1>1, <1>2, <1>3 DEF Sound, InFlight, Linked, SlotInv, Ownership, DropletsKnown

\* A step that only moves the request.
LEMMA MoveIsSound ==
    ASSUME Linked, NEW p \in Handlers, InFlight(p), UNCHANGED <<bots, cloud>>,
           NEW r, Becomes(p, r), May(req[p], r, bots[req[p].bot], cloud)
    PROVE  KeptSound(p)
<1>1. req'[p] = r
  BY DEF Becomes, Linked, SlotInv, Ownership, TypeOK
<1>2. Sound(req[p].bot, r, bots[req[p].bot], cloud)
  BY Standing, MovedIsSound DEF RowTrue, InFlight
<1> QED  BY <1>1, <1>2 DEF KeptSound, CloudFrame

\* A step that writes other columns of the bot's row than the droplet and the token.
LEMMA UpdateIsSound ==
    ASSUME Linked, NEW p \in Handlers, InFlight(p), NEW row, NEW next, NEW error,
           UpdateBot(p, WithBot(req[p].bot, row), next, error),
           row.droplet = bots[req[p].bot].droplet, row.token = bots[req[p].bot].token,
           row.status \in {"absent", "destroyed"} => row.droplet = NoDroplet,
           May(req[p], next, bots[req[p].bot], cloud), May(req[p], error, bots[req[p].bot], cloud)
    PROVE  KeptSound(p)
<1>1. PICK b \in Bots : b = req[p].bot
  BY Standing
<1>2. PICK r \in {next, error} : Becomes(p, r)
  BY DEF UpdateBot
<1>3. /\ bots' = bots \/ bots' = [bots EXCEPT ![b] = row]
      /\ UNCHANGED cloud
  BY <1>1 DEF UpdateBot, WithBot, After
<1>4. bots'[b] \in {bots[b], row}
  BY <1>3 DEF Linked, SlotInv, Ownership, TypeOK, StoreTypeOK
<1>5. req'[p] = r
  BY <1>2 DEF Becomes, Linked, SlotInv, Ownership, TypeOK
<1>6. Sound(b, r, bots[b], cloud) /\ Sound(b, r, row, cloud)
  <2>1. /\ Sound(b, req[p], bots[b], cloud) /\ req[p].pc \in Working
        /\ bots[b].status \in {"absent", "destroyed"} => bots[b].droplet = NoDroplet
    BY <1>1, Standing DEF RowTrue, InFlight
  <2>2. May(req[p], r, bots[b], cloud)
    BY <1>1, <1>2
  <2> QED  BY <1>1, <2>1, <2>2, MovedIsSound
<1> QED  BY <1>1, <1>3, <1>4, <1>5, <1>6 DEF KeptSound, CloudFrame

PlainStep(p) ==
    \/ InsertConfig(p) \/ SetDesired(p) \/ SetProvisioning(p) \/ SetPending(p) \/ SetError(p)
    \/ InsertDroplet(p) \/ AssignDroplet(p) \/ MarkFailed(p) \/ RollbackCounter(p)
    \/ MarkDestroyed(p) \/ DeleteBot(p) \/ ReleaseSlot(p) \/ RedeployMark(p)
    \/ SetPaused(p) \/ GetDroplet(p) \/ SetOnline(p) \/ Cancel(p)

\* Most steps leave the droplets and the links to them alone.
LEMMA PlainStepIsSound ==
    ASSUME Linked, NEW p \in Handlers, InFlight(p), PlainStep(p)
    PROVE  KeptSound(p)
<1> DEFINE b == req[p].bot
           row == bots[b]
           MayBe(r) == May(req[p], r, row, cloud)
<1>1. /\ b \in Bots /\ req[p] \in Requests /\ row \in BotRows
      /\ RowTrue(row, cloud) /\ Placed(req[p], row, cloud) /\ Fits(req[p].pc, req[p].op, row.status)
  BY Standing
<1>2. /\ \A label : /\ At(req[p], label).pc = label /\ At(req[p], label).droplet = req[p].droplet
                    /\ At(req[p], label).token = req[p].token
      /\ req[p].pc \in HeldLabels \cup DownLabels \/ ~Attended =>
           \A result \in {"ok", "failed", "dropped"} : MayBe(Answered(req[p], result))
      /\ req[p].pc \in DownLabels \/ "cleanup_droplet" \in Faults => MayBe(Failed(req[p]))
      /\ \A giveUp : MayBe(giveUp) => MayBe(Retried(req[p], giveUp))
  BY <1>1, Moving DEF InFlight
<1>3. ASSUME NEW label \in Working, Placed(At(req[p], label), row, cloud)
      PROVE  MayBe(At(req[p], label))
  BY <1>2, <1>3 DEF May
<1>4. ASSUME NEW r, Becomes(p, r), MayBe(r), UNCHANGED <<bots, cloud>> PROVE KeptSound(p)
  BY <1>4, MoveIsSound
<1>5. ASSUME NEW s, NEW next, NEW error, UpdateBot(p, WithStatus(b, s), next, error),
             s \in {"absent", "destroyed"} => row.droplet = NoDroplet, MayBe(next), MayBe(error)
      PROVE  KeptSound(p)
  <2> DEFINE new == [row EXCEPT !.status = s]
  <2>1. new.droplet = row.droplet /\ new.token = row.token /\ new.status = s
    BY <1>1 DEF BotRows
  <2> HIDE DEF new
  <2> QED  BY <1>5, <2>1, UpdateIsSound DEF WithStatus, new
<1> HIDE DEF MayBe, b, row
<1> USE LabelTypes DEF Placed, HeldLabels, DownLabels, NewLabels
<1>6. ASSUME InsertConfig(p) PROVE KeptSound(p)
  <2>1. Placed(At(req[p], "set_desired"), row, cloud)
    BY <1>1, <1>2, <1>6 DEF InsertConfig
  <2> QED  BY <1>2, <1>3, <1>4, <1>6, <2>1 DEF InsertConfig
<1>7. ASSUME SetDesired(p) PROVE KeptSound(p)
  <2> DEFINE new == [row EXCEPT !.desired = 1, !.applied = 0]
  <2>1. new.droplet = row.droplet /\ new.token = row.token /\ new.status = row.status
    BY <1>1 DEF BotRows
  <2>2. Placed(At(req[p], "set_provisioning"), row, cloud)
    BY <1>1, <1>2, <1>7 DEF SetDesired
  <2>3. MayBe(At(req[p], "set_provisioning")) /\ MayBe(Failed(req[p]))
    BY <1>2, <1>3, <1>7, <2>2 DEF SetDesired
  <2>4. UpdateBot(p, WithBot(b, new), At(req[p], "set_provisioning"), Failed(req[p]))
    BY <1>7 DEF SetDesired, WithConfigVersion, b, row
  <2>5. new.status \in {"absent", "destroyed"} => new.droplet = NoDroplet
    BY <1>1, <2>1 DEF RowTrue
  <2> HIDE LabelTypes DEF new, Placed, HeldLabels, DownLabels, NewLabels
  <2> QED  BY <2>1, <2>3, <2>4, <2>5, UpdateIsSound DEF b, row, MayBe
<1>8. ASSUME SetProvisioning(p) PROVE KeptSound(p)
  <2>1. Placed(At(req[p], "set_token"), row, cloud)
    BY <1>1, <1>2, <1>8 DEF SetProvisioning
  <2>2. MayBe(At(req[p], "set_token")) /\ MayBe(Failed(req[p]))
    BY <1>2, <1>3, <1>8, <2>1 DEF SetProvisioning
  <2>3. UpdateBot(p, WithStatus(b, "provisioning"), At(req[p], "set_token"), Failed(req[p]))
    BY <1>8 DEF SetProvisioning, b
  <2> HIDE LabelTypes DEF Placed, HeldLabels, DownLabels, NewLabels
  <2> QED  BY <1>5, <2>2, <2>3
<1>9. ASSUME SetPending(p) \/ SetError(p) \/ MarkFailed(p) PROVE KeptSound(p)
  BY <1>2, <1>5, <1>9 DEF SetPending, SetError, MarkFailed, b
<1>10. ASSUME InsertDroplet(p) \/ AssignDroplet(p) PROVE KeptSound(p)
  <2>1. \A label \in {"assign_droplet", "link_droplet", "cleanup_droplet"} :
          Placed(At(req[p], label), row, cloud)
    BY <1>1, <1>2, <1>10 DEF InsertDroplet, AssignDroplet
  <2>2. PICK label \in {"assign_droplet", "link_droplet", "cleanup_droplet"} :
          Becomes(p, At(req[p], label))
    BY <1>10 DEF InsertDroplet, AssignDroplet
  <2> QED  BY <1>3, <1>4, <1>10, <2>1, <2>2 DEF InsertDroplet, AssignDroplet
<1>11. ASSUME RollbackCounter(p) PROVE KeptSound(p)
  BY <1>2, <1>4, <1>11 DEF RollbackCounter, Attended
<1>12. ASSUME MarkDestroyed(p) \/ RedeployMark(p) PROVE KeptSound(p)
  <2>1. \A label \in {"unlink_droplet", "get_latest"} : Placed(At(req[p], label), row, cloud)
    BY <1>1, <1>2, <1>12 DEF MarkDestroyed, RedeployMark
  <2> QED  BY <1>2, <1>3, <1>4, <1>12, <2>1 DEF MarkDestroyed, RedeployMark, MarkCall
<1>13. ASSUME DeleteBot(p) PROVE KeptSound(p)
  <2>1. Placed(At(req[p], "decrement"), row, cloud) /\ row.droplet = NoDroplet
    BY <1>1, <1>2, <1>13 DEF DeleteBot
  <2> QED  BY <1>2, <1>3, <1>5, <1>13, <2>1 DEF DeleteBot, Deleted, b
<1>14. ASSUME ReleaseSlot(p) PROVE KeptSound(p)
  BY <1>2, <1>4, <1>14 DEF ReleaseSlot
<1>15. ASSUME SetPaused(p) \/ SetOnline(p) PROVE KeptSound(p)
  BY <1>2, <1>5, <1>15 DEF SetPaused, SetOnline, b
<1>16. ASSUME GetDroplet(p) PROVE KeptSound(p)
  <2>1. \A label \in {"reboot", "set_online"} : Placed(At(req[p], label), row, cloud)
    BY <1>1, <1>2, <1>16 DEF GetDroplet
  <2> QED  BY <1>2, <1>3, <1>4, <1>16, <2>1 DEF GetDroplet, tables
<1>17. ASSUME Cancel(p) PROVE KeptSound(p)
  BY <1>2, <1>4, <1>17 DEF Cancel, Attended, tables
<1> QED
  BY <1>6, <1>7, <1>8, <1>9, <1>10, <1>11, <1>12, <1>13, <1>14, <1>15, <1>16, <1>17 DEF PlainStep

\* Nothing is up when the request and its row are down, so that the row can change.
LEMMA DownIsSound ==
    ASSUME NEW b, NEW r, NEW row, NEW c, Sound(b, r, row, c), r.pc \in Working,
           ~Up(c, r.droplet), ~Up(c, row.droplet),
           NEW next, NEW new, new.droplet \in {row.droplet, NoDroplet},
           new.status \in {"absent", "destroyed"} => new.droplet = NoDroplet,
           next.pc \in Working => Placed(next, new, c)
    PROVE  Sound(b, next, new, c)
<1>1. ~Up(c, new.droplet)
  BY StoreAssumption DEF Up
<1>2. RowTrue(new, c)
  BY <1>1 DEF RowTrue
<1>3. Known(b, next, new, c)
  BY DEF Sound, Known
<1> QED  BY <1>2, <1>3 DEF Sound

\* The steps that write the row of a bot without a droplet: its INSERT and DELETE, its
\* token, and the link that goes.
LEMMA InsertBotIsSound ==
    ASSUME Linked, NEW p \in Handlers, InsertBot(p)
    PROVE  KeptSound(p)
<1>1. PICK b \in Bots : b = req[p].bot
  BY Standing, LabelTypes DEF InsertBot, InFlight
<1>2. /\ req[p].pc = "create_bot" /\ InFlight(p) /\ req[p] \in Requests
      /\ Sound(b, req[p], bots[b], cloud) /\ Placed(req[p], bots[b], cloud)
      /\ Fits(req[p].pc, req[p].op, bots[b].status)
  BY <1>1, Standing, LabelTypes DEF InsertBot, InFlight
<1>3. /\ ~Up(cloud, req[p].droplet) /\ ~Up(cloud, bots[b].droplet)
      /\ bots[b].status = "absent" /\ bots[b].droplet = NoDroplet
      /\ req[p].op = "create"
  BY <1>1, <1>2
     DEF Placed, DownLabels, Linked, SlotInv, Ownership, InsertedOnce, BotExists, Fits, CreateLabels,
         Sound, RowTrue
<1>4. PICK label \in {"create_config", "hard_delete"} : Becomes(p, At(req[p], label))
  BY <1>3 DEF InsertBot, Failed
<1>5. /\ UNCHANGED cloud
      /\ bots'[b] = bots[b] \/ (bots'[b].status = "pending" /\ bots'[b].droplet = NoDroplet)
  BY <1>1
     DEF InsertBot, After, Inserted, NoBotRow, Linked, SlotInv, Ownership, TypeOK, StoreTypeOK
<1>6. req'[p] = At(req[p], label)
  BY <1>4 DEF Becomes, Linked, SlotInv, Ownership, TypeOK
<1>7. /\ At(req[p], label).pc = label /\ At(req[p], label).droplet = req[p].droplet
  BY <1>2 DEF At, Requests
<1>8. ~Up(cloud, bots'[b].droplet)
  BY <1>3, <1>5
<1>9. Placed(At(req[p], label), bots'[b], cloud)
  BY <1>3, <1>7, <1>8 DEF Placed, HeldLabels, DownLabels, NewLabels
<1>10. Sound(b, At(req[p], label), bots'[b], cloud)
  BY <1>2, <1>3, <1>5, <1>9, DownIsSound DEF InFlight
<1> QED  BY <1>1, <1>5, <1>6, <1>10 DEF KeptSound, CloudFrame

\* The rollback's DELETE, the link that goes, the token and the spawn of a redeploy.
LEMMA RollbackIsSound ==
    ASSUME Linked, NEW p \in Handlers, RollbackBot(p), "hard_delete" \notin Faults
    PROVE  KeptSound(p)
<1>1. PICK b \in Bots : b = req[p].bot
  BY Standing, LabelTypes DEF RollbackBot, InFlight
<1>2. /\ req[p].pc = "hard_delete" /\ InFlight(p) /\ req[p] \in Requests
      /\ Sound(b, req[p], bots[b], cloud) /\ Placed(req[p], bots[b], cloud)
  BY <1>1, Standing, LabelTypes DEF RollbackBot, InFlight
<1>3. /\ bots'[b] = NoBotRow /\ cloud' = cloud
      /\ Becomes(p, At(req[p], "give_back"))
  BY <1>1
     DEF RollbackBot, Outcomes, After, HardDeleted, Linked, SlotInv, Ownership, TypeOK, StoreTypeOK
<1>4. req'[p] = At(req[p], "give_back")
  BY <1>3 DEF Becomes, Linked, SlotInv, Ownership, TypeOK
<1>5. At(req[p], "give_back").pc = "give_back" /\ At(req[p], "give_back").droplet = req[p].droplet
  BY <1>2 DEF At, Requests
<1>6. bots'[b].droplet = NoDroplet /\ ~Up(cloud, NoDroplet)
  BY <1>3, StoreAssumption DEF NoBotRow, Up
<1>7. Placed(At(req[p], "give_back"), bots'[b], cloud)
  BY <1>2, <1>5, <1>6 DEF Placed, HeldLabels, DownLabels, NewLabels
<1>8. RowTrue(bots'[b], cloud)
  BY <1>6 DEF RowTrue
<1>9. Known(b, At(req[p], "give_back"), bots'[b], cloud)
  <2>1. Attended => ~Up(cloud, req[p].droplet) /\ ~Up(cloud, bots[b].droplet)
    BY <1>2 DEF Placed, DownLabels, Attended
  <2> QED  BY <1>2, <2>1 DEF Sound, Known
<1> QED  BY <1>1, <1>3, <1>4, <1>7, <1>8, <1>9 DEF KeptSound, CloudFrame, Sound

\* An update of the row when nothing is up.
LEMMA DownUpdateIsSound ==
    ASSUME Linked, NEW p \in Handlers, InFlight(p),
           NEW row, NEW next, NEW error, UpdateBot(p, WithBot(req[p].bot, row), next, error),
           ~Up(cloud, req[p].droplet), ~Up(cloud, bots[req[p].bot].droplet),
           row.droplet \in {bots[req[p].bot].droplet, NoDroplet},
           row.status \in {"absent", "destroyed"} => row.droplet = NoDroplet,
           next.pc \in Working => Placed(next, row, cloud),
           error.pc \in Working =>
               Placed(error, row, cloud) /\ Placed(error, bots[req[p].bot], cloud)
    PROVE  KeptSound(p)
<1>1. PICK b \in Bots : b = req[p].bot
  BY Standing
<1>2. Sound(b, req[p], bots[b], cloud) /\ RowTrue(bots[b], cloud)
  BY <1>1, Standing
<1>3. PICK o \in Outcomes(req[p].pc) :
        /\ bots' = After(o, WithBot(b, row), bots)
        /\ Becomes(p, IF o = "done" /\ BotExists(b) THEN next ELSE error)
        /\ UNCHANGED cloud
  BY <1>1 DEF UpdateBot
<1>4. \/ bots'[b] = row /\ req'[p] \in {next, error}
      \/ bots'[b] = bots[b] /\ req'[p] = error
  <2>1. bots' = [bots EXCEPT ![b] = row] \/ (bots' = bots /\ (o # "done" \/ ~BotExists(b)))
    BY <1>3 DEF After, WithBot
  <2>2. req'[p] = IF o = "done" /\ BotExists(b) THEN next ELSE error
    BY <1>3 DEF Becomes, Linked, SlotInv, Ownership, TypeOK
  <2> QED  BY <2>1, <2>2 DEF Linked, SlotInv, Ownership, TypeOK, StoreTypeOK
<1>5. /\ bots'[b].droplet \in {bots[b].droplet, NoDroplet}
      /\ bots'[b].status \in {"absent", "destroyed"} => bots'[b].droplet = NoDroplet
      /\ req'[p].pc \in Working => Placed(req'[p], bots'[b], cloud)
  BY <1>1, <1>2, <1>4 DEF RowTrue
<1>6. PICK r, new : r = req'[p] /\ new = bots'[b]
  OBVIOUS
<1>7. Sound(b, r, new, cloud)
  BY <1>1, <1>2, <1>5, <1>6, DownIsSound DEF InFlight
<1> QED  BY <1>1, <1>3, <1>6, <1>7 DEF KeptSound, CloudFrame

\* destroy_bot clears the link of a droplet that is gone.
LEMMA UnlinkIsSound ==
    ASSUME Linked, NEW p \in Handlers, UnlinkDroplet(p)
    PROVE  KeptSound(p)
<1> DEFINE b == req[p].bot
           row == [bots[b] EXCEPT !.droplet = NoDroplet]
           again == Retried(req[p], Answered(req[p], "failed"))
<1>1. /\ req[p].pc = "unlink_droplet" /\ InFlight(p) /\ req[p] \in Requests
      /\ bots[b] \in BotRows /\ Placed(req[p], bots[b], cloud) /\ RowTrue(bots[b], cloud)
  BY Standing, LabelTypes DEF UnlinkDroplet, InFlight
<1>2. row.droplet = NoDroplet /\ row.token = bots[b].token /\ row.status = bots[b].status
  BY <1>1 DEF BotRows
<1>3. ~Up(cloud, req[p].droplet) /\ ~Up(cloud, bots[b].droplet) /\ ~Up(cloud, NoDroplet)
  BY <1>1, StoreAssumption DEF Placed, DownLabels, Up
<1>4. /\ At(req[p], "delete_bot").pc = "delete_bot"
      /\ At(req[p], "delete_bot").droplet = req[p].droplet
  BY <1>1 DEF At, Requests
<1>5. again.pc \in Working => again.pc = "unlink_droplet" /\ again.droplet = req[p].droplet
  BY <1>1, LabelTypes DEF Retried, Answered, Idle, Requests
<1>6. UpdateBot(p, WithBot(b, row), At(req[p], "delete_bot"), again)
  BY DEF UnlinkDroplet, WithDroplet
<1> HIDE DEF row, again
<1>7. Placed(At(req[p], "delete_bot"), row, cloud)
  BY <1>2, <1>3, <1>4 DEF Placed, HeldLabels, DownLabels, NewLabels
<1>8. again.pc \in Working => Placed(again, row, cloud) /\ Placed(again, bots[b], cloud)
  BY <1>2, <1>3, <1>5 DEF Placed, HeldLabels, DownLabels, NewLabels
<1> QED  BY <1>1, <1>2, <1>3, <1>6, <1>7, <1>8, DownUpdateIsSound DEF b

\* A token is only set while the bot has no droplet that is up.
LEMMA SetTokenIsSound ==
    ASSUME Linked, NEW p \in Handlers, SetToken(p)
    PROVE  KeptSound(p)
<1> DEFINE b == req[p].bot
           t == CHOOSE token \in FreshTokens : TRUE
           row == [bots[b] EXCEPT !.token = t]
           next == [At(req[p], "create_droplet") EXCEPT !.token = t]
<1>1. /\ req[p].pc = "set_token" /\ InFlight(p) /\ req[p] \in Requests
      /\ bots[b] \in BotRows /\ Placed(req[p], bots[b], cloud) /\ RowTrue(bots[b], cloud)
  BY Standing, LabelTypes DEF SetToken, InFlight
<1>2. row.droplet = bots[b].droplet /\ row.token = t /\ row.status = bots[b].status
  BY <1>1 DEF BotRows
<1>3. ~Up(cloud, req[p].droplet) /\ ~Up(cloud, bots[b].droplet)
  BY <1>1 DEF Placed, DownLabels
<1>4. next.pc = "create_droplet" /\ next.droplet = req[p].droplet /\ next.token = t
  BY <1>1 DEF At, Requests
<1>5. Failed(req[p]).pc \in Working =>
        Failed(req[p]).pc = "hard_delete" /\ Failed(req[p]).droplet = req[p].droplet
  BY <1>1, LabelTypes DEF Failed, At, Answered, Idle, Requests
<1>6. UpdateBot(p, WithBot(b, row), next, Failed(req[p]))
  BY DEF SetToken, WithToken
<1> HIDE DEF row, next
<1>7. Placed(next, row, cloud)
  BY <1>2, <1>3, <1>4 DEF Placed, HeldLabels, DownLabels, NewLabels
<1>8. Failed(req[p]).pc \in Working =>
        Placed(Failed(req[p]), row, cloud) /\ Placed(Failed(req[p]), bots[b], cloud)
  BY <1>2, <1>3, <1>5 DEF Placed, HeldLabels, DownLabels, NewLabels
<1> QED  BY <1>1, <1>2, <1>3, <1>6, <1>7, <1>8, DownUpdateIsSound DEF b, RowTrue

\* redeploy_bot goes on without the droplet it destroyed.
LEMMA GetLatestIsSound ==
    ASSUME Linked, NEW p \in Handlers, GetLatest(p)
    PROVE  KeptSound(p)
<1> DEFINE next == [At(req[p], "set_provisioning") EXCEPT !.droplet = NoDroplet]
<1>1. PICK b \in Bots : b = req[p].bot
  BY Standing, LabelTypes DEF GetLatest, InFlight
<1>2. /\ req[p].pc = "get_latest" /\ InFlight(p) /\ req[p] \in Requests
      /\ Sound(b, req[p], bots[b], cloud) /\ RowTrue(bots[b], cloud)
      /\ Placed(req[p], bots[b], cloud)
  BY <1>1, Standing, LabelTypes DEF GetLatest, InFlight
<1>3. ~Up(cloud, req[p].droplet) /\ ~Up(cloud, bots[b].droplet) /\ ~Up(cloud, NoDroplet)
  BY <1>2, StoreAssumption DEF Placed, DownLabels, Up
<1>4. next.pc = "set_provisioning" /\ next.droplet = NoDroplet
  BY <1>2 DEF At, Requests
<1>5. Answered(req[p], "failed").pc \notin Working
  BY LabelTypes DEF Answered, Idle
<1> HIDE DEF next
<1>6. UNCHANGED <<bots, cloud>> /\ req'[p] \in {next, Answered(req[p], "failed")}
  BY DEF GetLatest, Becomes, tables, next, Linked, SlotInv, Ownership, TypeOK
<1>7. Placed(next, bots[b], cloud)
  BY <1>3, <1>4 DEF Placed, HeldLabels, DownLabels, NewLabels
<1>8. PICK r : r = req'[p]
  OBVIOUS
<1>9. Sound(b, r, bots[b], cloud)
  BY <1>2, <1>3, <1>5, <1>6, <1>7, <1>8, DownIsSound DEF InFlight, RowTrue
<1> QED  BY <1>1, <1>6, <1>8, <1>9 DEF KeptSound, CloudFrame

\* The new droplet has the token of the row, and is the only one of its bot that is up;
\* or the reply is lost, and nobody attends to it.
LEMMA CreateDropletIsSound ==
    ASSUME Linked, NEW p \in Handlers, CreateDroplet(p)
    PROVE  KeptSound(p)
<1>1. PICK b \in Bots : b = req[p].bot
  BY Standing, LabelTypes DEF CreateDroplet, InFlight
<1>2. PICK row : row = bots[b]
  OBVIOUS
<1>3. /\ req[p].pc = "create_droplet" /\ InFlight(p) /\ req[p] \in Requests
      /\ Sound(b, req[p], row, cloud) /\ RowTrue(row, cloud) /\ Placed(req[p], row, cloud)
      /\ req[p].droplet \in Droplets => cloud[req[p].droplet].power # "none"
      /\ row.droplet \in Droplets => cloud[row.droplet].power # "none"
      /\ bots'[b] = row
  BY <1>1, <1>2, Standing, LabelTypes DEF CreateDroplet, InFlight, tables
<1>4. /\ ~Up(cloud, req[p].droplet) /\ ~Up(cloud, row.droplet)
      /\ req[p].token = row.token
  BY <1>3 DEF Placed, DownLabels
<1>5. \A d \in Droplets : Up(cloud, d) /\ cloud[d].bot = b => ~Attended
  BY <1>3, <1>4 DEF Sound, Known
<1>6. ASSUME NEW r, Becomes(p, r) PROVE req'[p] = r
  BY <1>6 DEF Becomes, Linked, SlotInv, Ownership, TypeOK
<1>7. \A label \in {"set_pending", "set_error"} :
        LET r == [At(req[p], label) EXCEPT !.token = 0]
        IN  r.pc = label /\ r.droplet = req[p].droplet
  BY <1>3 DEF At, Requests
<1>8. CASE UNCHANGED cloud
  <2>1. PICK label \in {"set_pending", "set_error"} :
          Becomes(p, [At(req[p], label) EXCEPT !.token = 0])
    <3>1. Unused # {} => cloud[NewDroplet].power = "none"
      BY DEF NewDroplet, Unused
    <3>2. Unused # {} => NewDroplet \in Droplets /\ Created(NewDroplet, b, req[p].token) # cloud
      BY <3>1 DEF NewDroplet, Unused, Created, Linked, SlotInv, Ownership, TypeOK, CloudTypeOK
    <3> QED  BY <1>1, <1>8, <3>2 DEF CreateDroplet
  <2>2. PICK r : r = req'[p] /\ r.pc = label /\ r.droplet = req[p].droplet
    BY <1>6, <1>7, <2>1
  <2>3. Placed(r, row, cloud)
    BY <1>4, <2>2 DEF Placed, HeldLabels, DownLabels, NewLabels
  <2>4. Sound(b, r, row, cloud)
    BY <1>3, <1>4, <2>3, DownIsSound DEF InFlight, RowTrue
  <2> QED  BY <1>1, <1>3, <1>8, <2>2, <2>4 DEF KeptSound, CloudFrame
<1>9. CASE ~UNCHANGED cloud
  <2>1. PICK n \in Droplets : n = NewDroplet /\ cloud[n].power = "none"
    BY <1>9 DEF CreateDroplet, NewDroplet, Unused
  <2>2. /\ \A d \in Droplets \ {n} : cloud'[d] = cloud[d]
        /\ cloud'[n].power = "new" /\ cloud'[n].bot = b /\ cloud'[n].token = row.token
    BY <1>1, <1>4, <1>9, <2>1
       DEF CreateDroplet, Created, Linked, SlotInv, Ownership, TypeOK, CloudTypeOK
  <2>3. CloudFrame(p)
    BY <1>1, <2>1, <2>2 DEF CloudFrame
  <2>4. /\ Up(cloud', n) /\ row.droplet # n /\ req[p].droplet # n
        /\ ~Up(cloud', req[p].droplet) /\ ~Up(cloud', row.droplet)
    BY <1>3, <1>4, <2>1, <2>2 DEF Up
  <2>5. \A d \in Droplets : Up(cloud', d) /\ cloud'[d].bot = b => d = n \/ ~Attended
    BY <1>5, <2>2 DEF Up
  <2>6. RowTrue(row, cloud')
    BY <1>3, <2>4 DEF RowTrue
  <2>7. \/ req'[p] = [At(req[p], "insert_droplet") EXCEPT !.droplet = NewDroplet, !.token = 0]
        \/ /\ "create_droplet" \in LostReplies
           /\ \/ req'[p] = [req[p] EXCEPT !.tries = @ + 1]
              \/ req'[p] = [At(req[p], "set_error") EXCEPT !.token = 0]
    BY <1>6, <1>9 DEF CreateDroplet
  <2>8. PICK r : r = req'[p]
    OBVIOUS
  <2>9. CASE r = [At(req[p], "insert_droplet") EXCEPT !.droplet = NewDroplet, !.token = 0]
    <3>1. r.pc = "insert_droplet" /\ r.droplet = n
      BY <1>3, <2>1, <2>9 DEF At, Requests
    <3>2. Placed(r, row, cloud')
      BY <2>2, <2>4, <3>1 DEF Placed, HeldLabels, DownLabels, NewLabels
    <3>3. Known(b, r, row, cloud')
      BY <2>5, <3>1, LabelTypes DEF Known
    <3> QED  BY <1>1, <1>3, <2>3, <2>6, <2>8, <3>2, <3>3 DEF KeptSound, Sound
  <2>10. CASE /\ "create_droplet" \in LostReplies
              /\ \/ r = [req[p] EXCEPT !.tries = @ + 1]
                 \/ r = [At(req[p], "set_error") EXCEPT !.token = 0]
    <3>1. /\ r.pc \in {"create_droplet", "set_error"} /\ r.droplet = req[p].droplet
          /\ r.pc = "create_droplet" => r.token = row.token
      BY <1>3, <1>4, <2>10 DEF At, Requests
    <3>2. Placed(r, row, cloud')
      BY <2>4, <3>1 DEF Placed, HeldLabels, DownLabels, NewLabels
    <3>3. Known(b, r, row, cloud')
      BY <2>10 DEF Known, Attended
    <3> QED  BY <1>1, <1>3, <2>3, <2>6, <2>8, <3>2, <3>3 DEF KeptSound, Sound
  <2> QED  BY <2>7, <2>8, <2>9, <2>10
<1> QED  BY <1>8, <1>9

\* The link makes the new droplet the bot's own, or the droplet goes to the cleanup,
\* linked or not.
LEMMA LinkIsSound ==
    ASSUME Linked, NEW p \in Handlers, LinkDroplet(p)
    PROVE  KeptSound(p)
<1>1. PICK b \in Bots : b = req[p].bot
  BY Standing, LabelTypes DEF LinkDroplet, InFlight
<1> DEFINE row == [bots[b] EXCEPT !.droplet = req[p].droplet]
<1>2. /\ req[p].pc = "link_droplet" /\ InFlight(p) /\ req[p] \in Requests
      /\ bots[b] \in BotRows /\ Sound(b, req[p], bots[b], cloud) /\ RowTrue(bots[b], cloud)
      /\ Placed(req[p], bots[b], cloud) /\ Fits(req[p].pc, req[p].op, bots[b].status)
  BY <1>1, Standing, LabelTypes DEF LinkDroplet, InFlight
<1>3. /\ Up(cloud, req[p].droplet) /\ ~Up(cloud, bots[b].droplet)
      /\ cloud[req[p].droplet].token = bots[b].token
  BY <1>2 DEF Placed, NewLabels
<1>4. bots[b].status # "destroyed"
  BY <1>2 DEF Fits
<1>5. row.droplet = req[p].droplet /\ row.token = bots[b].token /\ row.status = bots[b].status
  BY <1>2 DEF BotRows
<1>6. UpdateBot(p, WithBot(b, row), Answered(req[p], "ok"), At(req[p], "cleanup_droplet"))
  BY <1>1 DEF LinkDroplet, WithDroplet
<1> HIDE DEF row
<1>7. PICK o \in Outcomes(req[p].pc) :
        /\ bots' = After(o, WithBot(b, row), bots)
        /\ Becomes(p, IF o = "done" /\ BotExists(b)
                      THEN Answered(req[p], "ok") ELSE At(req[p], "cleanup_droplet"))
        /\ UNCHANGED cloud
  BY <1>1, <1>6 DEF UpdateBot
<1>8. PICK r : r = req'[p]
  OBVIOUS
<1>9. \/ bots'[b] = row /\ BotExists(b) /\ r \in {Answered(req[p], "ok"), At(req[p], "cleanup_droplet")}
      \/ bots'[b] = bots[b] /\ r = At(req[p], "cleanup_droplet")
  <2>1. \/ bots' = [bots EXCEPT ![b] = row] /\ BotExists(b)
        \/ bots' = bots /\ (o # "done" \/ ~BotExists(b))
    BY <1>7 DEF After, WithBot
  <2>2. r = IF o = "done" /\ BotExists(b)
            THEN Answered(req[p], "ok") ELSE At(req[p], "cleanup_droplet")
    BY <1>7, <1>8 DEF Becomes, Linked, SlotInv, Ownership, TypeOK
  <2> QED  BY <2>1, <2>2 DEF Linked, SlotInv, Ownership, TypeOK, StoreTypeOK
<1>10. /\ Answered(req[p], "ok").pc \notin Working
       /\ At(req[p], "cleanup_droplet").pc = "cleanup_droplet"
       /\ At(req[p], "cleanup_droplet").droplet = req[p].droplet
       /\ "cleanup_droplet" \in Working
  BY <1>2, LabelTypes DEF Answered, Idle, At, Requests
<1>11. CASE bots'[b] = row /\ BotExists(b)
  <2>1. RowTrue(row, cloud)
    BY <1>3, <1>4, <1>5, <1>11 DEF RowTrue, BotExists
  <2>2. Known(b, r, row, cloud)
    BY <1>2, <1>3, <1>5 DEF Sound, Known
  <2>3. r.pc \in Working => Placed(r, row, cloud)
    BY <1>5, <1>9, <1>10, <1>11 DEF Placed, HeldLabels, DownLabels, NewLabels
  <2> QED  BY <1>1, <1>7, <1>8, <1>11, <2>1, <2>2, <2>3 DEF KeptSound, CloudFrame, Sound
<1>12. CASE bots'[b] = bots[b] /\ r = At(req[p], "cleanup_droplet")
  <2>1. Placed(r, bots[b], cloud)
    BY <1>3, <1>10, <1>12 DEF Placed, HeldLabels, DownLabels, NewLabels
  <2>2. May(req[p], r, bots[b], cloud)
    BY <1>10, <1>12, <2>1 DEF May
  <2>3. Sound(b, r, bots[b], cloud)
    BY <1>2, <2>2, MovedIsSound DEF RowTrue, InFlight
  <2> QED  BY <1>1, <1>7, <1>8, <1>12, <2>3 DEF KeptSound, CloudFrame
<1> QED  BY <1>9, <1>11, <1>12

\* What is destroyed is the request's own droplet.
LEMMA DestroyedFrame ==
    ASSUME Linked, NEW p \in Handlers, InFlight(p),
           cloud' = cloud \/ cloud' = Destroyed(req[p].droplet)
    PROVE  /\ CloudFrame(p)
           /\ \A d : Up(cloud', d) => Up(cloud, d)
           /\ \A d \in Droplets : cloud'[d].bot = cloud[d].bot /\ cloud'[d].token = cloud[d].token
           /\ cloud' = Destroyed(req[p].droplet) => ~Up(cloud', req[p].droplet)
           /\ \A d \in Droplets : d # req[p].droplet => cloud'[d] = cloud[d]
<1>1. cloud \in [Droplets -> CloudRows]
  BY DEF Linked, SlotInv, Ownership, TypeOK, CloudTypeOK
<1>2. cloud' = cloud \/ (cloud' = Destroyed(req[p].droplet) /\ req[p].droplet \in Droplets)
  BY <1>1 DEF Destroyed, WithPower
<1>3. req[p].droplet \in Droplets => cloud[req[p].droplet].bot = req[p].bot
  BY Standing
<1>4. /\ \A d \in Droplets : d # req[p].droplet => cloud'[d] = cloud[d]
      /\ \A d \in Droplets : cloud'[d].bot = cloud[d].bot /\ cloud'[d].token = cloud[d].token
      /\ cloud' = Destroyed(req[p].droplet) /\ req[p].droplet \in Droplets
           => cloud'[req[p].droplet].power = "gone"
  BY <1>1, <1>2 DEF Destroyed, WithPower, CloudRows
<1>5. CloudFrame(p)
  BY <1>3, <1>4 DEF CloudFrame
<1>6. \A d : Up(cloud', d) => Up(cloud, d)
  BY <1>2, <1>4 DEF Up
<1> QED  BY <1>4, <1>5, <1>6 DEF Up

\* The cleanup after a database error.
LEMMA CleanupIsSound ==
    ASSUME Linked, NEW p \in Handlers, CleanupDroplet(p)
    PROVE  KeptSound(p)
<1>1. PICK b \in Bots : b = req[p].bot
  BY Standing, LabelTypes DEF CleanupDroplet, InFlight
<1>2. PICK row : row = bots[b]
  OBVIOUS
<1>3. /\ req[p].pc = "cleanup_droplet" /\ InFlight(p) /\ req[p] \in Requests
      /\ Sound(b, req[p], row, cloud) /\ RowTrue(row, cloud) /\ Placed(req[p], row, cloud)
      /\ bots'[b] = row
  BY <1>1, <1>2, Standing, LabelTypes DEF CleanupDroplet, InFlight, tables
<1>4. PICK r : r = At(req[p], "mark_failed")
  OBVIOUS
<1>5. r = req'[p] /\ r.pc = "mark_failed" /\ r.droplet = req[p].droplet
  BY <1>3, <1>4 DEF CleanupDroplet, Becomes, At, Requests, Linked, SlotInv, Ownership, TypeOK
<1>6. /\ cloud' = cloud \/ cloud' = Destroyed(req[p].droplet)
      /\ "cleanup_droplet" \notin Faults => cloud' = Destroyed(req[p].droplet)
  BY <1>3 DEF CleanupDroplet, After, Outcomes
<1>7. /\ CloudFrame(p)
      /\ \A d : Up(cloud', d) => Up(cloud, d)
      /\ \A d \in Droplets : cloud'[d].bot = cloud[d].bot /\ cloud'[d].token = cloud[d].token
      /\ "cleanup_droplet" \notin Faults => ~Up(cloud', req[p].droplet)
      /\ \A d \in Droplets : d # req[p].droplet => cloud'[d] = cloud[d]
  BY <1>3, <1>6, DestroyedFrame
<1>8. "cleanup_droplet" \notin Faults => ~Up(cloud', row.droplet)
  BY <1>3, <1>7 DEF Placed
<1>9. Placed(r, row, cloud')
  BY <1>5, <1>7, <1>8 DEF Placed, HeldLabels, DownLabels, NewLabels
<1>10. RowTrue(row, cloud')
  BY <1>3, <1>7 DEF RowTrue, Up
<1>11. Known(b, r, row, cloud')
  BY <1>3, <1>7, LabelTypes, <1>5 DEF Sound, Known
<1> QED  BY <1>1, <1>3, <1>5, <1>7, <1>9, <1>10, <1>11 DEF KeptSound, Sound

\* A droplet is destroyed for its bot's request, the row still naming it.
LEMMA DestroyIsSound ==
    ASSUME Linked, NEW p \in Handlers, DestroyDroplet(p) \/ RedeployDestroy(p)
    PROVE  KeptSound(p)
<1>1. PICK b \in Bots : b = req[p].bot
  BY Standing, LabelTypes DEF DestroyDroplet, RedeployDestroy, InFlight
<1>2. PICK row : row = bots[b]
  OBVIOUS
<1>3. /\ req[p].pc \in {"destroy_droplet", "redeploy_destroy"} /\ InFlight(p) /\ req[p] \in Requests
      /\ Sound(b, req[p], row, cloud) /\ RowTrue(row, cloud) /\ Placed(req[p], row, cloud)
      /\ bots'[b] = row
  BY <1>1, <1>2, Standing, LabelTypes
     DEF DestroyDroplet, RedeployDestroy, DestroyCall, InFlight, tables
<1>4. PICK r : r = req'[p]
  OBVIOUS
<1>5. row.droplet = req[p].droplet
  BY <1>3 DEF Placed, HeldLabels
<1>6. PICK label \in {"mark_destroyed", "redeploy_mark"}, o \in {"done", "refused", "lost"} :
        /\ cloud' = After(o, IF IsUp(req[p].droplet) THEN Destroyed(req[p].droplet) ELSE cloud, cloud)
        /\ r = IF o = "done" THEN At(req[p], label) ELSE Answered(req[p], "failed")
  BY <1>4
     DEF DestroyDroplet, RedeployDestroy, DestroyCall, Becomes, Outcomes, Linked, SlotInv, Ownership,
         TypeOK
<1>7. cloud' = cloud \/ cloud' = Destroyed(req[p].droplet)
  BY <1>6 DEF After
<1>8. /\ CloudFrame(p)
      /\ \A d : Up(cloud', d) => Up(cloud, d)
      /\ \A d \in Droplets : cloud'[d].bot = cloud[d].bot /\ cloud'[d].token = cloud[d].token
      /\ cloud' = Destroyed(req[p].droplet) => ~Up(cloud', req[p].droplet)
  BY <1>3, <1>7, DestroyedFrame
<1>9. /\ o = "done" => ~Up(cloud', req[p].droplet)
      /\ o = "done" => r.pc = label /\ r.droplet = req[p].droplet
      /\ o # "done" => r.pc \notin Working
  BY <1>3, <1>6, <1>8, LabelTypes DEF After, Up, IsUp, At, Answered, Idle, Requests
<1>10. r.pc \in Working => Placed(r, row, cloud')
  BY <1>5, <1>9 DEF Placed, HeldLabels, DownLabels, NewLabels
<1>11. RowTrue(row, cloud')
  BY <1>3, <1>8 DEF RowTrue, Up
<1>12. Known(b, r, row, cloud')
  BY <1>3, <1>5, <1>8 DEF Sound, Known
<1> QED  BY <1>1, <1>3, <1>4, <1>8, <1>10, <1>11, <1>12 DEF KeptSound, Sound

\* A power action on the droplet of the bot.
LEMMA PowerIsSound ==
    ASSUME Linked, NEW p \in Handlers, Shutdown(p) \/ Reboot(p)
    PROVE  KeptSound(p)
<1>1. PICK b \in Bots : b = req[p].bot
  BY Standing, LabelTypes DEF Shutdown, Reboot, InFlight
<1>2. PICK row : row = bots[b]
  OBVIOUS
<1>3. /\ req[p].pc \in {"shutdown", "reboot"} /\ InFlight(p) /\ req[p] \in Requests
      /\ Sound(b, req[p], row, cloud) /\ RowTrue(row, cloud) /\ Placed(req[p], row, cloud)
      /\ req[p].droplet \in Droplets => cloud[req[p].droplet].bot = b
      /\ bots'[b] = row
  BY <1>1, <1>2, Standing, LabelTypes DEF Shutdown, Reboot, InFlight, tables
<1>4. PICK r : r = req'[p]
  OBVIOUS
<1>5. \E label \in {"set_paused", "set_online"} : r \in {At(req[p], label), Answered(req[p], "failed")}
  BY <1>4 DEF Shutdown, Reboot, Becomes, Linked, SlotInv, Ownership, TypeOK
<1>6. /\ CloudAlike
      /\ \A d \in Droplets : d # req[p].droplet => cloud'[d] = cloud[d]
  BY DEF Shutdown, Reboot, After, ShutDown, Rebooted, WithPower, CloudAlike, Up, IsUp,
         Linked, SlotInv, Ownership, TypeOK, CloudTypeOK, CloudRows
<1>7. CloudFrame(p)
  BY <1>1, <1>3, <1>6 DEF CloudFrame, CloudAlike
<1>8. row.droplet = req[p].droplet
  BY <1>3 DEF Placed, HeldLabels
<1>9. May(req[p], r, row, cloud)
  <2>1. \A label \in {"set_paused", "set_online"} :
          At(req[p], label).pc = label /\ At(req[p], label).droplet = req[p].droplet
    BY <1>3 DEF At, Requests
  <2>2. Answered(req[p], "failed").pc \notin Working
    BY LabelTypes DEF Answered, Idle
  <2> QED  BY <1>5, <1>8, <2>1, <2>2, LabelTypes DEF May, Placed, HeldLabels, DownLabels, NewLabels
<1>10. Sound(b, r, row, cloud)
  BY <1>3, <1>9, MovedIsSound DEF RowTrue, InFlight
<1>11. Sound(b, r, row, cloud')
  BY <1>6, <1>10, AlikeIsSound
<1> QED  BY <1>1, <1>3, <1>4, <1>7, <1>11 DEF KeptSound

\* Every step of a request in flight.
LEMMA StepIsSound ==
    ASSUME Linked, OneAtATime, NEW p \in Handlers, InFlight(p), Step(p) \/ Cancel(p)
    PROVE  KeptSound(p)
<1>1. CASE PlainStep(p)
  BY <1>1, PlainStepIsSound
<1>2. CASE InsertBot(p) \/ SetToken(p) \/ CreateDroplet(p) \/ LinkDroplet(p) \/ CleanupDroplet(p)
           \/ RollbackBot(p) \/ DestroyDroplet(p) \/ RedeployDestroy(p) \/ UnlinkDroplet(p)
           \/ GetLatest(p) \/ Shutdown(p) \/ Reboot(p)
  BY <1>2, InsertBotIsSound, SetTokenIsSound, CreateDropletIsSound, LinkIsSound, CleanupIsSound,
     RollbackIsSound, DestroyIsSound, UnlinkIsSound, GetLatestIsSound, PowerIsSound DEF OneAtATime
<1> QED  BY <1>1, <1>2, LabelTypes DEF Step, PlainStep, Reply, InFlight

\* It keeps the invariant.
LEMMA StepKeepsLinked ==
    ASSUME Linked, SlotInv', OneAtATime, NEW p \in Handlers, InFlight(p), Step(p) \/ Cancel(p)
    PROVE  Linked'
<1>1. Own(p)
  BY OwnSteps DEF OneAtATime, Linked
<1>2. DestroysMark'
  BY <1>1, OwnDestroysMark DEF Linked
<1> QED  BY <1>1, <1>2, StepIsSound, OwnKeepsLinked DEF KeptSound

----------------------------------------------------------------------------
(* The start of a request, and its end.                                     *)

\* A step that leaves the bots and the droplets alone and starts at most one request,
\* on a bot nobody works on, keeps the invariant when the request fits.
LEMMA StartKeepsLinked ==
    ASSUME Linked, SlotInv', UNCHANGED <<bots, cloud>>, NEW p \in Handlers, ~InFlight(p),
           \A q \in Handlers \ {p} : req'[q] = req[q],
           InFlight(p)' => /\ req'[p].bot \in Bots /\ Quiet(req'[p].bot)
                           /\ req'[p].droplet = bots[req'[p].bot].droplet
                           /\ Placed(req'[p], bots[req'[p].bot], cloud)
                           /\ req'[p].op = "destroy" => req'[p].pc \in DestroyLabels,
           req'[p].op = "destroy" => req'[p].pc # "ok"
    PROVE  Linked'
<1>1. DestroysMark'
  BY DEF Linked, DestroysMark, InFlight
<1>2. DropletsHaveBots'
  BY DEF Linked, DropletsHaveBots, IsUp
<1>3. ASSUME NEW b \in Bots, Quiet(b)' PROVE Sound(b, Idle, bots[b], cloud)
  <2>1. Quiet(b)
    BY <1>3 DEF Quiet, InFlight
  <2> QED  BY <2>1 DEF Linked, AllSound
<1>4. ASSUME NEW b \in Bots, NEW q \in Handlers \ {p}, InFlight(q)', req'[q].bot = b
      PROVE  Sound(b, req'[q], bots[b], cloud)
  BY <1>4 DEF Linked, AllSound, InFlight
<1>5. ASSUME NEW b \in Bots, InFlight(p)', req'[p].bot = b
      PROVE  Sound(b, req'[p], bots[b], cloud)
  <2>1. Sound(b, Idle, bots[b], cloud)
    BY <1>5 DEF Linked, AllSound
  <2>2. Known(b, req'[p], bots[b], cloud)
    BY <2>1, LabelTypes DEF Sound, Known, Idle
  <2> QED  BY <1>5, <2>1, <2>2 DEF Sound
<1>6. AllSound'
  BY <1>3, <1>4, <1>5 DEF AllSound
<1> QED  BY <1>1, <1>2, <1>6 DEF Linked

\* A request on an existing bot starts with the droplet its row names.
LEMMA BeginKeepsLinked ==
    ASSUME Linked, SlotInv', OneAtATime, NEW p \in Handlers, NEW op \in Operations \ {"create"},
           NEW b \in Bots, NEW found \in FirstLabels, Begin(p, op, b, found),
           found \in {"unlink_droplet", "get_latest"} => bots[b].droplet = NoDroplet,
           op = "destroy" => found \in DestroyLabels
    PROVE  Linked'
<1>1. Quiet(b) /\ UNCHANGED <<bots, cloud>> /\ ~InFlight(p)
  BY LabelTypes DEF Begin, MayRequest, OneAtATime, tables, Quiet, InFlight
<1>2. PICK r : /\ Becomes(p, r)
               /\ r \in {At(Reading(op, b), found), Answered(Reading(op, b), "failed")}
               /\ r.pc \notin {"ok", "idle"}
  <2>1. Answered(Reading(op, b), "failed").pc = "failed" /\ At(Reading(op, b), found).pc = found
    BY DEF Answered, Idle, At, Reading
  <2> QED  BY <2>1 DEF Begin, FirstLabels
<1>3. req'[p] = r /\ \A q \in Handlers \ {p} : req'[q] = req[q]
  BY <1>2 DEF Becomes, Linked, SlotInv, Ownership, TypeOK
<1>4. ASSUME InFlight(p)'
      PROVE  /\ r.pc = found /\ r.bot = b /\ r.op = op /\ r.droplet = bots[b].droplet
             /\ Placed(r, bots[b], cloud)
  <2>1. r = At(Reading(op, b), found)
    BY <1>2, <1>3, <1>4, LabelTypes DEF InFlight, Answered, Idle
  <2>2. r.pc = found /\ r.bot = b /\ r.op = op /\ r.droplet = bots[b].droplet
    BY <2>1 DEF At, Reading, Idle
  <2>3. ~Up(cloud, NoDroplet)
    BY StoreAssumption DEF Up
  <2>4. Placed(r, bots[b], cloud)
    BY <2>2, <2>3 DEF Placed, HeldLabels, DownLabels, NewLabels, FirstLabels
  <2> QED  BY <2>2, <2>4
<1> QED  BY <1>1, <1>2, <1>3, <1>4, StartKeepsLinked

\* A creation starts on an id no row and no droplet has.
LEMMA ReserveKeepsLinked ==
    ASSUME Linked, SlotInv', NEW p \in Handlers, NEW a \in Accounts, ReserveSlot(p, a)
    PROVE  Linked'
<1>1. PICK b : b = CHOOSE id \in Bots \ uuids : TRUE
  OBVIOUS
<1>2. PICK new : new = [Idle EXCEPT !.pc = "create_bot", !.op = "create", !.bot = b, !.account = a]
  OBVIOUS
<1>3. /\ b \in Bots \ uuids /\ UNCHANGED <<bots, cloud>> /\ ~InFlight(p)
  BY <1>1, LabelTypes DEF ReserveSlot, InFlight, Linked, SlotInv, Ownership, TypeOK, StoreTypeOK
<1>4. Quiet(b) /\ bots[b].status = "absent"
  BY <1>3 DEF Linked, SlotInv, Ownership, IdsDrawn, Quiet, BotExists
<1>5. bots[b].droplet = NoDroplet
  BY <1>3, <1>4 DEF Linked, AllSound, Sound, RowTrue
<1>6. /\ new.pc = "create_bot" /\ new.op = "create" /\ new.bot = b /\ new.droplet = NoDroplet
  BY <1>2 DEF Idle
<1>7. PICK r : Becomes(p, r) /\ (r = new \/ (r.pc = "failed" /\ r.op = "create"))
  <2>1. LET none == [Idle EXCEPT !.pc = "failed", !.op = "create"]
        IN  none.pc = "failed" /\ none.op = "create"
    BY DEF Idle
  <2> QED  BY <1>1, <1>2, <2>1 DEF ReserveSlot
<1>8. req'[p] = r /\ \A q \in Handlers \ {p} : req'[q] = req[q]
  BY <1>7 DEF Becomes, Linked, SlotInv, Ownership, TypeOK
<1>9. Placed(new, bots[b], cloud)
  <2>1. ~Up(cloud, NoDroplet)
    BY StoreAssumption DEF Up
  <2> QED  BY <1>5, <1>6, <2>1 DEF Placed, HeldLabels, DownLabels, NewLabels
<1>10. InFlight(p)' => r = new
  BY <1>7, <1>8, LabelTypes DEF InFlight
<1> QED  BY <1>3, <1>4, <1>5, <1>6, <1>7, <1>8, <1>9, <1>10, StartKeepsLinked

----------------------------------------------------------------------------
(* The invariant, and what it says.                                         *)

\* Everything is linked when nothing is there yet.
LEMMA LinkedInit == Init => Linked
<1> SUFFICES ASSUME Init PROVE Linked
  OBVIOUS
<1>1. /\ \A b \in Bots : bots[b].droplet = NoDroplet
      /\ \A p \in Handlers : req[p].pc = "idle" /\ req[p].op = "none"
      /\ \A d : ~Up(cloud, d)
  BY DEF Init, StoreInit, CloudInit, NoBotRow, Idle, Up
<1>2. AllSound
  BY <1>1, LabelTypes DEF AllSound, Sound, RowTrue, Known, InFlight, Idle
<1> QED  BY <1>1, <1>2, SlotInit DEF Linked, DropletsHaveBots, DestroysMark, IsUp, Up

\* Every step of the service keeps the invariant.
LEMMA LinkedNext == OneAtATime /\ Linked /\ [Next]_vars => Linked'
<1> SUFFICES ASSUME OneAtATime, Linked, [Next]_vars PROVE Linked'
  OBVIOUS
<1>0. SlotInv'
  BY SlotNext DEF Linked
<1>1. CASE UNCHANGED <<bots, cloud, req>>
  BY <1>0, <1>1 DEF Linked, AllSound, Quiet, InFlight, DropletsHaveBots, IsUp, DestroysMark
<1>2. ASSUME NEW d \in Droplets, Boot(d) \/ PowerOff(d), UNCHANGED req PROVE Linked'
  <2>1. CloudAlike /\ UNCHANGED bots
    BY <1>2
       DEF Boot, PowerOff, WithPower, CloudAlike, Up, tables, Linked, SlotInv, Ownership, TypeOK,
           CloudTypeOK, CloudRows
  <2>2. AllSound'
    BY <1>2, <2>1, AlikeIsSound DEF Linked, AllSound, Quiet, InFlight
  <2>3. DropletsHaveBots'
    BY <2>1 DEF Linked, DropletsHaveBots, CloudAlike, IsUp, Up
  <2> QED  BY <1>0, <1>2, <2>1, <2>2, <2>3 DEF Linked, DestroysMark, InFlight
<1>3. ASSUME NEW p \in Handlers, Step(p) \/ Cancel(p) PROVE Linked'
  <2>1. CASE InFlight(p)
    BY <1>0, <1>3, <2>1, StepKeepsLinked
  <2>2. CASE ~InFlight(p)
    <3>1. Reply(p)
      BY <1>3, <2>2, IdleSteps
    <3>2. /\ UNCHANGED <<bots, cloud>>
          /\ req'[p] = Idle /\ \A q \in Handlers \ {p} : req'[q] = req[q]
      BY <3>1 DEF Reply, Becomes, tables, Linked, SlotInv, Ownership, TypeOK
    <3> QED  BY <1>0, <2>2, <3>2, StartKeepsLinked, LabelTypes DEF InFlight, Idle
  <2> QED  BY <2>1, <2>2
<1>4. ASSUME NEW p \in Handlers, Start(p) PROVE Linked'
  <2>1. CASE \E a \in Accounts : ReserveSlot(p, a)
    BY <1>0, <2>1, ReserveKeepsLinked
  <2>2. ASSUME NEW b \in Bots, BeginDestroy(p, b) \/ BeginPause(p, b)
                                 \/ BeginResume(p, b) \/ BeginRedeploy(p, b)
        PROVE  Linked'
    BY <1>0, <2>2, BeginKeepsLinked
       DEF BeginDestroy, BeginPause, BeginResume, BeginRedeploy, Operations, FirstLabels,
           DestroyLabels
  <2> QED  BY <1>4, <2>1, <2>2 DEF Start
<1> QED
  BY <1>1, <1>2, <1>3, <1>4 DEF Next, vars, tables, CreateAccount, UpdateSubscription

\* The droplet that a bot has running was built with the token in the bot's row, however
\* spawns and redeploys fail and wherever they are dropped, as long as clients send one
\* request at a time on a bot.
THEOREM AgentCanAuthenticateHolds ==
    ASSUME OneAtATime
    PROVE  Spec => []AgentCanAuthenticate
<1>1. Linked => AgentCanAuthenticate
  BY DEF Linked, SlotInv, Ownership, DropletsKnown, AllSound, Sound, RowTrue, Up, IsUp,
         AgentCanAuthenticate
<1> QED  BY <1>1, LinkedInit, LinkedNext, PTL DEF Spec

\* If moreover no request is dropped, the reply to a creation is never lost and the
\* cleanup reaches DigitalOcean, every droplet that is paid for is that of a live bot or
\* of a request at work on it.
THEOREM NoOrphanDropletHolds ==
    ASSUME Attended
    PROVE  Spec => []NoOrphanDroplet
<1>1. Linked => NoOrphanDroplet
  <2> SUFFICES ASSUME Linked, NEW d \in Droplets, IsUp(d)
               PROVE  \/ \E b \in Bots : bots[b].droplet = d /\ IsLive(b)
                      \/ \E p \in Handlers : InFlight(p) /\ req[p].droplet = d
    BY DEF NoOrphanDroplet
  <2>1. PICK b \in Bots : cloud[d].bot = b
    BY DEF Linked, DropletsHaveBots
  <2>2. Up(cloud, d)
    BY DEF Up, IsUp
  <2>3. CASE bots[b].droplet = d
    <3>1. RowTrue(bots[b], cloud)
      BY DEF Linked, AllSound, Sound, Quiet
    <3> QED  BY <2>3, <3>1, StoreAssumption DEF RowTrue, IsLive
  <2>4. CASE bots[b].droplet # d
    <3>1. ~Quiet(b)
      BY <2>1, <2>2, <2>4, LabelTypes DEF Linked, AllSound, Sound, Known, Idle
    <3>2. PICK p \in Handlers : InFlight(p) /\ req[p].bot = b
      BY <3>1 DEF Quiet
    <3> QED  BY <2>1, <2>2, <2>4, <3>2 DEF Linked, AllSound, Sound, Known
  <2> QED  BY <2>3, <2>4
<1>2. OneAtATime
  BY DEF Attended
<1> QED  BY <1>1, <1>2, LinkedInit, LinkedNext, PTL DEF Spec

\* On the same terms, a destroy request that succeeded leaves neither a live row nor any
\* droplet of the bot, whatever its retries met.
THEOREM DestroyedForGoodHolds ==
    ASSUME Attended
    PROVE  Spec => []DestroyedForGood
<1>1. Linked => DestroyedForGood
  <2> SUFFICES ASSUME Linked, NEW p \in Handlers, NEW b \in Bots,
                      req[p].pc = "ok", req[p].op = "destroy", req[p].bot = b
               PROVE  /\ ~IsLive(b) /\ bots[b].droplet = NoDroplet
                      /\ \A d \in Droplets : cloud[d].bot = b => ~IsUp(d)
    BY DEF DestroyedForGood
  <2>1. bots[b].status = "destroyed"
    BY DEF Linked, DestroysMark
  <2>2. RowTrue(bots[b], cloud)
    BY DEF Linked, AllSound, Sound, Quiet
  <2>3. bots[b].droplet = NoDroplet
    BY <2>1, <2>2 DEF RowTrue
  <2>4. ASSUME NEW d \in Droplets, cloud[d].bot = b, IsUp(d) PROVE FALSE
    <3>1. Up(cloud, d) /\ bots[b].droplet # d
      BY <2>3, <2>4, StoreAssumption DEF Up, IsUp
    <3>2. ~Quiet(b)
      BY <2>4, <3>1, LabelTypes DEF Linked, AllSound, Sound, Known, Idle
    <3>3. PICK q \in Handlers : InFlight(q) /\ req[q].bot = b
      BY <3>2 DEF Quiet
    <3>4. req[q].pc \in {"decrement", "delete_bot"} /\ Placed(req[q], bots[b], cloud)
      BY <2>1, <3>3 DEF Linked, SlotInv, Settled, Fits, AllSound, Sound, InFlight
    <3>5. ~Up(cloud, req[q].droplet)
      BY <3>4 DEF Placed, DownLabels
    <3> QED  BY <2>4, <3>1, <3>3, <3>5 DEF Linked, AllSound, Sound, Known
  <2> QED  BY <2>1, <2>3, <2>4 DEF IsLive
<1>2. OneAtATime
  BY DEF Attended
<1> QED  BY <1>1, <1>2, LinkedInit, LinkedNext, PTL DEF Spec

----------------------------------------------------------------------------
(* What is shown of a bot.                                                  *)

\* The power calls are answered, and what they did is written down.
PowerAnswered ==
    /\ OneAtATime
    /\ ~Cancellation
    /\ "reboot" \notin LostReplies
    /\ "set_online" \notin Faults

\* A request that has destroyed the droplet is not stopped by the database before it has
\* said so.
ChangesTold ==
    /\ OneAtATime
    /\ ~Cancellation
    /\ Faults \cap {"mark_destroyed", "unlink_droplet", "delete_bot", "redeploy_mark", "get_latest",
                    "set_provisioning", "set_token", "set_pending", "set_error", "mark_failed"} = {}
    /\ LostReplies \cap {"destroy_droplet", "mark_destroyed", "unlink_droplet", "redeploy_destroy",
                         "redeploy_mark", "set_provisioning", "set_token"} = {}

\* Labels at which a request has not changed anything yet that the status does not say.
RestLabels == {"destroy_droplet", "redeploy_destroy", "shutdown", "set_paused", "get_droplet",
               "reboot", "set_online"}

\* Labels at which the row of a bot that exists already names a droplet, up or destroyed.
NamedLabels == SpawnLabels \cup RedeployLabels \cup {"destroy_droplet", "mark_destroyed"}

Stopped(c, d) == d \in Droplets => c[d].power \in {"stopping", "off", "gone"}

\* A paused bot is stopped until it is resumed, and a spawn has overwritten the status
\* before it makes a droplet.
Halts(r, row, c) ==
    /\ row.status = "paused" /\ r.pc # "set_online" => Stopped(c, row.droplet)
    /\ r.pc = "set_paused" => Stopped(c, row.droplet)
    /\ r.pc \in SpawnLabels \ {"set_provisioning"} => row.status # "paused"

\* The status is true of the droplet whenever the request can end without another word.
Honest(r, row, c) ==
    /\ row.status \notin {"absent", "destroyed"} /\ r.pc \notin Working \ RestLabels =>
         /\ row.droplet # NoDroplet
         /\ row.status \in {"provisioning", "online", "paused"} => Up(c, row.droplet)
    /\ r.pc \in {"set_paused", "reboot", "set_online"} => Up(c, row.droplet)
    /\ r.pc \in NamedLabels /\ r.op # "create" => row.droplet # NoDroplet

Tells(r, row, c) == (PowerAnswered => Halts(r, row, c)) /\ (ChangesTold => Honest(r, row, c))

AllTold ==
    \A b \in Bots :
        /\ \A p \in Handlers : InFlight(p) /\ req[p].bot = b => Tells(req[p], bots[b], cloud)
        /\ Quiet(b) => Tells(Idle, bots[b], cloud)

Telling == Linked /\ CreationInv /\ AllTold

\* What holds of another bot than the request's is not disturbed by its step.
LEMMA OthersStayTold ==
    ASSUME Linked, NEW p \in Handlers, CloudFrame(p),
           NEW b \in Bots \ {req[p].bot}, bots'[b] = bots[b], NEW r, Tells(r, bots[b], cloud)
    PROVE  Tells(r, bots'[b], cloud')
<1>1. bots[b].droplet \in Droplets => cloud'[bots[b].droplet] = cloud[bots[b].droplet]
  BY DEF Linked, SlotInv, Ownership, DropletsKnown, CloudFrame
<1> QED  BY <1>1 DEF Tells, Halts, Honest, Stopped, Up

\* A request that has ended leaves what it told.
LEMMA EndedIsTold ==
    ASSUME NEW r, r.pc \notin Working, NEW row, NEW c, Tells(r, row, c)
    PROVE  Tells(Idle, row, c)
<1>1. /\ Idle.pc \notin Working
      /\ SpawnLabels \cup {"set_paused", "reboot", "set_online"} \cup NamedLabels \subseteq Working
  BY LabelTypes DEF Idle, SpawnLabels, NamedLabels, RedeployLabels
<1> QED  BY <1>1 DEF Tells, Halts, Honest

\* A step of a request on bot b keeps what is told when it keeps it for b.
LEMMA OwnKeepsTold ==
    ASSUME Linked, AllTold, NEW p \in Handlers, InFlight(p), Own(p), CloudFrame(p),
           Tells(req'[p], bots'[req[p].bot], cloud')
    PROVE  AllTold'
<1>1. PICK b \in Bots : req[p].bot = b
  BY DEF Linked, SlotInv, Ownership, IdsDrawn, TypeOK, StoreTypeOK
<1>2. /\ \A q \in Handlers \ {p} : req'[q] = req[q] /\ (InFlight(q) => req[q].bot # b)
      /\ InFlight(p)' => req'[p].bot = b
  BY <1>1 DEF Own, Linked, SlotInv, Alone
<1>3. ASSUME NEW x \in Bots, NEW q \in Handlers, InFlight(q)', req'[q].bot = x
      PROVE  Tells(req'[q], bots'[x], cloud')
  <2>1. CASE x = b
    BY <1>1, <1>2, <1>3, <2>1 DEF InFlight
  <2>2. CASE x # b
    <3>1. q # p /\ InFlight(q) /\ req'[q] = req[q] /\ bots'[x] = bots[x]
      BY <1>1, <1>2, <1>3, <2>2 DEF InFlight, Own
    <3>2. Tells(req[q], bots[x], cloud)
      BY <1>3, <3>1 DEF AllTold
    <3> QED  BY <1>1, <2>2, <3>1, <3>2, OthersStayTold
  <2> QED  BY <2>1, <2>2
<1>4. ASSUME NEW x \in Bots, Quiet(x)' PROVE Tells(Idle, bots'[x], cloud')
  <2>1. CASE x = b
    <3>1. ~InFlight(p)'
      BY <1>2, <1>4, <2>1 DEF Quiet
    <3>2. PICK r, row, c : r = req'[p] /\ row = bots'[b] /\ c = cloud'
      OBVIOUS
    <3>3. Tells(Idle, row, c)
      BY <1>1, <3>1, <3>2, EndedIsTold DEF InFlight
    <3> QED  BY <2>1, <3>2, <3>3
  <2>2. CASE x # b
    <3>1. Quiet(x) /\ bots'[x] = bots[x]
      BY <1>1, <1>2, <1>4, <2>2 DEF Quiet, InFlight, Own
    <3>2. Tells(Idle, bots[x], cloud)
      BY <3>1 DEF AllTold
    <3> QED  BY <1>1, <2>2, <3>1, <3>2, OthersStayTold
  <2> QED  BY <2>1, <2>2
<1> QED  BY <1>3, <1>4 DEF AllTold

\* A droplet that powers on or off by itself changes nothing here.
LEMMA DriftKeepsTold ==
    ASSUME Linked, AllTold, NEW d \in Droplets, Boot(d) \/ PowerOff(d), UNCHANGED req
    PROVE  AllTold'
<1>1. /\ CloudAlike /\ UNCHANGED bots
      /\ \A x \in Droplets : Stopped(cloud, x) => Stopped(cloud', x)
  BY DEF Boot, PowerOff, WithPower, CloudAlike, Up, Stopped, tables, Linked, SlotInv, Ownership,
         TypeOK, CloudTypeOK, CloudRows
<1>2. ASSUME NEW r, NEW row, Tells(r, row, cloud) PROVE Tells(r, row, cloud')
  <2>1. \A x : /\ Up(cloud', x) <=> Up(cloud, x)
               /\ Stopped(cloud, x) => Stopped(cloud', x)
    BY <1>1 DEF CloudAlike, Up, Stopped
  <2> QED  BY <1>2, <2>1 DEF Tells, Halts, Honest
<1> QED  BY <1>1, <1>2 DEF AllTold, Quiet, InFlight

\* A step that leaves the bots and the droplets alone and starts at most one request, on
\* a bot nobody works on, keeps what is told when it tells it.
LEMMA StartKeepsTold ==
    ASSUME AllTold, UNCHANGED <<bots, cloud>>, NEW p \in Handlers, ~InFlight(p),
           \A q \in Handlers \ {p} : req'[q] = req[q],
           InFlight(p)' => Tells(req'[p], bots[req'[p].bot], cloud)
    PROVE  AllTold'
<1>1. ASSUME NEW b \in Bots, Quiet(b)' PROVE Quiet(b)
  BY <1>1 DEF Quiet, InFlight
<1> QED  BY <1>1 DEF AllTold, InFlight

\* What each step has to show.
KeptTold(p) == Tells(req'[p], bots'[req[p].bot], cloud')

\* What is known of the request that takes the step, and where it may go.
LEMMA ToldStanding ==
    ASSUME Linked, AllTold, NEW p \in Handlers, InFlight(p)
    PROVE  /\ Tells(req[p], bots[req[p].bot], cloud)
           /\ \A label : At(req[p], label).pc = label /\ At(req[p], label).op = req[p].op
           /\ \A result : Answered(req[p], result).pc = result
           /\ Failed(req[p]).pc = IF req[p].op = "create" THEN "hard_delete" ELSE "failed"
           /\ Failed(req[p]).op = req[p].op
           /\ \A giveUp : Retried(req[p], giveUp).pc \in {req[p].pc, giveUp.pc}
<1>1. req[p].bot \in Bots /\ req[p] \in Requests
  BY Standing
<1>2. Tells(req[p], bots[req[p].bot], cloud)
  BY <1>1 DEF AllTold
<1> QED  BY <1>1, <1>2 DEF At, Answered, Failed, Retried, Idle, Requests

\* What an update of the row does.
Updated(p, row, next, error) ==
    LET b == req[p].bot IN
    /\ cloud' = cloud
    /\ \/ BotExists(b) /\ bots'[b] = row /\ req'[p] = next
       \/ BotExists(b) /\ bots'[b] = row /\ req'[p] = error /\ req[p].pc \in LostReplies
       \/ /\ req[p].pc \in Faults \/ ~BotExists(b)
          /\ bots'[b] = bots[b] /\ req'[p] = error

\* An update of the row does just that.
LEMMA UpdateOutcomes ==
    ASSUME TypeOK, NEW p \in Handlers, req[p].bot \in Bots, NEW row, NEW next, NEW error,
           UpdateBot(p, WithBot(req[p].bot, row), next, error)
    PROVE  Updated(p, row, next, error)
<1>1. PICK b \in Bots : b = req[p].bot
  OBVIOUS
<1>2. PICK o \in Outcomes(req[p].pc) :
        /\ bots' = After(o, WithBot(b, row), bots)
        /\ Becomes(p, IF o = "done" /\ BotExists(b) THEN next ELSE error)
        /\ cloud' = cloud
  BY <1>1 DEF UpdateBot
<1>3. req'[p] = IF o = "done" /\ BotExists(b) THEN next ELSE error
  BY <1>2 DEF Becomes, TypeOK
<1>4. CASE BotExists(b) /\ o # "refused"
  <2>1. bots'[b] = row
    BY <1>2, <1>4 DEF After, WithBot, TypeOK, StoreTypeOK
  <2> QED  BY <1>1, <1>2, <1>3, <1>4, <2>1 DEF Outcomes, Updated
<1>5. CASE ~(BotExists(b) /\ o # "refused")
  <2>1. bots' = bots /\ (req[p].pc \in Faults \/ ~BotExists(b))
    BY <1>2, <1>5 DEF After, WithBot, Outcomes
  <2> QED  BY <1>1, <1>2, <1>3, <1>5, <2>1 DEF Updated
<1> QED  BY <1>4, <1>5

\* While a spawn is at work the status is not paused, and what it updates of the row
\* leaves the droplet.
LEMMA SpawnUpdateIsTold ==
    ASSUME Linked, AllTold, NEW p \in Handlers,
           SetProvisioning(p) \/ SetPending(p) \/ SetError(p) \/ MarkFailed(p)
    PROVE  KeptTold(p)
<1>0. InFlight(p)
  BY LabelTypes DEF SetProvisioning, SetPending, SetError, MarkFailed, InFlight
<1>1. PICK b \in Bots : b = req[p].bot
  BY <1>0, Standing
<1>2. PICK s, row, next :
        /\ s \in {"provisioning", "pending", "error"}
        /\ row = [bots[req[p].bot] EXCEPT !.status = s]
        /\ UpdateBot(p, WithBot(req[p].bot, row), next, Failed(req[p]))
        /\ next \in IF s = "provisioning" THEN {At(req[p], "set_token")} ELSE {Failed(req[p])}
        /\ req[p].pc \in IF s = "provisioning" THEN {"set_provisioning"}
                                               ELSE {"set_pending", "set_error", "mark_failed"}
  BY DEF SetProvisioning, SetPending, SetError, MarkFailed, WithStatus
<1>3. /\ bots[b] \in BotRows /\ Fits(req[p].pc, req[p].op, bots[b].status)
      /\ Tells(req[p], bots[b], cloud)
  BY <1>0, <1>1, Standing, ToldStanding
<1>4. row.status = s /\ row.droplet = bots[b].droplet
  BY <1>1, <1>2, <1>3 DEF BotRows
<1>5. PICK r, new : r = req'[p] /\ new = bots'[b]
  OBVIOUS
<1>6. /\ cloud' = cloud
      /\ \/ new = row /\ r = next
         \/ new = row /\ r = Failed(req[p]) /\ req[p].pc \in LostReplies
         \/ new = bots[b] /\ r = Failed(req[p]) /\ (req[p].pc \in Faults \/ ~BotExists(b))
  <2>1. TypeOK /\ req[p].bot \in Bots
    BY <1>1 DEF Linked, SlotInv, Ownership
  <2>2. Updated(p, row, next, Failed(req[p]))
    BY <1>2, <2>1, UpdateOutcomes
  <2> QED  BY <1>1, <1>5, <2>2 DEF Updated
<1>7. /\ At(req[p], "set_token").pc = "set_token" /\ At(req[p], "set_token").op = req[p].op
      /\ Failed(req[p]).pc = (IF req[p].op = "create" THEN "hard_delete" ELSE "failed")
      /\ Failed(req[p]).op = req[p].op
  BY <1>0, ToldStanding
<1>8. PowerAnswered => Halts(r, new, cloud)
  BY <1>2, <1>3, <1>4, <1>6, <1>7 DEF Tells, Halts, SpawnLabels
<1>9. ChangesTold => Honest(r, new, cloud)
  <2>1. CASE req[p].op = "create"
    BY <1>2, <1>6, <1>7, <2>1, LabelTypes
       DEF Honest, RestLabels, NamedLabels, SpawnLabels, RedeployLabels
  <2>2. CASE req[p].op # "create"
    <3>1. BotExists(b)
      BY <1>3, <2>2 DEF Fits, BotExists
    <3>2. bots[b].droplet # NoDroplet \/ ~ChangesTold
      BY <1>2, <1>3, <2>2 DEF Tells, Honest, NamedLabels, SpawnLabels
    <3> QED
      BY <1>2, <1>4, <1>6, <1>7, <2>2, <3>1, <3>2, LabelTypes
         DEF ChangesTold, Honest, RestLabels, NamedLabels, SpawnLabels, RedeployLabels
  <2> QED  BY <2>1, <2>2
<1> QED  BY <1>1, <1>5, <1>6, <1>8, <1>9 DEF KeptTold, Tells

\* The status says nothing yet of what a spawn does to the droplet.
LEMMA SpawningIsTold ==
    ASSUME NEW r, NEW row, NEW c, NEW old, Tells(old, row, c), NEW new, NEW c2,
           old.pc \in SpawnLabels \ {"set_provisioning"}, r.pc \in SpawnLabels \ {"set_provisioning"},
           r.op = old.op, new.status = row.status,
           row.droplet # NoDroplet => new.droplet # NoDroplet
    PROVE  Tells(r, new, c2)
BY LabelTypes DEF Tells, Halts, Honest, SpawnLabels, NamedLabels, RestLabels

\* The calls of a spawn that leave the row alone.
LEMMA SpawnMoveIsTold ==
    ASSUME Linked, AllTold, NEW p \in Handlers,
           CreateDroplet(p) \/ InsertDroplet(p) \/ AssignDroplet(p) \/ CleanupDroplet(p)
    PROVE  KeptTold(p)
<1>0. InFlight(p)
  BY LabelTypes DEF CreateDroplet, InsertDroplet, AssignDroplet, CleanupDroplet, InFlight
<1>1. PICK r, row, c : r = req'[p] /\ row = bots[req[p].bot] /\ c = cloud'
  OBVIOUS
<1>2. bots' = bots /\ Tells(req[p], row, cloud) /\ req[p] \in Requests
  BY <1>0, <1>1, Standing, ToldStanding
     DEF CreateDroplet, InsertDroplet, AssignDroplet, CleanupDroplet, tables
<1>3. \E next : /\ Becomes(p, next) /\ next.op = req[p].op
                /\ next.pc \in SpawnLabels \ {"set_provisioning"}
  <2>1. \A label : At(req[p], label).pc = label /\ At(req[p], label).op = req[p].op
    BY <1>0, ToldStanding
  <2>2. CASE CreateDroplet(p)
    <3>1. /\ LET new == [At(req[p], "insert_droplet") EXCEPT !.droplet = NewDroplet, !.token = 0]
             IN  new.pc = "insert_droplet" /\ new.op = req[p].op
          /\ \A label \in {"set_pending", "set_error"} :
               LET new == [At(req[p], label) EXCEPT !.token = 0]
               IN  new.pc = label /\ new.op = req[p].op
          /\ LET new == [req[p] EXCEPT !.tries = @ + 1]
             IN  new.pc = req[p].pc /\ new.op = req[p].op
      BY <1>2 DEF At, Requests
    <3> QED  BY <2>2, <3>1 DEF CreateDroplet, SpawnLabels
  <2>3. CASE InsertDroplet(p)
    BY <2>1, <2>3 DEF InsertDroplet, SpawnLabels
  <2>4. CASE AssignDroplet(p)
    BY <2>1, <2>4 DEF AssignDroplet, SpawnLabels
  <2>5. CASE CleanupDroplet(p)
    BY <2>1, <2>5 DEF CleanupDroplet, SpawnLabels
  <2> QED  BY <2>2, <2>3, <2>4, <2>5
<1>4. r.op = req[p].op /\ r.pc \in SpawnLabels \ {"set_provisioning"}
  BY <1>1, <1>3 DEF Becomes, Linked, SlotInv, Ownership, TypeOK
<1>5. req[p].pc \in SpawnLabels \ {"set_provisioning"}
  BY DEF CreateDroplet, InsertDroplet, AssignDroplet, CleanupDroplet, SpawnLabels
<1>6. Tells(r, row, c)
  BY <1>2, <1>4, <1>5, SpawningIsTold
<1> QED  BY <1>1, <1>2, <1>6 DEF KeptTold

\* A creation leaves the status alone until it spawns, and tells nothing by it.
LEMMA CreatingIsTold ==
    ASSUME NEW r, NEW c, NEW old, NEW row, Tells(old, row, c), NEW new,
           old.pc # "set_online", r.op = "create",
           r.pc \in CreateLabels \cup RollbackLabels \cup {"set_provisioning"},
           \/ new.status # "paused"
           \/ new.status = row.status /\ new.droplet = row.droplet
    PROVE  Tells(r, new, c)
BY LabelTypes
   DEF Tells, Halts, Honest, CreateLabels, RollbackLabels, SpawnLabels, NamedLabels, RedeployLabels,
       RestLabels

\* The token, and the link to the new droplet.
LEMMA SpawnLinkIsTold ==
    ASSUME Linked, AllTold, NEW p \in Handlers, SetToken(p) \/ LinkDroplet(p)
    PROVE  KeptTold(p)
<1>0. InFlight(p)
  BY LabelTypes DEF SetToken, LinkDroplet, InFlight
<1>1. PICK b \in Bots : b = req[p].bot
  BY <1>0, Standing
<1>2. /\ TypeOK /\ req[p] \in Requests /\ bots[b] \in BotRows
      /\ Fits(req[p].pc, req[p].op, bots[b].status)
      /\ Tells(req[p], bots[b], cloud) /\ Placed(req[p], bots[b], cloud)
  BY <1>0, <1>1, Standing, ToldStanding DEF Linked, SlotInv, Ownership
<1>3. PICK r, new : r = req'[p] /\ new = bots'[b]
  OBVIOUS
<1>4. /\ \A label : At(req[p], label).pc = label /\ At(req[p], label).op = req[p].op
      /\ \A result : Answered(req[p], result).pc = result
      /\ Failed(req[p]).pc = (IF req[p].op = "create" THEN "hard_delete" ELSE "failed")
      /\ Failed(req[p]).op = req[p].op
  BY <1>0, ToldStanding
<1>5. CASE SetToken(p)
  <2>1. PICK t, row, next : /\ row = [bots[req[p].bot] EXCEPT !.token = t]
                            /\ next = [At(req[p], "create_droplet") EXCEPT !.token = t]
                            /\ UpdateBot(p, WithBot(req[p].bot, row), next, Failed(req[p]))
    BY <1>5 DEF SetToken, WithToken
  <2>2. /\ row.status = bots[b].status /\ row.droplet = bots[b].droplet
        /\ next.pc = "create_droplet" /\ next.op = req[p].op
    BY <1>1, <1>2, <2>1 DEF BotRows, At, Requests
  <2>3. Updated(p, row, next, Failed(req[p]))
    BY <1>1, <1>2, <2>1, UpdateOutcomes
  <2>4. /\ cloud' = cloud
        /\ new.status = bots[b].status /\ new.droplet = bots[b].droplet
        /\ \/ r = next
           \/ r = Failed(req[p]) /\ (req[p].pc \in Faults \cup LostReplies \/ ~BotExists(b))
    BY <1>1, <1>3, <2>2, <2>3 DEF Updated
  <2>5. req[p].pc = "set_token"
    BY <1>5 DEF SetToken
  <2>6. CASE r = next
    <3>1. Tells(r, new, cloud)
      BY <1>2, <2>2, <2>4, <2>5, <2>6, SpawningIsTold DEF SpawnLabels
    <3> QED  BY <1>1, <1>3, <2>4, <3>1 DEF KeptTold
  <2>7. CASE /\ r = Failed(req[p])
             /\ req[p].pc \in Faults \cup LostReplies \/ ~BotExists(b)
    <3>1. CASE req[p].op = "create"
      <4>1. Tells(r, new, cloud)
        BY <1>2, <1>4, <2>4, <2>5, <2>7, <3>1, CreatingIsTold DEF RollbackLabels
      <4> QED  BY <1>1, <1>3, <2>4, <4>1 DEF KeptTold
    <3>2. CASE req[p].op # "create"
      <4>1. ~ChangesTold
        BY <1>2, <2>5, <2>7, <3>2 DEF ChangesTold, Fits, BotExists
      <4>2. Halts(r, new, cloud) \/ ~PowerAnswered
        BY <1>2, <1>4, <2>4, <2>5, <2>7, <3>2 DEF Tells, Halts, SpawnLabels
      <4> QED  BY <1>1, <1>3, <2>4, <4>1, <4>2 DEF KeptTold, Tells
    <3> QED  BY <3>1, <3>2
  <2> QED  BY <2>4, <2>6, <2>7
<1>6. CASE LinkDroplet(p)
  <2>1. PICK row, next, error :
          /\ row = [bots[req[p].bot] EXCEPT !.droplet = req[p].droplet]
          /\ next = Answered(req[p], "ok") /\ error = At(req[p], "cleanup_droplet")
          /\ UpdateBot(p, WithBot(req[p].bot, row), next, error)
    BY <1>6 DEF LinkDroplet, WithDroplet
  <2>2. /\ row.status = bots[b].status /\ row.droplet = req[p].droplet
        /\ next.pc = "ok" /\ error.pc = "cleanup_droplet" /\ error.op = req[p].op
    BY <1>1, <1>2, <1>4, <2>1 DEF BotRows
  <2>3. Updated(p, row, next, error)
    BY <1>1, <1>2, <2>1, UpdateOutcomes
  <2>4. /\ cloud' = cloud
        /\ \/ new = row /\ r \in {next, error}
           \/ new = bots[b] /\ r = error
    BY <1>1, <1>3, <2>3 DEF Updated
  <2>5. req[p].pc = "link_droplet" /\ Up(cloud, req[p].droplet) /\ req[p].droplet # NoDroplet
    BY <1>2, <1>6, StoreAssumption DEF LinkDroplet, Placed, NewLabels, Up
  <2>6. CASE r = error
    <3>1. Tells(r, new, cloud)
      BY <1>2, <2>2, <2>4, <2>5, <2>6, SpawningIsTold DEF SpawnLabels
    <3> QED  BY <1>1, <1>3, <2>4, <3>1 DEF KeptTold
  <2>7. CASE r = next /\ new = row
    <3>1. Tells(r, new, cloud)
      BY <1>2, <2>2, <2>5, <2>7, LabelTypes
         DEF Tells, Halts, Honest, SpawnLabels, NamedLabels, RedeployLabels, RestLabels
    <3> QED  BY <1>1, <1>3, <2>4, <3>1 DEF KeptTold
  <2> QED  BY <2>4, <2>6, <2>7
<1> QED  BY <1>5, <1>6

\* The steps of a creation and of its rollback.
LEMMA CreateStepIsTold ==
    ASSUME Linked, AllTold, OneAtATime, NEW p \in Handlers,
           InsertBot(p) \/ InsertConfig(p) \/ SetDesired(p) \/ RollbackBot(p) \/ RollbackCounter(p)
    PROVE  KeptTold(p)
<1>0. InFlight(p)
  BY LabelTypes DEF InsertBot, InsertConfig, SetDesired, RollbackBot, RollbackCounter, InFlight
<1>1. PICK b \in Bots : b = req[p].bot
  BY <1>0, Standing
<1>2. /\ TypeOK /\ req[p] \in Requests /\ bots[b] \in BotRows
      /\ Fits(req[p].pc, req[p].op, bots[b].status) /\ Tells(req[p], bots[b], cloud)
  BY <1>0, <1>1, Standing, ToldStanding DEF Linked, SlotInv, Ownership
<1>3. PICK r, new : r = req'[p] /\ new = bots'[b]
  OBVIOUS
<1>4. req[p].pc \in CreateLabels \cup RollbackLabels /\ req[p].op = "create"
  BY <1>2
     DEF InsertBot, InsertConfig, SetDesired, RollbackBot, RollbackCounter, CreateLabels,
         RollbackLabels, Fits
<1>5. /\ \A label : At(req[p], label).pc = label /\ At(req[p], label).op = "create"
      /\ Failed(req[p]) = At(req[p], "hard_delete")
      /\ Answered(req[p], "failed").pc = "failed"
  BY <1>0, <1>4, ToldStanding DEF Failed
<1>6. cloud' = cloud
  BY DEF InsertBot, InsertConfig, SetDesired, RollbackBot, RollbackCounter, UpdateBot
<1>7. CASE RollbackCounter(p)
  <2>1. bots[b].status = "absent" /\ new = bots[b] /\ r.pc = "failed"
    BY <1>2, <1>3, <1>5, <1>7 DEF RollbackCounter, Fits, Becomes, TypeOK
  <2>2. Tells(r, new, cloud)
    BY <2>1, LabelTypes DEF Tells, Halts, Honest, SpawnLabels, NamedLabels, RedeployLabels
  <2> QED  BY <1>1, <1>3, <1>6, <2>2 DEF KeptTold
<1>8. CASE ~RollbackCounter(p)
  <2>1. \E label \in {"create_config", "set_desired", "set_provisioning", "hard_delete", "give_back"} :
          r = At(req[p], label)
    BY <1>2, <1>3, <1>5, <1>8
       DEF InsertBot, InsertConfig, SetDesired, UpdateBot, RollbackBot, Becomes, TypeOK
  <2>2. new.status # "paused" \/ (new.status = bots[b].status /\ new.droplet = bots[b].droplet)
    <3>1. CASE InsertConfig(p)
      BY <1>3, <3>1 DEF InsertConfig
    <3>2. CASE InsertBot(p)
      BY <1>1, <1>2, <1>3, <3>2 DEF InsertBot, After, Inserted, NoBotRow, TypeOK, StoreTypeOK
    <3>3. CASE RollbackBot(p)
      BY <1>1, <1>2, <1>3, <3>3 DEF RollbackBot, After, HardDeleted, NoBotRow, TypeOK, StoreTypeOK
    <3>4. CASE SetDesired(p)
      <4>1. PICK row, next : /\ row = [bots[b] EXCEPT !.desired = 1, !.applied = 0]
                             /\ UpdateBot(p, WithBot(req[p].bot, row), next, Failed(req[p]))
        BY <1>1, <3>4 DEF SetDesired, WithConfigVersion
      <4>2. row.status = bots[b].status /\ row.droplet = bots[b].droplet
        BY <1>2, <4>1 DEF BotRows
      <4>3. Updated(p, row, next, Failed(req[p]))
        BY <1>1, <1>2, <4>1, UpdateOutcomes
      <4> QED  BY <1>1, <1>3, <4>2, <4>3 DEF Updated
    <3> QED  BY <1>8, <3>1, <3>2, <3>3, <3>4
  <2>3. /\ r.op = "create" /\ r.pc \in CreateLabels \cup RollbackLabels \cup {"set_provisioning"}
        /\ req[p].pc # "set_online"
    BY <1>4, <1>5, <2>1 DEF CreateLabels, RollbackLabels
  <2>4. Tells(r, new, cloud)
    BY <1>2, <2>2, <2>3, CreatingIsTold
  <2> QED  BY <1>1, <1>3, <1>6, <2>4 DEF KeptTold
<1> QED  BY <1>7, <1>8

\* The labels of destroy_bot after the droplet say nothing.
LEMMA DestroyingIsTold ==
    ASSUME NEW r, NEW row, NEW c, r.pc \in {"unlink_droplet", "delete_bot", "decrement"},
           row.status = "paused" => ~PowerAnswered \/ Stopped(c, row.droplet)
    PROVE  Tells(r, row, c)
BY LabelTypes
   DEF Tells, Halts, Honest, SpawnLabels, NamedLabels, RedeployLabels, RestLabels

\* The droplet is destroyed, or the request fails with the droplet as it was.
LEMMA DestroyIsTold ==
    ASSUME Linked, AllTold, NEW p \in Handlers, DestroyDroplet(p) \/ RedeployDestroy(p)
    PROVE  KeptTold(p)
<1>0. InFlight(p)
  BY LabelTypes DEF DestroyDroplet, RedeployDestroy, InFlight
<1>1. PICK b \in Bots : b = req[p].bot
  BY <1>0, Standing
<1>2. /\ TypeOK /\ req[p] \in Requests /\ Tells(req[p], bots[b], cloud)
      /\ req[p].pc \in {"destroy_droplet", "redeploy_destroy"}
  BY <1>0, <1>1, Standing, ToldStanding
     DEF Linked, SlotInv, Ownership, DestroyDroplet, RedeployDestroy
<1>3. PICK r, row : r = req'[p] /\ row = bots'[b]
  OBVIOUS
<1>4. PICK o \in Outcomes(req[p].pc), label \in {"mark_destroyed", "redeploy_mark"} :
        /\ label = IF req[p].pc = "destroy_droplet" THEN "mark_destroyed" ELSE "redeploy_mark"
        /\ cloud' = After(o, IF IsUp(req[p].droplet) THEN Destroyed(req[p].droplet) ELSE cloud, cloud)
        /\ r = IF o = "done" THEN At(req[p], label) ELSE Answered(req[p], "failed")
        /\ row = bots[b]
  BY <1>2, <1>3
     DEF DestroyDroplet, RedeployDestroy, DestroyCall, Becomes, TypeOK, tables
<1>5. o = "done" => r.pc = label /\ r.op = req[p].op
  BY <1>2, <1>4 DEF At, Requests
<1>6. o # "done" => r.pc = "failed"
  BY <1>4 DEF Answered, Idle
<1>7. \A d : Stopped(cloud, d) => Stopped(cloud', d)
  BY <1>2, <1>4 DEF After, Destroyed, WithPower, Stopped, TypeOK, CloudTypeOK, CloudRows
<1>8. PowerAnswered => Halts(r, row, cloud')
  BY <1>2, <1>4, <1>5, <1>6, <1>7 DEF Tells, Halts, SpawnLabels
<1>9. ChangesTold => Honest(r, row, cloud')
  <2>1. CASE o = "done"
    BY <1>2, <1>4, <1>5, <2>1, LabelTypes
       DEF Tells, Honest, RestLabels, NamedLabels, RedeployLabels, SpawnLabels
  <2>2. CASE o # "done"
    <3>1. o = "refused" \/ ~ChangesTold
      BY <1>2, <2>2 DEF Outcomes, ChangesTold
    <3>2. ChangesTold => cloud' = cloud
      BY <1>4, <3>1 DEF After
    <3> QED
      BY <1>2, <1>4, <1>6, <2>2, <3>2, LabelTypes
         DEF Tells, Honest, RestLabels, NamedLabels, RedeployLabels, SpawnLabels
  <2> QED  BY <2>1, <2>2
<1> QED  BY <1>1, <1>3, <1>8, <1>9 DEF KeptTold, Tells

\* The destroyed droplet is marked, or without the mark the request says nothing.
LEMMA MarkIsTold ==
    ASSUME Linked, AllTold, NEW p \in Handlers, MarkDestroyed(p) \/ RedeployMark(p)
    PROVE  KeptTold(p)
<1>0. InFlight(p)
  BY LabelTypes DEF MarkDestroyed, RedeployMark, InFlight
<1>1. PICK b \in Bots : b = req[p].bot
  BY <1>0, Standing
<1>2. /\ TypeOK /\ req[p] \in Requests /\ Tells(req[p], bots[b], cloud) /\ bots[b] \in BotRows
      /\ Placed(req[p], bots[b], cloud) /\ Fits(req[p].pc, req[p].op, bots[b].status)
      /\ req[p].pc \in {"mark_destroyed", "redeploy_mark"}
  BY <1>0, <1>1, Standing, ToldStanding
     DEF Linked, SlotInv, Ownership, MarkDestroyed, RedeployMark
<1>3. PICK r : r = req'[p]
  OBVIOUS
<1>4. PICK label, error :
        /\ label = IF req[p].pc = "mark_destroyed" THEN "unlink_droplet" ELSE "get_latest"
        /\ error.pc \in {req[p].pc, "failed"}
        /\ MarkCall(p, label, error)
  <2>1. /\ \A result : Answered(req[p], result).pc = result
        /\ \A giveUp : Retried(req[p], giveUp).pc \in {req[p].pc, giveUp.pc}
    BY <1>0, ToldStanding
  <2> QED  BY <2>1 DEF MarkDestroyed, RedeployMark
<1>5. /\ bots' = bots /\ cloud' = cloud
      /\ \/ r = At(req[p], label)
         \/ r = error /\ (req[p].pc \in Faults \cup LostReplies \/ ~DropletExists(req[p].droplet))
  BY <1>2, <1>3, <1>4 DEF MarkCall, Outcomes, Becomes, TypeOK
<1>6. At(req[p], label).pc = label /\ At(req[p], label).op = req[p].op
  BY <1>0, ToldStanding
<1>7. PowerAnswered => Halts(r, bots[b], cloud)
  BY <1>2, <1>4, <1>5, <1>6 DEF Tells, Halts, SpawnLabels
<1>8. ChangesTold => Honest(r, bots[b], cloud)
  <2> SUFFICES ASSUME ChangesTold PROVE Honest(r, bots[b], cloud)
    OBVIOUS
  <2>1. req[p].op # "create" /\ bots[b].droplet = req[p].droplet
    BY <1>2 DEF Fits, CreateLabels, RollbackLabels, SpawnLabels, Placed, HeldLabels
  <2>2. bots[b].droplet \in Droplets
    BY <1>2, <2>1 DEF Tells, Honest, NamedLabels, RedeployLabels, BotRows
  <2>3. DropletExists(req[p].droplet)
    BY <2>1, <2>2 DEF Linked, SlotInv, Ownership, DropletOwnership
  <2>4. r.pc = label
    BY <1>2, <1>5, <1>6, <2>3 DEF ChangesTold
  <2> QED
    BY <1>2, <1>4, <2>1, <2>2, <2>4, LabelTypes, StoreAssumption
       DEF Honest, RestLabels, NamedLabels, RedeployLabels, SpawnLabels
<1> QED  BY <1>1, <1>3, <1>5, <1>7, <1>8 DEF KeptTold, Tells

\* The rest of destroy_bot.
LEMMA DestroyStepIsTold ==
    ASSUME Linked, AllTold, NEW p \in Handlers, UnlinkDroplet(p) \/ DeleteBot(p) \/ ReleaseSlot(p)
    PROVE  KeptTold(p)
<1>0. InFlight(p)
  BY LabelTypes DEF UnlinkDroplet, DeleteBot, ReleaseSlot, InFlight
<1>1. PICK b \in Bots : b = req[p].bot
  BY <1>0, Standing
<1>2. /\ TypeOK /\ req[p] \in Requests /\ Tells(req[p], bots[b], cloud) /\ bots[b] \in BotRows
      /\ Fits(req[p].pc, req[p].op, bots[b].status)
      /\ req[p].pc \in {"unlink_droplet", "delete_bot", "decrement"}
      /\ bots[b].status # "absent"
  BY <1>0, <1>1, Standing, ToldStanding
     DEF Linked, SlotInv, Ownership, UnlinkDroplet, DeleteBot, ReleaseSlot, Fits, CreateLabels,
         RollbackLabels, SpawnLabels
<1>3. PICK r, new : r = req'[p] /\ new = bots'[b]
  OBVIOUS
<1>4. /\ \A label : At(req[p], label).pc = label
      /\ \A result : Answered(req[p], result).pc = result
      /\ \A giveUp : Retried(req[p], giveUp).pc \in {req[p].pc, giveUp.pc}
  BY <1>0, ToldStanding
<1>5. ~Stopped(cloud, bots[b].droplet) /\ PowerAnswered => bots[b].status # "paused"
  BY <1>2 DEF Tells, Halts
<1>6. ~Stopped(cloud, NoDroplet) => FALSE
  BY StoreAssumption DEF Stopped
<1>7. ASSUME NEW s \in Working \cup {"ok", "failed"}, r.pc = s, cloud' = cloud,
             s \in {"ok", "failed"} => ~ChangesTold \/ new.status \in {"absent", "destroyed"},
             s \in Working => s \in {"unlink_droplet", "delete_bot", "decrement"},
             new.status \in {bots[b].status, "destroyed"}, new.droplet \in {bots[b].droplet, NoDroplet}
      PROVE  KeptTold(p)
  <2>1. Tells(r, new, cloud)
    BY <1>5, <1>6, <1>7, LabelTypes
       DEF Tells, Halts, Honest, SpawnLabels, NamedLabels, RedeployLabels, RestLabels
  <2> QED  BY <1>1, <1>3, <1>7, <2>1 DEF KeptTold
<1>8. CASE UnlinkDroplet(p)
  <2>1. PICK row, next, error :
          /\ row = [bots[req[p].bot] EXCEPT !.droplet = NoDroplet]
          /\ next = At(req[p], "delete_bot") /\ error = Retried(req[p], Answered(req[p], "failed"))
          /\ UpdateBot(p, WithBot(req[p].bot, row), next, error)
    BY <1>8 DEF UnlinkDroplet, WithDroplet
  <2>2. /\ row.status = bots[b].status /\ row.droplet = NoDroplet
        /\ next.pc = "delete_bot" /\ error.pc \in {"unlink_droplet", "failed"}
    BY <1>1, <1>2, <1>4, <1>8, <2>1 DEF BotRows, UnlinkDroplet
  <2>3. Updated(p, row, next, error)
    BY <1>1, <1>2, <2>1, UpdateOutcomes
  <2>4. /\ cloud' = cloud
        /\ new.status = bots[b].status /\ new.droplet \in {bots[b].droplet, NoDroplet}
        /\ r = next \/ (r = error /\ ~ChangesTold)
    BY <1>1, <1>2, <1>3, <1>8, <2>2, <2>3 DEF Updated, BotExists, ChangesTold, UnlinkDroplet
  <2> QED  BY <1>7, <2>2, <2>4, LabelTypes
<1>9. CASE DeleteBot(p)
  <2>1. PICK row, next, error :
          /\ row = [bots[req[p].bot] EXCEPT !.status = "destroyed"]
          /\ next = At(req[p], "decrement") /\ error = Retried(req[p], Answered(req[p], "failed"))
          /\ UpdateBot(p, WithBot(req[p].bot, row), next, error)
    BY <1>9 DEF DeleteBot, Deleted, WithStatus
  <2>2. /\ row.status = "destroyed" /\ row.droplet = bots[b].droplet
        /\ next.pc = "decrement" /\ error.pc \in {"delete_bot", "failed"}
    BY <1>1, <1>2, <1>4, <1>9, <2>1 DEF BotRows, DeleteBot
  <2>3. Updated(p, row, next, error)
    BY <1>1, <1>2, <2>1, UpdateOutcomes
  <2>4. /\ cloud' = cloud
        /\ new.status \in {bots[b].status, "destroyed"} /\ new.droplet = bots[b].droplet
        /\ r = next \/ (r = error /\ (new.status = "destroyed" \/ ~ChangesTold))
    BY <1>1, <1>2, <1>3, <1>9, <2>2, <2>3 DEF Updated, BotExists, ChangesTold, DeleteBot
  <2> QED  BY <1>7, <2>2, <2>4, LabelTypes
<1>10. CASE ReleaseSlot(p)
  <2>1. /\ cloud' = cloud /\ new = bots[b] /\ new.status = "destroyed"
        /\ r.pc \in {"ok", "decrement"}
    BY <1>2, <1>3, <1>4, <1>10 DEF ReleaseSlot, Becomes, TypeOK, Fits
  <2> QED  BY <1>7, <2>1, LabelTypes
<1> QED  BY <1>8, <1>9, <1>10

\* redeploy_bot finds the config of its bot.
LEMMA GetLatestIsTold ==
    ASSUME Linked, CreationInv, AllTold, NEW p \in Handlers, GetLatest(p)
    PROVE  KeptTold(p)
<1>0. InFlight(p) /\ req[p].pc = "get_latest"
  BY LabelTypes DEF GetLatest, InFlight
<1>1. PICK b \in Bots : b = req[p].bot
  BY <1>0, Standing
<1>2. /\ TypeOK /\ req[p] \in Requests /\ Tells(req[p], bots[b], cloud)
      /\ req[p].op # "create" /\ BotExists(b)
  BY <1>0, <1>1, Standing, ToldStanding
     DEF Linked, SlotInv, Ownership, Fits, CreateLabels, RollbackLabels, SpawnLabels, BotExists
<1>3. PICK r : r = req'[p]
  OBVIOUS
<1>4. /\ UNCHANGED <<bots, cloud>>
      /\ \/ r.pc = "set_provisioning" /\ r.op = req[p].op
         \/ r.pc = "failed" /\ (configs[b] = {} \/ "get_latest" \in Faults)
  <2>1. LET next == [At(req[p], "set_provisioning") EXCEPT !.droplet = NoDroplet]
        IN  next.pc = "set_provisioning" /\ next.op = req[p].op
    BY <1>2 DEF At, Requests
  <2>2. Answered(req[p], "failed").pc = "failed"
    BY DEF Answered, Idle
  <2> QED  BY <1>1, <1>2, <1>3, <2>1, <2>2 DEF GetLatest, Becomes, TypeOK, tables
<1>5. PowerAnswered => Halts(r, bots[b], cloud)
  BY <1>0, <1>2, <1>4 DEF Tells, Halts, SpawnLabels
<1>6. ChangesTold => Honest(r, bots[b], cloud)
  <2> SUFFICES ASSUME ChangesTold PROVE Honest(r, bots[b], cloud)
    OBVIOUS
  <2>1. bots[b].desired # 0
    <3> SUFFICES ASSUME bots[b].desired = 0 PROVE FALSE
      OBVIOUS
    <3>1. PICK q \in Handlers : /\ req[q].op = "create" /\ req[q].bot = b
                                /\ req[q].pc \in {"create_config", "set_desired", "hard_delete"}
      BY <1>2 DEF CreationInv, Told, ChangesTold, OneAtATime
    <3>2. InFlight(q)
      BY <3>1, LabelTypes DEF InFlight
    <3> QED  BY <1>0, <1>1, <1>2, <3>1, <3>2 DEF Linked, SlotInv, Alone
  <2>2. configs[b] # {}
    BY <2>1 DEF CreationInv, Ownership, DesiredConfigExists
  <2>3. r.pc = "set_provisioning" /\ r.op = req[p].op
    BY <1>4, <2>2 DEF ChangesTold
  <2> QED
    BY <1>0, <1>2, <2>3, LabelTypes
       DEF Tells, Honest, RestLabels, NamedLabels, RedeployLabels, SpawnLabels
<1> QED  BY <1>1, <1>3, <1>4, <1>5, <1>6 DEF KeptTold, Tells

\* The power actions and the look at the droplet.
LEMMA PowerIsTold ==
    ASSUME Linked, AllTold, NEW p \in Handlers, Shutdown(p) \/ GetDroplet(p) \/ Reboot(p)
    PROVE  KeptTold(p)
<1>0. InFlight(p)
  BY LabelTypes DEF Shutdown, GetDroplet, Reboot, InFlight
<1>1. PICK b \in Bots : b = req[p].bot
  BY <1>0, Standing
<1>2. PICK row, d : row = bots[b] /\ d = req[p].droplet
  OBVIOUS
<1>3. /\ TypeOK /\ req[p] \in Requests /\ Tells(req[p], row, cloud) /\ row \in BotRows
      /\ row.droplet = d /\ row.status \notin {"absent", "destroyed"}
      /\ req[p].pc \in {"shutdown", "get_droplet", "reboot"}
  BY <1>0, <1>1, <1>2, Standing, ToldStanding
     DEF Linked, SlotInv, Ownership, Shutdown, GetDroplet, Reboot, Placed, HeldLabels, Fits,
         CreateLabels, RollbackLabels, SpawnLabels
<1>4. PICK r : r = req'[p]
  OBVIOUS
<1>5. /\ \A label : At(req[p], label).pc = label
      /\ \A result : Answered(req[p], result).pc = result
  BY <1>0, ToldStanding
<1>6. /\ CloudAlike /\ bots' = bots
      /\ \/ r.pc = "failed" \/ (r.pc = "set_paused" /\ IsUp(d) /\ req[p].pc = "shutdown")
         \/ r.pc \in {"reboot", "set_online"} /\ IsUp(d)
  <2>1. CASE Shutdown(p)
    <3>1. cloud' = cloud \/ (IsUp(d) /\ cloud' = WithPower(d, "stopping"))
      BY <1>2, <2>1 DEF Shutdown, After, ShutDown, IsUp
    <3>2. CloudAlike
      BY <1>3, <3>1 DEF CloudAlike, Up, IsUp, WithPower, TypeOK, CloudTypeOK, CloudRows
    <3>3. bots' = bots /\ (r.pc = "failed" \/ (r.pc = "set_paused" /\ IsUp(d)))
      BY <1>2, <1>3, <1>4, <1>5, <2>1 DEF Shutdown, Becomes, TypeOK, tables
    <3> QED  BY <2>1, <3>2, <3>3 DEF Shutdown
  <2>2. CASE GetDroplet(p)
    BY <1>2, <1>3, <1>4, <1>5, <2>2 DEF GetDroplet, CloudAlike, Up, Becomes, TypeOK, tables
  <2>3. CASE Reboot(p)
    <3>1. cloud' = cloud \/ (IsUp(d) /\ cloud' = WithPower(d, "active"))
      BY <1>2, <2>3 DEF Reboot, After, Rebooted
    <3>2. CloudAlike
      BY <1>3, <3>1 DEF CloudAlike, Up, IsUp, WithPower, TypeOK, CloudTypeOK, CloudRows
    <3>3. bots' = bots /\ (r.pc = "failed" \/ (r.pc = "set_online" /\ IsUp(d)))
      BY <1>2, <1>3, <1>4, <1>5, <2>3 DEF Reboot, Becomes, TypeOK, tables
    <3> QED  BY <3>2, <3>3
  <2> QED  BY <2>1, <2>2, <2>3
<1>7. PowerAnswered => Halts(r, row, cloud')
  <2> SUFFICES ASSUME PowerAnswered PROVE Halts(r, row, cloud')
    OBVIOUS
  <2>1. CASE Shutdown(p)
    <3>1. Stopped(ShutDown(d), d) \/ ~IsUp(d)
      BY <1>3 DEF ShutDown, WithPower, Stopped, IsUp, TypeOK, CloudTypeOK, CloudRows, Powers
    <3>2. Stopped(cloud, d) => Stopped(ShutDown(d), d)
      BY DEF ShutDown, Stopped
    <3>3. /\ cloud' \in {cloud, ShutDown(d)}
          /\ r.pc = "failed" \/ (r.pc = "set_paused" /\ IsUp(d) /\ cloud' = ShutDown(d))
      BY <1>2, <1>3, <1>4, <1>5, <2>1 DEF Shutdown, After, Becomes, TypeOK
    <3>4. /\ Stopped(cloud, d) => Stopped(cloud', d)
          /\ r.pc \in {"set_paused", "failed"}
          /\ r.pc = "set_paused" => Stopped(cloud', d)
      BY <3>1, <3>2, <3>3
    <3> QED  BY <1>3, <3>4 DEF Tells, Halts, SpawnLabels
  <2>2. CASE GetDroplet(p)
    BY <1>3, <1>6, <2>2 DEF GetDroplet, Tells, Halts, SpawnLabels
  <2>3. CASE Reboot(p)
    <3>1. r.pc = "set_online" \/ (r.pc = "failed" /\ cloud' = cloud)
      BY <1>2, <1>3, <1>4, <1>5, <2>3 DEF Reboot, After, Outcomes, Becomes, TypeOK, PowerAnswered
    <3> QED  BY <1>3, <3>1 DEF Tells, Halts, SpawnLabels
  <2> QED  BY <2>1, <2>2, <2>3
<1>8. ChangesTold => Honest(r, row, cloud')
  <2> SUFFICES ASSUME ChangesTold PROVE Honest(r, row, cloud')
    OBVIOUS
  <2>1. d \in Droplets
    BY <1>3 DEF Tells, Honest, RestLabels, BotRows
  <2>2. /\ Up(cloud', d) <=> Up(cloud, d)
        /\ IsUp(d) => Up(cloud, d)
    BY <1>6, <2>1 DEF CloudAlike, Up, IsUp
  <2>3. row.status \in {"provisioning", "online", "paused"} => Up(cloud, row.droplet)
    BY <1>3 DEF Tells, Honest, RestLabels
  <2> QED
    BY <1>3, <1>6, <2>1, <2>2, <2>3, StoreAssumption, LabelTypes
       DEF Honest, NamedLabels, SpawnLabels, RedeployLabels
<1> QED  BY <1>1, <1>2, <1>4, <1>6, <1>7, <1>8 DEF KeptTold, Tells

\* The status after them.
LEMMA PowerStatusIsTold ==
    ASSUME Linked, AllTold, NEW p \in Handlers, SetPaused(p) \/ SetOnline(p)
    PROVE  KeptTold(p)
<1>0. InFlight(p)
  BY LabelTypes DEF SetPaused, SetOnline, InFlight
<1>1. PICK b \in Bots : b = req[p].bot
  BY <1>0, Standing
<1>2. /\ TypeOK /\ Tells(req[p], bots[b], cloud) /\ bots[b] \in BotRows
      /\ bots[b].status \notin {"absent", "destroyed"}
  BY <1>0, <1>1, Standing, ToldStanding
     DEF Linked, SlotInv, Ownership, SetPaused, SetOnline, Fits, CreateLabels, RollbackLabels,
         SpawnLabels
<1>3. PICK r, new : r = req'[p] /\ new = bots'[b]
  OBVIOUS
<1>4. PICK s, row, next, error :
        /\ s = IF req[p].pc = "set_paused" THEN "paused" ELSE "online"
        /\ req[p].pc \in {"set_paused", "set_online"}
        /\ row = [bots[req[p].bot] EXCEPT !.status = s]
        /\ next = Answered(req[p], "ok") /\ error = Answered(req[p], "failed")
        /\ UpdateBot(p, WithBot(req[p].bot, row), next, error)
  BY DEF SetPaused, SetOnline, WithStatus
<1>5. /\ row.status = s /\ row.droplet = bots[b].droplet
      /\ next.pc = "ok" /\ error.pc = "failed"
  BY <1>1, <1>2, <1>4 DEF BotRows, Answered, Idle
<1>6. Updated(p, row, next, error)
  BY <1>1, <1>2, <1>4, UpdateOutcomes
<1>7. /\ cloud' = cloud /\ r.pc \in {"ok", "failed"}
      /\ new = row \/ (new = bots[b] /\ req[p].pc \in Faults)
  BY <1>1, <1>2, <1>3, <1>5, <1>6 DEF Updated, BotExists
<1>8. PowerAnswered => Halts(r, new, cloud)
  <2> SUFFICES ASSUME PowerAnswered PROVE Halts(r, new, cloud)
    OBVIOUS
  <2>1. CASE req[p].pc = "set_paused"
    BY <1>2, <1>5, <1>7, <2>1 DEF Tells, Halts, SpawnLabels
  <2>2. CASE req[p].pc = "set_online"
    <3>1. new.status = "online"
      BY <1>4, <1>5, <1>7, <2>2 DEF PowerAnswered
    <3> QED  BY <1>7, <3>1 DEF Halts, SpawnLabels
  <2> QED  BY <1>4, <2>1, <2>2
<1>9. ChangesTold => Honest(r, new, cloud)
  <2>1. ChangesTold => /\ Up(cloud, bots[b].droplet)
                       /\ bots[b].droplet # NoDroplet
    BY <1>2, <1>4, StoreAssumption DEF Tells, Honest, Up
  <2> QED
    BY <1>4, <1>5, <1>7, <2>1, LabelTypes DEF Honest, NamedLabels, SpawnLabels, RedeployLabels
<1> QED  BY <1>1, <1>3, <1>7, <1>8, <1>9 DEF KeptTold, Tells

\* Every step of a request in flight.
LEMMA StepIsTold ==
    ASSUME Linked, CreationInv, AllTold, OneAtATime, NEW p \in Handlers, InFlight(p), Step(p)
    PROVE  KeptTold(p)
BY SpawnUpdateIsTold, SpawnLinkIsTold, SpawnMoveIsTold, CreateStepIsTold, DestroyIsTold, MarkIsTold,
   DestroyStepIsTold, GetLatestIsTold, PowerIsTold, PowerStatusIsTold, LabelTypes
   DEF Step, Reply, InFlight

----------------------------------------------------------------------------
(* The start of a request, and what the invariant says.                     *)

\* What is told of a quiet bot holds of the request that starts on it.
LEMMA BeginKeepsTold ==
    ASSUME Linked, AllTold, OneAtATime, NEW p \in Handlers, NEW op \in Operations \ {"create"},
           NEW b \in Bots, NEW found \in FirstLabels, Begin(p, op, b, found),
           found = "destroy_droplet" => bots[b].droplet # NoDroplet,
           found = "get_latest" => bots[b].droplet = NoDroplet,
           found = "set_paused" => bots[b].droplet = NoDroplet
    PROVE  AllTold'
<1>1. Quiet(b) /\ UNCHANGED <<bots, cloud>> /\ ~InFlight(p) /\ bots[b].status # "destroyed"
  BY LabelTypes DEF Begin, MayRequest, OneAtATime, tables, Quiet, InFlight
<1>2. Tells(Idle, bots[b], cloud) /\ Idle.pc = "idle"
  BY <1>1 DEF AllTold, Idle
<1>3. PICK r : /\ Becomes(p, r)
               /\ r = Answered(Reading(op, b), "failed") \/ (r = At(Reading(op, b), found) /\ BotExists(b))
  BY DEF Begin
<1>4. req'[p] = r /\ \A q \in Handlers \ {p} : req'[q] = req[q]
  BY <1>3 DEF Becomes, Linked, SlotInv, Ownership, TypeOK
<1>5. InFlight(p)' => r.pc = found /\ r.bot = b /\ BotExists(b) /\ found \in Working
  <2>1. Answered(Reading(op, b), "failed").pc \notin Working
    BY LabelTypes DEF Answered, Idle
  <2>2. At(Reading(op, b), found).pc = found /\ At(Reading(op, b), found).bot = b
    BY DEF At, Reading, Idle
  <2> QED  BY <1>3, <1>4, <2>1, <2>2 DEF InFlight
<1>6. ASSUME r.pc = found, BotExists(b), found \in Working PROVE Tells(r, bots[b], cloud)
  <2>1. Stopped(cloud, NoDroplet)
    BY StoreAssumption DEF Stopped
  <2>2. PowerAnswered => Halts(r, bots[b], cloud)
    BY <1>2, <1>6, <2>1 DEF Tells, Halts, SpawnLabels, FirstLabels
  <2>3. ChangesTold => Honest(r, bots[b], cloud)
    BY <1>1, <1>2, <1>6, LabelTypes
       DEF Tells, Honest, RestLabels, NamedLabels, SpawnLabels, RedeployLabels, FirstLabels, BotExists
  <2> QED  BY <2>2, <2>3 DEF Tells
<1> QED  BY <1>1, <1>4, <1>5, <1>6, StartKeepsTold

\* A creation starts with nothing to tell.
LEMMA ReserveKeepsTold ==
    ASSUME Linked, AllTold, NEW p \in Handlers, NEW a \in Accounts, ReserveSlot(p, a)
    PROVE  AllTold'
<1>1. PICK b : b = CHOOSE id \in Bots \ uuids : TRUE
  OBVIOUS
<1>2. PICK new : new = [Idle EXCEPT !.pc = "create_bot", !.op = "create", !.bot = b, !.account = a]
  OBVIOUS
<1>3. /\ b \in Bots \ uuids /\ UNCHANGED <<bots, cloud>> /\ ~InFlight(p)
  BY <1>1, LabelTypes DEF ReserveSlot, InFlight, Linked, SlotInv, Ownership, TypeOK, StoreTypeOK
<1>4. bots[b].status = "absent"
  BY <1>3 DEF Linked, SlotInv, Ownership, IdsDrawn, BotExists
<1>5. new.pc = "create_bot" /\ new.op = "create" /\ new.bot = b
  BY <1>2 DEF Idle
<1>6. PICK r : Becomes(p, r) /\ (r = new \/ r.pc = "failed")
  <2>1. [Idle EXCEPT !.pc = "failed", !.op = "create"].pc = "failed"
    BY DEF Idle
  <2> QED  BY <1>1, <1>2, <2>1 DEF ReserveSlot
<1>7. req'[p] = r /\ \A q \in Handlers \ {p} : req'[q] = req[q]
  BY <1>6 DEF Becomes, Linked, SlotInv, Ownership, TypeOK
<1>8. Tells(new, bots[b], cloud)
  BY <1>4, <1>5, LabelTypes
     DEF Tells, Halts, Honest, SpawnLabels, NamedLabels, RedeployLabels
<1>9. InFlight(p)' => r = new
  BY <1>6, <1>7, LabelTypes DEF InFlight
<1> QED  BY <1>3, <1>5, <1>7, <1>8, <1>9, StartKeepsTold

\* Everything is told when nothing is there yet.
LEMMA TellingInit == Init => Telling
<1> SUFFICES ASSUME Init PROVE Telling
  OBVIOUS
<1>1. /\ \A b \in Bots : bots[b].status = "absent"
      /\ \A p \in Handlers : ~InFlight(p)
      /\ Idle.pc = "idle"
  BY LabelTypes DEF Init, StoreInit, NoBotRow, Idle, InFlight
<1>2. AllTold
  BY <1>1, LabelTypes
     DEF AllTold, Tells, Halts, Honest, SpawnLabels, NamedLabels, RedeployLabels
<1> QED  BY <1>2, LinkedInit, CreationInit DEF Telling

\* Every step of the service keeps the invariant.
LEMMA TellingNext == OneAtATime /\ ~Cancellation /\ Telling /\ [Next]_vars => Telling'
<1> SUFFICES ASSUME OneAtATime, ~Cancellation, Telling, [Next]_vars PROVE Telling'
  OBVIOUS
<1>0. Linked' /\ CreationInv'
  BY LinkedNext, CreationNext DEF Telling, OneAtATime
<1>1. CASE UNCHANGED <<bots, cloud, req>>
  BY <1>0, <1>1 DEF Telling, AllTold, Quiet, InFlight
<1>2. ASSUME NEW d \in Droplets, Boot(d) \/ PowerOff(d), UNCHANGED req PROVE Telling'
  BY <1>0, <1>2, DriftKeepsTold DEF Telling
<1>3. ASSUME NEW p \in Handlers, Step(p) PROVE Telling'
  <2>1. CASE InFlight(p)
    <3>1. Own(p) /\ CloudFrame(p) /\ KeptTold(p)
      BY <1>3, <2>1, OwnSteps, StepIsSound, StepIsTold DEF Telling, Linked, OneAtATime, KeptSound
    <3> QED  BY <1>0, <2>1, <3>1, OwnKeepsTold DEF Telling, KeptTold
  <2>2. CASE ~InFlight(p)
    <3>1. Reply(p)
      BY <1>3, <2>2, IdleSteps
    <3>2. /\ UNCHANGED <<bots, cloud>>
          /\ req'[p] = Idle /\ \A q \in Handlers \ {p} : req'[q] = req[q]
      BY <3>1 DEF Reply, Becomes, tables, Telling, Linked, SlotInv, Ownership, TypeOK
    <3> QED  BY <1>0, <2>2, <3>2, StartKeepsTold, LabelTypes DEF Telling, InFlight, Idle
  <2> QED  BY <2>1, <2>2
<1>4. ASSUME NEW p \in Handlers, Start(p) PROVE Telling'
  <2>1. CASE \E a \in Accounts : ReserveSlot(p, a)
    BY <1>0, <2>1, ReserveKeepsTold DEF Telling
  <2>2. ASSUME NEW b \in Bots, BeginDestroy(p, b) \/ BeginPause(p, b)
                                 \/ BeginResume(p, b) \/ BeginRedeploy(p, b)
        PROVE  Telling'
    BY <1>0, <2>2, BeginKeepsTold
       DEF Telling, BeginDestroy, BeginPause, BeginResume, BeginRedeploy, Operations, FirstLabels
  <2> QED  BY <1>4, <2>1, <2>2 DEF Start
<1> QED
  BY <1>1, <1>2, <1>3, <1>4 DEF Next, Cancel, vars, tables, CreateAccount, UpdateSubscription

\* A bot that is paused does not run, however its pause, a later redeploy or a destroy
\* fail: its droplet is told to shut down before the status says so, and the status says
\* online again after a reboot that was answered.
THEOREM PausedBotIsStoppedHolds ==
    ASSUME PowerAnswered
    PROVE  Spec => []PausedBotIsStopped
<1>1. Telling => PausedBotIsStopped
  <2> SUFFICES ASSUME Telling, NEW b \in Bots, NEW d \in Droplets,
                      Quiet(b), bots[b].status = "paused", bots[b].droplet = d
               PROVE  cloud[d].power \in {"stopping", "off", "gone"}
    BY DEF PausedBotIsStopped
  <2>1. Tells(Idle, bots[b], cloud)
    BY DEF Telling, AllTold
  <2> QED  BY <2>1 DEF Tells, Halts, Stopped, Idle
<1>2. OneAtATime /\ ~Cancellation
  BY DEF PowerAnswered
<1> QED  BY <1>1, <1>2, TellingInit, TellingNext, PTL DEF Spec

\* A quiet bot said to be provisioning, online or paused has a droplet that is up, as
\* long as the database takes what a request has to say after it destroyed one.
THEOREM StatusTellsDropletHolds ==
    ASSUME ChangesTold
    PROVE  Spec => []StatusTellsDroplet
<1>1. Telling => StatusTellsDroplet
  <2> SUFFICES ASSUME Telling, NEW b \in Bots, Quiet(b),
                      bots[b].status \in {"provisioning", "online", "paused"}
               PROVE  bots[b].droplet # NoDroplet /\ IsUp(bots[b].droplet)
    BY DEF StatusTellsDroplet
  <2>1. Tells(Idle, bots[b], cloud) /\ Idle.pc \notin Working
    BY LabelTypes DEF Telling, AllTold, Idle
  <2> QED  BY <2>1 DEF Tells, Honest, Up, IsUp
<1>2. OneAtATime /\ ~Cancellation
  BY DEF ChangesTold
<1> QED  BY <1>1, <1>2, TellingInit, TellingNext, PTL DEF Spec
=============================================================================
