----------------------------- MODULE HttpProofs -----------------------------
(***************************************************************************)
(* What the answers of POST /bots and POST /bots/{id}/actions tell, proved *)
(* for any number of handlers, bots and droplets: a 404 is true, an action *)
(* answered "please retry" is accepted when it is made again, and a        *)
(* redeployment is not called a bad request after its droplet is           *)
(* destroyed; and what becomes of the texts they bring, for texts of any   *)
(* length.                                                                 *)
(*                                                                         *)
(* The errors come from calls deep in a request, and NotFound and          *)
(* InvalidConfig stand for several things there.  The invariant says which *)
(* of them cannot happen: the rows a request goes by are there.            *)
(*                                                                         *)
(* The texts take an induction, on how much of a text is converted.  The   *)
(* library's induction theorems are about operators, which the provers do  *)
(* not instantiate; its minimal elements are of sets, so the induction     *)
(* here is over the set of the lengths up to which all is well.            *)
(***************************************************************************)
EXTENDS HttpApi, UserText, RequestProofs, SequenceTheorems, WellFoundedInduction

----------------------------------------------------------------------------
(* The inductive invariant.                                                 *)

\* A creation between the INSERT of its bot and the end of its spawn.
RowLabels == {"create_config", "set_desired"} \cup SpawnLabels

\* Labels at which a request is about to use its droplet's row or will be after this.
DropletLabels == {"destroy_droplet", "mark_destroyed", "redeploy_destroy", "redeploy_mark",
                  "assign_droplet"}

\* The rows request r goes by are there: the bot of a creation is nobody else's to
\* delete, and rows of droplets are never deleted.
RowsOf(r) ==
    /\ r.op = "create" /\ r.pc \in RowLabels => BotExists(r.bot)
    /\ r.pc \in DropletLabels => DropletExists(r.droplet)

RowsKnown == \A p \in Handlers : RowsOf(req[p])

\* The labels of a request that has an error to return.
Errands == {"set_pending", "set_error", "cleanup_droplet", "mark_failed", "hard_delete", "give_back",
            "failed"}

\* Where request r stands with the error e it is going to return: only a resume asks for
\* the droplet, and only a spawn is rate limited.
Returning(r, e) ==
    /\ e # "none" => r.pc \in Errands
    /\ e = "RateLimited" => r.bot \in Bots
    /\ r.pc = "get_droplet" => r.op = "resume"

HttpInv ==
    /\ CreationInv
    /\ error \in [Handlers -> Errors]
    /\ RowsKnown
    /\ \A p \in Handlers : Returning(req[p], error[p])

----------------------------------------------------------------------------
(* A request refused at the door: the only step that Provisioning has not.  *)

\* It changes nothing but the request, which is over.
LEMMA RefusedRequest ==
    ASSUME TypeOK, NEW p \in Handlers, Refuse(p)
    PROVE  /\ UNCHANGED <<tables, cloud>> /\ TypeOK' /\ ~InFlight(p)
           /\ \A q \in Handlers \ {p} : req'[q] = req[q]
           /\ req'[p].pc = "failed" /\ req'[p].op \in {"create", "none"} /\ req'[p].bot = NoBot
<1>1. UNCHANGED <<tables, cloud>> /\ ~InFlight(p)
  BY LabelTypes DEF Refuse, InFlight
<1>2. PICK r \in {[Idle EXCEPT !.pc = "failed", !.op = "create"], [Idle EXCEPT !.pc = "failed"]} :
        Becomes(p, r)
  BY DEF Refuse
<1>3. r \in Requests /\ r.pc = "failed" /\ r.op \in {"create", "none"} /\ r.bot = NoBot
  <2>1. CASE r = [Idle EXCEPT !.pc = "failed", !.op = "create"]
    BY <2>1 DEF Idle, Requests, Operations
  <2>2. CASE r = [Idle EXCEPT !.pc = "failed"]
    BY <2>2 DEF Idle, Requests, Operations
  <2> QED  BY <2>1, <2>2
<1> QED  BY <1>1, <1>2, <1>3, MoveType DEF Becomes, TypeOK

\* So it keeps what is said of requests at work.
LEMMA RefuseKeepsCreation ==
    ASSUME CreationInv, NEW p \in Handlers, Refuse(p)
    PROVE  CreationInv'
<1>1. TypeOK
  BY DEF CreationInv, Ownership
<1>2. Ownership'
  <2>1. TameBots /\ TameDroplets /\ TameCloud
    BY <1>1, RefusedRequest, TameBotsIfSame, TameDropletsIfSame, TameCloudIfSame DEF tables
  <2>2. \A q \in Handlers : TameRequest(q)
    BY <1>1, RefusedRequest, LabelTypes DEF TameRequest, InFlight
  <2> QED  BY <1>1, <2>1, <2>2, RefusedRequest, TameKeepsOwnership DEF Tame, tables, CreationInv
<1>3. Creations'
  BY <1>1, RefusedRequest, LabelTypes DEF CreationInv, Creations, InFlight, tables
<1>4. Undone'
  BY <1>1, RefusedRequest, StoreAssumption DEF CreationInv, Undone, tables, BotExists
<1>5. Told'
  <2> SUFFICES ASSUME ~Cancellation, "hard_delete" \notin Faults,
                      NEW b \in Bots, BotExists(b)', bots'[b].desired = 0
               PROVE  \E q \in Handlers :
                        /\ req'[q].op = "create" /\ req'[q].bot = b
                        /\ req'[q].pc \in {"create_config", "set_desired", "hard_delete"}
    BY DEF Told
  <2>1. PICK q \in Handlers : /\ req[q].op = "create" /\ req[q].bot = b
                              /\ req[q].pc \in {"create_config", "set_desired", "hard_delete"}
    BY <1>1, RefusedRequest DEF CreationInv, Told, tables, BotExists
  <2>2. q # p
    BY <1>1, <2>1, RefusedRequest, LabelTypes DEF InFlight
  <2> QED  BY <1>1, <2>1, <2>2, RefusedRequest
<1> QED  BY <1>2, <1>3, <1>4, <1>5 DEF CreationInv

LEMMA RefuseKeepsSlots ==
    ASSUME SlotInv, Ownership', NEW p \in Handlers, Refuse(p)
    PROVE  SlotInv'
<1>1. TypeOK
  BY DEF SlotInv, Ownership
<1>2. \A x \in Accounts : accounts'[x].tier = "none" => accounts'[x].current_count = 0
  BY <1>1, RefusedRequest DEF SlotInv, AccountsKnown, tables
<1> QED  BY <1>1, <1>2, RefusedRequest, StartKeepsSlots, LabelTypes DEF tables, InFlight

----------------------------------------------------------------------------
(* The steps of the service.                                                *)

\* The rows that a step of request p leaves where they are: all of them, but for the bot
\* that a creation takes back.
LEMMA RowsStay ==
    ASSUME CreationInv, NEW p \in Handlers, InFlight(p), Step(p)
    PROVE  /\ \A b \in Bots :
                BotExists(b) => BotExists(b)' \/ (req[p].pc = "hard_delete" /\ req[p].bot = b)
           /\ \A d \in Droplets : DropletExists(d) => DropletExists(d)'
<1>1. TypeOK
  BY DEF CreationInv, Ownership
<1>2. ~Reply(p)
  BY LabelTypes DEF Reply, InFlight
<1>3. \A b \in Bots :
        BotExists(b) => BotExists(b)' \/ (req[p].pc = "hard_delete" /\ req[p].bot = b)
  <2>1. CASE MildStep(p)
    BY <2>1, MildSteps DEF Mild
  <2>2. CASE InsertBot(p) \/ InsertConfig(p) \/ RollbackBot(p)
    BY <1>1, <2>2
       DEF InsertBot, InsertConfig, RollbackBot, After, Inserted, HardDeleted, NoBotRow, BotExists,
           TypeOK, StoreTypeOK
  <2>3. CASE SetDesired(p)
    <3> DEFINE row == [bots[req[p].bot] EXCEPT !.desired = 1, !.applied = 0]
    <3>1. req[p].bot \in Bots => row.status = bots[req[p].bot].status
      BY <1>1 DEF TypeOK, StoreTypeOK, BotRows
    <3> HIDE DEF row
    <3>2. bots' = bots \/ bots' = [bots EXCEPT ![req[p].bot] = row]
      BY <2>3 DEF SetDesired, UpdateBot, After, WithConfigVersion, WithBot, row
    <3> QED  BY <1>1, <3>1, <3>2 DEF BotExists, TypeOK, StoreTypeOK
  <2> QED  BY <1>2, <2>1, <2>2, <2>3 DEF Step, MildStep
<1>4. \A d \in Droplets : DropletExists(d) => DropletExists(d)'
  <2>1. CASE TameStep(p)
    BY <2>1, TameSteps DEF Tame, TameDroplets, CreationInv
  <2>2. CASE InsertBot(p) \/ CreateDroplet(p) \/ LinkDroplet(p)
    BY <2>2 DEF InsertBot, CreateDroplet, LinkDroplet, UpdateBot, tables, DropletExists
  <2>3. CASE InsertDroplet(p)
    BY <1>1, <2>3 DEF InsertDroplet, After, DropletInserted, DropletExists, TypeOK, StoreTypeOK
  <2>4. CASE AssignDroplet(p)
    BY <1>1, <2>4
       DEF AssignDroplet, After, WithAssignment, DropletExists, TypeOK, StoreTypeOK, DropletRows
  <2> QED  BY <2>1, <2>2, <2>3, <2>4 DEF Step, TameStep
<1> QED  BY <1>3, <1>4

\* Where request r goes next: it keeps its bot, and where it matters its droplet, and one
\* with an error to return does not go back to work.
Goes(r, n) ==
    /\ n.bot = r.bot /\ n.op = r.op
    /\ n.pc # "get_droplet"
    /\ r.pc \in Errands => n.pc \in Errands
    /\ n.op = "create" /\ n.pc \in RowLabels => r.pc \in RowLabels \cup {"create_bot"}
    /\ n.pc \in DropletLabels =>
         n.droplet = r.droplet /\ r.pc \in DropletLabels \cup {"insert_droplet"}

LEMMA NextLabels ==
    ASSUME NEW r \in Requests, r.pc \in Working
    PROVE  /\ \A result \in {"ok", "failed"} :
                (r.pc \in Errands => result = "failed") => Goes(r, Answered(r, result))
           /\ Goes(r, Failed(r))
           /\ \A label \in Working \ {"get_droplet"} :
                /\ r.pc \in Errands => label \in Errands
                /\ r.op = "create" /\ label \in RowLabels => r.pc \in RowLabels \cup {"create_bot"}
                /\ label \in DropletLabels => r.pc \in DropletLabels \cup {"insert_droplet"}
                => Goes(r, At(r, label))
           /\ \A giveUp : r.pc # "get_droplet" /\ Goes(r, giveUp) => Goes(r, Retried(r, giveUp))
<1>1. \A result \in {"ok", "failed"} :
        (r.pc \in Errands => result = "failed") => Goes(r, Answered(r, result))
  BY DEF Goes, Answered, Idle, Errands, RowLabels, SpawnLabels, DropletLabels
<1>2. \A label \in Working \ {"get_droplet"} :
        /\ r.pc \in Errands => label \in Errands
        /\ r.op = "create" /\ label \in RowLabels => r.pc \in RowLabels \cup {"create_bot"}
        /\ label \in DropletLabels => r.pc \in DropletLabels \cup {"insert_droplet"}
        => Goes(r, At(r, label))
  BY DEF Goes, At, Requests
<1>3. Goes(r, Failed(r))
  <2>1. Goes(r, At(r, "hard_delete"))
    BY <1>2, LabelTypes DEF Errands, RowLabels, SpawnLabels, DropletLabels
  <2> QED  BY <1>1, <2>1 DEF Failed
<1>4. \A giveUp : r.pc # "get_droplet" /\ Goes(r, giveUp) => Goes(r, Retried(r, giveUp))
  BY DEF Goes, Retried, Requests
<1> QED  BY <1>1, <1>2, <1>3, <1>4

\* Every step of the service goes where a request may go, and comes to the rows it then
\* goes by only with the INSERT of that row.
LEMMA StepGoes ==
    ASSUME CreationInv, NEW p \in Handlers, InFlight(p), Step(p)
    PROVE  /\ Goes(req[p], req'[p])
           /\ \A q \in Handlers \ {p} : req'[q] = req[q]
           /\ req[p].pc = "create_bot" /\ req'[p].pc \in RowLabels => bots'[req[p].bot].status # "absent"
           /\ req[p].pc = "insert_droplet" /\ req'[p].pc \in DropletLabels
                => droplets'[req[p].droplet].status # "absent"
<1> DEFINE r == req[p]
<1>1. TypeOK /\ r \in Requests /\ r.pc \in Working /\ r.bot \in Bots
  BY DEF CreationInv, Ownership, IdsDrawn, TypeOK, StoreTypeOK, InFlight
<1>2. /\ \A result \in {"ok", "failed"} :
            (r.pc \in Errands => result = "failed") => Goes(r, Answered(r, result))
      /\ Goes(r, Failed(r))
      /\ \A label \in Working \ {"get_droplet"} :
           /\ r.pc \in Errands => label \in Errands
           /\ r.op = "create" /\ label \in RowLabels => r.pc \in RowLabels \cup {"create_bot"}
           /\ label \in DropletLabels => r.pc \in DropletLabels \cup {"insert_droplet"}
           => Goes(r, At(r, label))
      /\ \A giveUp : r.pc # "get_droplet" /\ Goes(r, giveUp) => Goes(r, Retried(r, giveUp))
  BY <1>1, NextLabels
<1>3. ASSUME NEW n, Becomes(p, n), Goes(r, n)
      PROVE  req'[p] = n /\ Goes(r, req'[p]) /\ \A q \in Handlers \ {p} : req'[q] = req[q]
  BY <1>1, <1>3 DEF Becomes, TypeOK
<1>4. (\E n : Becomes(p, n) /\ Goes(r, n))
        => Goes(r, req'[p]) /\ \A q \in Handlers \ {p} : req'[q] = req[q]
  BY <1>3
<1>5. \E n : Becomes(p, n) /\ Goes(r, n)
  <2> HIDE DEF r
  <2> USE <1>1, <1>2, LabelTypes DEF r, Errands, RowLabels, SpawnLabels, DropletLabels
  <2>1. CASE InsertBot(p) \/ InsertConfig(p) \/ SetDesired(p) \/ RollbackBot(p) \/ RollbackCounter(p)
    BY <2>1 DEF InsertBot, InsertConfig, SetDesired, RollbackBot, RollbackCounter, UpdateBot
  <2>2. CASE SetProvisioning(p) \/ SetPending(p) \/ SetError(p) \/ MarkFailed(p) \/ CleanupDroplet(p)
    BY <2>2 DEF SetProvisioning, SetPending, SetError, MarkFailed, CleanupDroplet, UpdateBot
  <2>3. CASE InsertDroplet(p) \/ AssignDroplet(p) \/ LinkDroplet(p)
    BY <2>3 DEF InsertDroplet, AssignDroplet, LinkDroplet, UpdateBot
  <2>4. CASE DestroyDroplet(p) \/ RedeployDestroy(p) \/ MarkDestroyed(p) \/ RedeployMark(p)
    BY <2>4 DEF DestroyDroplet, RedeployDestroy, DestroyCall, MarkDestroyed, RedeployMark, MarkCall
  <2>5. CASE UnlinkDroplet(p) \/ DeleteBot(p) \/ ReleaseSlot(p)
    BY <2>5 DEF UnlinkDroplet, DeleteBot, ReleaseSlot, UpdateBot
  <2>6. CASE Shutdown(p) \/ SetPaused(p) \/ GetDroplet(p) \/ Reboot(p) \/ SetOnline(p)
    BY <2>6 DEF Shutdown, SetPaused, GetDroplet, Reboot, SetOnline, UpdateBot
  <2>7. CASE SetToken(p)
    <3>1. \A t : Goes(r, [At(r, "create_droplet") EXCEPT !.token = t])
      BY <2>7 DEF SetToken, Goes, At, Requests
    <3> QED  BY <2>7, <3>1 DEF SetToken, UpdateBot
  <2>8. CASE CreateDroplet(p)
    <3>1. \A d : Goes(r, [At(r, "insert_droplet") EXCEPT !.droplet = d, !.token = 0])
      BY <2>8 DEF CreateDroplet, Goes, At, Requests
    <3>2. \A label \in {"set_pending", "set_error"} : Goes(r, [At(r, label) EXCEPT !.token = 0])
      BY <2>8 DEF CreateDroplet, Goes, At, Requests
    <3>3. Goes(r, [r EXCEPT !.tries = @ + 1])
      BY <2>8 DEF CreateDroplet, Goes, Requests
    <3> QED  BY <2>8, <3>1, <3>2, <3>3 DEF CreateDroplet
  <2>9. CASE GetLatest(p)
    <3>1. r.op # "create"
      BY <2>9 DEF GetLatest, CreationInv, Creations, CreateLabels, RollbackLabels
    <3>2. Goes(r, [At(r, "set_provisioning") EXCEPT !.droplet = NoDroplet])
      BY <2>9, <3>1 DEF GetLatest, Goes, At, Requests
    <3> QED  BY <2>9, <3>2 DEF GetLatest
  <2>10. ~Reply(p)
    BY DEF Reply
  <2> QED
    BY <2>1, <2>2, <2>3, <2>4, <2>5, <2>6, <2>7, <2>8, <2>9, <2>10 DEF Step
<1>6. r.pc = "create_bot" /\ req'[p].pc \in RowLabels => bots'[r.bot].status # "absent"
  <2> SUFFICES ASSUME r.pc = "create_bot", req'[p].pc \in RowLabels
               PROVE  bots'[r.bot].status # "absent"
    OBVIOUS
  <2>1. InsertBot(p)
    BY DEF Step, InsertBot, InsertConfig, SetDesired, SetProvisioning, SetToken, CreateDroplet,
       SetPending, SetError, InsertDroplet, AssignDroplet, LinkDroplet, CleanupDroplet, MarkFailed,
       RollbackBot, RollbackCounter, DestroyDroplet, MarkDestroyed, UnlinkDroplet, DeleteBot,
       ReleaseSlot, RedeployDestroy, RedeployMark, GetLatest, Shutdown, SetPaused, GetDroplet,
       Reboot, SetOnline, Reply
  <2>2. Failed(r).pc \notin RowLabels
    BY <1>1, LabelTypes DEF Failed, At, Answered, Idle, RowLabels, SpawnLabels, Requests
  <2>3. PICK o : /\ bots' = After(o, Inserted(r.bot, r.account), bots)
                 /\ o # "done" => req'[p] = Failed(r)
    BY <1>1, <2>1 DEF InsertBot, Becomes, TypeOK
  <2>4. bots' = Inserted(r.bot, r.account)
    BY <2>2, <2>3 DEF After
  <2> QED  BY <1>1, <2>4 DEF Inserted, NoBotRow, BotExists, TypeOK, StoreTypeOK
<1>7. r.pc = "insert_droplet" /\ req'[p].pc \in DropletLabels => droplets'[r.droplet].status # "absent"
  <2> SUFFICES ASSUME r.pc = "insert_droplet", req'[p].pc \in DropletLabels
               PROVE  droplets'[r.droplet].status # "absent"
    OBVIOUS
  <2>1. InsertDroplet(p)
    BY DEF Step, InsertBot, InsertConfig, SetDesired, SetProvisioning, SetToken, CreateDroplet,
       SetPending, SetError, InsertDroplet, AssignDroplet, LinkDroplet, CleanupDroplet, MarkFailed,
       RollbackBot, RollbackCounter, DestroyDroplet, MarkDestroyed, UnlinkDroplet, DeleteBot,
       ReleaseSlot, RedeployDestroy, RedeployMark, GetLatest, Shutdown, SetPaused, GetDroplet,
       Reboot, SetOnline, Reply
  <2>2. r.droplet \in Droplets
    BY DEF CreationInv, Ownership, SpawnedIsPrivate, Spawned
  <2>3. droplets' = DropletInserted(r.droplet)
    <3>1. At(r, "cleanup_droplet").pc \notin DropletLabels
      BY <1>1 DEF At, Requests, DropletLabels
    <3>2. PICK o : /\ droplets' = After(o, DropletInserted(r.droplet), droplets)
                   /\ o # "done" => req'[p] = At(r, "cleanup_droplet")
      BY <1>1, <2>1 DEF InsertDroplet, Becomes, TypeOK
    <3> QED  BY <3>1, <3>2 DEF After
  <2> QED  BY <1>1, <2>2, <2>3 DEF DropletInserted, DropletExists, TypeOK, StoreTypeOK
<1> QED  BY <1>4, <1>5, <1>6, <1>7

\* The rows that a request goes by after a step of it or of another one.
LEMMA StepKeepsRows ==
    ASSUME CreationInv, RowsKnown, NEW p \in Handlers, InFlight(p), Step(p)
    PROVE  RowsKnown'
<1>1. /\ TypeOK /\ req[p].bot \in Bots
      /\ req[p].pc = "hard_delete" => req[p].op = "create"
      /\ \A q \in Handlers \ {p} :
           req[p].op = "create" /\ req[q].op = "create" => req[q].bot # req[p].bot
  BY StoreAssumption
     DEF CreationInv, Ownership, IdsDrawn, TypeOK, StoreTypeOK, Creations, RollbackLabels
<1>2. ASSUME NEW q \in Handlers, req[q].pc \in RowLabels \cup DropletLabels
      PROVE  /\ req[q].bot \in Bots
             /\ req[q].pc \in DropletLabels => req[q].droplet \in Droplets
  BY <1>2, LabelTypes
     DEF CreationInv, Ownership, IdsDrawn, TypeOK, StoreTypeOK, InFlight, RowLabels, SpawnLabels,
         DropletLabels, SpawnedIsPrivate, Spawned, GoneBeforeMark
<1>3. ASSUME NEW q \in Handlers \ {p} PROVE RowsOf(req[q])'
  <2>1. req'[q] = req[q]
    BY StepGoes
  <2>2. ASSUME req[q].op = "create", req[q].pc \in RowLabels
        PROVE  bots'[req[q].bot].status # "absent"
    BY <1>1, <1>2, <2>2, RowsStay DEF RowsKnown, RowsOf, BotExists, DropletExists
  <2>3. ASSUME req[q].pc \in DropletLabels PROVE droplets'[req[q].droplet].status # "absent"
    BY <1>2, <2>3, RowsStay DEF RowsKnown, RowsOf, BotExists, DropletExists
  <2> QED  BY <2>1, <2>2, <2>3 DEF RowsOf, BotExists, DropletExists
<1>4. RowsOf(req[p])'
  <2>1. Goes(req[p], req'[p])
    BY StepGoes
  <2>2. ASSUME req'[p].op = "create", req'[p].pc \in RowLabels
        PROVE  bots'[req[p].bot].status # "absent"
    <3>1. CASE req[p].pc = "create_bot"
      BY <2>2, <3>1, StepGoes
    <3>2. CASE req[p].pc # "create_bot"
      <4>1. req[p].pc \in RowLabels /\ req[p].op = "create" /\ req[p].pc # "hard_delete"
        BY <2>1, <2>2, <3>2 DEF Goes, RowLabels, SpawnLabels
      <4> QED  BY <1>1, <4>1, RowsStay DEF RowsKnown, RowsOf, BotExists, DropletExists
    <3> QED  BY <3>1, <3>2
  <2>3. ASSUME req'[p].pc \in DropletLabels PROVE droplets'[req[p].droplet].status # "absent"
    <3>1. CASE req[p].pc = "insert_droplet"
      BY <2>3, <3>1, StepGoes
    <3>2. CASE req[p].pc # "insert_droplet"
      <4>1. req[p].pc \in DropletLabels
        BY <2>1, <2>3, <3>2 DEF Goes
      <4> QED  BY <1>2, <4>1, RowsStay DEF RowsKnown, RowsOf, BotExists, DropletExists
    <3> QED  BY <3>1, <3>2
  <2>4. /\ req'[p].bot = req[p].bot
        /\ req'[p].pc \in DropletLabels => req'[p].droplet = req[p].droplet
    BY <2>1 DEF Goes
  <2> QED  BY <2>2, <2>3, <2>4 DEF RowsOf, BotExists, DropletExists
<1> QED  BY <1>3, <1>4 DEF RowsKnown

\* What a step of the service makes of the error: the one it had, or on the way out one
\* that the call raises.
LEMMA StepRaises ==
    ASSUME error \in [Handlers -> Errors], NEW p \in Handlers, ErrorOfStep(p)
    PROVE  /\ \A q \in Handlers \ {p} : error'[q] = error[q]
           /\ \/ error'[p] = error[p]
              \/ /\ req'[p].pc \in Unwinding
                 /\ \/ error'[p] = "RateLimited"
                    \/ error'[p] \in CallErrors(req[p])
           /\ error' \in [Handlers -> Errors]
<1>1. CallErrors(req[p]) \subseteq Errors
  BY DEF CallErrors, DatabaseErrors, CloudErrors, Of, Errors
<1>2. PICK e : /\ Raises(p, e)
               /\ \/ e = error[p]
                  \/ /\ req'[p].pc \in Unwinding
                     /\ e = "RateLimited" \/ e \in CallErrors(req[p])
  BY DEF ErrorOfStep, Of, Unwinding
<1>3. e \in Errors
  BY <1>1, <1>2 DEF Errors
<1> QED  BY <1>2, <1>3 DEF Raises

\* A step of the service with its error keeps what is said of the request.
LEMMA StepReturns ==
    ASSUME HttpInv, NEW p \in Handlers, InFlight(p), Step(p), ErrorOfStep(p)
    PROVE  Returning(req'[p], error'[p])
<1>1. /\ Returning(req[p], error[p]) /\ Goes(req[p], req'[p])
      /\ req[p].bot \in Bots
  BY StepGoes DEF HttpInv, CreationInv, Ownership, IdsDrawn, TypeOK, StoreTypeOK
<1>2. error'[p] = error[p] \/ req'[p].pc \in Errands
  BY StepRaises DEF HttpInv, Unwinding, Errands
<1> QED  BY <1>1, <1>2 DEF Returning, Goes

----------------------------------------------------------------------------
(* The start and the end of a request.                                      *)

\* A step that starts or ends one keeps the invariant when the request fits.
LEMMA MoveKeepsHttp ==
    ASSUME HttpInv, CreationInv', NEW p \in Handlers, UNCHANGED <<bots, droplets>>,
           \A q \in Handlers \ {p} : req'[q] = req[q],
           NEW e \in Errors, Raises(p, e), RowsOf(req'[p]), Returning(req'[p], e)
    PROVE  HttpInv'
<1>1. /\ error' \in [Handlers -> Errors] /\ error'[p] = e
      /\ \A q \in Handlers \ {p} : error'[q] = error[q]
  BY DEF Raises, HttpInv
<1>2. RowsKnown'
  BY DEF HttpInv, RowsKnown, RowsOf, BotExists, DropletExists
<1>3. \A q \in Handlers : Returning(req'[q], error'[q])
  BY <1>1 DEF HttpInv
<1> QED  BY <1>1, <1>2, <1>3 DEF HttpInv, Returning

\* A reply, and a request that is dropped.
LEMMA EndKeepsHttp ==
    ASSUME HttpInv, CreationInv', NEW p \in Handlers, Reply(p) \/ Cancel(p), Raises(p, "none")
    PROVE  HttpInv'
<1>1. PICK r \in {Idle, Answered(req[p], "dropped")} : Becomes(p, r)
  BY DEF Reply, Cancel
<1>2. r.pc \in {"idle", "dropped"}
  <2>1. Idle.pc = "idle" /\ Answered(req[p], "dropped").pc = "dropped"
    BY DEF Idle, Answered
  <2> QED  BY <1>1, <2>1
<1>3. /\ req'[p] = r /\ \A q \in Handlers \ {p} : req'[q] = req[q]
      /\ UNCHANGED <<bots, droplets>>
  BY <1>1 DEF Becomes, Reply, Cancel, tables, HttpInv, CreationInv, Ownership, TypeOK
<1>4. RowsOf(r) /\ Returning(r, "none")
  BY <1>2 DEF RowsOf, Returning, RowLabels, SpawnLabels, DropletLabels
<1> QED  BY <1>3, <1>4, MoveKeepsHttp DEF Errors

\* A creation.
LEMMA ReserveKeepsHttp ==
    ASSUME HttpInv, CreationInv', NEW p \in Handlers, NEW a \in Accounts, ReserveSlot(p, a),
           NEW e, Raises(p, e), e \in IF req'[p].pc = "failed" THEN ReserveErrors(a) ELSE {"none"}
    PROVE  HttpInv'
<1>1. PICK b : Becomes(p, [Idle EXCEPT !.pc = "create_bot", !.op = "create", !.bot = b, !.account = a])
               \/ Becomes(p, [Idle EXCEPT !.pc = "failed", !.op = "create"])
  BY DEF ReserveSlot
<1>2. PICK r \in {[Idle EXCEPT !.pc = "create_bot", !.op = "create", !.bot = b, !.account = a],
                  [Idle EXCEPT !.pc = "failed", !.op = "create"]} : Becomes(p, r)
  BY <1>1
<1>3. r.pc \in {"create_bot", "failed"}
  BY <1>2 DEF Idle
<1>4. /\ req'[p] = r /\ \A q \in Handlers \ {p} : req'[q] = req[q]
      /\ UNCHANGED <<bots, droplets>>
  BY <1>2 DEF Becomes, ReserveSlot, HttpInv, CreationInv, Ownership, TypeOK
<1>5. e \in {"none", "NotFound", "other", "AccountLimitReached"} /\ (e # "none" => r.pc = "failed")
  BY <1>3, <1>4 DEF ReserveErrors, DatabaseErrors, Of
<1>6. RowsOf(r) /\ Returning(r, e)
  BY <1>3, <1>5 DEF RowsOf, Returning, RowLabels, SpawnLabels, DropletLabels, Errands
<1> QED  BY <1>4, <1>5, <1>6, MoveKeepsHttp DEF Errors

\* An action on a bot: the droplet it goes by is the one of the bot's row, which has a
\* row of its own.
LEMMA BeginKeepsHttp ==
    ASSUME HttpInv, CreationInv', NEW p \in Handlers, NEW op \in Operations \ {"create"},
           NEW b \in Bots, NEW found \in FirstLabels, Begin(p, op, b, found),
           found \in {"destroy_droplet", "redeploy_destroy"} => bots[b].droplet # NoDroplet,
           found = "get_droplet" => op = "resume",
           NEW e, Raises(p, e), e \in IF req'[p].pc = "failed" THEN BeginErrors(op, b) ELSE {"none"}
    PROVE  HttpInv'
<1>1. PICK r \in {At(Reading(op, b), found), Answered(Reading(op, b), "failed")} : Becomes(p, r)
  BY DEF Begin
<1>2. /\ r.pc \in {found, "failed"} /\ r.op = op /\ r.bot = b
      /\ r.pc # "failed" => r.droplet = bots[b].droplet
  <2>1. CASE r = At(Reading(op, b), found)
    BY <2>1 DEF At, Reading, Idle
  <2>2. CASE r = Answered(Reading(op, b), "failed")
    BY <2>2 DEF Answered, Reading, Idle
  <2> QED  BY <1>1, <2>1, <2>2
<1>3. /\ req'[p] = r /\ \A q \in Handlers \ {p} : req'[q] = req[q]
      /\ UNCHANGED <<bots, droplets>>
  BY <1>1 DEF Becomes, Begin, tables, HttpInv, CreationInv, Ownership, TypeOK
<1>4. e \in {"none", "NotFound", "other", "InvalidConfig"} /\ (e # "none" => r.pc = "failed")
  BY <1>3 DEF BeginErrors, DatabaseErrors, Of
<1>5. bots[b].droplet # NoDroplet => DropletExists(bots[b].droplet)
  BY DEF HttpInv, CreationInv, Ownership, DropletOwnership, TypeOK, StoreTypeOK, BotRows
<1>6. RowsOf(r)
  BY <1>2, <1>5 DEF RowsOf, FirstLabels, DropletLabels
<1>7. Returning(r, e)
  BY <1>2, <1>4 DEF Returning, Errands
<1> QED  BY <1>3, <1>4, <1>6, <1>7, MoveKeepsHttp DEF Errors

\* A request refused at the door.
LEMMA RefuseKeepsHttp ==
    ASSUME HttpInv, NEW p \in Handlers, Refuse(p)
    PROVE  HttpInv' /\ error'[p] \in {"unauthorized", "malformed", "InvalidConfig"}
<1>1. CreationInv' /\ TypeOK
  BY RefuseKeepsCreation DEF HttpInv, CreationInv, Ownership
<1>2. PICK e \in {"unauthorized", "malformed", "InvalidConfig"} : Raises(p, e)
  <2>1. CreateRefusals \subseteq {"unauthorized", "malformed", "none"}
    BY DEF CreateRefusals, CreateRefusal
  <2>2. ActionRefusals \subseteq {"unauthorized", "InvalidConfig", "none"}
    BY DEF ActionRefusals, ActionRefusal
  <2> QED  BY <2>1, <2>2 DEF Refuse
<1>3. RowsOf(req'[p]) /\ Returning(req'[p], e)
  BY <1>1, <1>2, RefusedRequest
     DEF RowsOf, Returning, RowLabels, SpawnLabels, DropletLabels, Errands
<1>4. HttpInv'
  BY <1>1, <1>2, <1>3, RefusedRequest, MoveKeepsHttp DEF Errors, tables
<1>5. error'[p] = e
  BY <1>2 DEF Raises, HttpInv
<1> QED  BY <1>4, <1>5

----------------------------------------------------------------------------
(* The invariant is inductive, and a 404 is true.                           *)

\* The routes take the steps of the service, and refuse requests.
LEMMA HttpSteps ==
    ASSUME HttpNext
    PROVE  Next \/ \E p \in Handlers : Refuse(p)
BY DEF HttpNext, HttpStart, HttpStep, HttpCancel, Next, Start, Step

LEMMA HttpInitInv == HttpInit => HttpInv
<1> SUFFICES ASSUME HttpInit PROVE HttpInv
  OBVIOUS
<1>1. CreationInv /\ error \in [Handlers -> Errors]
  BY CreationInit DEF HttpInit, Errors
<1>2. \A p \in Handlers : req[p].pc = "idle" /\ error[p] = "none"
  BY DEF HttpInit, Init, Idle
<1>3. \A p \in Handlers : RowsOf(req[p]) /\ Returning(req[p], error[p])
  BY <1>2 DEF RowsOf, Returning, RowLabels, SpawnLabels, DropletLabels
<1> QED  BY <1>1, <1>3 DEF HttpInv, RowsKnown

\* Every step of the routes keeps the invariant.
LEMMA HttpNextInv == HttpInv /\ [HttpNext]_httpVars => HttpInv'
<1> SUFFICES ASSUME HttpInv, [HttpNext]_httpVars PROVE HttpInv'
  OBVIOUS
<1>1. ASSUME NEW p \in Handlers, Refuse(p) PROVE HttpInv'
  BY <1>1, RefuseKeepsHttp
<1>2. CreationInv' \/ \E p \in Handlers : Refuse(p)
  BY HttpSteps, CreationNext DEF HttpInv, httpVars
<1>3. CASE UNCHANGED <<bots, droplets, req, error>> /\ CreationInv'
  BY <1>3 DEF HttpInv, RowsKnown, RowsOf, Returning, BotExists, DropletExists
<1>4. ASSUME CreationInv', NEW p \in Handlers, HttpStart(p) PROVE HttpInv'
  <2>1. ASSUME NEW a \in Accounts, ReserveSlot(p, a),
               \E e \in IF req'[p].pc = "failed" THEN ReserveErrors(a) ELSE {"none"} : Raises(p, e)
        PROVE  HttpInv'
    BY <1>4, <2>1, ReserveKeepsHttp
  <2>2. ASSUME NEW b \in Bots, NEW op \in {"destroy", "pause", "resume", "redeploy"},
               \/ op = "destroy" /\ BeginDestroy(p, b)
               \/ op = "pause" /\ BeginPause(p, b)
               \/ op = "resume" /\ BeginResume(p, b)
               \/ op = "redeploy" /\ BeginRedeploy(p, b),
               \E e \in IF req'[p].pc = "failed" THEN BeginErrors(op, b) ELSE {"none"} : Raises(p, e)
        PROVE  HttpInv'
    BY <1>4, <2>2, BeginKeepsHttp
       DEF BeginDestroy, BeginPause, BeginResume, BeginRedeploy, Operations, FirstLabels
  <2>3. ASSUME NEW b \in Bots, NEW op \in Operations, NEW found, Begin(p, op, b, found)
        PROVE  req'[p].op = op
    <3>1. At(Reading(op, b), found).op = op /\ Answered(Reading(op, b), "failed").op = op
      BY DEF At, Answered, Reading, Idle
    <3>2. PICK r \in {At(Reading(op, b), found), Answered(Reading(op, b), "failed")} : Becomes(p, r)
      BY <2>3 DEF Begin
    <3> QED  BY <3>1, <3>2 DEF Becomes, HttpInv, CreationInv, Ownership, TypeOK
  <2>4. ASSUME NEW b \in Bots,
               BeginDestroy(p, b) \/ BeginPause(p, b) \/ BeginResume(p, b) \/ BeginRedeploy(p, b),
               \E e \in IF req'[p].pc = "failed" THEN BeginErrors(req'[p].op, b) ELSE {"none"} :
                  Raises(p, e)
        PROVE  HttpInv'
    BY <2>2, <2>3, <2>4
       DEF BeginDestroy, BeginPause, BeginResume, BeginRedeploy, Operations
  <2> QED  BY <1>1, <1>4, <2>1, <2>4 DEF HttpStart
<1>5. ASSUME CreationInv', NEW p \in Handlers, InFlight(p), Step(p), ErrorOfStep(p) PROVE HttpInv'
  <2>1. RowsKnown'
    BY <1>5, StepKeepsRows DEF HttpInv
  <2>2. Returning(req'[p], error'[p])
    BY <1>5, StepReturns
  <2>3. /\ error' \in [Handlers -> Errors]
        /\ \A q \in Handlers \ {p} : req'[q] = req[q] /\ error'[q] = error[q]
    BY <1>5, StepGoes, StepRaises DEF HttpInv
  <2>4. \A q \in Handlers : Returning(req'[q], error'[q])
    BY <2>2, <2>3 DEF HttpInv
  <2> QED  BY <1>5, <2>1, <2>3, <2>4 DEF HttpInv, Returning
<1>6. ASSUME CreationInv', NEW p \in Handlers, Reply(p) \/ Cancel(p), Raises(p, "none")
      PROVE  HttpInv'
  BY <1>6, EndKeepsHttp
<1> QED
  BY <1>1, <1>2, <1>3, <1>4, <1>5, <1>6
     DEF HttpNext, HttpStep, HttpCancel, httpVars, vars, tables, CreateAccount, UpdateSubscription,
         Boot, PowerOff

\* A call that raises NotFound did not find the bot, and the bot is not one that the
\* request creates.
LEMMA CallNotFound ==
    ASSUME HttpInv, NEW p \in Handlers, InFlight(p), "NotFound" \in CallErrors(req[p])
    PROVE  req[p].op # "create" /\ ~BotExists(req[p].bot)
<1>1. RowsOf(req[p])
  BY DEF HttpInv, RowsKnown
<1>2. req[p].pc \notin {"mark_destroyed", "redeploy_mark", "assign_droplet"}
  BY <1>1 DEF RowsOf, DropletLabels, CallErrors, BotUpdates, DatabaseErrors, Of
<1>3. req[p].pc \in BotUpdates /\ ~BotExists(req[p].bot)
  BY <1>2 DEF CallErrors, DatabaseErrors, CloudErrors, Of
<1>4. req[p].op = "create" => req[p].pc \in RowLabels
  BY <1>3
     DEF HttpInv, CreationInv, Creations, BotUpdates, CreateLabels, RollbackLabels, SpawnLabels,
         RowLabels
<1> QED  BY <1>1, <1>3, <1>4 DEF RowsOf

\* What OwnershipProofs shows of the service holds behind its routes as well, since a
\* request refused at the door changes none of it.
THEOREM HttpKeepsOwnership ==
    HttpSpec => [](TypeOK /\ DropletOwnership /\ MarkedDestroyedIsGone /\ DesiredConfigExists)
<1>1. HttpInv => TypeOK /\ DropletOwnership /\ MarkedDestroyedIsGone /\ DesiredConfigExists
  BY DEF HttpInv, CreationInv, Ownership
<1> QED  BY <1>1, HttpInitInv, HttpNextInv, PTL DEF HttpSpec

\* A 404 is true of every request, whatever fails, is dropped or overlaps: NotFound is
\* only raised for an account or a bot that is not there, though the updates of droplet
\* rows raise it too (ensure_single_row_affected).
THEOREM NotFoundIsTrueHolds == HttpSpec => NotFoundIsTrue
<1>1. ASSUME HttpInv, HttpNext, NEW p \in Handlers, error[p] # "NotFound", error'[p] = "NotFound"
      PROVE  IF req'[p].op = "create" THEN \E a \in Accounts : accounts[a].tier = "none"
                                      ELSE ~BotExists(req'[p].bot)
  <2>1. TypeOK /\ error \in [Handlers -> Errors]
    BY <1>1 DEF HttpInv, CreationInv, Ownership
  <2>2. ASSUME NEW q \in Handlers, NEW e, Raises(q, e) PROVE q = p /\ e = "NotFound"
    BY <1>1, <2>1, <2>2 DEF Raises
  <2>3. ASSUME NEW a \in Accounts, ReserveSlot(p, a), NEW e, Raises(p, e),
               e \in IF req'[p].pc = "failed" THEN ReserveErrors(a) ELSE {"none"}
        PROVE  req'[p].op = "create" /\ accounts[a].tier = "none"
    <3>1. accounts[a].tier = "none"
      BY <2>2, <2>3 DEF ReserveErrors, DatabaseErrors, Of
    <3>2. PICK b :
            \/ Becomes(p, [Idle EXCEPT !.pc = "create_bot", !.op = "create", !.bot = b, !.account = a])
            \/ Becomes(p, [Idle EXCEPT !.pc = "failed", !.op = "create"])
      BY <2>3 DEF ReserveSlot
    <3>3. PICK r \in {[Idle EXCEPT !.pc = "create_bot", !.op = "create", !.bot = b, !.account = a],
                      [Idle EXCEPT !.pc = "failed", !.op = "create"]} : Becomes(p, r)
      BY <3>2
    <3>4. r.op = "create"
      BY <3>3 DEF Idle
    <3> QED  BY <2>1, <3>1, <3>3, <3>4 DEF Becomes, TypeOK
  <2>4. ASSUME NEW b \in Bots, NEW op \in {"destroy", "pause", "resume", "redeploy"}, NEW found,
               Begin(p, op, b, found), NEW e, Raises(p, e),
               e \in IF req'[p].pc = "failed" THEN BeginErrors(req'[p].op, b) ELSE {"none"}
        PROVE  req'[p].op # "create" /\ ~BotExists(req'[p].bot)
    <3>1. ~BotExists(b)
      BY <2>2, <2>4 DEF BeginErrors, DatabaseErrors, Of
    <3>2. \A r \in {At(Reading(op, b), found), Answered(Reading(op, b), "failed")} :
            r.op = op /\ r.bot = b
      <4>1. Reading(op, b).op = op /\ Reading(op, b).bot = b
        BY DEF Reading, Idle
      <4>2. At(Reading(op, b), found).op = op /\ At(Reading(op, b), found).bot = b
        BY <4>1 DEF At, Reading, Idle
      <4>3. Answered(Reading(op, b), "failed").op = op /\ Answered(Reading(op, b), "failed").bot = b
        BY <4>1 DEF Answered, Idle
      <4> QED  BY <4>2, <4>3
    <3>3. PICK r \in {At(Reading(op, b), found), Answered(Reading(op, b), "failed")} : Becomes(p, r)
      BY <2>4 DEF Begin
    <3>4. r.op = op /\ r.bot = b
      BY <3>2
    <3> QED  BY <2>1, <3>1, <3>3, <3>4 DEF Becomes, TypeOK
  <2>5. ASSUME InFlight(p), Step(p), ErrorOfStep(p)
        PROVE  req'[p].op # "create" /\ ~BotExists(req'[p].bot)
    <3>1. "NotFound" \in CallErrors(req[p])
      BY <1>1, <2>1, <2>5, StepRaises
    <3>2. req'[p].op = req[p].op /\ req'[p].bot = req[p].bot
      BY <1>1, <2>5, StepGoes DEF HttpInv, Goes
    <3> QED  BY <1>1, <2>5, <3>1, <3>2, CallNotFound
  <2>6. ASSUME NEW q \in Handlers, HttpStep(q) \/ HttpCancel(q)
        PROVE  q = p /\ InFlight(p) /\ Step(p) /\ ErrorOfStep(p)
    <3>1. InFlight(q) /\ Step(q) /\ ErrorOfStep(q)
      BY <2>2, <2>6 DEF HttpStep, HttpCancel
    <3>2. \E e : Raises(q, e)
      BY <3>1 DEF ErrorOfStep
    <3> QED  BY <2>2, <3>1, <3>2
  <2>7. \A q \in Handlers : ~Refuse(q)
    BY <1>1, <2>2, RefuseKeepsHttp DEF Refuse
  <2>8. ASSUME NEW q \in Handlers, HttpStart(q)
        PROVE  IF req'[p].op = "create" THEN \E a \in Accounts : accounts[a].tier = "none"
                                        ELSE ~BotExists(req'[p].bot)
    BY <2>2, <2>3, <2>4, <2>7, <2>8
       DEF HttpStart, BeginDestroy, BeginPause, BeginResume, BeginRedeploy
  <2>9. ~UNCHANGED error
    BY <1>1
  <2> QED  BY <1>1, <2>5, <2>6, <2>8, <2>9 DEF HttpNext
<1>2. HttpInv /\ [HttpNext]_httpVars =>
        [\A p \in Handlers :
           error[p] # "NotFound" /\ error'[p] = "NotFound" =>
              IF req'[p].op = "create" THEN \E a \in Accounts : accounts[a].tier = "none"
                                       ELSE ~BotExists(req'[p].bot)]_httpVars
  BY <1>1
<1> QED  BY <1>2, HttpInitInv, HttpNextInv, PTL DEF HttpSpec, NotFoundIsTrue

----------------------------------------------------------------------------
(* What is refused when it is asked for, and what when it is asked again.   *)

\* A resume that still asks DigitalOcean has left its bot as it found it.
Resuming(r, row) ==
    r.pc \in Working /\ r.op = "resume" =>
        /\ r.pc \in {"get_droplet", "reboot", "set_online"}
        /\ r.pc # "set_online" => row.status = "paused" /\ row.droplet # NoDroplet

Resumes == \A p \in Handlers : \A b \in Bots : req[p].bot = b => Resuming(req[p], bots[b])

\* A redeployment is not called a bad request.
NoBadRedeploy == \A p \in Handlers : req[p].op = "redeploy" => error[p] # "InvalidConfig"

HttpSlots == HttpInv /\ SlotInv /\ NoBadRedeploy /\ Resumes

\* get_latest finds a config, as the bot is not being created.
LEMMA RedeployFindsConfig ==
    ASSUME CreationInv, SlotInv, ~Cancellation, "hard_delete" \notin Faults,
           NEW p \in Handlers, InFlight(p), req[p].op = "redeploy"
    PROVE  configs[req[p].bot] # {}
<1>1. req[p].bot \in Bots /\ BotExists(req[p].bot)
  BY DEF SlotInv, Settled, Fits, BotExists, Ownership, IdsDrawn, TypeOK, StoreTypeOK
<1>2. bots[req[p].bot].desired # 0
  BY <1>1, LabelTypes DEF CreationInv, Told, SlotInv, Alone, InFlight
<1> QED  BY <1>1, <1>2 DEF SlotInv, Ownership, DesiredConfigExists

LEMMA HttpSlotsInit == HttpInit => HttpSlots
BY HttpInitInv, SlotInit DEF HttpInit, HttpSlots, NoBadRedeploy, Init, Idle, Resumes, Resuming

\* A step of the service, or a request refused at the door, keeps what is said of resumes.
LEMMA ResumesNext ==
    ASSUME OneAtATime, SlotInv, Resumes, [Next]_vars \/ \E p \in Handlers : Refuse(p)
    PROVE  Resumes'
<1>1. TypeOK
  BY DEF SlotInv, Ownership
<1>2. ASSUME NEW p \in Handlers, \A q \in Handlers \ {p} : req'[q] = req[q],
             \A q \in Handlers \ {p}, b \in Bots :
                InFlight(q) /\ req[q].bot = b => bots'[b] = bots[b],
             \A b \in Bots : req'[p].bot = b => Resuming(req'[p], bots'[b])
      PROVE  Resumes'
  BY <1>2 DEF Resumes, Resuming, InFlight
<1>3. ASSUME NEW p \in Handlers, InFlight(p), Step(p) \/ Cancel(p) PROVE Resumes'
  <2>1. /\ Own(p) /\ req'[p].op = req[p].op /\ req'[p].bot = req[p].bot
        /\ \A q \in Handlers \ {p} : req'[q] = req[q]
    BY <1>1, <1>3, OwnSteps, SameOperation DEF OneAtATime
  <2>2. ASSUME NEW q \in Handlers \ {p}, NEW b \in Bots, InFlight(q), req[q].bot = b
        PROVE  bots'[b] = bots[b]
    BY <1>3, <2>1, <2>2 DEF Own, SlotInv, Alone
  <2>3. ASSUME NEW b \in Bots, req'[p].bot = b, req'[p].op = "resume", req'[p].pc \in Working
        PROVE  Resuming(req'[p], bots'[b])
    <3>1. Resuming(req[p], bots[b]) /\ req[p].op = "resume" /\ req[p].pc \in Working
      BY <1>3, <2>1, <2>3 DEF Resumes, InFlight
    <3>2. req[p].pc \in {"get_droplet", "reboot", "set_online"}
      BY <3>1 DEF Resuming
    <3>3. GetDroplet(p) \/ Reboot(p) \/ SetOnline(p) \/ Cancel(p)
      BY <1>3, <3>2
         DEF Step, InsertBot, InsertConfig, SetDesired, SetProvisioning, SetToken, CreateDroplet,
             SetPending, SetError, InsertDroplet, AssignDroplet, LinkDroplet, CleanupDroplet,
             MarkFailed, RollbackBot, RollbackCounter, DestroyDroplet, MarkDestroyed, UnlinkDroplet,
             DeleteBot, ReleaseSlot, RedeployDestroy, RedeployMark, GetLatest, Shutdown, SetPaused,
             Reply
    <3>4. /\ \A label : At(req[p], label).pc = label
          /\ \A result : Answered(req[p], result).pc = result
      BY <1>1 DEF At, Answered, Idle, TypeOK, Requests
    <3>5. \A r : Becomes(p, r) => req'[p] = r
      BY <1>1 DEF Becomes, TypeOK
    <3>6. CASE GetDroplet(p)
      <4>1. req[p].pc = "get_droplet" /\ bots' = bots
        BY <3>6 DEF GetDroplet, tables
      <4>2. req'[p].pc \in {"reboot", "set_online", "failed"}
        BY <3>4, <3>5, <3>6 DEF GetDroplet
      <4> QED  BY <2>3, <3>1, <4>1, <4>2, LabelTypes DEF Resuming
    <3>7. CASE Reboot(p)
      <4>1. req'[p].pc \in {"set_online", "failed"}
        BY <3>4, <3>5, <3>7 DEF Reboot
      <4> QED  BY <2>3, <4>1, LabelTypes DEF Resuming
    <3>8. CASE SetOnline(p) \/ Cancel(p)
      <4>1. req'[p].pc \in {"ok", "failed", "dropped"}
        BY <3>4, <3>5, <3>8 DEF SetOnline, UpdateBot, Cancel
      <4> QED  BY <2>3, <4>1, LabelTypes
    <3> QED  BY <3>3, <3>6, <3>7, <3>8
  <2> QED  BY <1>2, <2>1, <2>2, <2>3 DEF Resuming
<1>4. ASSUME NEW p \in Handlers, NEW r, Becomes(p, r), UNCHANGED bots,
             r.op # "resume" \/ r.pc \notin Working
      PROVE  Resumes'
  BY <1>1, <1>2, <1>4 DEF Becomes, TypeOK, Resuming
<1>5. ASSUME NEW p \in Handlers, NEW a \in Accounts, ReserveSlot(p, a) PROVE Resumes'
  <2>1. PICK b :
          \/ Becomes(p, [Idle EXCEPT !.pc = "create_bot", !.op = "create", !.bot = b, !.account = a])
          \/ Becomes(p, [Idle EXCEPT !.pc = "failed", !.op = "create"])
    BY <1>5 DEF ReserveSlot
  <2>2. PICK r \in {[Idle EXCEPT !.pc = "create_bot", !.op = "create", !.bot = b, !.account = a],
                    [Idle EXCEPT !.pc = "failed", !.op = "create"]} : Becomes(p, r)
    BY <2>1
  <2>3. r.op = "create"
    BY <2>2 DEF Idle
  <2> QED  BY <1>4, <1>5, <2>2, <2>3 DEF ReserveSlot
<1>6. ASSUME NEW p \in Handlers, NEW b \in Bots, NEW op \in {"destroy", "pause", "resume", "redeploy"},
             NEW found, Begin(p, op, b, found),
             op = "resume" => \/ found = "failed"
                              \/ /\ found = "get_droplet"
                                 /\ bots[b].status = "paused" /\ bots[b].droplet # NoDroplet
      PROVE  Resumes'
  <2>1. PICK r \in {At(Reading(op, b), found), Answered(Reading(op, b), "failed")} : Becomes(p, r)
    BY <1>6 DEF Begin
  <2>2. r.op = op /\ r.bot = b /\ r.pc \in {found, "failed"}
    <3>1. CASE r = At(Reading(op, b), found)
      BY <3>1 DEF At, Reading, Idle
    <3>2. CASE r = Answered(Reading(op, b), "failed")
      BY <3>2 DEF Answered, Reading, Idle
    <3> QED  BY <2>1, <3>1, <3>2
  <2>3. Resuming(r, bots[b])
    BY <1>6, <2>2, LabelTypes DEF Resuming
  <2>4. req'[p] = r /\ \A q \in Handlers \ {p} : req'[q] = req[q]
    BY <1>1, <2>1 DEF Becomes, TypeOK
  <2> QED  BY <1>2, <1>6, <2>2, <2>3, <2>4 DEF Begin, tables
<1>7. ASSUME NEW p \in Handlers, Start(p) PROVE Resumes'
  BY <1>5, <1>6, <1>7 DEF Start, BeginDestroy, BeginPause, BeginResume, BeginRedeploy
<1>8. ASSUME NEW p \in Handlers, Step(p) \/ Cancel(p), ~InFlight(p) PROVE Resumes'
  <2>1. Reply(p)
    BY <1>8, IdleSteps
  <2>2. Idle.pc \notin Working
    BY LabelTypes DEF Idle
  <2> QED  BY <1>4, <2>1, <2>2 DEF Reply, tables
<1>9. ASSUME NEW p \in Handlers, Refuse(p) PROVE Resumes'
  BY <1>1, <1>2, <1>9, RefusedRequest DEF Resuming, tables
<1>10. CASE UNCHANGED <<bots, req>>
  BY <1>10 DEF Resumes
<1> QED
  BY <1>3, <1>7, <1>8, <1>9, <1>10
     DEF Next, vars, tables, CreateAccount, UpdateSubscription, Boot, PowerOff

\* Every step of the routes keeps it so.
LEMMA HttpSlotsNext == OneAtATime /\ ~Cancellation /\ HttpSlots /\ [HttpNext]_httpVars => HttpSlots'
<1> SUFFICES ASSUME OneAtATime, ~Cancellation, HttpSlots, [HttpNext]_httpVars PROVE HttpSlots'
  OBVIOUS
<1>1. HttpInv' /\ TypeOK
  BY HttpNextInv DEF HttpSlots, HttpInv, CreationInv, Ownership
<1>2. SlotInv'
  <2>1. ASSUME NEW p \in Handlers, Refuse(p) PROVE SlotInv'
    BY <1>1, <2>1, RefuseKeepsSlots DEF HttpSlots, HttpInv, CreationInv
  <2> QED  BY <2>1, HttpSteps, SlotNext DEF HttpSlots, httpVars
<1>3. ASSUME NEW p \in Handlers, \A q \in Handlers \ {p} : req'[q] = req[q] /\ error'[q] = error[q],
             req'[p].op = "redeploy" => error'[p] # "InvalidConfig"
      PROVE  NoBadRedeploy'
  BY <1>3 DEF HttpSlots, NoBadRedeploy
<1>4. ASSUME NEW p \in Handlers, NEW r, Becomes(p, r), NEW e, Raises(p, e),
             r.op = "redeploy" => e # "InvalidConfig"
      PROVE  NoBadRedeploy'
  BY <1>1, <1>3, <1>4 DEF Becomes, Raises, TypeOK, HttpSlots, HttpInv
<1>5. ASSUME NEW p \in Handlers, Refuse(p) PROVE NoBadRedeploy'
  <2>1. req'[p].op # "redeploy" /\ \A q \in Handlers \ {p} : req'[q] = req[q]
    BY <1>1, <1>5, RefusedRequest
  <2>2. \A q \in Handlers \ {p} : error'[q] = error[q]
    BY <1>5 DEF Refuse, Raises, HttpSlots, HttpInv
  <2> QED  BY <1>3, <2>1, <2>2
<1>6. ASSUME NEW p \in Handlers, NEW a \in Accounts, ReserveSlot(p, a), NEW e, Raises(p, e)
      PROVE  NoBadRedeploy'
  <2>1. PICK b :
          \/ Becomes(p, [Idle EXCEPT !.pc = "create_bot", !.op = "create", !.bot = b, !.account = a])
          \/ Becomes(p, [Idle EXCEPT !.pc = "failed", !.op = "create"])
    BY <1>6 DEF ReserveSlot
  <2>2. PICK r \in {[Idle EXCEPT !.pc = "create_bot", !.op = "create", !.bot = b, !.account = a],
                    [Idle EXCEPT !.pc = "failed", !.op = "create"]} : Becomes(p, r)
    BY <2>1
  <2>3. r.op = "create"
    BY <2>2 DEF Idle
  <2> QED  BY <1>4, <1>6, <2>2, <2>3
<1>7. ASSUME NEW p \in Handlers, NEW b \in Bots, NEW op \in {"destroy", "pause", "resume", "redeploy"},
             NEW found, Begin(p, op, b, found), NEW e, Raises(p, e),
             e \in IF req'[p].pc = "failed" THEN BeginErrors(req'[p].op, b) ELSE {"none"}
      PROVE  NoBadRedeploy'
  <2>1. PICK r \in {At(Reading(op, b), found), Answered(Reading(op, b), "failed")} : Becomes(p, r)
    BY <1>7 DEF Begin
  <2>2. req'[p] = r
    BY <1>1, <2>1 DEF Becomes, TypeOK
  <2>3. r.op = "redeploy" => e # "InvalidConfig"
    BY <1>7, <2>2 DEF BeginErrors, DatabaseErrors, Of
  <2> QED  BY <1>4, <1>7, <2>1, <2>3
<1>8. ASSUME NEW p \in Handlers, InFlight(p), Step(p), ErrorOfStep(p) PROVE NoBadRedeploy'
  <2>1. /\ Goes(req[p], req'[p]) /\ \A q \in Handlers \ {p} : req'[q] = req[q]
        /\ \A q \in Handlers \ {p} : error'[q] = error[q]
        /\ error'[p] \in {error[p], "RateLimited"} \cup CallErrors(req[p])
    BY <1>8, StepGoes, StepRaises DEF HttpSlots, HttpInv
  <2>2. req[p].op = "redeploy" => "InvalidConfig" \notin CallErrors(req[p])
    <3>1. req[p].op = "redeploy" => req[p].pc # "get_droplet" /\ configs[req[p].bot] # {}
      BY <1>8, RedeployFindsConfig DEF OneAtATime, HttpSlots, HttpInv, Returning
    <3> QED  BY <3>1 DEF CallErrors, DatabaseErrors, CloudErrors, Of
  <2>3. req'[p].op = "redeploy" => error'[p] # "InvalidConfig"
    BY <2>1, <2>2 DEF Goes, HttpSlots, NoBadRedeploy
  <2> QED  BY <1>3, <2>1, <2>3
<1>9. ASSUME NEW p \in Handlers, Reply(p) \/ Cancel(p), Raises(p, "none") PROVE NoBadRedeploy'
  BY <1>4, <1>9 DEF Reply, Cancel
<1>10. ASSUME UNCHANGED <<req, error>> PROVE NoBadRedeploy'
  BY <1>10 DEF HttpSlots, NoBadRedeploy
<1>11. NoBadRedeploy'
  BY <1>5, <1>6, <1>7, <1>8, <1>9, <1>10
     DEF HttpNext, HttpStart, HttpStep, HttpCancel, httpVars, vars, CreateAccount,
         UpdateSubscription, BeginDestroy, BeginPause, BeginResume, BeginRedeploy
<1>12. Resumes'
  BY HttpSteps, ResumesNext DEF HttpSlots, httpVars
<1> QED  BY <1>1, <1>2, <1>11, <1>12 DEF HttpSlots

\* A redeployment is never answered "bad request" after it has destroyed the droplet, for
\* clients that send one request at a time on a bot: get_latest finds the config that
\* the creation stored.
THEOREM RefusedBeforeDestroyingHolds ==
    ASSUME OneAtATime, ~Cancellation
    PROVE  HttpSpec => []RefusedBeforeDestroying
<1>1. HttpSlots => RefusedBeforeDestroying
  BY DEF HttpSlots, NoBadRedeploy, RefusedBeforeDestroying
<1> QED  BY <1>1, HttpSlotsInit, HttpSlotsNext, PTL DEF HttpSpec

\* Where a request comes to its end rate limited, it can be made again: it was refused by
\* DigitalOcean before it wrote anything, or by the creation of a droplet, after which
\* its bot is left pending with all it needs.
LEMMA LimitedIsRetriable ==
    ASSUME OneAtATime, ~Cancellation, HttpSlots,
           NEW p \in Handlers, InFlight(p), Step(p), ErrorOfStep(p),
           error'[p] = "RateLimited", ~InFlight(p)', req[p].op # "create"
    PROVE  Retriable(req[p])'
<1> DEFINE b == req[p].bot
<1>1. /\ TypeOK /\ b \in Bots /\ SlotInv /\ HttpInv /\ CreationInv
      /\ Own(p) /\ req'[p].op = req[p].op /\ req'[p].bot = b
  BY OwnSteps, SameOperation
     DEF OneAtATime, HttpSlots, HttpInv, CreationInv, Ownership, IdsDrawn, TypeOK, StoreTypeOK
<1>2. MildStep(p) /\ req[p].pc \notin {"delete_bot", "decrement", "set_online"}
  <2>1. req[p].pc \notin CreateLabels \cup RollbackLabels
    BY <1>1 DEF CreationInv, Creations
  <2>2. MildStep(p)
    BY <2>1, LabelTypes
       DEF Step, MildStep, InsertBot, InsertConfig, SetDesired, RollbackBot, Reply, InFlight,
           CreateLabels, RollbackLabels
  <2>3. error[p] = "RateLimited" \/ "RateLimited" \in CallErrors(req[p]) \/ req'[p].pc = "set_pending"
    BY <1>1 DEF ErrorOfStep, Raises, Of, HttpInv
  <2>4. req'[p].pc # "set_pending"
    BY LabelTypes DEF InFlight
  <2>5. error[p] = "RateLimited" => req[p].pc \notin {"delete_bot", "decrement", "set_online"}
    BY <1>1 DEF HttpInv, Returning, Errands
  <2>6. "RateLimited" \in CallErrors(req[p]) => req[p].pc \notin {"delete_bot", "decrement", "set_online"}
    BY DEF CallErrors, BotUpdates, DatabaseErrors
  <2> QED  BY <2>2, <2>3, <2>4, <2>5, <2>6
<1>3. bots'[b].status \notin {"absent", "destroyed"}
  BY <1>1, <1>2 DEF Own, Ending, SlotInv, Settled, Fits
<1>4. req[p].op = "redeploy" => configs'[b] # {}
  BY <1>1, <1>2, MildSteps, RedeployFindsConfig DEF Mild, OneAtATime
<1>5. req[p].op = "resume" => bots'[b].status = "paused" /\ bots'[b].droplet # NoDroplet
  <2> SUFFICES ASSUME req[p].op = "resume"
               PROVE  bots'[b].status = "paused" /\ bots'[b].droplet # NoDroplet
    OBVIOUS
  <2>1. /\ req[p].pc \in {"get_droplet", "reboot"}
        /\ bots[b].status = "paused" /\ bots[b].droplet # NoDroplet
    BY <1>1, <1>2 DEF HttpSlots, Resumes, Resuming, InFlight
  <2>2. GetDroplet(p) \/ Reboot(p)
    BY <1>2, <2>1
       DEF MildStep, SetProvisioning, SetToken, CreateDroplet, SetPending, SetError, InsertDroplet,
           AssignDroplet, LinkDroplet, CleanupDroplet, MarkFailed, RollbackCounter, DestroyDroplet,
           MarkDestroyed, UnlinkDroplet, DeleteBot, ReleaseSlot, RedeployDestroy, RedeployMark,
           GetLatest, Shutdown, SetPaused, SetOnline
  <2> QED  BY <2>1, <2>2 DEF GetDroplet, Reboot, tables
<1> QED  BY <1>1, <1>3, <1>4, <1>5 DEF Retriable, BeginErrors, BotExists, Of

\* An action answered "rate limited, please retry" is accepted when it is made again, for
\* clients that send one request at a time on a bot, wherever DigitalOcean limited it.
THEOREM RetryIsAcceptedHolds ==
    ASSUME OneAtATime, ~Cancellation
    PROVE  HttpSpec => RetryIsAccepted
<1>1. ASSUME HttpSlots, HttpNext, NEW p \in Handlers,
             ~PleaseRetry(p), PleaseRetry(p)', req'[p].op # "create"
      PROVE  Retriable(req[p])'
  <2>1. /\ TypeOK /\ error \in [Handlers -> Errors]
        /\ error' \in [Handlers -> Errors]
    BY <1>1, HttpNextInv DEF HttpSlots, HttpInv, CreationInv, Ownership
  <2>2. error'[p] = "RateLimited" /\ req'[p].pc \in {"ok", "failed"}
    BY <1>1, <2>1 DEF PleaseRetry, IsAnswered, Status, ActionStatus, Errors
  <2>3. ~(req'[p] = req[p] /\ error'[p] = error[p])
    BY <1>1 DEF PleaseRetry, IsAnswered, Status
  <2>4. ASSUME NEW q \in Handlers, NEW r, Becomes(q, r), NEW e, Raises(q, e)
        PROVE  q = p /\ e = "RateLimited"
    BY <2>1, <2>2, <2>3, <2>4 DEF Becomes, Raises, TypeOK
  <2>5. ASSUME NEW q \in Handlers, HttpStart(q) PROVE FALSE
    <3>1. ASSUME NEW a \in Accounts, ReserveSlot(q, a), NEW e, Raises(q, e),
                 e \in IF req'[q].pc = "failed" THEN ReserveErrors(a) ELSE {"none"}
          PROVE  FALSE
      <4>1. \E r : Becomes(q, r)
        BY <3>1 DEF ReserveSlot
      <4> QED  BY <2>4, <3>1, <4>1 DEF ReserveErrors, DatabaseErrors, Of
    <3>2. ASSUME NEW b \in Bots, NEW op, NEW found, Begin(q, op, b, found), NEW e, Raises(q, e),
                 e \in IF req'[q].pc = "failed" THEN BeginErrors(req'[q].op, b) ELSE {"none"}
          PROVE  FALSE
      <4>1. \E r : Becomes(q, r)
        BY <3>2 DEF Begin
      <4> QED  BY <2>4, <3>2, <4>1 DEF BeginErrors, DatabaseErrors, Of
    <3>3. ASSUME Refuse(q) PROVE FALSE
      <4>1. \A x \in Handlers \ {q} : req'[x] = req[x]
        BY <2>1, <3>3, RefusedRequest
      <4>2. /\ error'[q] # "RateLimited"
            /\ \A x \in Handlers \ {q} : error'[x] = error[x]
        BY <1>1, <2>1, <3>3, RefuseKeepsHttp DEF Refuse, Raises, HttpSlots
      <4> QED  BY <2>2, <2>3, <4>1, <4>2
    <3> QED
      BY <2>5, <3>1, <3>2, <3>3
         DEF HttpStart, BeginDestroy, BeginPause, BeginResume, BeginRedeploy
  <2>6. ASSUME NEW q \in Handlers, Reply(q) \/ Cancel(q), Raises(q, "none") PROVE FALSE
    <3>1. \E r : Becomes(q, r)
      BY <2>6 DEF Reply, Cancel
    <3> QED  BY <2>4, <2>6, <3>1
  <2>7. ASSUME NEW q \in Handlers, InFlight(q), Step(q), ErrorOfStep(q)
        PROVE  Retriable(req[p])'
    <3>1. /\ \A x \in Handlers \ {q} : req'[x] = req[x] /\ error'[x] = error[x]
          /\ req'[q].op = req[q].op
      BY <2>1, <2>7, SameOperation, StepRaises
    <3>2. q = p
      BY <2>3, <3>1
    <3>3. ~InFlight(p)'
      BY <2>2, LabelTypes DEF InFlight
    <3> QED  BY <1>1, <2>2, <2>7, <3>1, <3>2, <3>3, LimitedIsRetriable
  <2>8. ~UNCHANGED <<req, error>>
    BY <2>3
  <2> QED
    BY <1>1, <2>5, <2>6, <2>7, <2>8
       DEF HttpNext, HttpStep, HttpCancel, CreateAccount, UpdateSubscription
<1>2. HttpSlots /\ [HttpNext]_httpVars =>
        [\A p \in Handlers :
           ~PleaseRetry(p) /\ PleaseRetry(p)' /\ req'[p].op # "create"
             => Retriable(req[p])']_httpVars
  BY <1>1
<1> QED  BY <1>2, HttpSlotsInit, HttpSlotsNext, PTL DEF HttpSpec, RetryIsAccepted

----------------------------------------------------------------------------
(* Numbers: what induction over a text needs.                               *)

\* A set of numbers has a least one: of the initial segments 0 .. x of its elements, one
\* has none of the others within it.
LEMMA LeastNumber ==
    ASSUME NEW S, S \subseteq Nat, S # {}
    PROVE  \E x \in S : \A y \in S : x <= y
<1> DEFINE Segments == {0 .. x : x \in S}
<1>1. Segments \subseteq FiniteSubsetsOf(Nat) /\ Segments # {}
  <2>1. ASSUME NEW x \in S PROVE IsFiniteSet(0 .. x) /\ 0 .. x \subseteq Nat
    BY FS_Interval
  <2> QED  BY <2>1 DEF FiniteSubsetsOf
<1>2. PICK U \in Segments : \A V \in Segments : <<V, U>> \notin StrictSubsetOrdering(Nat)
  BY <1>1, FS_StrictSubsetOrderingWellFounded, WFMin
<1>3. PICK x \in S : U = 0 .. x
  BY <1>2
<1>4. ASSUME NEW y \in S, y < x PROVE FALSE
  <2>1. 0 .. y \subseteq 0 .. x /\ 0 .. y # 0 .. x
    BY <1>4
  <2>2. <<0 .. y, 0 .. x>> \in StrictSubsetOrdering(Nat)
    BY <2>1 DEF StrictSubsetOrdering
  <2> QED  BY <1>2, <1>3, <2>2
<1> QED  BY <1>4

\* Induction up to n, for the set of the numbers that have a property: one of them would
\* be the first to lack it.
LEMMA UpToN ==
    ASSUME NEW n \in Nat, NEW S, 0 \in S, \A i \in 0 .. n - 1 : i \in S => i + 1 \in S
    PROVE  0 .. n \subseteq S
<1> DEFINE Missing == {i \in 0 .. n : i \notin S}
<1> SUFFICES ASSUME Missing # {} PROVE FALSE
  OBVIOUS
<1>1. PICK m \in Missing : \A i \in Missing : m <= i
  <2>1. Missing \subseteq Nat
    OBVIOUS
  <2> HIDE DEF Missing
  <2> QED  BY <2>1, LeastNumber
<1>2. m - 1 \in 0 .. n - 1 /\ m - 1 \notin Missing
  BY <1>1
<1> QED  BY <1>1, <1>2

----------------------------------------------------------------------------
(* Texts that are read from left to right.                                  *)

\* The results of n repetitions of a step, each on the last result.
HasResults(n, Q, base, step) ==
    \E f \in [0 .. n -> Q] : f[0] = base /\ \A i \in 1 .. n : f[i] = step[i][f[i - 1]]

\* A step that leads from Q to Q has them, so that the recursive functions of UserText
\* are what they are defined to be.
LEMMA Iterates ==
    ASSUME NEW n \in Nat, NEW Q, NEW base \in Q,
           NEW step, \A i \in 1 .. n : \A q \in Q : step[i][q] \in Q
    PROVE  HasResults(n, Q, base, step)
<1> DEFINE Upto(f, m) == f[0] = base /\ \A i \in 1 .. m : f[i] = step[i][f[i - 1]]
           Reached == {m \in 0 .. n : \E f \in [0 .. m -> Q] : Upto(f, m)}
<1>1. 0 \in Reached
  <2> DEFINE f == [i \in 0 .. 0 |-> base]
  <2>1. f \in [0 .. 0 -> Q] /\ Upto(f, 0)
    OBVIOUS
  <2>2. \E g \in [0 .. 0 -> Q] : Upto(g, 0)
    BY <2>1
  <2> QED  BY <2>2
<1>2. ASSUME NEW m \in 0 .. n - 1, m \in Reached PROVE m + 1 \in Reached
  <2>1. PICK g \in [0 .. m -> Q] : Upto(g, m)
    BY <1>2
  <2> DEFINE f == [i \in 0 .. m + 1 |-> IF i = m + 1 THEN step[m + 1][g[m]] ELSE g[i]]
  <2>2. f \in [0 .. m + 1 -> Q]
    <3>1. m + 1 \in 1 .. n /\ g[m] \in Q
      OBVIOUS
    <3>2. step[m + 1][g[m]] \in Q
      BY <3>1
    <3> QED  BY <3>2
  <2>3. \A i \in 0 .. m : f[i] = g[i]
    OBVIOUS
  <2>4. f[m + 1] = step[m + 1][g[m]]
    OBVIOUS
  <2> HIDE DEF f
  <2>5. Upto(f, m + 1)
    <3>1. f[0] = base
      BY <2>1, <2>3
    <3>2. ASSUME NEW i \in 1 .. m + 1 PROVE f[i] = step[i][f[i - 1]]
      <4>1. CASE i = m + 1
        <5>1. f[i - 1] = g[m]
          BY <4>1, <2>3
        <5> QED  BY <4>1, <5>1, <2>4
      <4>2. CASE i # m + 1
        <5>1. i \in 1 .. m /\ i - 1 \in 0 .. m /\ i \in 0 .. m
          BY <4>2
        <5> QED  BY <5>1, <2>1, <2>3
      <4> QED  BY <4>1, <4>2
    <3> QED  BY <3>1, <3>2
  <2>6. m + 1 \in 0 .. n
    OBVIOUS
  <2> QED  BY <2>2, <2>5, <2>6
<1>3. n \in Reached
  <2> HIDE DEF Reached
  <2>1. \A m \in 0 .. n - 1 : m \in Reached => m + 1 \in Reached
    BY <1>2
  <2>2. 0 .. n \subseteq Reached
    BY <1>1, <2>1, UpToN
  <2> QED  BY <2>2
<1> QED  BY <1>3 DEF HasResults

\* What a character is replaced by is a text.
LEMMA ReplacementType ==
    ASSUME NEW c \in Characters
    PROVE  /\ Replacement(c) \in Seq(Characters)
           /\ c # "'" => Len(Replacement(c)) = 1 /\ Replacement(c)[1] = c
           /\ c = "'" => Len(Replacement(c)) = 5 /\ Replacement(c) = <<"'", "dquote", "'", "dquote", "'">>
<1>1. CASE c = "'"
  BY <1>1 DEF Replacement, Characters
<1>2. CASE c # "'"
  BY <1>2 DEF Replacement
<1> QED  BY <1>1, <1>2

\* A text's escaped prefixes are the results of escaping one character after the other.
LEMMA EscapedIs ==
    ASSUME NEW value \in Seq(Characters)
    PROVE  /\ Escaped(value)[0] = <<>>
           /\ \A i \in 1 .. Len(value) :
                 Escaped(value)[i] = Escaped(value)[i - 1] \o Replacement(value[i])
           /\ \A i \in 0 .. Len(value) : Escaped(value)[i] \in Seq(Characters)
<1> DEFINE n == Len(value)
           Q == Seq(Characters)
           empty == <<>>
           step == [i \in 1 .. n |-> [t \in Q |-> t \o Replacement(value[i])]]
           Def(f) == [i \in 0 .. n |-> IF i = 0 THEN <<>> ELSE f[i - 1] \o Replacement(value[i])]
           e == Escaped(value)
<1>1. ASSUME NEW i \in 1 .. n, NEW t \in Q PROVE t \o Replacement(value[i]) \in Q
  <2>1. Replacement(value[i]) \in Seq(Characters)
    BY ReplacementType
  <2> QED  BY <2>1
<1>2. \A i \in 1 .. n : \A q \in Q : step[i][q] \in Q
  BY <1>1
<1>3. n \in Nat /\ empty \in Q
  OBVIOUS
<1>4. \A i \in 1 .. n, t \in Q : step[i][t] = t \o Replacement(value[i])
  OBVIOUS
<1>5. \E f \in [0 .. n -> Q] : f[0] = empty /\ \A i \in 1 .. n : f[i] = step[i][f[i - 1]]
  <2> HIDE DEF n, Q, step, empty
  <2>1. HasResults(n, Q, empty, step)
    BY <1>2, <1>3, Iterates
  <2> QED  BY <2>1 DEF HasResults
<1> HIDE DEF n, Q, step
<1>6. PICK f \in [0 .. n -> Q] : f[0] = empty /\ \A i \in 1 .. n : f[i] = step[i][f[i - 1]]
  BY <1>5
<1>7. ASSUME NEW i \in 1 .. n PROVE f[i] = f[i - 1] \o Replacement(value[i])
  <2>1. i - 1 \in 0 .. n
    BY <1>3
  <2>2. f[i - 1] \in Q
    BY <2>1
  <2> QED  BY <2>2, <1>4, <1>6
<1>8. f = Def(f)
  <2>1. \A i \in 0 .. n : f[i] = IF i = 0 THEN <<>> ELSE f[i - 1] \o Replacement(value[i])
    BY <1>3, <1>6, <1>7
  <2> QED  BY <2>1
<1>9. e = CHOOSE g : g = Def(g)
  BY DEF Escaped, n
<1>10. e = Def(e)
  <2> HIDE DEF Def, e
  <2> QED  BY <1>8, <1>9
<1> HIDE DEF e
<1>11. e[0] = <<>> /\ \A i \in 1 .. n : e[i] = e[i - 1] \o Replacement(value[i])
  BY <1>3, <1>10
<1>12. \A i \in 0 .. n : e[i] = f[i]
  <2> DEFINE Same == {i \in 0 .. n : e[i] = f[i]}
  <2>1. 0 \in Same
    BY <1>3, <1>6, <1>11
  <2>2. ASSUME NEW i \in 0 .. n - 1, i \in Same PROVE i + 1 \in Same
    <3>1. i + 1 \in 1 .. n /\ (i + 1) - 1 = i
      BY <1>3
    <3>2. f[i + 1] = f[i] \o Replacement(value[i + 1])
      BY <3>1, <1>7
    <3>3. e[i + 1] = e[i] \o Replacement(value[i + 1])
      BY <3>1, <1>11
    <3>4. e[i] = f[i] /\ i + 1 \in 0 .. n
      BY <1>3, <2>2
    <3> QED  BY <3>2, <3>3, <3>4
  <2>3. \A i \in 0 .. n - 1 : i \in Same => i + 1 \in Same
    BY <2>2
  <2> HIDE DEF Same
  <2>4. 0 .. n \subseteq Same
    BY <1>3, <2>1, <2>3, UpToN
  <2> QED  BY <2>4 DEF Same
<1>13. \A i \in 0 .. n : e[i] \in Q
  BY <1>12
<1> QED  BY <1>11, <1>13 DEF e, n, Q

\* The shell's states.
Word(mode, read, literal) == [mode |-> mode, read |-> read, literal |-> literal]

Words == [mode : {"bare", "single", "double"}, read : Seq(Characters), literal : BOOLEAN]

\* Every character leads from a state to a state.
LEMMA ShellReadType ==
    ASSUME NEW w \in Words, NEW c \in Characters
    PROVE  ShellRead(w, c) \in Words
<1>1. Append(w.read, c) \in Seq(Characters)
  BY DEF Words
<1>2. \A x \in Seq(Characters) : [w EXCEPT !.read = x] \in Words
  BY DEF Words
<1>3. \A m \in {"bare", "single", "double"} : [w EXCEPT !.mode = m] \in Words
  BY DEF Words
<1>4. [w EXCEPT !.literal = FALSE] \in Words
  BY DEF Words
<1>5. ShellRead(w, c) \in {[w EXCEPT !.read = Append(w.read, c)], [w EXCEPT !.literal = FALSE],
                          [w EXCEPT !.mode = "single"], [w EXCEPT !.mode = "double"],
                          [w EXCEPT !.mode = "bare"]}
  BY DEF ShellRead
<1> QED  BY <1>1, <1>2, <1>3, <1>4, <1>5

\* The shell reads one character after the other.
LEMMA ShellIs ==
    ASSUME NEW s \in Seq(Characters)
    PROVE  /\ Shell(s)[0] = ShellStart
           /\ \A i \in 1 .. Len(s) : Shell(s)[i] = ShellRead(Shell(s)[i - 1], s[i])
<1> DEFINE n == Len(s)
           step == [i \in 1 .. n |-> [w \in Words |-> ShellRead(w, s[i])]]
           Def(f) == [i \in 0 .. n |-> IF i = 0 THEN ShellStart ELSE ShellRead(f[i - 1], s[i])]
           e == Shell(s)
<1>1. \A i \in 1 .. n, w \in Words : ShellRead(w, s[i]) \in Words
  BY ShellReadType
<1>2. \A i \in 1 .. n : \A w \in Words : step[i][w] \in Words
  BY <1>1
<1>3. n \in Nat /\ ShellStart \in Words
  BY DEF ShellStart, Words
<1>4. \A i \in 1 .. n, w \in Words : step[i][w] = ShellRead(w, s[i])
  OBVIOUS
<1>5. HasResults(n, Words, ShellStart, step)
  <2> HIDE DEF n, step
  <2> QED  BY <1>2, <1>3, Iterates
<1> HIDE DEF n, step
<1>6. PICK f \in [0 .. n -> Words] : f[0] = ShellStart /\ \A i \in 1 .. n : f[i] = step[i][f[i - 1]]
  BY <1>5 DEF HasResults
<1>7. ASSUME NEW i \in 1 .. n PROVE f[i] = ShellRead(f[i - 1], s[i])
  <2>1. i - 1 \in 0 .. n
    BY <1>3
  <2>2. f[i - 1] \in Words
    BY <2>1
  <2> QED  BY <2>2, <1>4, <1>6
<1>8. f = Def(f)
  <2>1. \A i \in 0 .. n : f[i] = IF i = 0 THEN ShellStart ELSE ShellRead(f[i - 1], s[i])
    BY <1>3, <1>6, <1>7
  <2> QED  BY <2>1
<1>9. e = CHOOSE g : g = Def(g)
  BY DEF Shell, n
<1>10. e = Def(e)
  <2> HIDE DEF Def, e
  <2> QED  BY <1>8, <1>9
<1> HIDE DEF e
<1>11. e[0] = ShellStart /\ \A i \in 1 .. n : e[i] = ShellRead(e[i - 1], s[i])
  BY <1>3, <1>10
<1> QED  BY <1>11 DEF e, n

\* What a shell reads of the characters that stand between single quotes or quote one.
LEMMA ShellSteps ==
    ASSUME NEW r \in Seq(Characters)
    PROVE  /\ ShellStart = Word("bare", <<>>, TRUE)
           /\ ShellRead(Word("bare", r, TRUE), "'") = Word("single", r, TRUE)
           /\ ShellRead(Word("bare", r, TRUE), "dquote") = Word("double", r, TRUE)
           /\ ShellRead(Word("single", r, TRUE), "'") = Word("bare", r, TRUE)
           /\ \A c \in Characters \ {"'"} :
                 ShellRead(Word("single", r, TRUE), c) = Word("single", Append(r, c), TRUE)
           /\ ShellRead(Word("double", r, TRUE), "'") = Word("double", Append(r, "'"), TRUE)
           /\ ShellRead(Word("double", r, TRUE), "dquote") = Word("bare", r, TRUE)
BY DEF ShellStart, ShellRead, Word, Characters

\* Where the characters of two texts are when one follows the other.
LEMMA Joined ==
    ASSUME NEW s \in Seq(Characters), NEW t \in Seq(Characters)
    PROVE  /\ s \o t \in Seq(Characters)
           /\ Len(s) \in Nat /\ Len(t) \in Nat /\ Len(s \o t) = Len(s) + Len(t)
           /\ \A k \in 1 .. Len(s) : (s \o t)[k] = s[k]
           /\ \A k \in 1 .. Len(t) : (s \o t)[Len(s) + k] = t[k]
OBVIOUS

\* What is escaped of a text's beginning stays at the beginning.
LEMMA EscapedGrows ==
    ASSUME NEW text \in Seq(Characters), NEW i \in 0 .. Len(text)
    PROVE  LET e == Escaped(text)
               all == e[Len(text)]
           IN  Len(e[i]) <= Len(all) /\ \A k \in 1 .. Len(e[i]) : all[k] = e[i][k]
<1> DEFINE n == Len(text)
           e == Escaped(text)
           Begins(j) == Len(e[j]) <= Len(e[n]) /\ \A k \in 1 .. Len(e[j]) : e[n][k] = e[j][k]
           Good == {j \in 0 .. n : Begins(n - j)}
<1>1. n \in Nat
  OBVIOUS
<1>2. \A j \in 0 .. n : e[j] \in Seq(Characters)
  BY EscapedIs
<1>3. \A j \in 1 .. n : e[j] = e[j - 1] \o Replacement(text[j]) /\ Replacement(text[j]) \in Seq(Characters)
  <2> TAKE j \in 1 .. n
  <2>1. text[j] \in Characters
    OBVIOUS
  <2>2. Replacement(text[j]) \in Seq(Characters)
    BY <2>1, ReplacementType
  <2>3. e[j] = e[j - 1] \o Replacement(text[j])
    BY EscapedIs
  <2> QED  BY <2>2, <2>3
<1> HIDE DEF n, e
<1>4. 0 \in Good
  BY <1>1
<1>5. ASSUME NEW j \in 0 .. n - 1, j \in Good PROVE j + 1 \in Good
  <2> DEFINE m == n - j
  <2>1. m \in 1 .. n /\ m - 1 \in 0 .. n /\ n - (j + 1) = m - 1 /\ j + 1 \in 0 .. n
    BY <1>1
  <2>2. Begins(m)
    BY <1>5
  <2> HIDE DEF m
  <2>3. /\ Len(e[m - 1]) \in Nat /\ Len(e[m - 1]) <= Len(e[m]) /\ Len(e[m]) \in Nat /\ Len(e[n]) \in Nat
        /\ \A k \in 1 .. Len(e[m - 1]) : e[m][k] = e[m - 1][k]
    <3> DEFINE s == e[m - 1]
               t == Replacement(text[m])
    <3>1. s \in Seq(Characters)
      BY <1>2, <2>1
    <3>2. t \in Seq(Characters) /\ e[m] = s \o t
      BY <1>3, <2>1
    <3>3. e[n] \in Seq(Characters)
      <4>1. n \in 0 .. n
        BY <1>1
      <4> QED  BY <1>2, <4>1
    <3>4. Len(e[n]) \in Nat
      BY <3>3
    <3> HIDE DEF s, t
    <3>5. /\ Len(s) \in Nat /\ Len(t) \in Nat /\ Len(s \o t) = Len(s) + Len(t)
          /\ \A k \in 1 .. Len(s) : (s \o t)[k] = s[k]
      BY <3>1, <3>2, Joined
    <3> QED  BY <3>2, <3>4, <3>5 DEF s
  <2>4. Begins(m - 1)
    BY <2>2, <2>3
  <2> QED  BY <2>1, <2>4
<1>6. \A j \in 0 .. n - 1 : j \in Good => j + 1 \in Good
  BY <1>5
<1>7. 0 .. n \subseteq Good
  <2> HIDE DEF Good
  <2> QED  BY <1>1, <1>4, <1>6, UpToN
<1>8. n - i \in 0 .. n /\ n - (n - i) = i
  BY <1>1 DEF n
<1>9. Begins(i)
  BY <1>7, <1>8
<1> QED  BY <1>9 DEF e, n

\* The escaped text between its quotes.
LEMMA QuotedLayout ==
    ASSUME NEW text \in Seq(Characters)
    PROVE  LET all == Escaped(text)[Len(text)]
               t == ShellEscaped(text)
           IN  /\ t \in Seq(Characters) /\ Len(all) \in Nat /\ Len(t) = Len(all) + 2
               /\ t[1] = "'" /\ t[Len(t)] = "'"
               /\ \A k \in 1 .. Len(all) : t[1 + k] = all[k]
<1> DEFINE all == Escaped(text)[Len(text)]
           q == <<"'">>
<1>1. all \in Seq(Characters)
  <2>1. Len(text) \in 0 .. Len(text)
    OBVIOUS
  <2> QED  BY <2>1, EscapedIs
<1>2. q \in Seq(Characters) /\ Len(q) = 1 /\ q[1] = "'"
  <2>1. "'" \in Characters
    BY DEF Characters
  <2> QED  BY <2>1
<1>3. ShellEscaped(text) = (q \o all) \o q
  BY DEF ShellEscaped
<1> HIDE DEF all, q
<1>4. /\ q \o all \in Seq(Characters) /\ Len(all) \in Nat /\ Len(q \o all) = 1 + Len(all)
      /\ (q \o all)[1] = "'" /\ \A k \in 1 .. Len(all) : (q \o all)[1 + k] = all[k]
  <2>1. /\ q \o all \in Seq(Characters) /\ Len(all) \in Nat /\ Len(q \o all) = Len(q) + Len(all)
        /\ \A k \in 1 .. Len(q) : (q \o all)[k] = q[k]
        /\ \A k \in 1 .. Len(all) : (q \o all)[Len(q) + k] = all[k]
    BY <1>1, <1>2, Joined
  <2> QED  BY <1>2, <2>1
<1> DEFINE u == q \o all
<1> HIDE DEF u
<1>5. /\ u \o q \in Seq(Characters) /\ Len(u \o q) = Len(u) + 1 /\ (u \o q)[Len(u) + 1] = "'"
      /\ \A k \in 1 .. Len(u) : (u \o q)[k] = u[k]
  <2>1. /\ u \o q \in Seq(Characters) /\ Len(u \o q) = Len(u) + Len(q)
        /\ \A k \in 1 .. Len(u) : (u \o q)[k] = u[k]
        /\ \A k \in 1 .. Len(q) : (u \o q)[Len(u) + k] = q[k]
    BY <1>2, <1>4, Joined DEF u
  <2> QED  BY <1>2, <2>1
<1>6. /\ Len(all) \in Nat /\ Len(u) = 1 + Len(all) /\ u[1] = "'"
      /\ \A k \in 1 .. Len(all) : u[1 + k] = all[k]
  BY <1>4 DEF u
<1>7. ShellEscaped(text) = u \o q
  BY <1>3 DEF u
<1>8. /\ ShellEscaped(text) \in Seq(Characters) /\ Len(ShellEscaped(text)) = Len(all) + 2
      /\ ShellEscaped(text)[1] = "'" /\ ShellEscaped(text)[Len(all) + 2] = "'"
      /\ \A k \in 1 .. Len(all) : ShellEscaped(text)[1 + k] = all[k]
  BY <1>5, <1>6, <1>7
<1> QED  BY <1>6, <1>8 DEF all

\* Where the replacement of the character after the first j is in the escaped text.
LEMMA ReplacementLayout ==
    ASSUME NEW text \in Seq(Characters), NEW j \in 0 .. Len(text) - 1
    PROVE  LET e == Escaped(text)
               t == ShellEscaped(text)
               r == Replacement(text[j + 1])
           IN  /\ Len(e[j]) \in Nat /\ Len(e[j + 1]) = Len(e[j]) + Len(r)
               /\ Len(e[j + 1]) + 1 < Len(t)
               /\ \A k \in 1 .. Len(r) : t[1 + Len(e[j]) + k] = r[k]
<1> DEFINE i == j + 1
           e == Escaped(text)
           all == e[Len(text)]
           t == ShellEscaped(text)
           r == Replacement(text[i])
           s == e[j]
<1>1. i \in 1 .. Len(text) /\ i \in 0 .. Len(text) /\ i - 1 = j /\ j \in 0 .. Len(text)
  OBVIOUS
<1> HIDE DEF i
<1>2. s \in Seq(Characters) /\ e[i] = s \o r
  <2>1. e[i] = e[i - 1] \o r /\ s \in Seq(Characters)
    BY <1>1, EscapedIs
  <2> QED  BY <1>1, <2>1
<1>3. r \in Seq(Characters)
  <2>1. text[i] \in Characters
    BY <1>1
  <2> QED  BY <2>1, ReplacementType
<1>4. Len(e[i]) <= Len(all) /\ \A k \in 1 .. Len(e[i]) : all[k] = e[i][k]
  BY <1>1, EscapedGrows
<1>5. /\ Len(all) \in Nat /\ Len(t) = Len(all) + 2
      /\ \A k \in 1 .. Len(all) : t[1 + k] = all[k]
  BY QuotedLayout
<1> HIDE DEF e, all, t, r, s
<1>6. /\ Len(s) \in Nat /\ Len(r) \in Nat /\ Len(e[i]) = Len(s) + Len(r)
      /\ \A k \in 1 .. Len(r) : e[i][Len(s) + k] = r[k]
  <2>1. /\ Len(s) \in Nat /\ Len(r) \in Nat /\ Len(s \o r) = Len(s) + Len(r)
        /\ \A k \in 1 .. Len(r) : (s \o r)[Len(s) + k] = r[k]
    BY <1>2, <1>3, Joined
  <2> QED  BY <1>2, <2>1
<1>7. ASSUME NEW k \in 1 .. Len(r) PROVE t[1 + Len(s) + k] = r[k]
  <2> DEFINE at == Len(s) + k
  <2>1. at \in 1 .. Len(e[i]) /\ at \in 1 .. Len(all) /\ 1 + Len(s) + k = 1 + at
    BY <1>4, <1>5, <1>6
  <2>2. t[1 + at] = all[at] /\ all[at] = e[i][at] /\ e[i][at] = r[k]
    BY <1>4, <1>5, <1>6, <2>1
  <2> HIDE DEF at
  <2> QED  BY <2>1, <2>2
<1>8. Len(e[i]) + 1 < Len(t)
  BY <1>4, <1>5, <1>6
<1> QED  BY <1>6, <1>7, <1>8 DEF i, e, t, r, s

\* Before each character the shell is between single quotes again, and has read the
\* text so far.
LEMMA ReadSoFar ==
    ASSUME NEW text \in Seq(Characters), NEW i \in 0 .. Len(text)
    PROVE  Shell(ShellEscaped(text))[Len(Escaped(text)[i]) + 1] = Word("single", SubSeq(text, 1, i), TRUE)
<1> DEFINE n == Len(text)
           e == Escaped(text)
           t == ShellEscaped(text)
           sh == Shell(t)
           Between(j) == sh[Len(e[j]) + 1] = Word("single", SubSeq(text, 1, j), TRUE)
           Good == {j \in 0 .. n : Between(j)}
<1>1. n \in Nat
  OBVIOUS
<1>2. /\ t \in Seq(Characters) /\ Len(t) \in Nat /\ Len(t) >= 2 /\ t[1] = "'"
  BY QuotedLayout
<1>3. sh[0] = ShellStart /\ \A k \in 1 .. Len(t) : sh[k] = ShellRead(sh[k - 1], t[k])
  BY <1>2, ShellIs
<1>4. 0 \in Good
  <2>1. Len(e[0]) + 1 = 1 /\ SubSeq(text, 1, 0) = <<>>
    <3>1. e[0] = <<>>
      BY EscapedIs
    <3>2. Len(<<>>) + 1 = 1 /\ SubSeq(text, 1, 0) = <<>>
      OBVIOUS
    <3> HIDE DEF e
    <3> QED  BY <3>1, <3>2
  <2>2. sh[1] = ShellRead(ShellStart, "'")
    BY <1>2, <1>3
  <2>3. <<>> \in Seq(Characters)
    OBVIOUS
  <2>4. sh[1] = Word("single", <<>>, TRUE)
    BY <2>2, <2>3, ShellSteps
  <2> HIDE DEF e, t, sh
  <2>5. Between(0)
    BY <2>1, <2>4
  <2> HIDE DEF Between
  <2> QED  BY <1>1, <2>5
<1>5. ASSUME NEW j \in 0 .. n - 1, j \in Good PROVE j + 1 \in Good
  <2> DEFINE c == text[j + 1]
             read == SubSeq(text, 1, j)
             r == Replacement(c)
             at == Len(e[j]) + 1
  <2>1. /\ c \in Characters /\ read \in Seq(Characters) /\ Append(read, c) \in Seq(Characters)
        /\ SubSeq(text, 1, j + 1) = Append(read, c)
    BY <1>1
  <2>2. /\ at \in Nat /\ at >= 1 /\ Len(e[j + 1]) + 1 = at + Len(r) /\ at + Len(r) < Len(t)
        /\ \A k \in 1 .. Len(r) : t[at + k] = r[k]
    <3>1. /\ Len(e[j]) \in Nat /\ Len(e[j + 1]) = Len(e[j]) + Len(r) /\ Len(e[j + 1]) + 1 < Len(t)
          /\ \A k \in 1 .. Len(r) : t[1 + Len(e[j]) + k] = r[k]
      BY ReplacementLayout
    <3>2. r \in Seq(Characters)
      BY <2>1, ReplacementType
    <3> HIDE DEF e, t, r
    <3> QED  BY <1>2, <3>1, <3>2
  <2>3. sh[at] = Word("single", read, TRUE)
    BY <1>5
  <2>4. r = Replacement(c)
    OBVIOUS
  <2> HIDE DEF e, t, sh, c, read, r, at
  <2>5. ASSUME NEW k \in 1 .. Len(r) PROVE sh[at + k] = ShellRead(sh[at + (k - 1)], r[k])
    <3>1. Len(r) \in Nat
      BY <2>1, <2>4, ReplacementType
    <3>2. at + k \in 1 .. Len(t) /\ (at + k) - 1 = at + (k - 1)
      BY <1>2, <2>2, <3>1
    <3> QED  BY <1>3, <2>2, <3>2
  <2>6. sh[at + Len(r)] = Word("single", Append(read, c), TRUE)
    <3>1. CASE c # "'"
      <4>1. Len(r) = 1 /\ r[1] = c
        BY <2>1, <2>4, <3>1, ReplacementType
      <4>2. sh[at + 1] = ShellRead(sh[at], c)
        BY <2>2, <2>5, <4>1
      <4>3. ShellRead(Word("single", read, TRUE), c) = Word("single", Append(read, c), TRUE)
        BY <2>1, <3>1, ShellSteps
      <4> QED  BY <2>3, <4>1, <4>2, <4>3
    <3>2. CASE c = "'"
      <4>1. Len(r) = 5 /\ r = <<"'", "dquote", "'", "dquote", "'">>
        BY <2>1, <2>4, <3>2, ReplacementType
      <4>2. r[1] = "'" /\ r[2] = "dquote" /\ r[3] = "'" /\ r[4] = "dquote" /\ r[5] = "'"
        BY <4>1
      <4>3. /\ sh[at + 1] = ShellRead(sh[at], "'")
            /\ sh[at + 2] = ShellRead(sh[at + 1], "dquote")
            /\ sh[at + 3] = ShellRead(sh[at + 2], "'")
            /\ sh[at + 4] = ShellRead(sh[at + 3], "dquote")
            /\ sh[at + 5] = ShellRead(sh[at + 4], "'")
        <5>1. {1, 2, 3, 4, 5} \subseteq 1 .. Len(r)
          BY <4>1
        <5>2. sh[at + 1] = ShellRead(sh[at], r[1])
          <6>1. at + (1 - 1) = at
            BY <2>2
          <6>2. sh[at + 1] = ShellRead(sh[at + (1 - 1)], r[1])
            BY <5>1, <2>5
          <6> QED  BY <6>1, <6>2
        <5>3. sh[at + 2] = ShellRead(sh[at + 1], r[2])
          BY <5>1, <2>2, <2>5
        <5>4. sh[at + 3] = ShellRead(sh[at + 2], r[3])
          BY <5>1, <2>2, <2>5
        <5>5. sh[at + 4] = ShellRead(sh[at + 3], r[4])
          BY <5>1, <2>2, <2>5
        <5>6. sh[at + 5] = ShellRead(sh[at + 4], r[5])
          BY <5>1, <2>2, <2>5
        <5> QED  BY <4>2, <5>2, <5>3, <5>4, <5>5, <5>6
      <4>4. sh[at + 1] = Word("bare", read, TRUE)
        BY <2>1, <2>3, <4>3, ShellSteps
      <4>5. sh[at + 2] = Word("double", read, TRUE)
        BY <2>1, <4>4, <4>3, ShellSteps
      <4>6. sh[at + 3] = Word("double", Append(read, c), TRUE)
        BY <2>1, <3>2, <4>5, <4>3, ShellSteps
      <4>7. sh[at + 4] = Word("bare", Append(read, c), TRUE)
        BY <2>1, <4>6, <4>3, ShellSteps
      <4>8. sh[at + 5] = Word("single", Append(read, c), TRUE)
        BY <2>1, <4>7, <4>3, ShellSteps
      <4> QED  BY <4>1, <4>8
    <3> QED  BY <3>1, <3>2
  <2>7. Between(j + 1)
    BY <2>1, <2>2, <2>6
  <2>8. j + 1 \in 0 .. n
    BY <1>1
  <2> QED  BY <2>7, <2>8
<1>6. \A j \in 0 .. n - 1 : j \in Good => j + 1 \in Good
  BY <1>5
<1>7. 0 .. n \subseteq Good
  <2> HIDE DEF n, Good
  <2> QED  BY <1>1, <1>4, <1>6, UpToN
<1> QED  BY <1>7

\* After the closing quote it has read the whole text, and nothing else.
LEMMA ReadAsGiven ==
    ASSUME NEW text \in Seq(Characters)
    PROVE  ShellWord(ShellEscaped(text)) = Word("bare", text, TRUE)
<1> DEFINE all == Escaped(text)[Len(text)]
           t == ShellEscaped(text)
           sh == Shell(t)
<1>1. t \in Seq(Characters) /\ Len(all) \in Nat /\ Len(t) = Len(all) + 2 /\ t[Len(t)] = "'"
  BY QuotedLayout
<1>2. sh[Len(all) + 1] = Word("single", SubSeq(text, 1, Len(text)), TRUE)
  <2>1. Len(text) \in 0 .. Len(text)
    OBVIOUS
  <2> QED  BY <2>1, ReadSoFar
<1>3. SubSeq(text, 1, Len(text)) = text
  OBVIOUS
<1>4. sh[Len(t)] = ShellRead(sh[Len(t) - 1], t[Len(t)])
  BY <1>1, ShellIs
<1>5. Len(t) - 1 = Len(all) + 1
  BY <1>1
<1>6. sh[Len(t)] = Word("bare", text, TRUE)
  BY <1>1, <1>2, <1>3, <1>4, <1>5, ShellSteps
<1> QED  BY <1>6 DEF ShellWord

\* Wherever a request is about to create a droplet, and whatever texts its boot script
\* is made of, the shell reads each as it was given (generate_user_data, shell_escape).
THEOREM ShellReadsBackHolds == HttpSpec => []ShellReadsBack
<1>1. ASSUME NEW text \in Texts
      PROVE  LET word == ShellWord(ShellEscaped(text))
             IN  word.mode = "bare" /\ word.literal /\ word.read = text
  <2>1. text \in Seq(Characters)
    BY TextAssumption DEF Texts, BoundedSeq, SeqOf
  <2> QED  BY <2>1, ReadAsGiven DEF Word
<1>2. ShellReadsBack
  BY <1>1 DEF ShellReadsBack, QuotedAsGiven
<1> QED  BY <1>2, PTL
=============================================================================
