---------------------------- MODULE Provisioning ----------------------------
(***************************************************************************)
(* ProvisioningService (src/application/provisioning.rs): create_bot,      *)
(* destroy_bot, pause_bot, resume_bot and redeploy_bot, as the HTTP        *)
(* handlers run them.                                                      *)
(*                                                                         *)
(* Each handler of `Handlers` serves one request at a time.  A request is  *)
(* the record of its local variables and of the await it stands at (pc);   *)
(* every action below is what happens from one await to the next, so       *)
(* handlers interleave at every await and nowhere else.  A call at label l *)
(* fails as Faults and LostReplies say of l.                               *)
(*                                                                         *)
(* Nothing in the server orders the requests on one bot or knows which     *)
(* were made before: that is up to the clients.  Overlap, ReuseDestroyed   *)
(* and Cancellation say what clients do.                                   *)
(***************************************************************************)
EXTENDS DigitalOcean

CONSTANTS
    Handlers,
    TierChoices,     \* the tiers accounts are given
    Overlap,         \* clients may send a request on a bot while another is served
    ReuseDestroyed,  \* clients may send a request on a bot already marked destroyed
    Cancellation,    \* a request may be dropped at any await, or the server stop
    OneShot          \* bound: a handler serves one request only

ASSUME ProvisioningAssumption ==
    /\ TierChoices \subseteq {"free", "basic", "pro"}
    /\ {Overlap, ReuseDestroyed, Cancellation, OneShot} \subseteq BOOLEAN

RETRY_ATTEMPTS == 3   \* provisioning.rs, retry_with_backoff
MAX_RETRIES == 3      \* digital_ocean.rs, send_with_retry

VARIABLE req

vars == <<tables, cloud, req>>

----------------------------------------------------------------------------
(* Requests.                                                                *)

CreateLabels == {"create_bot", "create_config", "set_desired"}
SpawnLabels == {"set_provisioning", "set_token", "create_droplet", "set_pending", "set_error",
                "insert_droplet", "assign_droplet", "link_droplet",
                "cleanup_droplet", "mark_failed"}
RollbackLabels == {"hard_delete", "give_back"}
DestroyLabels == {"destroy_droplet", "mark_destroyed", "unlink_droplet", "delete_bot", "decrement"}
RedeployLabels == {"redeploy_destroy", "redeploy_mark", "get_latest"}
PowerLabels == {"shutdown", "set_paused", "get_droplet", "reboot", "set_online"}

Working == CreateLabels \cup SpawnLabels \cup RollbackLabels \cup DestroyLabels
             \cup RedeployLabels \cup PowerLabels

Operations == {"none", "create", "destroy", "pause", "resume", "redeploy"}

Requests == [pc      : Working \cup {"idle", "ok", "failed", "dropped"},
             op      : Operations,
             bot     : Bots \cup {NoBot},
             account : Accounts \cup {NoAccount},
             droplet : Droplets \cup {NoDroplet},  \* bot.droplet_id as read, then as spawned
             token   : Tokens \cup {0},
             tries   : Nat]                        \* attempts made of the call at pc

Idle == [pc |-> "idle", op |-> "none", bot |-> NoBot, account |-> NoAccount,
         droplet |-> NoDroplet, token |-> 0, tries |-> 0]

TypeOK == StoreTypeOK /\ CloudTypeOK /\ req \in [Handlers -> Requests]

Init == StoreInit /\ CloudInit /\ req = [p \in Handlers |-> Idle]

InFlight(p) == req[p].pc \in Working

At(r, label) == [r EXCEPT !.pc = label, !.tries = 0]

Answered(r, result) == [Idle EXCEPT !.pc = result, !.op = r.op, !.bot = r.bot]

\* An error returned with `?`: it ends the request, after the rollback in create_bot.
Failed(r) == IF r.op = "create" THEN At(r, "hard_delete") ELSE Answered(r, "failed")

Becomes(p, r) == req' = [req EXCEPT ![p] = r]

\* retry_with_backoff: the call again, until its attempts are used up.
\* Mutation: the last attempt starts the count again instead of giving up.
RetriedForever(r, giveUp) == [r EXCEPT !.tries = (@ + 1) % RETRY_ATTEMPTS]
Retried(r, giveUp) ==
    IF r.tries + 1 < RETRY_ATTEMPTS THEN [r EXCEPT !.tries = @ + 1] ELSE giveUp

\* One UPDATE of the request's bot row, then on to `next`, or to `error` when the
\* call fails or finds no row.
UpdateBot(p, new, next, error) ==
    \E o \in Outcomes(req[p].pc) :
       /\ bots' = After(o, new, bots)
       /\ Becomes(p, IF o = "done" /\ BotExists(req[p].bot) THEN next ELSE error)
       /\ UNCHANGED <<accounts, configs, droplets, uuids, cloud>>

----------------------------------------------------------------------------
(* Accounts: POST /accounts, and the library call update_subscription.      *)

CreateAccount(a, tier) ==
    /\ accounts[a].tier = "none"
    /\ accounts' = [accounts EXCEPT ![a] = [tier |-> tier, current_count |-> 0]]
    /\ UNCHANGED <<bots, configs, droplets, uuids, cloud, req>>

\* Mutation: the trigger writes the counter row anew.
ResubscribeFromZero(a, tier) ==
    /\ accounts[a].tier # "none"
    /\ accounts' = [accounts EXCEPT ![a] = [tier |-> tier, current_count |-> 0]]
    /\ UNCHANGED <<bots, configs, droplets, uuids, cloud, req>>
UpdateSubscription(a, tier) ==
    /\ accounts[a].tier # "none"
    /\ accounts' = [accounts EXCEPT ![a].tier = tier]
    /\ UNCHANGED <<bots, configs, droplets, uuids, cloud, req>>

----------------------------------------------------------------------------
(* create_bot.                                                              *)

\* get_by_id of the account, whose result is not used, and increment_bot_counter.
\* The new bot's id is drawn before the next await.
ReserveSlot(p, a) ==
    /\ req[p].pc = "idle"
    /\ uuids # Bots    \* bound: the ids of a run
    /\ \E o \in Outcomes("increment") :
         LET refused == o = "refused" \/ accounts[a].tier = "none" \/ IncrementRaises
             b == CHOOSE id \in Bots \ uuids : TRUE
         IN  /\ accounts' = IF refused THEN accounts ELSE Incremented(a)
             /\ IF o = "done" /\ ~refused /\ UnderLimit(a)
                THEN /\ uuids' = uuids \cup {b}
                     /\ Becomes(p, [Idle EXCEPT !.pc = "create_bot", !.op = "create",
                                                !.bot = b, !.account = a])
                ELSE /\ uuids' = uuids
                     /\ Becomes(p, [Idle EXCEPT !.pc = "failed", !.op = "create"])
    /\ UNCHANGED <<bots, configs, droplets, cloud>>

\* Mutation: the desired version is set before the config is stored.
InsertBotThenDesired(p) ==
    /\ req[p].pc = "create_bot"
    /\ bots' = Inserted(req[p].bot, req[p].account)
    /\ Becomes(p, At(req[p], "set_desired"))
    /\ UNCHANGED <<accounts, configs, droplets, uuids, cloud>>
InsertBot(p) ==
    /\ req[p].pc = "create_bot"
    /\ \E o \in Outcomes("create_bot") :
         /\ bots' = After(o, Inserted(req[p].bot, req[p].account), bots)
         /\ Becomes(p, IF o = "done" THEN At(req[p], "create_config") ELSE Failed(req[p]))
    /\ UNCHANGED <<accounts, configs, droplets, uuids, cloud>>

\* Mutation: the INSERT's error is dropped.
InsertConfigUnchecked(p) ==
    /\ req[p].pc = "create_config"
    /\ \E o \in Outcomes("create_config") :
         configs' = After(o, ConfigsWith(req[p].bot, 1), configs)
    /\ Becomes(p, At(req[p], "set_desired"))
    /\ UNCHANGED <<accounts, bots, droplets, uuids, cloud>>

\* Encryption fails before the INSERT: an outcome "refused" as well.
InsertConfig(p) ==
    /\ req[p].pc = "create_config"
    /\ \E o \in Outcomes("create_config") :
         /\ configs' = After(o, ConfigsWith(req[p].bot, 1), configs)
         /\ Becomes(p, IF o = "done" /\ ConfigInsertable(req[p].bot, 1)
                       THEN At(req[p], "set_desired") ELSE Failed(req[p]))
    /\ UNCHANGED <<accounts, bots, droplets, uuids, cloud>>

SetDesired(p) ==
    /\ req[p].pc = "set_desired"
    /\ UpdateBot(p, WithConfigVersion(req[p].bot, 1, 0),
                 At(req[p], "set_provisioning"), Failed(req[p]))

\* create_bot_internal failed: both errors below are only logged.
RollbackBot(p) ==
    /\ req[p].pc = "hard_delete"
    /\ \E o \in Outcomes("hard_delete") :
         /\ bots' = After(o, HardDeleted(req[p].bot), bots)
         /\ configs' = After(o, ConfigsWithout(req[p].bot), configs)
         /\ droplets' = After(o, DropletsReleased(req[p].bot), droplets)
         /\ Becomes(p, At(req[p], "give_back"))
    /\ UNCHANGED <<accounts, uuids, cloud>>

\* Mutation: the rollback keeps the slot.
RollbackWithoutCounter(p) ==
    /\ req[p].pc = "give_back"
    /\ Becomes(p, Answered(req[p], "failed"))
    /\ UNCHANGED <<tables, cloud>>
RollbackCounter(p) ==
    /\ req[p].pc = "give_back"
    /\ \E o \in Outcomes("give_back") :
         accounts' = After(o, Decremented(req[p].account), accounts)
    /\ Becomes(p, Answered(req[p], "failed"))
    /\ UNCHANGED <<bots, configs, droplets, uuids, cloud>>

----------------------------------------------------------------------------
(* spawn_bot, for create_bot and redeploy_bot.                              *)

SetProvisioning(p) ==
    /\ req[p].pc = "set_provisioning"
    /\ UpdateBot(p, WithStatus(req[p].bot, "provisioning"), At(req[p], "set_token"), Failed(req[p]))

\* 32 random bytes: a token that nothing holds yet.
FreshTokens ==
    {t \in Tokens : /\ \A b \in Bots : bots[b].token # t
                    /\ \A d \in Droplets : cloud[d].token # t
                    /\ \A p \in Handlers : req[p].token # t}

\* Mutation: the token is drawn anew for the user data.
SetOtherToken(p) ==
    /\ req[p].pc = "set_token"
    /\ \E s, t \in FreshTokens :
         /\ s # t
         /\ UpdateBot(p, WithToken(req[p].bot, s),
                      [At(req[p], "create_droplet") EXCEPT !.token = t], Failed(req[p]))
SetToken(p) ==
    /\ req[p].pc = "set_token"
    /\ FreshTokens # {}
    /\ LET t == CHOOSE token \in FreshTokens : TRUE
       IN  UpdateBot(p, WithToken(req[p].bot, t),
                     [At(req[p], "create_droplet") EXCEPT !.token = t], Failed(req[p]))

NewDroplet == CHOOSE d \in Unused : TRUE

\* The create request and send_with_retry around it.  POST /droplets is not
\* idempotent: when the reply is lost the client posts again, but for the last time, and
\* not when it comes and cannot be read.
CreateDroplet(p) ==
    /\ req[p].pc = "create_droplet"
    /\ \/ /\ Unused # {}
          /\ cloud' = Created(NewDroplet, req[p].bot, req[p].token)
          /\ Becomes(p, [At(req[p], "insert_droplet") EXCEPT !.droplet = NewDroplet, !.token = 0])
       \/ /\ Unused # {}
          /\ "create_droplet" \in LostReplies
          /\ cloud' = Created(NewDroplet, req[p].bot, req[p].token)
          /\ \/ req[p].tries + 1 < MAX_RETRIES /\ Becomes(p, [req[p] EXCEPT !.tries = @ + 1])
             \/ Becomes(p, [At(req[p], "set_error") EXCEPT !.token = 0])
       \/ /\ "rate_limit" \in Faults
          /\ Becomes(p, [At(req[p], "set_pending") EXCEPT !.token = 0])
          /\ UNCHANGED cloud
       \/ /\ "create_droplet" \in Faults \/ Unused = {}   \* bound: the droplet limit
          /\ Becomes(p, [At(req[p], "set_error") EXCEPT !.token = 0])
          /\ UNCHANGED cloud
    /\ UNCHANGED tables

\* Mutation: a rate limited creation is not rolled back.
SetPendingNoRollback(p) ==
    /\ req[p].pc = "set_pending"
    /\ UpdateBot(p, WithStatus(req[p].bot, "pending"),
                 Answered(req[p], "failed"), Answered(req[p], "failed"))
SetPending(p) ==
    /\ req[p].pc = "set_pending"
    /\ UpdateBot(p, WithStatus(req[p].bot, "pending"), Failed(req[p]), Failed(req[p]))

\* Mutation: the bot's status is left as it was.
SetErrorNot(p) ==
    /\ req[p].pc = "set_error"
    /\ Becomes(p, Failed(req[p]))
    /\ UNCHANGED <<tables, cloud>>
SetError(p) ==
    /\ req[p].pc = "set_error"
    /\ UpdateBot(p, WithStatus(req[p].bot, "error"), Failed(req[p]), Failed(req[p]))

\* Mutation: the INSERT's error is dropped.
InsertDropletUnchecked(p) ==
    /\ req[p].pc = "insert_droplet"
    /\ \E o \in Outcomes("insert_droplet") :
         droplets' = After(o, DropletInserted(req[p].droplet), droplets)
    /\ Becomes(p, At(req[p], "assign_droplet"))
    /\ UNCHANGED <<accounts, bots, configs, uuids, cloud>>
InsertDroplet(p) ==
    /\ req[p].pc = "insert_droplet"
    /\ \E o \in Outcomes("insert_droplet") :
         /\ droplets' = After(o, DropletInserted(req[p].droplet), droplets)
         /\ Becomes(p, At(req[p], IF o = "done" THEN "assign_droplet" ELSE "cleanup_droplet"))
    /\ UNCHANGED <<accounts, bots, configs, uuids, cloud>>

\* Mutation: the assignment's error is dropped.
AssignDropletUnchecked(p) ==
    /\ req[p].pc = "assign_droplet"
    /\ \E o \in Outcomes("assign_droplet") :
         droplets' = After(o, WithAssignment(req[p].droplet, req[p].bot), droplets)
    /\ Becomes(p, At(req[p], "link_droplet"))
    /\ UNCHANGED <<accounts, bots, configs, uuids, cloud>>
AssignDroplet(p) ==
    /\ req[p].pc = "assign_droplet"
    /\ \E o \in Outcomes("assign_droplet") :
         /\ droplets' = After(o, WithAssignment(req[p].droplet, req[p].bot), droplets)
         /\ Becomes(p, At(req[p], IF o = "done" /\ Assignable(req[p].droplet, req[p].bot)
                                  THEN "link_droplet" ELSE "cleanup_droplet"))
    /\ UNCHANGED <<accounts, bots, configs, uuids, cloud>>

\* Mutation: no cleanup after a database error.
LinkDropletNoCleanup(p) ==
    /\ req[p].pc = "link_droplet"
    /\ UpdateBot(p, WithDroplet(req[p].bot, req[p].droplet),
                 Answered(req[p], "ok"), At(req[p], "mark_failed"))
LinkDroplet(p) ==
    /\ req[p].pc = "link_droplet"
    /\ UpdateBot(p, WithDroplet(req[p].bot, req[p].droplet),
                 Answered(req[p], "ok"), At(req[p], "cleanup_droplet"))

\* destroy_droplet after a database error; its own error is only logged.
CleanupDroplet(p) ==
    /\ req[p].pc = "cleanup_droplet"
    /\ \E o \in Outcomes("cleanup_droplet") :
         cloud' = After(o, Destroyed(req[p].droplet), cloud)
    /\ Becomes(p, At(req[p], "mark_failed"))
    /\ UNCHANGED tables

MarkFailed(p) ==
    /\ req[p].pc = "mark_failed"
    /\ UpdateBot(p, WithStatus(req[p].bot, "error"), Failed(req[p]), Failed(req[p]))

----------------------------------------------------------------------------
(* Requests on an existing bot start with get_by_id: its row is read once,  *)
(* and what was read is used to the end of the request.                     *)

MayRequest(b) ==
    /\ Overlap \/ \A q \in Handlers : InFlight(q) => req[q].bot # b
    /\ ReuseDestroyed \/ bots[b].status # "destroyed"

Reading(op, b) == [Idle EXCEPT !.op = op, !.bot = b, !.account = bots[b].account,
                               !.droplet = bots[b].droplet]

\* `found` is where the handler goes with the row, "failed" for an early return.
Begin(p, op, b, found) ==
    /\ req[p].pc = "idle"
    /\ MayRequest(b)
    /\ \/ /\ BotExists(b)
          /\ Becomes(p, IF found = "failed" THEN Answered(Reading(op, b), "failed")
                                            ELSE At(Reading(op, b), found))
       \/ /\ ~BotExists(b) \/ "get_by_id" \in Faults
          /\ Becomes(p, Answered(Reading(op, b), "failed"))
    /\ UNCHANGED <<tables, cloud>>

BeginDestroy(p, b) ==
    Begin(p, "destroy", b,
          IF bots[b].droplet = NoDroplet THEN "unlink_droplet" ELSE "destroy_droplet")

BeginPause(p, b) ==
    Begin(p, "pause", b, IF bots[b].droplet = NoDroplet THEN "set_paused" ELSE "shutdown")

BeginResume(p, b) ==
    Begin(p, "resume", b,
          IF bots[b].status # "paused" \/ bots[b].droplet = NoDroplet
          THEN "failed" ELSE "get_droplet")

BeginRedeploy(p, b) ==
    Begin(p, "redeploy", b,
          IF bots[b].droplet = NoDroplet THEN "get_latest" ELSE "redeploy_destroy")

----------------------------------------------------------------------------
(* destroy_bot.                                                             *)

\* Mutation: every error of destroy_droplet is taken for NotFound.
DestroyCallUnchecked(p, next) ==
    \E o \in Outcomes(req[p].pc) :
       /\ cloud' = After(o, IF IsUp(req[p].droplet) THEN Destroyed(req[p].droplet) ELSE cloud,
                         cloud)
       /\ Becomes(p, At(req[p], next))
       /\ UNCHANGED tables

\* destroy_droplet: Ok and NotFound go on, any other error ends the request.
DestroyCall(p, next) ==
    \E o \in Outcomes(req[p].pc) :
       /\ cloud' = After(o, IF IsUp(req[p].droplet) THEN Destroyed(req[p].droplet) ELSE cloud,
                         cloud)
       /\ Becomes(p, IF o = "done" THEN At(req[p], next) ELSE Answered(req[p], "failed"))
       /\ UNCHANGED tables

MarkCall(p, next, error) ==
    \E o \in Outcomes(req[p].pc) :
       /\ droplets' = After(o, MarkedDestroyed(req[p].droplet), droplets)
       /\ Becomes(p, IF o = "done" /\ DropletExists(req[p].droplet)
                     THEN At(req[p], next) ELSE error)
       /\ UNCHANGED <<accounts, bots, configs, uuids, cloud>>

DestroyDroplet(p) ==
    /\ req[p].pc = "destroy_droplet"
    /\ DestroyCall(p, "mark_destroyed")

\* Mutation: the row keeps the droplet.
MarkDestroyedStillLinked(p) ==
    /\ req[p].pc = "mark_destroyed"
    /\ MarkCall(p, "delete_bot", Retried(req[p], Answered(req[p], "failed")))
MarkDestroyed(p) ==
    /\ req[p].pc = "mark_destroyed"
    /\ MarkCall(p, "unlink_droplet", Retried(req[p], Answered(req[p], "failed")))

UnlinkDroplet(p) ==
    /\ req[p].pc = "unlink_droplet"
    /\ UpdateBot(p, WithDroplet(req[p].bot, NoDroplet), At(req[p], "delete_bot"),
                 Retried(req[p], Answered(req[p], "failed")))

\* Mutation: a delete that fails for good gives the slot back all the same.
DeleteBotUnchecked(p) ==
    /\ req[p].pc = "delete_bot"
    /\ UpdateBot(p, Deleted(req[p].bot), At(req[p], "decrement"),
                 Retried(req[p], At(req[p], "decrement")))
DeleteBot(p) ==
    /\ req[p].pc = "delete_bot"
    /\ UpdateBot(p, Deleted(req[p].bot), At(req[p], "decrement"),
                 Retried(req[p], Answered(req[p], "failed")))

\* The last retry's error is only logged: the request succeeds all the same.
ReleaseSlot(p) ==
    /\ req[p].pc = "decrement"
    /\ \E o \in Outcomes("decrement") :
         /\ accounts' = After(o, Decremented(req[p].account), accounts)
         /\ Becomes(p, IF o = "done" THEN Answered(req[p], "ok")
                       ELSE Retried(req[p], Answered(req[p], "ok")))
    /\ UNCHANGED <<bots, configs, droplets, uuids, cloud>>

----------------------------------------------------------------------------
(* redeploy_bot: destroys the droplet without retries and spawns another;   *)
(* the row keeps the old droplet id until link_droplet.                     *)

RedeployDestroy(p) ==
    /\ req[p].pc = "redeploy_destroy"
    /\ DestroyCall(p, "redeploy_mark")

RedeployMark(p) ==
    /\ req[p].pc = "redeploy_mark"
    /\ MarkCall(p, "get_latest", Answered(req[p], "failed"))

GetLatest(p) ==
    /\ req[p].pc = "get_latest"
    /\ \/ /\ configs[req[p].bot] # {}
          /\ Becomes(p, [At(req[p], "set_provisioning") EXCEPT !.droplet = NoDroplet])
       \/ /\ configs[req[p].bot] = {} \/ "get_latest" \in Faults
          /\ Becomes(p, Answered(req[p], "failed"))
    /\ UNCHANGED <<tables, cloud>>

----------------------------------------------------------------------------
(* pause_bot and resume_bot.                                                *)

\* Mutation: the bot is called paused whatever the shutdown said.
ShutdownUnchecked(p) ==
    /\ req[p].pc = "shutdown"
    /\ \E o \in Outcomes("shutdown") : cloud' = After(o, ShutDown(req[p].droplet), cloud)
    /\ Becomes(p, At(req[p], "set_paused"))
    /\ UNCHANGED tables
Shutdown(p) ==
    /\ req[p].pc = "shutdown"
    /\ \E o \in Outcomes("shutdown") :
         /\ cloud' = After(o, ShutDown(req[p].droplet), cloud)
         /\ Becomes(p, IF o = "done" /\ IsUp(req[p].droplet)
                       THEN At(req[p], "set_paused") ELSE Answered(req[p], "failed"))
    /\ UNCHANGED tables

SetPaused(p) ==
    /\ req[p].pc = "set_paused"
    /\ UpdateBot(p, WithStatus(req[p].bot, "paused"),
                 Answered(req[p], "ok"), Answered(req[p], "failed"))

\* Mutation: the bot is called online before its droplet is rebooted.
GetDropletMarked(p) ==
    /\ req[p].pc = "get_droplet"
    /\ \/ /\ IsUp(req[p].droplet)
          /\ Becomes(p, CASE Reported(req[p].droplet) = "Off" -> At(req[p], "reboot")
                          [] Reported(req[p].droplet) = "Active" -> At(req[p], "set_online")
                          [] OTHER -> Answered(req[p], "failed"))
          /\ bots' = WithStatus(req[p].bot, "online")
       \/ /\ ~IsUp(req[p].droplet) \/ "get_droplet" \in Faults
          /\ Becomes(p, Answered(req[p], "failed"))
          /\ UNCHANGED bots
    /\ UNCHANGED <<accounts, configs, droplets, uuids, cloud>>
GetDroplet(p) ==
    /\ req[p].pc = "get_droplet"
    /\ \/ /\ IsUp(req[p].droplet)
          /\ Becomes(p, CASE Reported(req[p].droplet) = "Off" -> At(req[p], "reboot")
                          [] Reported(req[p].droplet) = "Active" -> At(req[p], "set_online")
                          [] OTHER -> Answered(req[p], "failed"))
       \/ /\ ~IsUp(req[p].droplet) \/ "get_droplet" \in Faults
          /\ Becomes(p, Answered(req[p], "failed"))
    /\ UNCHANGED <<tables, cloud>>

Reboot(p) ==
    /\ req[p].pc = "reboot"
    /\ \E o \in Outcomes("reboot") :
         /\ cloud' = After(o, IF IsUp(req[p].droplet) THEN Rebooted(req[p].droplet) ELSE cloud,
                           cloud)
         /\ Becomes(p, IF o = "done" /\ IsUp(req[p].droplet)
                       THEN At(req[p], "set_online") ELSE Answered(req[p], "failed"))
    /\ UNCHANGED tables

SetOnline(p) ==
    /\ req[p].pc = "set_online"
    /\ UpdateBot(p, WithStatus(req[p].bot, "online"),
                 Answered(req[p], "ok"), Answered(req[p], "failed"))

----------------------------------------------------------------------------
(* The end of a request: the reply is sent, or the connection or the server *)
(* goes away and the handler's future is dropped where it stands.           *)

Reply(p) ==
    /\ req[p].pc \in {"ok", "failed", "dropped"}
    /\ ~OneShot
    /\ Becomes(p, Idle)
    /\ UNCHANGED <<tables, cloud>>

Cancel(p) ==
    /\ Cancellation
    /\ InFlight(p)
    /\ Becomes(p, Answered(req[p], "dropped"))
    /\ UNCHANGED <<tables, cloud>>

----------------------------------------------------------------------------

Start(p) ==
    \/ \E a \in Accounts : ReserveSlot(p, a)
    \/ \E b \in Bots : BeginDestroy(p, b) \/ BeginPause(p, b)
                         \/ BeginResume(p, b) \/ BeginRedeploy(p, b)

Step(p) ==
    \/ InsertBot(p) \/ InsertConfig(p) \/ SetDesired(p)
    \/ SetProvisioning(p) \/ SetToken(p) \/ CreateDroplet(p) \/ SetPending(p) \/ SetError(p)
    \/ InsertDroplet(p) \/ AssignDroplet(p) \/ LinkDroplet(p)
    \/ CleanupDroplet(p) \/ MarkFailed(p)
    \/ RollbackBot(p) \/ RollbackCounter(p)
    \/ DestroyDroplet(p) \/ MarkDestroyed(p) \/ UnlinkDroplet(p) \/ DeleteBot(p) \/ ReleaseSlot(p)
    \/ RedeployDestroy(p) \/ RedeployMark(p) \/ GetLatest(p)
    \/ Shutdown(p) \/ SetPaused(p) \/ GetDroplet(p) \/ Reboot(p) \/ SetOnline(p)
    \/ Reply(p)

Next ==
    \/ \E a \in Accounts, tier \in TierChoices : CreateAccount(a, tier) \/ UpdateSubscription(a, tier)
    \/ \E p \in Handlers : Start(p) \/ Step(p) \/ Cancel(p)
    \/ \E d \in Droplets : (Boot(d) \/ PowerOff(d)) /\ UNCHANGED req

Spec == Init /\ [][Next]_vars

\* The runtime keeps polling a request that can go on; nobody has to start one.
FairSpec == Spec /\ \A p \in Handlers : WF_vars(Step(p))

----------------------------------------------------------------------------
(* Who uses which droplet.                                                  *)

\* A bot's row only ever names a droplet whose own row names that bot: no two bots
\* share one, however spawns, rollbacks and deletions interleave and fail.
\* (spawn_bot inserts and assigns the droplet before it links it, and the rollback's
\* DELETE releases it.)
DropletOwnership ==
    \A b \in Bots : \A d \in Droplets :
        bots[b].droplet = d => DropletExists(d) /\ droplets[d].bot = b

\* A droplet the database calls destroyed is gone at DigitalOcean, and is never paid
\* for unnoticed: mark_destroyed only follows a DELETE that was answered.
MarkedDestroyedIsGone ==
    \A d \in Droplets : droplets[d].status = "destroyed" => ~IsUp(d)

\* The config a bot is told to run is in the database, though no foreign key says so.
DesiredConfigExists ==
    \A b \in Bots : bots[b].desired # 0 => bots[b].desired \in configs[b]

\* A droplet is only ever destroyed by a request on the bot it was created for.
OnlyOwnDropletDestroyed ==
    [][\A d \in Droplets :
         IsUp(d) /\ ~IsUp(d)' => \E p \in Handlers : /\ req[p].droplet = d
                                                    /\ req[p].bot = cloud[d].bot]_vars

----------------------------------------------------------------------------
(* The bot counter.                                                         *)

\* The requests that hold a place of their account which the bots table does not show:
\* a create from its increment to its rollback's decrement, a destroy from marking the
\* row to its decrement.
HoldsSlot(p) ==
    /\ InFlight(p)
    /\ req[p].op = "create" \/ req[p].pc \in {"delete_bot", "decrement"}

SlotHolders(a) ==
    {b \in Bots : IsLive(b) /\ bots[b].account = a}
      \cup {req[p].bot : p \in {q \in Handlers : HoldsSlot(q) /\ req[q].account = a}}

\* The counter never falls below the bots an account has or is creating, whichever
\* database calls fail, as long as clients do not overlap requests on one bot nor
\* touch destroyed bots, and rollbacks find the database up.
CounterCoversBots ==
    \A a \in Accounts : Cardinality(SlotHolders(a)) <= accounts[a].current_count

\* Without failures the counter is exact whenever nothing is in flight: no slot leaks.
CounterIsExact ==
    (\A p \in Handlers : ~InFlight(p)) =>
        \A a \in Accounts :
            Cardinality({b \in Bots : IsLive(b) /\ bots[b].account = a})
                = accounts[a].current_count

\* An account only gains a bot within the limit in force at that moment, also when its
\* tier was lowered below what it has.
GrowthWithinLimit ==
    [][\A a \in Accounts :
         Cardinality(SlotHolders(a)') > Cardinality(SlotHolders(a))
           => Cardinality(SlotHolders(a)') <= Limit(a)]_vars

\* What the limit is for: an account has no more live bots than it may have (with
\* clients that repeat a destroy, it can).
LiveBotsWithinLimit ==
    \A a \in Accounts :
        Cardinality({b \in Bots : IsLive(b) /\ bots[b].account = a}) <= Limit(a)

\* A creation on the only account is not refused a place while the account is under its
\* limit (with the database's default setting, it is).
UnderLimitIsGranted ==
    [][\A p \in Handlers :
         (req[p].pc = "idle" /\ req'[p].op = "create" /\ req'[p].pc = "failed")
           => \E a \in Accounts : accounts[a].tier = "none" \/ ~UnderLimit(a)]_vars

----------------------------------------------------------------------------
(* What a request leaves behind.                                            *)

Quiet(b) == \A p \in Handlers : InFlight(p) => req[p].bot # b

\* No droplet is left running that no bot and no request knows of.
NoOrphanDroplet ==
    \A d \in Droplets : IsUp(d) =>
        \/ \E b \in Bots : bots[b].droplet = d /\ IsLive(b)
        \/ \E p \in Handlers : InFlight(p) /\ req[p].droplet = d

\* A create request that failed leaves no bot behind, and no config of it: the rollback
\* of create_bot is complete.
FailedCreateLeavesNothing ==
    \A p \in Handlers : \A b \in Bots :
        req[p].pc = "failed" /\ req[p].op = "create" /\ req[p].bot = b
          => ~BotExists(b) /\ configs[b] = {}

\* Every bot nobody works on can be redeployed: its creation stored a config.
QuietBotsHaveConfig ==
    \A b \in Bots : BotExists(b) /\ Quiet(b) => configs[b] # {} /\ bots[b].desired # 0

\* A destroy request that succeeds leaves neither a live row nor a droplet of the bot.
DestroyedForGood ==
    \A p \in Handlers : \A b \in Bots :
        req[p].pc = "ok" /\ req[p].op = "destroy" /\ req[p].bot = b
          => /\ ~IsLive(b) /\ bots[b].droplet = NoDroplet
             /\ \A d \in Droplets : cloud[d].bot = b => ~IsUp(d)

\* The running droplet of a quiet bot holds the token of its row, so that its agent is
\* let in: no failure between set_token and link_droplet locks it out.
AgentCanAuthenticate ==
    \A b \in Bots : \A d \in Droplets :
        Quiet(b) /\ bots[b].droplet = d /\ IsUp(d)
          => cloud[d].bot = b /\ cloud[d].token = bots[b].token

\* The status shown for a quiet bot is true of its droplet: provisioning, online or
\* paused means there is one.
StatusTellsDroplet ==
    \A b \in Bots :
        Quiet(b) /\ bots[b].status \in {"provisioning", "online", "paused"}
          => bots[b].droplet # NoDroplet /\ IsUp(bots[b].droplet)

\* A paused bot does not run: its droplet is shutting down, off or gone.
PausedBotIsStopped ==
    \A b \in Bots : \A d \in Droplets :
        Quiet(b) /\ bots[b].status = "paused" /\ bots[b].droplet = d
          => cloud[d].power \in {"stopping", "off", "gone"}

\* Every request is answered: retries are bounded and no step waits for another.
EveryRequestAnswered ==
    \A p \in Handlers : InFlight(p) ~> req[p].pc \in {"ok", "failed"}

\* A bot left pending by a rate limited spawn gets out of it ("bot will retry").
RateLimitedBotRetries ==
    \A b \in Bots : (Quiet(b) /\ bots[b].status = "pending") ~> (bots[b].status # "pending")
=============================================================================
