------------------------------ MODULE Lifecycle ------------------------------
(***************************************************************************)
(* BotLifecycleService (src/application/lifecycle.rs) with the agents'     *)
(* HTTP routes of src/server/http.rs in front of it: register, config,     *)
(* config_ack and heartbeat, which check the bot's token first, and the    *)
(* library calls create_bot_config and check_stale_bots, which have no     *)
(* route and are made by the program that embeds the service.              *)
(*                                                                         *)
(* Each caller of `Callers` has one call served at a time, the record of   *)
(* its local variables; an action is what happens from one await to the    *)
(* next.  The bots' other columns, droplets and counters are left alone.   *)
(***************************************************************************)
EXTENDS Store

CONSTANTS
    Callers,
    MaxVersion,     \* bound: the config versions of a bot
    Exclusive,      \* pairs of operations that are not called together on one bot
    Disconnects     \* a caller may go away, and its call be dropped at any await

ASSUME LifecycleAssumption == MaxVersion \in Nat \ {0} /\ Disconnects \in BOOLEAN

VARIABLES
    heard,   \* bots.last_heartbeat_at, against the timeout of check_stale_bots
    call

callVars == <<heard, call>>
lifecycleVars == <<tables, callVars>>

----------------------------------------------------------------------------
(* Calls.                                                                   *)

FetchLabels == {"read_bot", "read_config"}
AckLabels == {"find_config", "check_desired", "set_applied", "ack_online"}
UpdateLabels == {"next_version", "store_config", "offer"}

CallLabels == FetchLabels \cup AckLabels \cup UpdateLabels \cup {"beat", "mark_stale"}

Replies == {"ok", "unauthorized", "not_found", "conflict", "invalid", "error"}

CallOps == {"none", "register", "fetch", "ack", "heartbeat", "update", "watch"}

Calls == [pc      : CallLabels \cup Replies \cup {"idle"},
          op      : CallOps,
          bot     : Bots \cup {NoBot},
          owner   : Bots \cup {NoBot},       \* with version, the config the call is about
          version : Nat,
          status  : BotStatus \cup {"absent"},   \* bot.status as read
          applied : Nat,                         \* bot.applied_config_version_id as read
          stale   : SUBSET Bots]                 \* of stale_bots, those still to be marked

NoCall == [pc |-> "idle", op |-> "none", bot |-> NoBot, owner |-> NoBot, version |-> 0,
           status |-> "absent", applied |-> 0, stale |-> {}]

CallTypeOK == /\ heard \in [Bots -> {"never", "stale", "fresh"}]
              /\ call \in [Callers -> Calls]

LifecycleTypeOK == StoreTypeOK /\ CallTypeOK

CallInit == heard = [b \in Bots |-> "never"] /\ call = [c \in Callers |-> NoCall]

InProgress(c) == call[c].pc \in CallLabels

CallBecomes(c, r) == call' = [call EXCEPT ![c] = r]

CallAt(c, label) == [call[c] EXCEPT !.pc = label]

\* What the caller gets: the reply, and the config for a fetch.
Replied(c, reply) ==
    [NoCall EXCEPT !.pc = reply,
                   !.version = IF call[c].op = "fetch" /\ reply = "ok" THEN call[c].version ELSE 0]

\* One UPDATE of the call's bot row; its error ends the call.
UpdateBotRow(c, new, next) ==
    \E o \in Outcomes(call[c].pc) :
       /\ bots' = After(o, new, bots)
       /\ CallBecomes(c, CASE o # "done" -> Replied(c, "error")
                           [] o = "done" /\ ~BotExists(call[c].bot) -> Replied(c, "not_found")
                           [] OTHER -> next)
       /\ UNCHANGED <<accounts, configs, droplets, uuids, heard>>

\* One SELECT: its row decides on what becomes of the call, unless it fails.
Read(c, found) ==
    \E o \in Outcomes(call[c].pc) :
       /\ CallBecomes(c, IF o = "done" THEN found ELSE Replied(c, "error"))
       /\ UNCHANGED <<tables, heard>>

----------------------------------------------------------------------------
(* The agents' routes.  get_bot_with_token runs before the operation; every *)
(* error of it is answered 401.                                             *)

MayCall(op, b) ==
    \A c \in Callers : InProgress(c) /\ call[c].bot = b => {op, call[c].op} \notin Exclusive

Authorized(b, t) == BotExists(b) /\ bots[b].token = t

FirstLabel == [fetch |-> "read_bot", ack |-> "find_config", heartbeat |-> "beat"]

\* A request of the agent that holds token t; an acknowledgement names a config.
Receive(c, op, b, t, owner, v) ==
    /\ call[c].pc = "idle"
    /\ MayCall(op, b)
    /\ \E o \in Outcomes("authenticate") :
         CallBecomes(c, CASE o # "done" \/ ~Authorized(b, t) -> [NoCall EXCEPT !.pc = "unauthorized"]
                          [] op = "register" -> [NoCall EXCEPT !.pc = "ok"]
                          [] OTHER -> [NoCall EXCEPT !.pc = FirstLabel[op], !.op = op, !.bot = b,
                                                     !.owner = owner, !.version = v])
    /\ UNCHANGED <<tables, heard>>

\* get_desired_config: the bot, then the config it names.
ReadBot(c) ==
    /\ call[c].pc = "read_bot"
    /\ LET b == call[c].bot
       IN  Read(c, CASE ~BotExists(b) -> Replied(c, "error")
                     [] BotExists(b) /\ bots[b].desired = 0 -> Replied(c, "not_found")
                     [] OTHER -> [CallAt(c, "read_config") EXCEPT !.version = bots[b].desired])

ReadConfig(c) ==
    /\ call[c].pc = "read_config"
    /\ Read(c, Replied(c, IF call[c].version \in configs[call[c].bot] THEN "ok" ELSE "not_found"))

\* acknowledge_config
FindConfig(c) ==
    /\ call[c].pc = "find_config"
    /\ Read(c, IF call[c].version \in configs[call[c].owner] /\ call[c].owner = call[c].bot
               THEN CallAt(c, "check_desired") ELSE Replied(c, "not_found"))

\* Mutation: MED-004 is not there yet.
DesiredUnchecked(c) ==
    /\ call[c].pc = "check_desired"
    /\ LET b == call[c].bot
       IN  Read(c, IF ~BotExists(b) THEN Replied(c, "not_found")
                   ELSE [CallAt(c, "set_applied") EXCEPT !.status = bots[b].status])
CheckDesired(c) ==
    /\ call[c].pc = "check_desired"
    /\ LET b == call[c].bot
       IN  Read(c, CASE ~BotExists(b) -> Replied(c, "not_found")
                     [] BotExists(b) /\ bots[b].desired # call[c].version -> Replied(c, "conflict")
                     [] OTHER -> [CallAt(c, "set_applied") EXCEPT !.status = bots[b].status])

\* Mutation: what is desired by now is taken for what was acknowledged.
SetDesiredApplied(c) ==
    /\ call[c].pc = "set_applied"
    /\ LET b == call[c].bot
       IN  UpdateBotRow(c, WithConfigVersion(b, bots[b].desired, bots[b].desired),
                        IF call[c].status \in {"provisioning", "pending"}
                        THEN CallAt(c, "ack_online") ELSE Replied(c, "ok"))
\* Mutation: the UPDATE's error is dropped.
SetAppliedUnchecked(c) ==
    /\ call[c].pc = "set_applied"
    /\ \E o \in Outcomes("set_applied") :
         bots' = After(o, WithConfigVersion(call[c].bot, call[c].version, call[c].version), bots)
    /\ CallBecomes(c, IF call[c].status \in {"provisioning", "pending"}
                      THEN CallAt(c, "ack_online") ELSE Replied(c, "ok"))
    /\ UNCHANGED <<accounts, configs, droplets, uuids, heard>>

\* Mutation: only a pending bot is set online.
SetAppliedOnlinePending(c) ==
    /\ call[c].pc = "set_applied"
    /\ UpdateBotRow(c, WithConfigVersion(call[c].bot, call[c].version, call[c].version),
                    IF call[c].status = "pending" THEN CallAt(c, "ack_online") ELSE Replied(c, "ok"))
SetApplied(c) ==
    /\ call[c].pc = "set_applied"
    /\ UpdateBotRow(c, WithConfigVersion(call[c].bot, call[c].version, call[c].version),
                    IF call[c].status \in {"provisioning", "pending"}
                    THEN CallAt(c, "ack_online") ELSE Replied(c, "ok"))

AckOnline(c) ==
    /\ call[c].pc = "ack_online"
    /\ UpdateBotRow(c, WithStatus(call[c].bot, "online"), Replied(c, "ok"))

\* record_heartbeat
Beat(c) ==
    /\ call[c].pc = "beat"
    /\ \E o \in Outcomes("beat") :
         /\ heard' = After(o, IF BotExists(call[c].bot) THEN [heard EXCEPT ![call[c].bot] = "fresh"]
                                                        ELSE heard, heard)
         /\ CallBecomes(c, Replied(c, IF o = "done" /\ BotExists(call[c].bot) THEN "ok" ELSE "error"))
    /\ UNCHANGED tables

----------------------------------------------------------------------------
(* create_bot_config                                                        *)

Updates(b) == {c \in Callers : InProgress(c) /\ call[c].op = "update" /\ call[c].bot = b}

BeginUpdate(c, b) ==
    /\ call[c].pc = "idle"
    /\ Latest(b) + Cardinality(Updates(b)) < MaxVersion   \* bound: MaxVersion
    /\ MayCall("update", b)
    /\ \E o \in Outcomes("get_bot") :
         CallBecomes(c, CASE o # "done" -> [NoCall EXCEPT !.pc = "error"]
                          [] o = "done" /\ ~BotExists(b) -> [NoCall EXCEPT !.pc = "not_found"]
                          [] o = "done" /\ bots[b].status = "destroyed" ->
                                [NoCall EXCEPT !.pc = "invalid"]
                          [] OTHER -> [NoCall EXCEPT !.pc = "next_version", !.op = "update",
                                                     !.bot = b, !.applied = bots[b].applied])
    /\ UNCHANGED <<tables, heard>>

\* Mutation: a sequence, which does not draw a number twice.
DrawFromSequence(c) ==
    /\ call[c].pc = "next_version"
    /\ LET b == call[c].bot
           drawn == {call[x].version : x \in {y \in Callers : call[y].pc = "store_config"}}
       IN  Read(c, [CallAt(c, "store_config") EXCEPT !.owner = b,
                       !.version = CHOOSE v \in 1 .. MaxVersion :
                                      /\ v >= NextVersion(b) /\ v \notin drawn
                                      /\ \A w \in NextVersion(b) .. v - 1 : w \in drawn])
DrawVersion(c) ==
    /\ call[c].pc = "next_version"
    /\ Read(c, [CallAt(c, "store_config") EXCEPT !.owner = call[c].bot,
                                                 !.version = NextVersion(call[c].bot)])

StoreConfig(c) ==
    /\ call[c].pc = "store_config"
    /\ \E o \in Outcomes("store_config") :
         /\ configs' = After(o, ConfigsWith(call[c].bot, call[c].version), configs)
         /\ CallBecomes(c, IF o = "done" /\ ConfigInsertable(call[c].bot, call[c].version)
                          THEN CallAt(c, "offer") ELSE Replied(c, "error"))
    /\ UNCHANGED <<accounts, bots, droplets, uuids, heard>>

\* Mutation: the new config is written as the applied one.
OfferAsApplied(c) ==
    /\ call[c].pc = "offer"
    /\ UpdateBotRow(c, WithConfigVersion(call[c].bot, call[c].applied, call[c].version),
                    Replied(c, "ok"))
Offer(c) ==
    /\ call[c].pc = "offer"
    /\ UpdateBotRow(c, WithConfigVersion(call[c].bot, call[c].version, call[c].applied),
                    Replied(c, "ok"))

----------------------------------------------------------------------------
(* check_stale_bots: the list, then an UPDATE per bot; the first error ends *)
(* the call.                                                                *)

\* list_stale_bots
Stale == {b \in Bots : bots[b].status = "online" /\ heard[b] # "fresh"}

BeginWatch(c) ==
    /\ call[c].pc = "idle"
    /\ \E o \in Outcomes("list_stale") :
         CallBecomes(c, CASE o # "done" -> [NoCall EXCEPT !.pc = "error"]
                          [] o = "done" /\ Stale = {} -> [NoCall EXCEPT !.pc = "ok"]
                          [] OTHER -> [NoCall EXCEPT !.pc = "mark_stale", !.op = "watch",
                                                     !.stale = Stale])
    /\ UNCHANGED <<tables, heard>>

\* Mutation: a status the database does not know.
MarkAsStale(c, b) ==
    /\ call[c].pc = "mark_stale"
    /\ b \in call[c].stale
    /\ bots' = WithStatus(b, "stale")
    /\ CallBecomes(c, Replied(c, "ok"))
    /\ UNCHANGED <<accounts, configs, droplets, uuids, heard>>
MarkStale(c, b) ==
    /\ call[c].pc = "mark_stale"
    /\ b \in call[c].stale
    /\ \E o \in Outcomes("mark_stale") :
         /\ bots' = After(o, WithStatus(b, "error"), bots)
         /\ CallBecomes(c, IF o # "done" \/ ~BotExists(b) THEN Replied(c, "error")
                          ELSE IF call[c].stale = {b} THEN Replied(c, "ok")
                          ELSE [call[c] EXCEPT !.stale = @ \ {b}])
    /\ UNCHANGED <<accounts, configs, droplets, uuids, heard>>

----------------------------------------------------------------------------

CallStep(c) ==
    \/ ReadBot(c) \/ ReadConfig(c)
    \/ FindConfig(c) \/ CheckDesired(c) \/ SetApplied(c) \/ AckOnline(c)
    \/ Beat(c)
    \/ DrawVersion(c) \/ StoreConfig(c) \/ Offer(c)
    \/ \E b \in Bots : MarkStale(c, b)

\* The caller takes the reply; or it goes away and the call is dropped where it stands.
Return(c) ==
    /\ call[c].pc \in Replies
    /\ CallBecomes(c, NoCall)
    /\ UNCHANGED <<tables, heard>>

Drop(c) ==
    /\ Disconnects
    /\ InProgress(c)
    /\ CallBecomes(c, NoCall)
    /\ UNCHANGED <<tables, heard>>

\* The heartbeat timeout passes without another one.
Age(b) ==
    /\ heard[b] = "fresh"
    /\ heard' = [heard EXCEPT ![b] = "stale"]
    /\ UNCHANGED <<tables, call>>

AgentCall(c) ==
    \E b \in Bots, t \in Tokens :
       \/ \E op \in {"register", "fetch", "heartbeat"} : Receive(c, op, b, t, NoBot, 0)
       \/ \E owner \in Bots, v \in 1 .. MaxVersion : Receive(c, "ack", b, t, owner, v)

HostCall(c) == BeginWatch(c) \/ \E b \in Bots : BeginUpdate(c, b)

LifecycleNext ==
    \/ \E c \in Callers : AgentCall(c) \/ HostCall(c) \/ CallStep(c) \/ Return(c) \/ Drop(c)
    \/ \E b \in Bots : Age(b)

\* A droplet and a token for each bot, of which there are enough.
OneEach(S) == {f \in [Bots -> S] : \A x, y \in Bots : x # y => f[x] # f[y]}

ASSUME HomesAssumption == OneEach(Droplets) # {} /\ OneEach(Tokens) # {}

Home == CHOOSE f \in OneEach(Droplets) : TRUE
Key == CHOOSE f \in OneEach(Tokens) : TRUE

\* Bots as create_bot leaves them: the first config stored and desired, none applied.
LifecycleInit ==
    /\ accounts = [a \in Accounts |-> [tier |-> "pro", current_count |-> Cardinality(Bots)]]
    /\ \E a \in Accounts :
         bots = [b \in Bots |-> [status |-> "provisioning", account |-> a, droplet |-> Home[b],
                                 desired |-> 1, applied |-> 0, token |-> Key[b]]]
    /\ droplets = [d \in Droplets |->
            IF \E b \in Bots : Home[b] = d
            THEN [status |-> "new", bot |-> CHOOSE b \in Bots : Home[b] = d]
            ELSE [status |-> "absent", bot |-> NoBot]]
    /\ configs = [b \in Bots |-> {1}]
    /\ uuids = Bots
    /\ CallInit

LifecycleSpec == LifecycleInit /\ [][LifecycleNext]_lifecycleVars

----------------------------------------------------------------------------
(* The config versions of a bot.                                            *)

\* The versions of a bot are 1, 2, ... without a gap: updates that draw the same number
\* do not both store it, and one that fails does not use its number up.
VersionsGapless == \A b \in Bots : configs[b] = 1 .. Latest(b)

\* The config a bot is told to run, and the one it is said to run, are stored; and it
\* never is ahead of what it was told, whatever create_bot_config and
\* acknowledge_config write back from what they read before.
AppliedNotAhead ==
    \A b \in Bots : /\ {bots[b].desired, bots[b].applied} \subseteq configs[b] \cup {0}
                    /\ bots[b].applied <= bots[b].desired

\* A bot that was brought online by its agent runs some config: no update undoes the
\* first acknowledgement (when the two are not called together).
OnlineRunsConfig ==
    \A b \in Bots : bots[b].status = "online" => bots[b].applied # 0
=============================================================================
