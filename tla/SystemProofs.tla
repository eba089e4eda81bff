----------------------------- MODULE SystemProofs -----------------------------
(***************************************************************************)
(* Theorems about the systems that are put together of the services, for   *)
(* any number of handlers, bots, droplets, callers and versions, whatever  *)
(* requests break off or are dropped and whatever calls fail.              *)
(*                                                                         *)
(* The first part is about BotAgent: what the control plane says a bot     *)
(* runs is on its agent's disk, as long as the updates of a bot are made   *)
(* one at a time.  Both sides go by what they read before: an              *)
(* acknowledgement by what the agent fetched, an update by the applied     *)
(* version it found at its start.  OnDisk orders all of these versions.    *)
(*                                                                         *)
(* The second part is about ControlPlane, where bots are created, rolled   *)
(* back and destroyed while their calls are served.  SystemInv joins what  *)
(* the proofs about Provisioning and about Lifecycle rest on, and Found    *)
(* keeps the two apart: no call is about a bot that is not inserted yet.   *)
(***************************************************************************)
EXTENDS ControlPlane, RequestProofs, LifecycleProofs

----------------------------------------------------------------------------
(* The agents: the inductive invariant.                                     *)

\* What the program around the service sees to.
UpdatesAlone == {"update"} \in Exclusive

\* Every bot has the droplet that was made for it.
AtHome ==
    /\ \A b \in Bots, d \in Droplets : bots[b].droplet = d <=> cloud[d].bot = b
    /\ \A d \in Droplets : cloud[d].power # "none" => cloud[d].bot \in Bots

\* The call r that serves the request of an agent a, whose bot is b: there is one while
\* the agent waits, and it does what the agent asked.
Serves(r, a, b) ==
    /\ r.pc = "idle" <=> a.fate = "none"
    /\ a.fate # "none" => a.pc \in DOMAIN Asked
    /\ r.pc \in CallLabels => r.bot = b
    /\ r.pc \in FetchLabels => r.op = "fetch" /\ a.pc \in {"start", "sync"}
    /\ r.pc \in AckLabels => r.op = "ack" /\ a.pc = "ack"
    /\ r.pc = "beat" => r.op = "heartbeat" /\ a.pc = "heartbeat"
    /\ r.pc \notin UpdateLabels \cup {"mark_stale"}
    /\ r.pc \in AckLabels => r.version = a.config

\* Only the program around it updates bots, ...
OfHosts ==
    /\ \A c \in Hosts : call[c].pc \notin FetchLabels \cup AckLabels \cup {"beat"}
    /\ \A c \in Callers : call[c].pc \in UpdateLabels => call[c].op = "update"

\* ... each of them with one call at a time, if it sees to that.
OneUpdate ==
    \A x, y \in Callers :
        call[x].pc \in UpdateLabels /\ call[y].pc \in UpdateLabels /\ call[x].bot = call[y].bot
          => x = y

\* The versions of a bot with row `row` and agent a: applied, on disk and desired are in
\* this order, ...
Ranked(a, row) == row.applied <= a.config /\ a.config <= row.desired

\* ... a config that the agent's call r has for it is not older than the one on disk, ...
Fetched(r, a, row) ==
    r.pc = "read_config" \/ (r.pc = "ok" /\ a.pc \in {"start", "sync"}) =>
        a.config <= r.version /\ r.version <= row.desired

\* ... and an update r will not write an applied version that is newer, nor take the
\* desired one back.
Drawn(r, a, row) ==
    /\ r.pc \in UpdateLabels => r.applied <= a.config
    /\ r.pc \in {"store_config", "offer"} => row.desired <= r.version

OnDisk ==
    \A b \in Bots, d \in Droplets : bots[b].droplet = d =>
        /\ Ranked(agent[d], bots[b])
        /\ Fetched(call[d], agent[d], bots[b])
        /\ \A c \in Callers : call[c].bot = b => Drawn(call[c], agent[d], bots[b])

AgentInv ==
    /\ IInv /\ CloudTypeOK /\ agent \in [Droplets -> AgentRows]
    /\ AtHome /\ OfHosts
    /\ \A d \in Droplets : Serves(call[d], agent[d], cloud[d].bot)
    /\ UpdatesAlone => OneUpdate /\ OnDisk

----------------------------------------------------------------------------
(* Types and initial states.                                                *)

\* What an agent asks, and the labels of calls, by enumeration.
LEMMA Labels ==
    /\ DOMAIN Asked = {"register", "start", "heartbeat", "sync", "ack"}
    /\ CallLabels = FetchLabels \cup AckLabels \cup UpdateLabels \cup {"beat", "mark_stale"}
    /\ FetchLabels = {"read_bot", "read_config"} /\ UpdateLabels = {"next_version", "store_config", "offer"}
    /\ AckLabels = {"find_config", "check_desired", "set_applied", "ack_online"}
    /\ Replies = {"ok", "unauthorized", "not_found", "conflict", "invalid", "error"}
BY DEF Asked, CallLabels, FetchLabels, AckLabels, UpdateLabels, Replies

\* What the invariant says of the types of the state.
LEMMA StateTypes ==
    ASSUME AgentInv
    PROVE  /\ LifecycleTypeOK /\ Grounded /\ AppliedNotAhead
           /\ bots \in [Bots -> BotRows] /\ configs \in [Bots -> SUBSET Nat]
           /\ call \in [Callers -> Calls] /\ cloud \in [Droplets -> CloudRows]
           /\ agent \in [Droplets -> AgentRows] /\ Droplets \subseteq Callers
BY AgentAssumption
   DEF AgentInv, IInv, LifecycleTypeOK, StoreTypeOK, CallTypeOK, CloudTypeOK

\* An agent that has stopped at some time of its clock.
LEMMA OffAtType == \A t \in 0 .. Cycle - 1 : OffAt(t) \in AgentRows
BY DEF OffAt, AgentRows, MAX_REGISTRATIONS

\* The droplets that create_bot has just made belong to the bots that have them.
LEMMA InitHome ==
    ASSUME AgentInit
    PROVE  AtHome /\ CloudTypeOK
<1>1. /\ Home \in [Bots -> Droplets] /\ Key \in [Bots -> Tokens]
      /\ \A x, y \in Bots : x # y => Home[x] # Home[y]
  BY HomesAssumption DEF Home, Key, OneEach
<1>2. /\ \A b \in Bots : bots[b].droplet = Home[b] /\ bots[b].token = Key[b]
      /\ \A d \in Droplets :
           droplets[d] = IF \E b \in Bots : Home[b] = d
                         THEN [status |-> "new", bot |-> CHOOSE b \in Bots : Home[b] = d]
                         ELSE [status |-> "absent", bot |-> NoBot]
  BY DEF AgentInit, LifecycleInit
<1>3. ASSUME NEW d \in Droplets
      PROVE  \/ /\ droplets[d].bot = NoBot /\ \A b \in Bots : Home[b] # d
             \/ /\ droplets[d].bot \in Bots /\ Home[droplets[d].bot] = d
  <2>1. CASE \E b \in Bots : Home[b] = d
    <3>1. PICK b : b = CHOOSE x \in Bots : Home[x] = d
      OBVIOUS
    <3>2. b \in Bots /\ Home[b] = d
      BY <2>1, <3>1
    <3>3. droplets[d] = [status |-> "new", bot |-> b]
      BY <1>2, <2>1, <3>1
    <3> QED  BY <3>2, <3>3
  <2>2. CASE ~\E b \in Bots : Home[b] = d
    <3>1. droplets[d] = [status |-> "absent", bot |-> NoBot]
      BY <1>2, <2>2
    <3> QED  BY <2>2, <3>1
  <2> QED  BY <2>1, <2>2
<1>4. ASSUME NEW d \in Droplets
      PROVE  cloud[d] = IF droplets[d].bot = NoBot
                        THEN [power |-> "none", bot |-> NoBot, token |-> 0]
                        ELSE [power |-> "new", bot |-> droplets[d].bot,
                              token |-> bots[droplets[d].bot].token]
  BY DEF AgentInit
<1>5. ASSUME NEW d \in Droplets
      PROVE  \/ /\ cloud[d] = [power |-> "none", bot |-> NoBot, token |-> 0]
                /\ \A b \in Bots : Home[b] # d
             \/ \E b \in Bots : /\ Home[b] = d
                              /\ cloud[d] = [power |-> "new", bot |-> b, token |-> Key[b]]
  <2>1. CASE droplets[d].bot = NoBot /\ \A b \in Bots : Home[b] # d
    BY <1>4, <2>1
  <2>2. CASE droplets[d].bot \in Bots /\ Home[droplets[d].bot] = d
    <3>1. PICK b \in Bots : b = droplets[d].bot
      BY <2>2
    <3>2. b # NoBot /\ bots[b].token = Key[b]
      BY <1>2, StoreAssumption
    <3> QED  BY <1>4, <2>2, <3>1, <3>2
  <2> QED  BY <1>3, <2>1, <2>2
<1>6. ASSUME NEW d \in Droplets
      PROVE  /\ \A b \in Bots : bots[b].droplet = d <=> cloud[d].bot = b
             /\ cloud[d].power # "none" => cloud[d].bot \in Bots
             /\ cloud[d] \in CloudRows
  <2>1. CASE /\ cloud[d] = [power |-> "none", bot |-> NoBot, token |-> 0]
             /\ \A b \in Bots : Home[b] # d
    <3>1. cloud[d].bot = NoBot /\ cloud[d].power = "none" /\ cloud[d] \in CloudRows
      BY <2>1 DEF CloudRows, Powers
    <3> QED  BY <1>2, <2>1, <3>1, StoreAssumption
  <2>2. ASSUME NEW b \in Bots, Home[b] = d,
               cloud[d] = [power |-> "new", bot |-> b, token |-> Key[b]]
        PROVE  /\ \A x \in Bots : bots[x].droplet = d <=> cloud[d].bot = x
               /\ cloud[d].bot \in Bots /\ cloud[d] \in CloudRows
    <3>1. cloud[d].bot = b
      BY <2>2
    <3>2. Key[b] \in Tokens
      BY <1>1
    <3>3. cloud[d] \in CloudRows
      BY <2>2, <3>2 DEF CloudRows, Powers
    <3>4. ASSUME NEW x \in Bots PROVE Home[x] = d <=> x = b
      BY <1>1, <2>2
    <3> QED  BY <1>2, <3>1, <3>3, <3>4
  <2> QED  BY <1>5, <2>1, <2>2
<1>7. cloud = [d \in Droplets |-> cloud[d]]
  BY DEF AgentInit
<1> QED  BY <1>6, <1>7 DEF AtHome, CloudTypeOK

\* Nothing is applied and nothing asked yet.
LEMMA InitAgent == AgentInit => AgentInv
<1> SUFFICES ASSUME AgentInit PROVE AgentInv
  OBVIOUS
<1>1. IInv
  BY InitIInv DEF AgentInit
<1>2. /\ \A c \in Callers : call[c] = NoCall /\ call[c].pc = "idle"
      /\ \A b \in Bots : bots[b].applied = 0 /\ bots[b].desired = 1
  BY DEF AgentInit, LifecycleInit, CallInit, NoCall
<1>3. PICK t \in 0 .. Cycle - 1 : agent = [d \in Droplets |-> OffAt(t)]
  BY DEF AgentInit
<1>4. \A d \in Droplets : agent[d].fate = "none" /\ agent[d].config = 0
  BY <1>3 DEF OffAt
<1>5. agent \in [Droplets -> AgentRows]
  BY <1>3, OffAtType
<1>6. Droplets \subseteq Callers /\ Hosts \subseteq Callers
  BY AgentAssumption DEF Hosts
<1>7. OfHosts /\ OneUpdate
  BY <1>2, <1>6, Labels DEF OfHosts, OneUpdate
<1>8. OnDisk
  BY <1>2, <1>4, <1>6, Labels DEF OnDisk, Ranked, Fetched, Drawn
<1>9. \A d \in Droplets : Serves(call[d], agent[d], cloud[d].bot)
  BY <1>2, <1>4, <1>6, Labels DEF Serves
<1> QED  BY <1>1, <1>5, <1>7, <1>8, <1>9, InitHome DEF AgentInv

----------------------------------------------------------------------------
(* What a step of a call does.                                              *)

\* It writes the versions of its bot at offer and at set_applied, and no other ones; and
\* no bot gets another droplet.
LEMMA StepRows ==
    ASSUME LifecycleTypeOK, NEW c \in Callers, CallStep(c), NEW b \in Bots
    PROVE  /\ bots'[b].droplet = bots[b].droplet
           /\ \/ Untouched(b)
              \/ /\ call[c].pc = "offer" /\ call[c].bot = b /\ BotExists(b)
                 /\ bots'[b].desired = call[c].version /\ bots'[b].applied = call[c].applied
              \/ /\ call[c].pc = "set_applied" /\ call[c].bot = b /\ BotExists(b)
                 /\ bots'[b].desired = call[c].version /\ bots'[b].applied = call[c].version
<1>1. bots \in [Bots -> BotRows]
  BY DEF LifecycleTypeOK, StoreTypeOK
<1>2. CASE bots' = bots
  BY <1>2 DEF Untouched
<1>3. CASE ReadBot(c) \/ ReadConfig(c) \/ FindConfig(c) \/ CheckDesired(c) \/ Beat(c)
             \/ DrawVersion(c) \/ StoreConfig(c)
  <2>1. bots' = bots
    BY <1>3 DEF ReadBot, ReadConfig, FindConfig, CheckDesired, Beat, DrawVersion, StoreConfig,
                Read, tables
  <2> QED  BY <1>2, <2>1
<1>4. ASSUME NEW x, NEW s, bots' = WithStatus(x, s) PROVE bots'[b].droplet = bots[b].droplet /\ Untouched(b)
  BY <1>1, <1>4 DEF WithStatus, WithBot, Untouched, BotRows
<1>5. CASE AckOnline(c) \/ \E x \in Bots : MarkStale(c, x)
  <2>1. bots' = bots \/ \E x, s : bots' = WithStatus(x, s)
    BY <1>5 DEF AckOnline, MarkStale, UpdateBotRow, After
  <2> QED  BY <1>2, <1>4, <2>1
<1>6. ASSUME NEW v, NEW w, bots' = WithConfigVersion(call[c].bot, v, w)
      PROVE  /\ bots'[b].droplet = bots[b].droplet
             /\ \/ Untouched(b)
                \/ /\ call[c].bot = b /\ BotExists(b)
                   /\ bots'[b].desired = v /\ bots'[b].applied = w
  BY <1>1, <1>6 DEF WithConfigVersion, WithBot, Untouched, BotRows
<1>7. CASE Offer(c)
  <2>1. bots' = WithConfigVersion(call[c].bot, call[c].version, call[c].applied) \/ bots' = bots
    BY <1>7 DEF Offer, UpdateBotRow, After
  <2> QED  BY <1>2, <1>6, <1>7, <2>1 DEF Offer
<1>8. CASE SetApplied(c)
  <2>1. bots' = WithConfigVersion(call[c].bot, call[c].version, call[c].version) \/ bots' = bots
    BY <1>8 DEF SetApplied, UpdateBotRow, After
  <2> QED  BY <1>2, <1>6, <1>8, <2>1 DEF SetApplied
<1> QED  BY <1>3, <1>5, <1>7, <1>8 DEF CallStep

\* It goes on as s: with the bot it is about, and with the versions it has read or drawn.
Follows(c, s) ==
    /\ CallBecomes(c, s)
    /\ s.pc \in (CallLabels \ {"read_bot", "find_config", "next_version", "beat"}) \cup Replies
    /\ s.pc \in CallLabels => s.bot = call[c].bot /\ s.op = call[c].op
    /\ s.pc \in UpdateLabels => call[c].pc \in UpdateLabels /\ s.applied = call[c].applied
    /\ s.pc = "store_config" => bots' = bots /\ s.version = NextVersion(s.bot)
    /\ s.pc = "offer" => bots' = bots /\ call[c].pc = "store_config" /\ s.version = call[c].version
    /\ s.pc \in AckLabels => call[c].pc \in AckLabels /\ s.version = call[c].version
    /\ s.pc = "read_config" => /\ bots' = bots /\ call[c].pc = "read_bot"
                               /\ s.version = bots[s.bot].desired
    /\ s.pc = "ok" /\ call[c].pc \in FetchLabels /\ call[c].op = "fetch" =>
         bots' = bots /\ call[c].pc = "read_config" /\ s.version = call[c].version
    /\ s.pc = "mark_stale" => call[c].pc = "mark_stale"

LEMMA StepFollows ==
    ASSUME LifecycleTypeOK, NEW c \in Callers, CallStep(c)
    PROVE  \E s : Follows(c, s)
<1> DEFINE r == call[c]
<1>1. r \in Calls
  BY DEF LifecycleTypeOK, CallTypeOK
<1>2. \A reply : Replied(c, reply).pc = reply
  BY DEF Replied, NoCall
<1>3. \A label : CallAt(c, label) = [r EXCEPT !.pc = label]
  BY DEF CallAt
<1>4. ASSUME NEW reply \in Replies, CallBecomes(c, Replied(c, reply)),
             reply = "ok" => r.pc \notin FetchLabels
      PROVE  \E s : Follows(c, s)
  BY <1>2, <1>4, Labels DEF Follows
<1>5. CASE ReadBot(c)
  <2>1. CASE CallBecomes(c, [CallAt(c, "read_config") EXCEPT !.version = bots[r.bot].desired])
    <3>1. PICK s : CallBecomes(c, s) /\ s = [CallAt(c, "read_config") EXCEPT !.version = bots[r.bot].desired]
      BY <2>1
    <3>2. CallBecomes(c, s) /\ s.pc = "read_config" /\ s.bot = r.bot /\ s.op = r.op /\ s.version = bots[r.bot].desired
      BY <1>1, <1>3, <3>1 DEF Calls
    <3>3. bots' = bots /\ r.pc = "read_bot"
      BY <1>5 DEF ReadBot, Read, tables
    <3> QED  BY <3>2, <3>3, Labels DEF Follows
  <2> QED  BY <1>4, <1>5, <2>1, Labels DEF ReadBot, Read
<1>6. CASE ReadConfig(c)
  <2>1. bots' = bots /\ r.pc = "read_config"
    BY <1>6 DEF ReadConfig, Read, tables
  <2>2. CASE CallBecomes(c, Replied(c, "ok"))
    <3>1. r.op = "fetch" => Replied(c, "ok").version = r.version
      BY DEF Replied, NoCall
    <3> QED  BY <1>2, <2>1, <2>2, <3>1, Labels DEF Follows
  <2> QED  BY <1>4, <1>6, <2>2, Labels DEF ReadConfig, Read
<1>7. CASE FindConfig(c)
  <2>1. CASE CallBecomes(c, CallAt(c, "check_desired"))
    <3>1. PICK s : CallBecomes(c, s) /\ s = CallAt(c, "check_desired")
      BY <2>1
    <3>2. CallBecomes(c, s) /\ s.pc = "check_desired" /\ s.bot = r.bot /\ s.op = r.op /\ s.version = r.version
      BY <1>1, <1>3, <3>1 DEF Calls
    <3> QED  BY <1>7, <3>2, Labels DEF Follows, FindConfig
  <2> QED  BY <1>4, <1>7, <2>1, Labels DEF FindConfig, Read
<1>8. CASE CheckDesired(c)
  <2>1. CASE CallBecomes(c, [CallAt(c, "set_applied") EXCEPT !.status = bots[r.bot].status])
    <3>1. PICK s : CallBecomes(c, s) /\ s = [CallAt(c, "set_applied") EXCEPT !.status = bots[r.bot].status]
      BY <2>1
    <3>2. CallBecomes(c, s) /\ s.pc = "set_applied" /\ s.bot = r.bot /\ s.op = r.op /\ s.version = r.version
      BY <1>1, <1>3, <3>1 DEF Calls
    <3> QED  BY <1>8, <3>2, Labels DEF Follows, CheckDesired
  <2> QED  BY <1>4, <1>8, <2>1, Labels DEF CheckDesired, Read
<1>9. CASE SetApplied(c)
  <2>1. CASE CallBecomes(c, CallAt(c, "ack_online"))
    <3>1. PICK s : CallBecomes(c, s) /\ s = CallAt(c, "ack_online")
      BY <2>1
    <3>2. CallBecomes(c, s) /\ s.pc = "ack_online" /\ s.bot = r.bot /\ s.op = r.op /\ s.version = r.version
      BY <1>1, <1>3, <3>1 DEF Calls
    <3> QED  BY <1>9, <3>2, Labels DEF Follows, SetApplied
  <2> QED  BY <1>4, <1>9, <2>1, Labels DEF SetApplied, UpdateBotRow
<1>10. CASE AckOnline(c)
  BY <1>4, <1>10, Labels DEF AckOnline, UpdateBotRow
<1>11. CASE Beat(c)
  BY <1>4, <1>11, Labels DEF Beat
<1>12. CASE DrawVersion(c)
  <2>1. CASE CallBecomes(c, [CallAt(c, "store_config") EXCEPT !.owner = r.bot,
                                                      !.version = NextVersion(r.bot)])
    <3>1. PICK s : CallBecomes(c, s) /\ s = [CallAt(c, "store_config") EXCEPT !.owner = r.bot,
                                                    !.version = NextVersion(r.bot)]
      BY <2>1
    <3>2. /\ CallBecomes(c, s) /\ s.pc = "store_config" /\ s.bot = r.bot /\ s.op = r.op
          /\ s.version = NextVersion(r.bot) /\ s.applied = r.applied
      BY <1>1, <1>3, <3>1 DEF Calls
    <3>3. bots' = bots /\ r.pc = "next_version"
      BY <1>12 DEF DrawVersion, Read, tables
    <3> QED  BY <3>2, <3>3, Labels DEF Follows
  <2> QED  BY <1>4, <1>12, <2>1, Labels DEF DrawVersion, Read
<1>13. CASE StoreConfig(c)
  <2>1. CASE CallBecomes(c, CallAt(c, "offer"))
    <3>1. PICK s : CallBecomes(c, s) /\ s = CallAt(c, "offer")
      BY <2>1
    <3>2. /\ CallBecomes(c, s) /\ s.pc = "offer" /\ s.bot = r.bot /\ s.op = r.op /\ s.version = r.version
          /\ s.applied = r.applied
      BY <1>1, <1>3, <3>1 DEF Calls
    <3>3. bots' = bots /\ r.pc = "store_config"
      BY <1>13 DEF StoreConfig
    <3> QED  BY <3>2, <3>3, Labels DEF Follows
  <2> QED  BY <1>4, <1>13, <2>1, Labels DEF StoreConfig
<1>14. CASE Offer(c)
  BY <1>4, <1>14, Labels DEF Offer, UpdateBotRow
<1>15. ASSUME NEW x \in Bots, MarkStale(c, x) PROVE \E s : Follows(c, s)
  <2>1. CASE CallBecomes(c, [r EXCEPT !.stale = @ \ {x}])
    <3>1. PICK s : CallBecomes(c, s) /\ s = [r EXCEPT !.stale = @ \ {x}]
      BY <2>1
    <3>2. CallBecomes(c, s) /\ s.pc = r.pc /\ s.bot = r.bot /\ s.op = r.op
      BY <1>1, <3>1 DEF Calls
    <3>3. r.pc = "mark_stale"
      BY <1>15 DEF MarkStale
    <3> QED  BY <3>2, <3>3, Labels DEF Follows
  <2> QED  BY <1>4, <1>15, <2>1, Labels DEF MarkStale
<1> QED  BY <1>5, <1>6, <1>7, <1>8, <1>9, <1>10, <1>11, <1>12, <1>13, <1>14, <1>15 DEF CallStep

----------------------------------------------------------------------------
(* The steps of the service keep the invariant.                             *)

\* An agent's call goes on as it asked.
LEMMA StepServes ==
    ASSUME AgentInv, NEW c \in Callers, NEW s, Follows(c, s), agent' = agent, cloud' = cloud,
           call[c].pc \in CallLabels
    PROVE  /\ OfHosts' /\ \A d \in Droplets : Serves(call[d], agent[d], cloud[d].bot)'
           /\ UpdatesAlone => OneUpdate'
<1>1. /\ call' \in [Callers -> {s}] \/ call' = [call EXCEPT ![c] = s]
      /\ call'[c] = s /\ \A x \in Callers : x # c => call'[x] = call[x]
  BY StateTypes DEF Follows, CallBecomes
<1>2. Hosts \subseteq Callers /\ Droplets \subseteq Callers
  BY AgentAssumption DEF Hosts
<1>3. OfHosts' /\ (UpdatesAlone => OneUpdate')
  <2>1. ASSUME NEW h \in Hosts PROVE call'[h].pc \notin FetchLabels \cup AckLabels \cup {"beat"}
    <3>1. CASE h = c
      BY <1>1, <2>1, <3>1, Labels DEF AgentInv, OfHosts, Follows
    <3>2. CASE h # c
      BY <1>1, <1>2, <2>1, <3>2 DEF AgentInv, OfHosts
    <3> QED  BY <3>1, <3>2
  <2>2. ASSUME NEW x \in Callers, call'[x].pc \in UpdateLabels
        PROVE  /\ call[x].pc \in UpdateLabels
               /\ call'[x].op = call[x].op /\ call'[x].bot = call[x].bot
    BY <1>1, <2>2, Labels DEF Follows
  <2> QED  BY <2>1, <2>2 DEF AgentInv, OfHosts, OneUpdate
<1>4. ASSUME NEW d \in Droplets PROVE Serves(call'[d], agent[d], cloud[d].bot)
  <2>1. Serves(call[d], agent[d], cloud[d].bot)
    BY DEF AgentInv
  <2>2. CASE d = c
    BY <1>1, <2>1, <2>2, Labels DEF Serves, Follows
  <2>3. CASE d # c
    BY <1>1, <1>2, <2>1, <2>3
  <2> QED  BY <2>2, <2>3
<1> QED  BY <1>3, <1>4 DEF Serves

\* Its writes keep the order of the versions: an acknowledgement writes the version that is
\* on disk, an update what is not newer as the applied one and its own draw as desired.
LEMMA StepRanked ==
    ASSUME UpdatesAlone, AgentInv, NEW c \in Callers, CallStep(c),
           NEW b \in Bots, NEW d \in Droplets, bots[b].droplet = d
    PROVE  /\ Ranked(agent[d], bots'[b])
           /\ \/ bots'[b].desired = bots[b].desired
              \/ call[c].pc = "offer" /\ call[c].bot = b /\ bots[b].desired <= bots'[b].desired
              \/ call[c].pc = "set_applied" /\ c = d /\ bots'[b].desired = agent[d].config
<1>1. /\ Ranked(agent[d], bots[b]) /\ \A x \in Callers : call[x].bot = b => Drawn(call[x], agent[d], bots[b])
  BY DEF AgentInv, OnDisk
<1>2. /\ bots[b].desired \in Nat /\ bots[b].applied \in Nat /\ agent[d].config \in Nat
      /\ call[c].version \in Nat /\ call[c].applied \in Nat
  BY StateTypes DEF BotRows, AgentRows, Calls
<1>3. CASE Untouched(b)
  BY <1>1, <1>2, <1>3 DEF Ranked, Untouched
<1>4. CASE /\ call[c].pc = "offer" /\ call[c].bot = b
           /\ bots'[b].desired = call[c].version /\ bots'[b].applied = call[c].applied
  BY <1>1, <1>2, <1>4, Labels DEF Ranked, Drawn
<1>5. CASE /\ call[c].pc = "set_applied" /\ call[c].bot = b
           /\ bots'[b].desired = call[c].version /\ bots'[b].applied = call[c].version
  <2>1. c \in Droplets
    BY <1>5, Labels DEF AgentInv, OfHosts, Hosts
  <2>2. cloud[c].bot = b /\ call[c].version = agent[c].config
    BY <1>5, <2>1, Labels DEF AgentInv, Serves
  <2>3. c = d
    BY <2>1, <2>2 DEF AgentInv, AtHome
  <2> QED  BY <1>2, <1>5, <2>2, <2>3 DEF Ranked
<1> QED  BY <1>3, <1>4, <1>5, StepRows, StateTypes

\* What calls hold of these versions stays in order as well.
LEMMA StepOnDisk ==
    ASSUME AgentInv, NEW c \in Callers, CallStep(c), NEW s, Follows(c, s), agent' = agent, cloud' = cloud
    PROVE  AtHome' /\ (UpdatesAlone => OnDisk')
<1>1. call'[c] = s /\ \A x \in Callers : x # c => call'[x] = call[x]
  BY StateTypes DEF Follows, CallBecomes
<1>2. AtHome'
  BY StepRows, StateTypes DEF AgentInv, AtHome
<1>3. call[c].pc \in CallLabels
  BY DEF CallStep, ReadBot, ReadConfig, FindConfig, CheckDesired, SetApplied, AckOnline, Beat, DrawVersion,
         StoreConfig, Offer, MarkStale, CallLabels, FetchLabels, AckLabels, UpdateLabels
<1>4. ASSUME UpdatesAlone, NEW b \in Bots, NEW d \in Droplets, bots'[b].droplet = d
      PROVE  /\ Ranked(agent[d], bots'[b]) /\ Fetched(call'[d], agent[d], bots'[b])
             /\ \A x \in Callers : call'[x].bot = b => Drawn(call'[x], agent[d], bots'[b])
  <2>1. bots[b].droplet = d /\ cloud[d].bot = b /\ d \in Callers
    BY <1>4, StepRows, StateTypes DEF AgentInv, AtHome
  <2>2. /\ Ranked(agent[d], bots[b]) /\ Fetched(call[d], agent[d], bots[b])
        /\ \A x \in Callers : call[x].bot = b => Drawn(call[x], agent[d], bots[b])
    BY <1>4, <2>1 DEF AgentInv, OnDisk
  <2>3. /\ bots[b].desired \in Nat /\ bots[b].applied \in Nat /\ agent[d].config \in Nat
        /\ \A x \in Callers : call[x].version \in Nat /\ call[x].applied \in Nat
    BY StateTypes DEF BotRows, AgentRows, Calls
  <2>4. /\ Ranked(agent[d], bots'[b])
        /\ \/ bots'[b].desired = bots[b].desired
           \/ call[c].pc = "offer" /\ call[c].bot = b /\ bots[b].desired <= bots'[b].desired
           \/ call[c].pc = "set_applied" /\ c = d /\ bots'[b].desired = agent[d].config
    BY <1>4, <2>1, StepRanked
  <2>5. bots'[b].desired \in Nat
    BY StepType, StateTypes DEF LifecycleTypeOK, StoreTypeOK, BotRows
  <2>6. Fetched(call'[d], agent[d], bots'[b])
    <3>1. CASE c = d
      <4>1. Serves(call[d], agent[d], b)
        BY <2>1 DEF AgentInv
      <4>2. s.pc = "read_config" => s.bot = b
        BY <1>3, <3>1, <4>1, Labels DEF Serves, Follows
      <4>3. s.pc = "ok" /\ agent[d].pc \in {"start", "sync"} =>
              call[c].pc \in FetchLabels /\ call[c].op = "fetch"
        BY <1>3, <3>1, <4>1, Labels DEF Serves
      <4> QED  BY <1>1, <2>2, <2>3, <3>1, <4>2, <4>3 DEF Fetched, Follows, Ranked
    <3>2. CASE c # d
      <4>1. bots[b].desired <= bots'[b].desired
        BY <2>3, <2>4, <3>2
      <4> QED  BY <1>1, <2>1, <2>2, <2>3, <2>5, <3>2, <4>1 DEF Fetched
    <3> QED  BY <3>1, <3>2
  <2>7. ASSUME NEW x \in Callers, call'[x].bot = b PROVE Drawn(call'[x], agent[d], bots'[b])
    <3>1. CASE x = c
      <4>1. s.pc \in CallLabels => call[c].bot = b
        BY <1>1, <2>7, <3>1 DEF Follows
      <4>2. s.pc = "store_config" => bots' = bots /\ s.version = NextVersion(b)
        BY <1>1, <2>7, <3>1 DEF Follows
      <4>3. PICK n \in Nat : configs[b] = 1 .. n
        BY StateTypes DEF Grounded, Counted
      <4>4. NextVersion(b) = n + 1 /\ bots[b].desired <= n
        BY <4>3, LatestIs, StateTypes DEF NextVersion, AppliedNotAhead
      <4>5. Drawn(call[c], agent[d], bots[b]) \/ s.pc \notin CallLabels
        BY <2>2, <4>1
      <4> QED  BY <1>1, <2>3, <3>1, <4>2, <4>4, <4>5, Labels DEF Drawn, Follows
    <3>2. CASE x # c
      <4>1. Drawn(call[x], agent[d], bots[b])
        BY <1>1, <2>2, <2>7, <3>2
      <4>2. CASE call[x].pc \in UpdateLabels
        <5>1. ~(call[c].pc = "offer" /\ call[c].bot = b)
          BY <1>1, <1>4, <2>7, <3>2, <4>2, Labels DEF AgentInv, OneUpdate
        <5>2. bots'[b].desired <= bots[b].desired
          BY <2>2, <2>3, <2>4, <2>5, <5>1 DEF Ranked
        <5> QED  BY <1>1, <2>3, <2>5, <3>2, <4>1, <5>2 DEF Drawn
      <4>3. CASE call[x].pc \notin UpdateLabels
        BY <1>1, <3>2, <4>3, Labels DEF Drawn
      <4> QED  BY <4>2, <4>3
    <3> QED  BY <3>1, <3>2
  <2> QED  BY <2>4, <2>6, <2>7
<1> QED  BY <1>2, <1>4 DEF OnDisk

----------------------------------------------------------------------------
(* The steps of the agents keep the invariant.                              *)

\* An agent without a request out goes on as a, with the config it had or one it was
\* given; its call, if there was one, is over.
LEMMA AgentGoesOn ==
    ASSUME AgentInv, IInv', cloud' = cloud, bots' = bots, NEW d \in Droplets, NEW a \in AgentRows,
           AgentBecomes(d, a), a.fate = "none", call'[d].pc = "idle",
           \A x \in Callers : x # d => call'[x] = call[x],
           \/ a.config = agent[d].config
           \/ call[d].pc = "ok" /\ agent[d].pc \in {"start", "sync"} /\ a.config = call[d].version
    PROVE  AgentInv'
<1>1. /\ agent'[d] = a /\ \A e \in Droplets : e # d => agent'[e] = agent[e]
      /\ agent' \in [Droplets -> AgentRows] /\ Droplets \subseteq Callers /\ Hosts \subseteq Callers
  BY StateTypes DEF AgentBecomes, Hosts
<1>2. CloudTypeOK' /\ AtHome'
  BY DEF AgentInv, CloudTypeOK, AtHome
<1>3. OfHosts' /\ (UpdatesAlone => OneUpdate')
  BY <1>1, Labels DEF AgentInv, OfHosts, OneUpdate, Hosts
<1>4. ASSUME NEW e \in Droplets PROVE Serves(call'[e], agent'[e], cloud[e].bot)
  BY <1>1, Labels DEF AgentInv, Serves
<1>5. ASSUME UpdatesAlone, NEW b \in Bots, NEW e \in Droplets, bots[b].droplet = e
      PROVE  /\ Ranked(agent'[e], bots[b]) /\ Fetched(call'[e], agent'[e], bots[b])
             /\ \A x \in Callers : call'[x].bot = b => Drawn(call'[x], agent'[e], bots[b])
  <2>1. /\ Ranked(agent[e], bots[b]) /\ Fetched(call[e], agent[e], bots[b])
        /\ \A x \in Callers : call[x].bot = b => Drawn(call[x], agent[e], bots[b])
    BY <1>5 DEF AgentInv, OnDisk
  <2>2. /\ bots[b].desired \in Nat /\ bots[b].applied \in Nat /\ agent[e].config \in Nat
        /\ agent'[e].config \in Nat
        /\ \A x \in Callers : call[x].version \in Nat /\ call[x].applied \in Nat
    BY <1>1, StateTypes DEF BotRows, AgentRows, Calls
  <2>3. CASE e # d
    <3>1. agent'[e] = agent[e] /\ call'[e] = call[e]
      BY <1>1, <2>3
    <3>2. ASSUME NEW x \in Callers, call'[x].bot = b PROVE Drawn(call'[x], agent[e], bots[b])
      BY <2>1, <3>2, Labels DEF Drawn
    <3> QED  BY <2>1, <3>1, <3>2
  <2>4. CASE e = d
    <3>1. agent[e].config <= a.config /\ a.config <= bots[b].desired
      BY <1>1, <2>1, <2>2, <2>4 DEF Ranked, Fetched
    <3>2. ASSUME NEW x \in Callers, call'[x].bot = b PROVE Drawn(call'[x], a, bots[b])
      <4>1. CASE x = d
        BY <4>1, Labels DEF Drawn
      <4>2. CASE x # d
        <5>1. call'[x] = call[x] /\ Drawn(call[x], agent[e], bots[b])
          BY <2>1, <3>2, <4>2
        <5>2. call[x].pc \in UpdateLabels => call[x].applied <= a.config
          BY <1>1, <2>2, <2>4, <3>1, <5>1 DEF Drawn
        <5> QED  BY <5>1, <5>2 DEF Drawn
      <4> QED  BY <4>1, <4>2
    <3>3. Ranked(a, bots[b]) /\ Fetched(call'[e], a, bots[b])
      BY <1>1, <2>1, <2>2, <2>4, <3>1 DEF Ranked, Fetched
    <3> QED  BY <1>1, <2>4, <3>2, <3>3
  <2> QED  BY <2>3, <2>4
<1>6. UpdatesAlone => OnDisk'
  BY <1>5 DEF OnDisk
<1>7. \A e \in Droplets : Serves(call[e], agent[e], cloud[e].bot)'
  BY <1>4 DEF Serves
<1> QED  BY <1>1, <1>2, <1>3, <1>6, <1>7 DEF AgentInv

\* What the script does after a request is one of these.
LEMMA ReactionFacts ==
    ASSUME NEW d, agent[d] \in AgentRows, NEW reply, NEW v \in Nat, NEW a \in Reactions(d, reply, v),
           agent[d].pc \in DOMAIN Asked
    PROVE  /\ a \in AgentRows /\ a.fate = "none"
           /\ \/ a.config = agent[d].config
              \/ reply = "ok" /\ agent[d].pc \in {"start", "sync"} /\ a.config = v
<1> DEFINE b == [agent[d] EXCEPT !.fate = "none"]
<1>1. b \in AgentRows /\ b.fate = "none" /\ b.config = agent[d].config /\ b.pc = agent[d].pc
  BY DEF AgentRows
<1>2. CASE agent[d].pc = "register"
  <2>1. b.tries + 1 # MAX_REGISTRATIONS => b.tries + 1 \in 0 .. MAX_REGISTRATIONS - 1
    BY <1>1 DEF AgentRows, MAX_REGISTRATIONS
  <2>2. a \in {[b EXCEPT !.pc = "start", !.registered = "yes", !.tries = 0],
               [b EXCEPT !.pc = "start", !.registered = "given_up", !.tries = 0]}
        \/ (b.tries + 1 # MAX_REGISTRATIONS /\ a = [b EXCEPT !.tries = @ + 1])
    BY <1>1, <1>2 DEF Reactions
  <2>3. CASE a \in {[b EXCEPT !.pc = "start", !.registered = "yes", !.tries = 0],
                    [b EXCEPT !.pc = "start", !.registered = "given_up", !.tries = 0]}
    <3>1. 0 \in 0 .. MAX_REGISTRATIONS - 1
      BY DEF MAX_REGISTRATIONS
    <3> QED  BY <1>1, <2>3, <3>1 DEF AgentRows
  <2>4. CASE b.tries + 1 # MAX_REGISTRATIONS /\ a = [b EXCEPT !.tries = @ + 1]
    BY <1>1, <2>1, <2>4 DEF AgentRows
  <2> QED  BY <2>2, <2>3, <2>4
<1>3. CASE agent[d].pc = "start"
  <2>1. a = [b EXCEPT !.pc = "heartbeat", !.config = IF reply = "ok" THEN v ELSE @]
    BY <1>1, <1>3 DEF Reactions
  <2> QED  BY <1>1, <1>3, <2>1 DEF AgentRows
<1>4. CASE agent[d].pc = "heartbeat"
  <2>1. PICK delay \in Delays :
          a = LET now == (b.time + delay) % Cycle
              IN  [b EXCEPT !.time = now, !.pc = IF now < SyncWindow THEN "sync" ELSE "sleep"]
    BY <1>1, <1>4 DEF Reactions
  <2>2. (b.time + delay) % Cycle \in 0 .. Cycle - 1
    BY <1>1, AgentAssumption DEF AgentRows, SyncWindow
  <2> QED  BY <1>1, <2>1, <2>2 DEF AgentRows
<1>5. CASE agent[d].pc = "sync"
  <2>1. a = Synced(d, reply, v)
    BY <1>1, <1>5 DEF Reactions
  <2> QED  BY <1>5, <2>1 DEF Synced, AgentRows
<1>6. CASE agent[d].pc = "ack"
  <2>1. a = [b EXCEPT !.pc = IF reply = "none" THEN "start" ELSE "sleep"]
    BY <1>1, <1>6 DEF Reactions
  <2> QED  BY <1>1, <2>1 DEF AgentRows
<1> QED  BY <1>2, <1>3, <1>4, <1>5, <1>6, Labels

\* An answer, or none, takes the agent on.
LEMMA HearKeeps ==
    ASSUME AgentInv, NEW d \in Droplets, Hear(d) \/ BreakOff(d)
    PROVE  AgentInv'
<1>1. /\ agent[d].fate # "none" /\ CallBecomes(d, NoCall) /\ UNCHANGED <<tables, heard, cloud>>
      /\ agent[d].pc \in DOMAIN Asked /\ d \in Callers
  BY StateTypes DEF Hear, BreakOff, AgentInv, Serves
<1>2. call[d].version \in Nat /\ agent[d] \in AgentRows
  BY <1>1, StateTypes DEF Calls
<1>3. PICK a : /\ AgentBecomes(d, a) /\ a \in AgentRows /\ a.fate = "none"
               /\ \/ a.config = agent[d].config
                  \/ /\ call[d].pc = "ok" /\ agent[d].pc \in {"start", "sync"}
                     /\ a.config = call[d].version
  <2>1. CASE Hear(d)
    BY <1>1, <1>2, <2>1, ReactionFacts DEF Hear
  <2>2. CASE BreakOff(d)
    <3>1. PICK a \in Reactions(d, "none", 0) : AgentBecomes(d, a)
      BY <2>2 DEF BreakOff
    <3>2. a \in AgentRows /\ a.fate = "none" /\ a.config = agent[d].config
      BY <1>1, <1>2, <3>1, ReactionFacts
    <3> QED  BY <3>1, <3>2
  <2> QED  BY <2>1, <2>2
<1>4. IInv'
  <2>1. NoCall \in Calls
    BY <1>1, CallTypes, StateTypes
  <2>2. LifecycleTypeOK' /\ Grounded'
    BY <1>1, <2>1, CallMoveType, EndedCallKnows, StateTypes
  <2> QED  BY <1>1, <2>2 DEF AgentInv, IInv, AppliedNotAhead, AllExist, BotExists, tables
<1>5. call'[d].pc = "idle" /\ \A x \in Callers : x # d => call'[x] = call[x]
  BY <1>1, StateTypes DEF CallBecomes, NoCall
<1> QED  BY <1>1, <1>3, <1>4, <1>5, AgentGoesOn DEF tables

\* A request is sent: its call is new, and about the agent's own bot.
LEMMA SendKeeps ==
    ASSUME AgentInv, NEW d \in Droplets, NEW pc \in DOMAIN Asked, NEW fate \in {"good", "doomed"},
           Send(d, pc, fate)
    PROVE  AgentInv'
<1>1. /\ Running(d) /\ agent[d].pc = pc /\ agent[d].fate = "none" /\ UNCHANGED cloud
      /\ AgentBecomes(d, [agent[d] EXCEPT !.fate = fate])
  BY DEF Send
<1>2. d \in Callers /\ cloud[d].bot \in Bots /\ agent[d] \in AgentRows /\ agent[d].config \in Nat
  BY <1>1, StateTypes DEF Running, AgentInv, AtHome, AgentRows
<1>3. PICK op \in {"register", "fetch", "heartbeat", "ack"}, owner \in Bots \cup {NoBot}, v \in Nat :
        /\ Receive(d, op, cloud[d].bot, cloud[d].token, owner, v)
        /\ op = Asked[pc] /\ (op = "ack" => v = agent[d].config)
  <2>1. CASE pc = "ack"
    BY <1>2, <2>1 DEF Send, Asked
  <2>2. CASE pc # "ack"
    <3>1. Asked[pc] \in {"register", "fetch", "heartbeat"}
      BY <2>2, Labels DEF Asked
    <3>2. Receive(d, Asked[pc], cloud[d].bot, cloud[d].token, NoBot, 0)
      BY <2>2 DEF Send
    <3> QED  BY <3>1, <3>2
  <2> QED  BY <2>1, <2>2
<1>4. /\ UNCHANGED <<tables, heard>>
      /\ op = "register" => pc = "register"
      /\ op = "fetch" => pc \in {"start", "sync"}
      /\ op = "ack" => pc = "ack"
      /\ op = "heartbeat" => pc = "heartbeat"
  BY <1>3, Labels DEF Receive, Asked
<1>5. IInv'
  <2>1. LifecycleTypeOK' /\ Grounded'
    BY <1>2, <1>3, ReceiveType, ReceiveKnows, StateTypes
  <2> QED  BY <1>4, <2>1, StateTypes DEF AgentInv, IInv, AppliedNotAhead, AllExist, BotExists, tables
<1>6. PICK s :
        /\ CallBecomes(d, s) /\ s.pc # "idle"
        /\ s.pc \in CallLabels => s.op = op /\ s.bot = cloud[d].bot /\ s.version = v
        /\ s.pc \in {"read_bot", "find_config", "beat", "unauthorized", "ok"}
        /\ s.pc = "ok" => op = "register"
        /\ s.pc = "read_bot" => op = "fetch"
        /\ s.pc = "find_config" => op = "ack"
        /\ s.pc = "beat" => op = "heartbeat"
  <2>1. NoCall \in Calls
    BY <1>2, CallTypes, StateTypes
  <2>2. PICK s : /\ CallBecomes(d, s)
                 /\ \/ s = [NoCall EXCEPT !.pc = "unauthorized"]
                    \/ s = [NoCall EXCEPT !.pc = "ok"] /\ op = "register"
                    \/ /\ op # "register"
                       /\ s = [NoCall EXCEPT !.pc = FirstLabel[op], !.op = op, !.bot = cloud[d].bot,
                                           !.owner = owner, !.version = v]
    BY <1>3 DEF Receive
  <2>3. CASE s = [NoCall EXCEPT !.pc = "unauthorized"]
    BY <2>1, <2>2, <2>3, Labels DEF Calls
  <2>4. CASE s = [NoCall EXCEPT !.pc = "ok"] /\ op = "register"
    BY <2>1, <2>2, <2>4, Labels DEF Calls
  <2>5. CASE /\ op # "register"
             /\ s = [NoCall EXCEPT !.pc = FirstLabel[op], !.op = op, !.bot = cloud[d].bot,
                                 !.owner = owner, !.version = v]
    <3>1. s.pc = FirstLabel[op] /\ s.op = op /\ s.bot = cloud[d].bot /\ s.version = v /\ CallBecomes(d, s)
      BY <2>1, <2>2, <2>5 DEF Calls
    <3>2. op # "register"
      BY <2>5
    <3> QED  BY <3>1, <3>2, Labels DEF FirstLabel
  <2> QED  BY <2>2, <2>3, <2>4, <2>5
<1>7. /\ call'[d] = s /\ \A x \in Callers : x # d => call'[x] = call[x]
      /\ agent'[d] = [agent[d] EXCEPT !.fate = fate]
      /\ \A e \in Droplets : e # d => agent'[e] = agent[e]
      /\ Droplets \subseteq Callers /\ Hosts \subseteq Callers
  BY <1>1, <1>2, <1>6, StateTypes DEF CallBecomes, AgentBecomes, Hosts
<1>8. /\ agent'[d].config = agent[d].config /\ agent'[d].pc = pc /\ agent'[d].fate = fate
      /\ agent'[d] \in AgentRows
  BY <1>1, <1>2, <1>7 DEF AgentRows
<1>9. agent' \in [Droplets -> AgentRows] /\ CloudTypeOK' /\ AtHome'
  BY <1>1, <1>4, <1>7, <1>8, StateTypes DEF AgentBecomes, AgentInv, CloudTypeOK, AtHome, tables
<1>10. OfHosts' /\ (UpdatesAlone => OneUpdate')
  BY <1>6, <1>7, Labels DEF AgentInv, OfHosts, OneUpdate, Hosts
<1>11. ASSUME NEW e \in Droplets PROVE Serves(call'[e], agent'[e], cloud[e].bot)
  <2>1. CASE e = d
    BY <1>3, <1>4, <1>6, <1>7, <1>8, <2>1, Labels DEF Serves
  <2>2. CASE e # d
    BY <1>7, <2>2 DEF AgentInv
  <2> QED  BY <2>1, <2>2
<1>12. ASSUME UpdatesAlone, NEW b \in Bots, NEW e \in Droplets, bots[b].droplet = e
       PROVE  /\ Ranked(agent'[e], bots[b]) /\ Fetched(call'[e], agent'[e], bots[b])
              /\ \A x \in Callers : call'[x].bot = b => Drawn(call'[x], agent'[e], bots[b])
  <2>1. /\ Ranked(agent[e], bots[b]) /\ Fetched(call[e], agent[e], bots[b])
        /\ \A x \in Callers : call[x].bot = b => Drawn(call[x], agent[e], bots[b])
    BY <1>12 DEF AgentInv, OnDisk
  <2>2. agent'[e].config = agent[e].config
    BY <1>7, <1>8
  <2>3. \A x \in Callers : call'[x].bot = b => Drawn(call'[x], agent'[e], bots[b])
    BY <1>6, <1>7, <2>1, <2>2, Labels DEF Drawn
  <2>4. Ranked(agent'[e], bots[b])
    BY <2>1, <2>2 DEF Ranked
  <2>5. Fetched(call'[e], agent'[e], bots[b])
    <3>1. CASE e = d
      BY <1>4, <1>6, <1>7, <1>8, <3>1 DEF Fetched
    <3>2. CASE e # d
      BY <1>7, <2>1, <3>2
    <3> QED  BY <3>1, <3>2
  <2> QED  BY <2>3, <2>4, <2>5
<1>13. UpdatesAlone => OnDisk'
  BY <1>4, <1>12 DEF OnDisk, tables
<1> QED  BY <1>1, <1>5, <1>9, <1>10, <1>11, <1>13 DEF AgentInv, Serves

\* The script goes on by itself only when it waits for nothing.
LEMMA AloneKeeps ==
    ASSUME AgentInv, NEW d \in Droplets, WakeUp(d) \/ Sleep(d)
    PROVE  AgentInv'
<1>1. UNCHANGED <<lifecycleVars, cloud>> /\ agent[d].pc \in {"off", "sleep"} /\ agent[d] \in AgentRows
  BY StateTypes DEF WakeUp, Sleep
<1>2. agent[d].fate = "none" /\ call[d].pc = "idle"
  BY <1>1, Labels DEF AgentInv, Serves
<1>3. PICK a \in AgentRows : AgentBecomes(d, a) /\ a.fate = "none" /\ a.config = agent[d].config
  <2>1. CASE WakeUp(d)
    BY <1>1, <1>2, <2>1 DEF WakeUp, AgentRows
  <2>2. CASE Sleep(d)
    <3>1. PICK t : /\ t = (agent[d].time + SleepTicks) % Cycle
                   /\ AgentBecomes(d, [agent[d] EXCEPT !.pc = "heartbeat", !.time = t])
      BY <2>2 DEF Sleep
    <3>2. t \in 0 .. Cycle - 1
      BY <1>1, <3>1, AgentAssumption DEF AgentRows, SleepTicks, SyncWindow
    <3>3. PICK a : AgentBecomes(d, a) /\ a = [agent[d] EXCEPT !.pc = "heartbeat", !.time = t]
      BY <3>1
    <3>4. a \in AgentRows /\ a.fate = "none" /\ a.config = agent[d].config
      BY <1>1, <1>2, <3>2, <3>3 DEF AgentRows
    <3> QED  BY <3>3, <3>4
  <2> QED  BY <2>1, <2>2
<1>4. IInv'
  BY <1>1, NextIInv DEF AgentInv
<1> QED  BY <1>1, <1>2, <1>3, <1>4, AgentGoesOn DEF lifecycleVars, tables, callVars

----------------------------------------------------------------------------
(* The invariant is inductive.                                              *)

\* What keeps the agents, their calls and the versions keeps the invariant.
LEMMA HostKeeps ==
    ASSUME AgentInv, NEW c \in Hosts, Host(c)
    PROVE  AgentInv'
<1>1. /\ UNCHANGED <<tables, heard, cloud, agent>> /\ c \in Callers /\ c \notin Droplets
      /\ Droplets \subseteq Callers /\ Hosts \subseteq Callers
  BY StateTypes DEF Host, HostCall, BeginWatch, BeginUpdate, Return, Drop, Hosts
<1>2. IInv'
  <2>1. HostCall(c) \/ Return(c) \/ Drop(c)
    BY DEF Host
  <2> QED  BY <1>1, <2>1, NextIInv DEF AgentInv, LifecycleNext
<1>3. PICK s : /\ CallBecomes(c, s)
               /\ s.pc \in Replies \cup {"idle", "mark_stale", "next_version"}
               /\ s.pc = "next_version" =>
                    /\ s.op = "update" /\ s.bot \in Bots /\ s.applied = bots[s.bot].applied
                    /\ UpdatesAlone =>
                         \A x \in Callers : call[x].pc \in UpdateLabels => call[x].bot # s.bot
  <2>1. NoCall \in Calls
    BY <1>1, CallTypes, StateTypes
  <2>2. ASSUME NEW s, CallBecomes(c, s), s.pc \in Replies \cup {"idle", "mark_stale"}
        PROVE  \E t : /\ CallBecomes(c, t)
                      /\ t.pc \in Replies \cup {"idle", "mark_stale"}
    BY <2>2
  <2>3. CASE Return(c) \/ Drop(c)
    BY <2>1, <2>3, Labels DEF Return, Drop, NoCall
  <2>4. CASE BeginWatch(c)
    <3>1. PICK s : /\ CallBecomes(c, s)
                   /\ \/ s = [NoCall EXCEPT !.pc = "error"]
                      \/ s = [NoCall EXCEPT !.pc = "ok"]
                      \/ s = [NoCall EXCEPT !.pc = "mark_stale", !.op = "watch", !.stale = Stale]
      BY <2>4 DEF BeginWatch
    <3>2. s.pc \in {"error", "ok", "mark_stale"} /\ CallBecomes(c, s)
      BY <2>1, <3>1 DEF Calls
    <3> QED  BY <3>2, Labels
  <2>5. ASSUME NEW b \in Bots, BeginUpdate(c, b)
        PROVE  \E s : /\ CallBecomes(c, s)
                      /\ s.pc \in Replies \cup {"next_version"}
                      /\ s.pc = "next_version" =>
                           /\ s.op = "update" /\ s.bot = b /\ s.applied = bots[b].applied
    <3>1. PICK s : /\ CallBecomes(c, s)
                   /\ \/ \E reply \in {"error", "not_found", "invalid"} :
                           s = [NoCall EXCEPT !.pc = reply]
                      \/ s = [NoCall EXCEPT !.pc = "next_version", !.op = "update", !.bot = b,
                                          !.applied = bots[b].applied]
      BY <2>5 DEF BeginUpdate
    <3>2. CASE \E reply \in {"error", "not_found", "invalid"} : s = [NoCall EXCEPT !.pc = reply]
      <4>1. s.pc \in {"error", "not_found", "invalid"} /\ CallBecomes(c, s)
        BY <2>1, <3>1, <3>2 DEF Calls
      <4> QED  BY <4>1, Labels
    <3>3. CASE s = [NoCall EXCEPT !.pc = "next_version", !.op = "update", !.bot = b,
                                !.applied = bots[b].applied]
      <4>1. /\ s.pc = "next_version" /\ s.op = "update" /\ s.bot = b
            /\ s.applied = bots[b].applied /\ CallBecomes(c, s)
        BY <2>1, <3>1, <3>3 DEF Calls
      <4> QED  BY <4>1
    <3> QED  BY <3>1, <3>2, <3>3
  <2>6. ASSUME UpdatesAlone, NEW b \in Bots, BeginUpdate(c, b), NEW x \in Callers, call[x].pc \in UpdateLabels
        PROVE  call[x].bot # b
    <3>1. call[x].op = "update" /\ InProgress(x)
      BY <2>6, Labels DEF AgentInv, OfHosts, InProgress
    <3>2. {"update", call[x].op} = {"update"}
      BY <3>1
    <3> QED  BY <2>6, <3>1, <3>2 DEF BeginUpdate, MayCall, UpdatesAlone
  <2>7. CASE \E b \in Bots : BeginUpdate(c, b)
    <3>1. PICK b \in Bots : BeginUpdate(c, b)
      BY <2>7
    <3>2. PICK s : /\ CallBecomes(c, s)
                   /\ s.pc \in Replies \cup {"next_version"}
                   /\ s.pc = "next_version" =>
                        /\ s.op = "update" /\ s.bot = b /\ s.applied = bots[b].applied
      BY <2>5, <3>1
    <3>3. UpdatesAlone => \A x \in Callers : call[x].pc \in UpdateLabels => call[x].bot # b
      BY <2>6, <3>1
    <3> QED  BY <3>2, <3>3
  <2> QED  BY <2>3, <2>4, <2>7 DEF Host, HostCall
<1>4. call'[c] = s /\ \A x \in Callers : x # c => call'[x] = call[x]
  BY <1>1, <1>3, StateTypes DEF CallBecomes
<1>5. OfHosts' /\ (UpdatesAlone => OneUpdate')
  <2>1. ASSUME NEW h \in Hosts PROVE call'[h].pc \notin FetchLabels \cup AckLabels \cup {"beat"}
    BY <1>1, <1>3, <1>4, <2>1, Labels DEF AgentInv, OfHosts
  <2>2. ASSUME NEW x \in Callers, call'[x].pc \in UpdateLabels
        PROVE  /\ call'[x].op = "update"
               /\ x = c \/ (call[x].pc \in UpdateLabels /\ call'[x] = call[x])
               /\ x = c => call'[x] = s /\ s.pc = "next_version"
    BY <1>1, <1>3, <1>4, <2>2, Labels DEF AgentInv, OfHosts
  <2>3. ASSUME UpdatesAlone, NEW x \in Callers, NEW y \in Callers, call'[x].pc \in UpdateLabels,
               call'[y].pc \in UpdateLabels, call'[x].bot = call'[y].bot
        PROVE  x = y
    BY <1>3, <2>2, <2>3 DEF AgentInv, OneUpdate
  <2> QED  BY <2>1, <2>2, <2>3 DEF OfHosts, OneUpdate
<1>6. ASSUME UpdatesAlone, NEW b \in Bots, NEW d \in Droplets, bots[b].droplet = d,
             NEW x \in Callers, call'[x].bot = b
      PROVE  Drawn(call'[x], agent[d], bots[b])
  <2>1. Ranked(agent[d], bots[b]) /\ (call[x].bot = b => Drawn(call[x], agent[d], bots[b]))
    BY <1>6 DEF AgentInv, OnDisk
  <2>2. CASE x = c
    BY <1>3, <1>4, <1>6, <2>1, <2>2, Labels DEF Drawn, Ranked
  <2>3. CASE x # c
    BY <1>4, <1>6, <2>1, <2>3
  <2> QED  BY <2>2, <2>3
<1>7. ASSUME NEW d \in Droplets PROVE call'[d] = call[d]
  BY <1>1, <1>4
<1>8. UpdatesAlone => OnDisk'
  BY <1>1, <1>6, <1>7 DEF AgentInv, OnDisk, tables
<1>9. \A d \in Droplets : Serves(call[d], agent[d], cloud[d].bot)'
  BY <1>1, <1>7 DEF AgentInv
<1> QED  BY <1>1, <1>2, <1>5, <1>8, <1>9 DEF AgentInv, CloudTypeOK, AtHome, tables

\* Every step of the agents, the service and the program around it keeps the invariant.
LEMMA NextAgent == AgentInv /\ [AgentNext]_agentVars => AgentInv'
<1> SUFFICES ASSUME AgentInv, [AgentNext]_agentVars PROVE AgentInv'
  OBVIOUS
<1>1. ASSUME NEW c \in Callers, Serve(c) PROVE AgentInv'
  <2>1. CallStep(c) /\ agent' = agent /\ cloud' = cloud
    BY <1>1 DEF Serve
  <2>2. PICK s : Follows(c, s)
    BY <2>1, StepFollows, StateTypes
  <2>3. call[c].pc \in CallLabels
    BY <2>1, Labels
       DEF CallStep, ReadBot, ReadConfig, FindConfig, CheckDesired, SetApplied, AckOnline, Beat,
           DrawVersion, StoreConfig, Offer, MarkStale
  <2>4. IInv'
    BY <2>1, NextIInv DEF AgentInv, LifecycleNext
  <2>5. /\ OfHosts' /\ (UpdatesAlone => OneUpdate')
        /\ \A d \in Droplets : Serves(call[d], agent[d], cloud[d].bot)'
    BY <2>1, <2>2, <2>3, StepServes
  <2>6. AtHome' /\ (UpdatesAlone => OnDisk')
    BY <2>1, <2>2, StepOnDisk
  <2> QED  BY <2>1, <2>4, <2>5, <2>6 DEF AgentInv, CloudTypeOK
<1>2. ASSUME NEW d \in Droplets, AgentStep(d) PROVE AgentInv'
  <2>1. ASSUME SendAny(d) PROVE AgentInv'
    BY <2>1, SendKeeps DEF SendAny
  <2> QED  BY <1>2, <2>1, HearKeeps, AloneKeeps DEF AgentStep
<1>3. ASSUME UNCHANGED <<tables, call, agent>>, IInv', CloudTypeOK',
             \A d \in Droplets : /\ cloud'[d].bot = cloud[d].bot
                                 /\ cloud'[d].power # "none" => cloud[d].power # "none"
      PROVE  AgentInv'
  BY <1>3 DEF AgentInv, AtHome, OfHosts, OneUpdate, OnDisk, tables
<1>4. ASSUME NEW d \in Droplets, BootDroplet(d) PROVE AgentInv'
  <2>1. UNCHANGED <<lifecycleVars, agent>> /\ cloud[d].power = "new" /\ cloud' = WithPower(d, "active")
    BY <1>4 DEF BootDroplet, Boot, lifecycleVars
  <2>2. IInv'
    BY <2>1, NextIInv DEF AgentInv
  <2>3. /\ CloudTypeOK'
        /\ \A e \in Droplets : /\ cloud'[e].bot = cloud[e].bot
                               /\ cloud'[e].power # "none" => cloud[e].power # "none"
    BY <2>1, StateTypes DEF CloudTypeOK, CloudRows, WithPower, Powers
  <2> QED  BY <1>3, <2>1, <2>2, <2>3 DEF lifecycleVars, tables, callVars
<1>5. ASSUME NEW b \in Bots, Age(b), UNCHANGED <<cloud, agent>> PROVE AgentInv'
  <2>1. IInv' /\ UNCHANGED <<tables, call>>
    BY <1>5, NextIInv DEF AgentInv, LifecycleNext, Age
  <2> QED  BY <1>3, <1>5, <2>1 DEF AgentInv, CloudTypeOK
<1>6. CASE UNCHANGED agentVars
  <2>1. IInv' /\ UNCHANGED <<tables, call, cloud, agent>>
    BY <1>6, NextIInv DEF AgentInv, agentVars, lifecycleVars, callVars
  <2> QED  BY <1>3, <2>1 DEF AgentInv, CloudTypeOK
<1> QED  BY <1>1, <1>2, <1>4, <1>5, <1>6, HostKeeps DEF AgentNext

\* The control plane never says that a bot runs a config which its agent has not got on
\* disk: what an acknowledgement or an update writes as applied was on disk when it was
\* read, and what the agent fetches since is not older (if a bot's updates are made one at
\* a time).
THEOREM AppliedIsOnDiskHolds ==
    ASSUME UpdatesAlone
    PROVE  AgentSpec => []AppliedIsOnDisk
<1>1. AgentInv => AppliedIsOnDisk
  BY DEF AgentInv, OnDisk, Ranked, AppliedIsOnDisk
<1> QED  BY <1>1, InitAgent, NextAgent, PTL DEF AgentSpec

\* The agents, their calls and the tables keep their types, and what AppliedNotAhead says
\* of the tables still holds when the calls are those the agents make.
THEOREM AgentTypeCorrect == AgentSpec => [](AgentTypeOK /\ AppliedNotAhead)
<1>1. AgentInv => AgentTypeOK /\ AppliedNotAhead
  BY DEF AgentInv, IInv, AgentTypeOK
<1> QED  BY <1>1, InitAgent, NextAgent, PTL DEF AgentSpec

----------------------------------------------------------------------------
(* The whole system: the inductive invariant.                               *)

\* The bot b has been inserted, whatever became of it: no request is about to do so.
Findable(b) == b \in uuids /\ \A p \in Handlers : req[p].pc = "create_bot" => req[p].bot # b

\* A call is about a bot it has found.  So a new bot has no call about it yet, and what
\* the calls on its row know is what they have read of it.
Found == \A c \in Callers : call[c].pc \in CallLabels \ {"mark_stale"} => Findable(call[c].bot)

\* An agent waits for what it has asked, and its droplet holds the id of a bot.
Waits ==
    \A d \in Droplets : /\ agent[d].fate # "none" => agent[d].pc \in DOMAIN Asked
                        /\ cloud[d].power # "none" => cloud[d].bot \in Bots

SystemInv ==
    /\ CreationInv
    /\ CallTypeOK /\ agent \in [Droplets -> AgentRows]
    /\ Grounded /\ AppliedNotAhead
    /\ Found /\ Waits

\* What the invariant says of the types of the state.
LEMMA SystemTypes ==
    ASSUME SystemInv
    PROVE  /\ Ownership /\ TypeOK /\ LifecycleTypeOK /\ Grounded /\ AppliedNotAhead
           /\ bots \in [Bots -> BotRows] /\ configs \in [Bots -> SUBSET Nat]
           /\ call \in [Callers -> Calls] /\ cloud \in [Droplets -> CloudRows]
           /\ agent \in [Droplets -> AgentRows] /\ Droplets \subseteq Callers
BY AgentAssumption
   DEF SystemInv, CreationInv, Ownership, TypeOK, LifecycleTypeOK, StoreTypeOK, CallTypeOK, CloudTypeOK

----------------------------------------------------------------------------
(* The calls and the agents keep it.                                        *)

\* A bot with a row has been inserted.
LEMMA RowsAreFindable ==
    ASSUME Ownership, NEW b \in Bots, BotExists(b)
    PROVE  Findable(b)
BY DEF Ownership, IdsDrawn, InsertedOnce, Findable

\* What the calls do to the tables.
Served ==
    /\ UNCHANGED <<accounts, droplets, uuids>>
    /\ OnlyStores
    /\ \A b \in Bots : /\ bots'[b].droplet = bots[b].droplet
                       /\ bots[b].desired # 0 => bots'[b].desired # 0
                       /\ configs'[b] # configs[b] => BotExists(b)

\* To the requests it looks as if nothing had been written that they go by: no droplet is
\* linked, no row inserted or deleted, and the desired config is still a stored one.
LEMMA ServedIsTame ==
    ASSUME Ownership, Served, AppliedNotAhead', UNCHANGED <<cloud, req>>
    PROVE  Tame
<1>1. TameBots
  <2> SUFFICES ASSUME NEW b \in Bots
               PROVE  /\ BotExists(b)' => BotExists(b)
                      /\ bots'[b].droplet \in {bots[b].droplet, NoDroplet}
                      /\ bots'[b].desired \in {0, bots[b].desired} \/ bots'[b].desired \in configs'[b]
                      /\ configs[b] \subseteq configs'[b] \/ (~BotExists(b)' /\ bots'[b].desired = 0)
    BY DEF TameBots
  <2> QED  BY DEF Served, OnlyStores, AppliedNotAhead
<1>2. \A p \in Handlers : TameRequest(p)
  BY DEF TameRequest, InFlight
<1> QED  BY <1>1, <1>2, TameDropletsIfSame, TameCloudIfSame DEF Tame, Served

\* So what was known of the requests still is.
LEMMA ServedKeeps ==
    ASSUME SystemInv, Served, UNCHANGED <<cloud, req>>, LifecycleTypeOK', Grounded', AppliedNotAhead',
           agent' \in [Droplets -> AgentRows], Found', Waits'
    PROVE  SystemInv'
<1>1. Ownership'
  <2>1. TypeOK'
    BY SystemTypes DEF TypeOK, CloudTypeOK, LifecycleTypeOK
  <2> QED  BY <2>1, ServedIsTame, TameKeepsOwnership, SystemTypes
<1>2. Creations'
  BY DEF SystemInv, CreationInv, Creations, InFlight, Served
<1>3. Undone'
  BY DEF SystemInv, CreationInv, Undone, Served, OnlyStores
<1>4. Told'
  <2> SUFFICES ASSUME ~Cancellation, "hard_delete" \notin Faults, NEW b \in Bots, BotExists(b)',
                      bots'[b].desired = 0
               PROVE  \E p \in Handlers :
                        /\ req'[p].op = "create" /\ req'[p].bot = b
                        /\ req'[p].pc \in {"create_config", "set_desired", "hard_delete"}
    BY DEF Told
  <2>1. BotExists(b) /\ bots[b].desired = 0
    BY DEF Served, OnlyStores
  <2> QED  BY <2>1 DEF SystemInv, CreationInv, Told
<1> QED  BY <1>1, <1>2, <1>3, <1>4 DEF SystemInv, CreationInv, LifecycleTypeOK

\* A call goes on with a bot it has found, or ends.
LEMMA CallFound ==
    ASSUME SystemInv, UNCHANGED <<uuids, req>>, NEW c \in Callers, NEW r, CallBecomes(c, r),
           r.pc \in CallLabels \ {"mark_stale"} => Findable(r.bot)
    PROVE  Found'
<1>1. ASSUME NEW x \in Callers, call'[x].pc \in CallLabels \ {"mark_stale"}
      PROVE  Findable(call'[x].bot)
  <2>1. call'[x] = r \/ call'[x] = call[x]
    BY SystemTypes DEF CallBecomes
  <2> QED  BY <1>1, <2>1 DEF SystemInv, Found
<1> QED  BY <1>1 DEF Found, Findable

\* The script of one droplet goes on.
LEMMA AgentMoves ==
    ASSUME SystemInv, UNCHANGED cloud, NEW d, NEW a \in AgentRows, AgentBecomes(d, a),
           a.fate # "none" => a.pc \in DOMAIN Asked
    PROVE  agent' \in [Droplets -> AgentRows] /\ Waits'
<1>1. \A e \in Droplets : agent'[e] = a \/ agent'[e] = agent[e]
  BY SystemTypes DEF AgentBecomes
<1>2. agent' \in [Droplets -> AgentRows]
  BY SystemTypes DEF AgentBecomes
<1> QED  BY <1>1, <1>2 DEF SystemInv, Waits

\* When the tables stay, it is enough to look at the calls and the agents.
LEMMA TalkKeeps ==
    ASSUME SystemInv, UNCHANGED <<tables, cloud, req>>, LifecycleTypeOK', Grounded', Found',
           agent' \in [Droplets -> AgentRows], Waits'
    PROVE  SystemInv'
<1>1. Served
  BY SameStores DEF Served, tables
<1>2. AppliedNotAhead'
  BY DEF SystemInv, AppliedNotAhead, tables
<1> QED  BY <1>1, <1>2, ServedKeeps

\* A step of a call writes the versions and statuses of rows and adds configs, no more.
LEMMA StepServed ==
    ASSUME SystemInv, NEW c \in Callers, CallStep(c)
    PROVE  Served
<1>1. UNCHANGED <<accounts, droplets, uuids>>
  BY DEF CallStep, ReadBot, ReadConfig, FindConfig, CheckDesired, SetApplied, AckOnline, Beat,
         DrawVersion, StoreConfig, Offer, MarkStale, UpdateBotRow, Read, tables
<1>2. OnlyStores
  BY SystemTypes, StepKnows
<1>3. ASSUME NEW b \in Bots
      PROVE  /\ bots'[b].droplet = bots[b].droplet
             /\ bots[b].desired # 0 => bots'[b].desired # 0
  <2>1. PICK n \in Nat : configs[b] = 1 .. n
    BY SystemTypes DEF Grounded, Counted
  <2>2. ASSUME call[c].pc \in {"offer", "set_applied"}, call[c].bot = b, BotExists(b)
        PROVE  call[c].version # 0
    <3>1. KnownTo(call[c], Stored) /\ b \in DOMAIN Stored /\ Stored[b] = configs[b]
      BY <2>2, SystemTypes DEF Grounded, Stored
    <3>2. call[c].version \in configs[b]
      BY <2>2, <3>1 DEF KnownTo
    <3> QED  BY <2>1, <3>2
  <2> QED  BY <2>2, SystemTypes, StepRows DEF Untouched
<1>4. ASSUME NEW b \in Bots, configs'[b] # configs[b] PROVE BotExists(b)
  <2>1. configs' # configs
    BY <1>4
  <2>2. CASE StoreConfig(c)
    BY <1>4, <2>2, SystemTypes DEF StoreConfig, After, ConfigsWith, ConfigInsertable
  <2>3. CASE ~StoreConfig(c)
    BY <2>1, <2>3
       DEF CallStep, ReadBot, ReadConfig, FindConfig, CheckDesired, SetApplied, AckOnline, Beat,
           DrawVersion, Offer, MarkStale, UpdateBotRow, Read, tables
  <2> QED  BY <2>2, <2>3
<1> QED  BY <1>1, <1>2, <1>3, <1>4 DEF Served

\* So does the service.
LEMMA ServeKeeps ==
    ASSUME SystemInv, NEW c \in Callers, Serve(c), UNCHANGED req
    PROVE  SystemInv'
<1>1. CallStep(c) /\ UNCHANGED <<cloud, agent>>
  BY DEF Serve
<1>2. Served
  BY <1>1, StepServed
<1>3. LifecycleTypeOK' /\ Grounded' /\ AppliedNotAhead'
  BY <1>1, SystemTypes, StepType, StepKnows, StepOrdered
<1>4. Found'
  <2>1. PICK s : Follows(c, s)
    BY <1>1, SystemTypes, StepFollows
  <2>2. call[c].pc \in CallLabels
    BY <1>1, Labels
       DEF CallStep, ReadBot, ReadConfig, FindConfig, CheckDesired, SetApplied, AckOnline, Beat,
           DrawVersion, StoreConfig, Offer, MarkStale
  <2>3. s.pc \in CallLabels \ {"mark_stale"} => Findable(s.bot)
    <3>1. CASE call[c].pc = "mark_stale"
      BY <2>1, <3>1, Labels DEF Follows
    <3>2. CASE call[c].pc # "mark_stale"
      BY <2>1, <2>2, <3>2 DEF Follows, SystemInv, Found
    <3> QED  BY <3>1, <3>2
  <2> QED  BY <1>2, <2>1, <2>3, CallFound DEF Follows, Served
<1>5. agent' \in [Droplets -> AgentRows] /\ Waits'
  BY <1>1, SystemTypes DEF SystemInv, Waits
<1> QED  BY <1>1, <1>2, <1>3, <1>4, <1>5, ServedKeeps

\* An answer, or none, takes an agent on and ends its call; so does an agent that is gone.
LEMMA EndKeeps ==
    ASSUME SystemInv, NEW c \in Callers, CallBecomes(c, NoCall), UNCHANGED <<tables, heard, cloud, req>>,
           agent' \in [Droplets -> AgentRows], Waits'
    PROVE  SystemInv'
<1>1. NoCall \in Calls /\ NoCall.pc = "idle"
  BY SystemTypes, CallTypes DEF NoCall
<1>2. LifecycleTypeOK' /\ Grounded'
  BY <1>1, SystemTypes, CallMoveType, EndedCallKnows
<1>3. Found'
  BY <1>1, CallFound, Labels DEF tables
<1> QED  BY <1>2, <1>3, TalkKeeps

\* The requests of the agents find their bots or are turned away.
LEMMA ReceiveKeeps ==
    ASSUME SystemInv, NEW c \in Callers, NEW op \in {"register", "fetch", "heartbeat", "ack"},
           NEW b \in Bots, NEW t, NEW owner \in Bots \cup {NoBot}, NEW v \in Nat,
           Receive(c, op, b, t, owner, v), UNCHANGED <<cloud, req>>,
           agent' \in [Droplets -> AgentRows], Waits'
    PROVE  SystemInv'
<1>1. UNCHANGED <<tables, heard>>
  BY DEF Receive
<1>2. LifecycleTypeOK' /\ Grounded'
  BY SystemTypes, ReceiveType, ReceiveKnows
<1>3. Found'
  <2>1. NoCall \in Calls
    BY SystemTypes, CallTypes
  <2>2. PICK s : /\ CallBecomes(c, s)
                 /\ \/ s = [NoCall EXCEPT !.pc = "unauthorized"]
                    \/ s = [NoCall EXCEPT !.pc = "ok"]
                    \/ /\ BotExists(b)
                       /\ s = [NoCall EXCEPT !.pc = FirstLabel[op], !.op = op, !.bot = b,
                                             !.owner = owner, !.version = v]
    BY DEF Receive, Authorized
  <2>3. s.pc \in {"unauthorized", "ok"} \/ (BotExists(b) /\ s.bot = b)
    BY <2>1, <2>2 DEF Calls
  <2>4. s.pc \in CallLabels \ {"mark_stale"} => Findable(s.bot)
    BY <2>3, Labels, RowsAreFindable, SystemTypes
  <2> QED  BY <1>1, <2>2, <2>4, CallFound DEF tables
<1> QED  BY <1>1, <1>2, <1>3, TalkKeeps

\* So do those of the program around the service.
LEMMA HostCallKeeps ==
    ASSUME SystemInv, NEW c \in Callers, HostCall(c), UNCHANGED <<cloud, agent, req>>
    PROVE  SystemInv'
<1>1. UNCHANGED <<tables, heard>>
  BY DEF HostCall, BeginWatch, BeginUpdate
<1>2. LifecycleTypeOK' /\ Grounded'
  BY SystemTypes, HostCallType, HostCallKnows
<1>3. NoCall \in Calls
  BY SystemTypes, CallTypes
<1>4. PICK s : /\ CallBecomes(c, s)
               /\ s.pc \in CallLabels \ {"mark_stale"} => Findable(s.bot)
  <2>1. ASSUME BeginWatch(c)
        PROVE  \E s : CallBecomes(c, s) /\ s.pc \in {"error", "ok", "mark_stale"}
    <3>1. PICK s : /\ CallBecomes(c, s)
                   /\ \/ s = [NoCall EXCEPT !.pc = "error"]
                      \/ s = [NoCall EXCEPT !.pc = "ok"]
                      \/ s = [NoCall EXCEPT !.pc = "mark_stale", !.op = "watch", !.stale = Stale]
      BY <2>1 DEF BeginWatch
    <3>2. s.pc \in {"error", "ok", "mark_stale"}
      BY <1>3, <3>1 DEF Calls
    <3> QED  BY <3>1, <3>2
  <2>2. ASSUME NEW b \in Bots, BeginUpdate(c, b)
        PROVE  \E s : /\ CallBecomes(c, s)
                      /\ s.pc \in {"error", "not_found", "invalid"} \/ (BotExists(b) /\ s.bot = b)
    <3>1. PICK s : /\ CallBecomes(c, s)
                   /\ \/ \E reply \in {"error", "not_found", "invalid"} :
                           s = [NoCall EXCEPT !.pc = reply]
                      \/ /\ BotExists(b)
                         /\ s = [NoCall EXCEPT !.pc = "next_version", !.op = "update", !.bot = b,
                                               !.applied = bots[b].applied]
      BY <2>2 DEF BeginUpdate
    <3>2. s.pc \in {"error", "not_found", "invalid"} \/ (BotExists(b) /\ s.bot = b)
      BY <1>3, <3>1 DEF Calls
    <3> QED  BY <3>1, <3>2
  <2> QED  BY <2>1, <2>2, Labels, RowsAreFindable, SystemTypes DEF HostCall
<1>5. Found'
  BY <1>1, <1>4, CallFound DEF tables
<1>6. agent' \in [Droplets -> AgentRows] /\ Waits'
  BY SystemTypes DEF SystemInv, Waits
<1> QED  BY <1>1, <1>2, <1>5, <1>6, TalkKeeps

\* Whatever the agents, the calls and the clock of the heartbeats do keeps the invariant.
LEMMA ConverseKeeps ==
    ASSUME SystemInv, Converse
    PROVE  SystemInv'
<1>0. UNCHANGED req /\ Droplets \subseteq Callers /\ Hosts \subseteq Callers
  BY SystemTypes DEF Converse, Hosts
<1>1. ASSUME NEW d \in Droplets, Hear(d) \/ BreakOff(d) PROVE SystemInv'
  <2>1. /\ CallBecomes(d, NoCall) /\ UNCHANGED <<tables, heard, cloud>>
        /\ agent[d] \in AgentRows /\ agent[d].pc \in DOMAIN Asked /\ call[d].version \in Nat
    BY <1>0, <1>1, SystemTypes DEF Hear, BreakOff, SystemInv, Waits, Calls
  <2>2. PICK a \in AgentRows : AgentBecomes(d, a) /\ a.fate = "none"
    BY <1>1, <2>1, ReactionFacts DEF Hear, BreakOff
  <2> QED  BY <1>0, <2>1, <2>2, AgentMoves, EndKeeps
<1>2. ASSUME NEW d \in Droplets, WakeUp(d) \/ Sleep(d) PROVE SystemInv'
  <2>1. /\ UNCHANGED <<tables, heard, call, cloud>>
        /\ agent[d].pc \in {"off", "sleep"} /\ agent[d] \in AgentRows
    BY <1>2, SystemTypes DEF WakeUp, Sleep, lifecycleVars, callVars
  <2>2. agent[d].fate = "none"
    BY <2>1, Labels DEF SystemInv, Waits
  <2>3. PICK a \in AgentRows : AgentBecomes(d, a) /\ a.fate = "none"
    <3>1. (agent[d].time + SleepTicks) % Cycle \in 0 .. Cycle - 1
      BY <2>1, AgentAssumption DEF AgentRows, SleepTicks, SyncWindow
    <3>2. PICK a : /\ AgentBecomes(d, a)
                   /\ \/ \E pc \in {"register", "start"} : a = [agent[d] EXCEPT !.pc = pc]
                      \/ a = [agent[d] EXCEPT !.pc = "heartbeat", !.time = (@ + SleepTicks) % Cycle]
      BY <1>2 DEF WakeUp, Sleep
    <3>3. a \in AgentRows /\ a.fate = "none"
      BY <2>1, <2>2, <3>1, <3>2 DEF AgentRows
    <3> QED  BY <3>2, <3>3
  <2>4. agent' \in [Droplets -> AgentRows] /\ Waits'
    BY <2>1, <2>3, AgentMoves
  <2>5. LifecycleTypeOK' /\ Grounded'
    BY <2>1, SystemTypes, GroundedStutters DEF LifecycleTypeOK, StoreTypeOK, CallTypeOK, tables
  <2>6. Found'
    BY <1>0, <2>1 DEF SystemInv, Found, Findable, tables
  <2> QED  BY <1>0, <2>1, <2>4, <2>5, <2>6, TalkKeeps
<1>3. ASSUME NEW d \in Droplets, SendAny(d) PROVE SystemInv'
  <2>1. PICK pc \in DOMAIN Asked, fate \in {"good", "doomed"} : Send(d, pc, fate)
    BY <1>3 DEF SendAny
  <2>2. /\ cloud[d].bot \in Bots /\ agent[d] \in AgentRows /\ agent[d].config \in Nat
        /\ agent[d].pc = pc /\ UNCHANGED cloud
    BY <2>1, SystemTypes DEF Send, Running, SystemInv, Waits, AgentRows
  <2>3. PICK op \in {"register", "fetch", "heartbeat", "ack"}, owner \in Bots \cup {NoBot}, v \in Nat :
          Receive(d, op, cloud[d].bot, cloud[d].token, owner, v)
    <3>1. CASE pc = "ack"
      BY <2>1, <2>2, <3>1 DEF Send
    <3>2. CASE pc # "ack"
      <4>1. Asked[pc] \in {"register", "fetch", "heartbeat"}
        BY <3>2, Labels DEF Asked
      <4>2. Receive(d, Asked[pc], cloud[d].bot, cloud[d].token, NoBot, 0)
        BY <2>1, <3>2 DEF Send
      <4> QED  BY <4>1, <4>2
    <3> QED  BY <3>1, <3>2
  <2>4. PICK a \in AgentRows : AgentBecomes(d, a) /\ a.pc = pc
    <3>1. PICK a : AgentBecomes(d, a) /\ a = [agent[d] EXCEPT !.fate = fate]
      BY <2>1 DEF Send
    <3>2. a \in AgentRows /\ a.pc = pc
      BY <2>2, <3>1 DEF AgentRows
    <3> QED  BY <3>1, <3>2
  <2> QED  BY <1>0, <2>2, <2>3, <2>4, AgentMoves, ReceiveKeeps
<1>4. ASSUME NEW d \in Droplets, Abandoned(d) PROVE SystemInv'
  BY <1>0, <1>4, SystemTypes, EndKeeps DEF Abandoned, SystemInv, Waits
<1>5. ASSUME NEW c \in Hosts, Host(c) PROVE SystemInv'
  <2>1. CASE HostCall(c)
    BY <1>0, <1>5, <2>1, HostCallKeeps DEF Host
  <2>2. CASE Return(c) \/ Drop(c)
    BY <1>0, <1>5, <2>2, SystemTypes, EndKeeps DEF Host, Return, Drop, SystemInv, Waits
  <2> QED  BY <1>5, <2>1, <2>2 DEF Host
<1>6. ASSUME NEW b \in Bots, Age(b), UNCHANGED <<cloud, agent>> PROVE SystemInv'
  <2>1. UNCHANGED <<tables, call>> /\ heard' \in [Bots -> {"never", "stale", "fresh"}]
    BY <1>6 DEF Age, SystemInv, CallTypeOK
  <2>2. LifecycleTypeOK' /\ Grounded'
    BY <2>1, SystemTypes, GroundedStutters DEF LifecycleTypeOK, StoreTypeOK, CallTypeOK, tables
  <2>3. Found' /\ Waits' /\ agent' \in [Droplets -> AgentRows]
    BY <1>0, <1>6, <2>1, SystemTypes DEF SystemInv, Found, Findable, Waits, tables
  <2> QED  BY <1>0, <1>6, <2>1, <2>2, <2>3, TalkKeeps
<1> QED  BY <1>0, <1>1, <1>2, <1>3, <1>4, <1>5, <1>6, ServeKeeps DEF Converse, AgentStep

----------------------------------------------------------------------------
(* The requests keep it.                                                    *)

\* What a step of a request leaves of the ids and of the droplets' bots: a request that
\* is about to insert a bot was so before or has drawn a new id.
Orderly ==
    /\ uuids \subseteq uuids'
    /\ \A q \in Handlers : req'[q].pc = "create_bot" =>
         \/ req[q].pc = "create_bot" /\ req[q].bot = req'[q].bot
         \/ req'[q].bot \notin uuids
    /\ \A d \in Droplets : cloud'[d].power # "none" => cloud'[d].bot \in Bots

\* Then a bot that was found still is, and what is known of the requests, the versions
\* and the calls is enough.
LEMMA RequestKeeps ==
    ASSUME SystemInv, [Next]_vars, Orderly, Grounded', AppliedNotAhead', UNCHANGED callVars,
           AgentsFollow \/ UNCHANGED agent
    PROVE  SystemInv'
<1>1. CreationInv'
  BY CreationNext DEF SystemInv
<1>2. CallTypeOK'
  BY DEF SystemInv, CallTypeOK, callVars
<1>3. Found'
  BY DEF Orderly, SystemInv, Found, Findable, callVars
<1>4. agent' \in [Droplets -> AgentRows] /\ Waits'
  <2>1. ASSUME NEW d \in Droplets, NEW destroyed \in BOOLEAN
        PROVE  Halted(d, destroyed) \in AgentRows /\ Halted(d, destroyed).fate = "none"
    <3>1. OffAt(0) \in AgentRows /\ OffAt(0).fate = "none"
      BY AgentAssumption, OffAtType DEF OffAt, SyncWindow
    <3>2. PICK a : a = [agent[d] EXCEPT !.pc = "off", !.fate = "none", !.tries = 0]
      OBVIOUS
    <3>3. agent[d] \in AgentRows /\ 0 \in 0 .. MAX_REGISTRATIONS - 1
      BY SystemTypes DEF MAX_REGISTRATIONS
    <3>4. a \in AgentRows /\ a.fate = "none"
      BY <3>2, <3>3 DEF AgentRows
    <3> QED  BY <3>1, <3>2, <3>4 DEF Halted
  <2>2. ASSUME NEW d \in Droplets
        PROVE  /\ agent'[d] \in AgentRows
               /\ agent'[d] = agent[d] \/ agent'[d].fate = "none"
    BY <2>1, SystemTypes DEF AgentsFollow
  <2>3. agent' = [d \in Droplets |-> agent'[d]]
    BY SystemTypes DEF AgentsFollow
  <2> QED  BY <2>2, <2>3 DEF Orderly, SystemInv, Waits
<1> QED  BY <1>1, <1>2, <1>3, <1>4 DEF SystemInv

\* Every request begins with a bot of its own to insert, or with one that there is.
LEMMA StartsOrderly ==
    ASSUME SystemInv, NEW p \in Handlers, Start(p)
    PROVE  Orderly
<1>1. req \in [Handlers -> Requests]
  BY SystemTypes DEF TypeOK
<1>2. ASSUME NEW r, Becomes(p, r), uuids \subseteq uuids', UNCHANGED cloud,
             r.pc = "create_bot" => r.bot \notin uuids
      PROVE  Orderly
  BY <1>1, <1>2 DEF Orderly, Becomes, SystemInv, Waits
<1>3. ASSUME NEW a \in Accounts, ReserveSlot(p, a) PROVE Orderly
  <2>1. PICK b : b = CHOOSE id \in Bots \ uuids : TRUE
    OBVIOUS
  <2>2. b \in Bots \ uuids
    BY <1>3, <2>1, SystemTypes DEF ReserveSlot, TypeOK, StoreTypeOK
  <2>3. PICK r : /\ Becomes(p, r) /\ UNCHANGED cloud /\ uuids \subseteq uuids'
                 /\ \/ r = [Idle EXCEPT !.pc = "create_bot", !.op = "create", !.bot = b, !.account = a]
                    \/ r = [Idle EXCEPT !.pc = "failed", !.op = "create"]
    BY <1>3, <2>1 DEF ReserveSlot
  <2>4. r.pc = "create_bot" => r.bot \notin uuids
    BY <2>2, <2>3 DEF Idle
  <2> QED  BY <1>2, <2>3, <2>4
<1>4. ASSUME NEW b \in Bots, NEW op, NEW found \in FirstLabels, Begin(p, op, b, found) PROVE Orderly
  <2>1. At(Reading(op, b), found).pc = found /\ Answered(Reading(op, b), "failed").pc = "failed"
    BY DEF At, Reading, Answered, Idle
  <2>2. found # "create_bot"
    BY DEF FirstLabels
  <2>3. \E r : Becomes(p, r) /\ r.pc # "create_bot"
    BY <1>4, <2>1, <2>2 DEF Begin
  <2>4. UNCHANGED <<uuids, cloud>>
    BY <1>4 DEF Begin, tables
  <2> QED  BY <1>2, <2>3, <2>4
<1>5. ASSUME NEW b \in Bots, BeginDestroy(p, b) \/ BeginPause(p, b)
                               \/ BeginResume(p, b) \/ BeginRedeploy(p, b)
      PROVE  Orderly
  BY <1>4, <1>5 DEF BeginDestroy, BeginPause, BeginResume, BeginRedeploy, FirstLabels
<1> QED  BY <1>3, <1>5 DEF Start

\* No request comes back to inserting its bot.
LEMMA StepsOrderly ==
    ASSUME SystemInv, NEW p \in Handlers, Step(p) \/ Cancel(p)
    PROVE  Orderly
<1>1. req \in [Handlers -> Requests] /\ Ownership
  BY SystemTypes DEF TypeOK
<1>2. CASE TameStep(p)
  <2>1. Tame
    BY <1>1, <1>2, TameSteps
  <2>2. \A q \in Handlers : req'[q].pc = "create_bot" =>
          req[q].pc = "create_bot" /\ req[q].bot = req'[q].bot
    BY <2>1, LabelTypes DEF Tame, TameRequest, InFlight, Guarded
  <2> QED  BY <2>1, <2>2 DEF Tame, TameCloud, Orderly, SystemInv, Waits
<1>3. CASE InsertBot(p) \/ CreateDroplet(p) \/ InsertDroplet(p) \/ AssignDroplet(p) \/ LinkDroplet(p)
  <2>1. req[p].pc \in {"create_bot", "create_droplet", "insert_droplet", "assign_droplet", "link_droplet"}
    BY <1>3 DEF InsertBot, CreateDroplet, InsertDroplet, AssignDroplet, LinkDroplet
  <2>2. /\ \A label : At(req[p], label).pc = label
        /\ Answered(req[p], "ok").pc = "ok"
        /\ Failed(req[p]).pc \in {"hard_delete", "failed"}
    BY <1>1 DEF At, Answered, Failed, Idle, Requests
  <2>3. \E r : Becomes(p, r) /\ r.pc # "create_bot"
    <3>1. CASE CreateDroplet(p)
      <4>1. PICK r : /\ Becomes(p, r)
                     /\ \/ r = [At(req[p], "insert_droplet") EXCEPT !.droplet = NewDroplet, !.token = 0]
                        \/ r = [req[p] EXCEPT !.tries = @ + 1]
                        \/ r = [At(req[p], "set_error") EXCEPT !.token = 0]
                        \/ r = [At(req[p], "set_pending") EXCEPT !.token = 0]
        BY <3>1 DEF CreateDroplet
      <4>2. req[p].pc = "create_droplet"
        BY <3>1 DEF CreateDroplet
      <4>3. r.pc \in {"insert_droplet", "create_droplet", "set_error", "set_pending"}
        BY <1>1, <4>1, <4>2 DEF At, Requests
      <4> QED  BY <4>1, <4>3
    <3>2. CASE ~CreateDroplet(p)
      BY <1>3, <2>2, <3>2 DEF InsertBot, InsertDroplet, AssignDroplet, LinkDroplet, UpdateBot
    <3> QED  BY <3>1, <3>2
  <2>4. UNCHANGED uuids
    BY <1>3 DEF InsertBot, CreateDroplet, InsertDroplet, AssignDroplet, LinkDroplet, UpdateBot, tables
  <2>5. ASSUME NEW d \in Droplets, cloud'[d].power # "none" PROVE cloud'[d].bot \in Bots
    <3>1. InFlight(p)
      BY <2>1, LabelTypes DEF InFlight
    <3>2. req[p].bot \in Bots
      BY <1>1, <3>1 DEF Ownership, IdsDrawn, TypeOK, StoreTypeOK
    <3>3. cloud' = cloud \/ cloud' = Created(NewDroplet, req[p].bot, req[p].token)
      BY <1>3 DEF InsertBot, CreateDroplet, InsertDroplet, AssignDroplet, LinkDroplet, UpdateBot
    <3> QED  BY <2>5, <3>2, <3>3, SystemTypes DEF Created, SystemInv, Waits
  <2> QED  BY <1>1, <2>3, <2>4, <2>5 DEF Orderly, Becomes
<1> QED  BY <1>2, <1>3 DEF Step, TameStep

\* What a step that inserts no row, deletes none and stores no config leaves to the calls.
LEMMA RowsStay ==
    ASSUME SystemInv, UNCHANGED <<configs, call>>, \A b \in Bots : BotExists(b)' <=> BotExists(b)
    PROVE  Grounded' /\ OnlyStores
<1>1. Stored' = Stored
  BY DEF Stored, BotExists
<1> QED  BY <1>1 DEF SystemInv, Grounded, Counted, OnlyStores

\* The steps of requests but four leave the versions of all bots alone.
LEMMA VersionsStay ==
    ASSUME SystemInv, NEW p \in Handlers, Start(p) \/ Step(p) \/ Cancel(p), UNCHANGED callVars,
           ~(InsertBot(p) \/ InsertConfig(p) \/ SetDesired(p) \/ RollbackBot(p))
    PROVE  Grounded' /\ AppliedNotAhead'
<1> DEFINE Kept(b) == /\ BotExists(b)' <=> BotExists(b)
                      /\ bots'[b].desired = bots[b].desired /\ bots'[b].applied = bots[b].applied
<1>1. bots \in [Bots -> BotRows]
  BY SystemTypes
<1>2. configs' = configs
  BY DEF Start, ReserveSlot, BeginDestroy, BeginPause, BeginResume, BeginRedeploy, Begin, Step, Cancel,
         SetProvisioning, SetToken, CreateDroplet, SetPending, SetError, InsertDroplet, AssignDroplet,
         LinkDroplet, CleanupDroplet, MarkFailed, RollbackCounter, DestroyDroplet, DestroyCall,
         MarkDestroyed, MarkCall, UnlinkDroplet, DeleteBot, ReleaseSlot, RedeployDestroy, RedeployMark,
         GetLatest, Shutdown, SetPaused, GetDroplet, Reboot, SetOnline, Reply, UpdateBot, tables
<1>3. ASSUME NEW x, NEW s \in BotStatus, bots' = WithStatus(x, s), NEW b \in Bots PROVE Kept(b)
  BY <1>1, <1>3 DEF WithStatus, WithBot, BotExists, BotRows, BotStatus
<1>4. ASSUME NEW x, NEW t, bots' = WithToken(x, t) \/ bots' = WithDroplet(x, t), NEW b \in Bots PROVE Kept(b)
  BY <1>1, <1>4 DEF WithToken, WithDroplet, WithBot, BotExists, BotRows
<1>5. \/ bots' = bots
      \/ \E x, s : s \in BotStatus /\ bots' = WithStatus(x, s)
      \/ \E x, t : bots' = WithToken(x, t) \/ bots' = WithDroplet(x, t)
  <2>1. CASE Start(p) \/ Cancel(p) \/ CreateDroplet(p) \/ InsertDroplet(p) \/ AssignDroplet(p)
               \/ CleanupDroplet(p) \/ RollbackCounter(p) \/ DestroyDroplet(p) \/ MarkDestroyed(p)
               \/ ReleaseSlot(p) \/ RedeployDestroy(p) \/ RedeployMark(p) \/ GetLatest(p)
               \/ Shutdown(p) \/ GetDroplet(p) \/ Reboot(p) \/ Reply(p)
    BY <2>1
       DEF Start, ReserveSlot, BeginDestroy, BeginPause, BeginResume, BeginRedeploy, Begin, Cancel,
           CreateDroplet, InsertDroplet, AssignDroplet, CleanupDroplet, RollbackCounter,
           DestroyDroplet, DestroyCall, MarkDestroyed, MarkCall, ReleaseSlot, RedeployDestroy,
           RedeployMark, GetLatest, Shutdown, GetDroplet, Reboot, Reply, tables
  <2>2. CASE SetProvisioning(p) \/ SetPending(p) \/ SetError(p) \/ MarkFailed(p)
               \/ DeleteBot(p) \/ SetPaused(p) \/ SetOnline(p)
    BY <2>2
       DEF SetProvisioning, SetPending, SetError, MarkFailed, DeleteBot, Deleted, SetPaused, SetOnline,
           UpdateBot, After, BotStatus
  <2>3. CASE SetToken(p) \/ LinkDroplet(p) \/ UnlinkDroplet(p)
    BY <2>3 DEF SetToken, LinkDroplet, UnlinkDroplet, UpdateBot, After
  <2> QED  BY <2>1, <2>2, <2>3 DEF Step
<1>6. \A b \in Bots : Kept(b)
  BY <1>3, <1>4, <1>5 DEF BotExists
<1>7. AppliedNotAhead'
  BY <1>2, <1>6 DEF SystemInv, AppliedNotAhead
<1> QED  BY <1>2, <1>6, <1>7, RowsStay DEF callVars

\* The first config of a bot is desired when it is stored, and nothing is applied then.
LEMMA SetDesiredGrounded ==
    ASSUME SystemInv, NEW p \in Handlers, SetDesired(p), UNCHANGED callVars
    PROVE  Grounded' /\ AppliedNotAhead'
<1>1. PICK b : b = req[p].bot
  OBVIOUS
<1>2. InFlight(p)
  BY LabelTypes DEF SetDesired, InFlight
<1>3. b \in Bots /\ (BotExists(b) => 1 \in configs[b])
  BY <1>1, <1>2 DEF SetDesired, SystemInv, CreationInv, Ownership, StoredBeforeDesired, IdsDrawn,
                    TypeOK, StoreTypeOK
<1>4. /\ configs' = configs
      /\ bots' = bots \/ bots' = WithConfigVersion(b, 1, 0)
  BY <1>1 DEF SetDesired, UpdateBot, After
<1>5. \A x \in Bots : BotExists(x)' <=> BotExists(x)
  BY <1>4, SystemTypes, UpdatesKeepRows DEF SameRows, BotExists
<1>6. Grounded' /\ OnlyStores
  BY <1>4, <1>5, RowsStay DEF callVars
<1>7. \A x \in Bots : Ordered(WithConfigVersion(b, 1, 0)[x], configs[x])
  BY <1>3, SystemTypes, VersionsOrdered
<1> QED  BY <1>4, <1>6, <1>7, SystemTypes, OrderedNext

\* Version 1 is only stored as the first one.
LEMMA InsertConfigGrounded ==
    ASSUME SystemInv, NEW p \in Handlers, InsertConfig(p), UNCHANGED callVars
    PROVE  Grounded' /\ AppliedNotAhead'
<1>1. PICK b : b = req[p].bot
  OBVIOUS
<1>2. /\ bots' = bots /\ call' = call
      /\ \/ configs' = configs
         \/ BotExists(b) /\ 1 \notin configs[b] /\ configs' = [configs EXCEPT ![b] = @ \cup {1}]
  BY <1>1 DEF InsertConfig, After, ConfigsWith, ConfigInsertable, callVars
<1>3. OnlyStores
  BY <1>2, SystemTypes DEF OnlyStores, BotExists
<1>4. Counted'
  <2>1. SUFFICES ASSUME NEW x \in Bots PROVE \E n \in Nat : configs'[x] = 1 .. n
    BY DEF Counted
  <2>2. PICK n \in Nat : configs[x] = 1 .. n
    BY SystemTypes DEF Grounded, Counted
  <2>3. CASE configs'[x] = configs[x]
    BY <2>2, <2>3
  <2>4. CASE 1 \notin configs[x] /\ configs'[x] = configs[x] \cup {1}
    <3>1. n = 0
      BY <2>2, <2>4
    <3>2. configs'[x] = 1 .. 1
      BY <2>2, <2>4, <3>1
    <3> QED  BY <3>2
  <2> QED  BY <1>2, <2>3, <2>4, SystemTypes
<1>5. \A c \in Callers : KnownTo(call[c], Stored')
  BY <1>3, SystemTypes, KnownStays, StoredGrows DEF Grounded
<1>6. Grounded'
  BY <1>2, <1>4, <1>5 DEF Grounded
<1>7. AppliedNotAhead'
  BY <1>2, <1>3, SystemTypes, OrderedNext
<1> QED  BY <1>6, <1>7

\* No call is about the bot that is inserted: it could not have found it.
LEMMA InsertBotGrounded ==
    ASSUME SystemInv, NEW p \in Handlers, InsertBot(p), UNCHANGED callVars
    PROVE  Grounded' /\ AppliedNotAhead'
<1>1. PICK b : b = req[p].bot
  OBVIOUS
<1>2. req[p].pc = "create_bot" /\ configs' = configs /\ call' = call
  BY DEF InsertBot, callVars
<1>3. PICK row : /\ bots' = bots \/ bots' = [bots EXCEPT ![b] = row]
                 /\ row.desired = 0 /\ row.applied = 0
  <2>1. PICK row : row = [NoBotRow EXCEPT !.status = "pending", !.account = req[p].account]
    OBVIOUS
  <2>2. row.desired = 0 /\ row.applied = 0
    BY <2>1 DEF NoBotRow
  <2>3. bots' = bots \/ bots' = [bots EXCEPT ![b] = row]
    BY <1>1, <2>1 DEF InsertBot, After, Inserted
  <2> QED  BY <2>2, <2>3
<1>4. ASSUME NEW c \in Callers PROVE KnownTo(call[c], Stored')
  <2>1. KnownTo(call[c], Stored)
    BY SystemTypes DEF Grounded
  <2>2. CASE call[c].pc \in CallLabels \ {"mark_stale"}
    <3>1. call[c].bot # b
      BY <1>1, <1>2, <2>2 DEF SystemInv, Found, Findable
    <3>2. \A x \in Bots \ {b} : BotExists(x)' <=> BotExists(x)
      BY <1>3, SystemTypes DEF BotExists
    <3>3. /\ call[c].bot \in DOMAIN Stored' => call[c].bot \in DOMAIN Stored
          /\ call[c].bot \in DOMAIN Stored' => Stored'[call[c].bot] = Stored[call[c].bot]
      BY <1>2, <3>1, <3>2 DEF Stored
    <3> QED  BY <2>1, <3>3 DEF KnownTo
  <2>3. CASE call[c].pc \notin CallLabels \ {"mark_stale"}
    BY <2>3, CallLabelTypes DEF KnownTo, UpdateLabels
  <2> QED  BY <2>2, <2>3
<1>5. Grounded'
  BY <1>2, <1>4 DEF SystemInv, Grounded, Counted
<1>6. AppliedNotAhead'
  BY <1>2, <1>3, SystemTypes DEF AppliedNotAhead
<1> QED  BY <1>5, <1>6

\* With a row its configs go.
LEMMA RollbackBotGrounded ==
    ASSUME SystemInv, NEW p \in Handlers, RollbackBot(p), UNCHANGED callVars
    PROVE  Grounded' /\ AppliedNotAhead'
<1>1. PICK b : b = req[p].bot
  OBVIOUS
<1>2. /\ call' = call
      /\ \/ bots' = HardDeleted(b) /\ configs' = ConfigsWithout(b)
         \/ UNCHANGED <<bots, configs>>
  BY <1>1 DEF RollbackBot, After, callVars
<1>3. ASSUME NEW x \in Bots
      PROVE  \/ bots'[x] = bots[x] /\ configs'[x] = configs[x]
             \/ bots'[x] = NoBotRow /\ configs'[x] = {}
  BY <1>2, SystemTypes DEF HardDeleted, ConfigsWithout
<1>4. NoBotRow.status = "absent" /\ NoBotRow.desired = 0 /\ NoBotRow.applied = 0
  BY DEF NoBotRow
<1>5. Counted'
  <2>1. SUFFICES ASSUME NEW x \in Bots PROVE \E n \in Nat : configs'[x] = 1 .. n
    BY DEF Counted
  <2>2. {} = 1 .. 0
    OBVIOUS
  <2> QED  BY <1>3, <2>2, SystemTypes DEF Grounded, Counted
<1>6. \A x \in DOMAIN Stored' : x \in DOMAIN Stored /\ Stored[x] \subseteq Stored'[x]
  <2>1. /\ DOMAIN Stored = {x \in Bots : BotExists(x)}
        /\ \A x \in DOMAIN Stored : Stored[x] = configs[x]
    BY DEF Stored
  <2>2. /\ DOMAIN Stored' = {x \in Bots : BotExists(x)'}
        /\ \A x \in DOMAIN Stored' : Stored'[x] = configs'[x]
    BY DEF Stored, BotExists
  <2> QED  BY <1>3, <1>4, <2>1, <2>2 DEF BotExists
<1>7. \A c \in Callers : KnownTo(call[c], Stored')
  BY <1>6, SystemTypes, KnownStays DEF Grounded
<1>8. Grounded'
  BY <1>2, <1>5, <1>7 DEF Grounded
<1>9. AppliedNotAhead'
  BY <1>3, <1>4, SystemTypes DEF AppliedNotAhead
<1> QED  BY <1>8, <1>9

\* A request's start, its steps and its end keep the invariant.
LEMMA ProvisionKeeps ==
    ASSUME SystemInv, NEW p \in Handlers, Provision(p)
    PROVE  SystemInv'
<1>1. Start(p) \/ Step(p) \/ Cancel(p)
  BY DEF Provision
<1>2. [Next]_vars /\ AgentsFollow /\ UNCHANGED callVars
  BY DEF Provision, Next
<1>3. Grounded' /\ AppliedNotAhead'
  BY <1>1, <1>2, VersionsStay, SetDesiredGrounded, InsertConfigGrounded, InsertBotGrounded, RollbackBotGrounded
<1> QED  BY <1>1, <1>2, <1>3, StartsOrderly, StepsOrderly, RequestKeeps

\* Accounts and the power of droplets are no concern of the calls.
LEMMA ManageKeeps ==
    ASSUME SystemInv,
           \/ \E a \in Accounts, tier \in TierChoices : Manage(a, tier)
           \/ \E d \in Droplets : Power(d)
    PROVE  SystemInv'
<1>1. /\ [Next]_vars /\ UNCHANGED callVars /\ (AgentsFollow \/ UNCHANGED agent)
      /\ UNCHANGED <<bots, configs, uuids, req>>
  BY DEF Manage, Power, Next, CreateAccount, UpdateSubscription, Boot, PowerOff, tables
<1>2. Grounded' /\ AppliedNotAhead'
  BY <1>1, SystemTypes, GroundedStutters DEF AppliedNotAhead, callVars
<1>3. TameCloud
  BY SystemTypes, CloudCallTame, TameCloudIfSame
     DEF Manage, Power, CreateAccount, UpdateSubscription, Boot, PowerOff, Powers, IsUp
<1>4. Orderly
  BY <1>1, <1>3 DEF Orderly, TameCloud, SystemInv, Waits
<1> QED  BY <1>1, <1>2, <1>4, RequestKeeps

----------------------------------------------------------------------------
(* The theorems.                                                            *)

\* There are no bots yet, no calls and no agents.
LEMMA SystemStarts == SystemInit => SystemInv
<1> SUFFICES ASSUME SystemInit PROVE SystemInv
  OBVIOUS
<1>1. CreationInv
  BY CreationInit DEF SystemInit
<1>2. /\ \A c \in Callers : call[c].pc = "idle"
      /\ call = [c \in Callers |-> NoCall] /\ heard = [b \in Bots |-> "never"]
      /\ agent = [d \in Droplets |-> OffAt(0)] /\ OffAt(0).fate = "none"
      /\ \A d \in Droplets : cloud[d].power = "none"
      /\ \A b \in Bots : configs[b] = {} /\ bots[b].desired = 0 /\ bots[b].applied = 0
  BY DEF SystemInit, CallInit, NoCall, OffAt, Init, StoreInit, CloudInit, NoBotRow
<1>3. CallTypeOK
  <2>1. NoCall \in Calls
    BY DEF NoCall, Calls, CallOps
  <2> QED  BY <1>2, <2>1 DEF CallTypeOK
<1>4. agent \in [Droplets -> AgentRows]
  BY <1>2, OffAtType, AgentAssumption DEF SyncWindow
<1>5. Grounded
  <2>1. {} = 1 .. 0
    OBVIOUS
  <2>2. Counted
    BY <1>2, <2>1 DEF Counted
  <2> QED  BY <1>2, <2>2, EndedKnows DEF Grounded
<1>6. AppliedNotAhead
  BY <1>2 DEF AppliedNotAhead
<1>7. Found /\ Waits
  BY <1>2, Labels DEF Found, Waits
<1> QED  BY <1>1, <1>3, <1>4, <1>5, <1>6, <1>7 DEF SystemInv

\* Every step of the system keeps the invariant.
LEMMA SystemGoesOn == SystemInv /\ [SystemNext]_systemVars => SystemInv'
<1> SUFFICES ASSUME SystemInv, [SystemNext]_systemVars PROVE SystemInv'
  OBVIOUS
<1>1. CASE UNCHANGED systemVars
  <2>1. UNCHANGED <<tables, heard, call, cloud, agent, req>>
    BY <1>1 DEF systemVars, agentVars, lifecycleVars, callVars
  <2>2. LifecycleTypeOK' /\ Grounded'
    BY <2>1, SystemTypes, GroundedStutters DEF LifecycleTypeOK, StoreTypeOK, CallTypeOK, tables
  <2>3. Found' /\ Waits' /\ agent' \in [Droplets -> AgentRows]
    BY <2>1, SystemTypes DEF SystemInv, Found, Findable, Waits, tables
  <2> QED  BY <2>1, <2>2, <2>3, TalkKeeps
<1> QED  BY <1>1, ProvisionKeeps, ManageKeeps, ConverseKeeps DEF SystemNext

\* The inductive invariant holds in every reachable state.
LEMMA SystemHolds == SystemSpec => []SystemInv
BY SystemStarts, SystemGoesOn, PTL DEF SystemSpec

\* The tables, the requests, the calls and the agents keep their types when they all run
\* together.
THEOREM SystemTypeCorrect == SystemSpec => []SystemTypeOK
<1>1. SystemInv => SystemTypeOK
  BY SystemTypes DEF SystemTypeOK, AgentTypeOK, TypeOK
<1> QED  BY <1>1, SystemHolds, PTL

\* While bots are created, rolled back and destroyed and their owners update them, no bot
\* is ever told to run a config that is not stored (create_bot, create_bot_config).
THEOREM SystemDesiredConfigExists == SystemSpec => []DesiredConfigExists
<1>1. SystemInv => DesiredConfigExists
  BY SystemTypes DEF Ownership
<1> QED  BY <1>1, SystemHolds, PTL

\* Nor does the applied config get ahead of the desired one: a call that is under way
\* while its bot is rolled back does not write to a row, and no row comes back.
THEOREM SystemAppliedNotAhead == SystemSpec => []AppliedNotAhead
<1>1. SystemInv => AppliedNotAhead
  BY SystemTypes
<1> QED  BY <1>1, SystemHolds, PTL

\* The versions of a bot are 1, 2, ... without a gap, though create_bot stores version 1
\* without drawing it and updates draw theirs from what is stored.
THEOREM SystemVersionsGapless == SystemSpec => []VersionsGapless
<1>1. SystemInv => VersionsGapless
  BY SystemTypes, CountedIsGapless DEF Grounded
<1> QED  BY <1>1, SystemHolds, PTL

\* The calls of agents and owners do not disturb who owns which droplet: no two bots
\* share one, and one that is marked destroyed is gone.
THEOREM SystemOwnership == SystemSpec => [](DropletOwnership /\ MarkedDestroyedIsGone)
<1>1. SystemInv => DropletOwnership /\ MarkedDestroyedIsGone
  BY SystemTypes DEF Ownership
<1> QED  BY <1>1, SystemHolds, PTL

\* No step of the system destroys a droplet but a request on the bot it was made for.
THEOREM SystemDestroysOwn == SystemSpec => OnlyOwnDropletDestroyed
<1> DEFINE Owned == \A d \in Droplets :
                      IsUp(d) /\ ~IsUp(d)' => \E p \in Handlers : /\ req[p].droplet = d
                                                                /\ req[p].bot = cloud[d].bot
<1>1. ASSUME SystemInv, SystemNext PROVE Owned
  <2>1. [Next]_vars \/ UNCHANGED cloud
    BY <1>1
       DEF SystemNext, Provision, Manage, Power, Converse, AgentStep, WakeUp, SendAny, Send, Hear,
           BreakOff, Sleep, Abandoned, Serve, Host, Next
  <2>2. UNCHANGED cloud => Owned
    BY DEF IsUp
  <2>3. ASSUME [Next]_vars, NEW d \in Droplets, IsUp(d), ~IsUp(d)'
        PROVE  \E p \in Handlers : req[p].droplet = d /\ req[p].bot = cloud[d].bot
    <3>1. PICK p \in Handlers : /\ req[p].droplet = d
                                /\ DestroyDroplet(p) \/ RedeployDestroy(p) \/ CleanupDroplet(p)
      BY <1>1, <2>3, DownSteps, SystemTypes
    <3>2. InFlight(p)
      BY <3>1, LabelTypes DEF DestroyDroplet, RedeployDestroy, CleanupDroplet, InFlight
    <3> QED  BY <1>1, <3>1, <3>2, SystemTypes DEF Ownership, DropletsKnown
  <2> QED  BY <2>1, <2>2, <2>3
<1>2. UNCHANGED systemVars => UNCHANGED vars
  BY DEF systemVars, agentVars, lifecycleVars, vars, tables
<1>3. SystemInv /\ [SystemNext]_systemVars => [Owned]_vars
  BY <1>1, <1>2
<1> QED  BY <1>3, SystemHolds, PTL DEF SystemSpec, OnlyOwnDropletDestroyed

\* As long as the rollback's DELETE finds the database up, a create request that failed
\* leaves no bot behind and no config, whatever calls on the bot were under way.
THEOREM SystemFailedCreateLeavesNothing ==
    ASSUME "hard_delete" \notin Faults
    PROVE  SystemSpec => []FailedCreateLeavesNothing
<1>1. SystemInv => FailedCreateLeavesNothing
  BY DEF SystemInv, CreationInv, Undone, FailedCreateLeavesNothing
<1> QED  BY <1>1, SystemHolds, PTL

\* With requests that are not dropped on the way, moreover, every bot that no request
\* works on has a stored config to run, which no update or acknowledgement takes away.
THEOREM SystemQuietBotsHaveConfig ==
    ASSUME "hard_delete" \notin Faults, ~Cancellation
    PROVE  SystemSpec => []QuietBotsHaveConfig
<1>1. SystemInv => QuietBotsHaveConfig
  <2> SUFFICES ASSUME SystemInv, NEW b \in Bots, BotExists(b), Quiet(b)
               PROVE  configs[b] # {} /\ bots[b].desired # 0
    BY DEF QuietBotsHaveConfig
  <2>1. bots[b].desired # 0
    BY LabelTypes DEF SystemInv, CreationInv, Told, Quiet, InFlight
  <2> QED  BY <2>1, SystemTypes DEF Ownership, DesiredConfigExists
<1> QED  BY <1>1, SystemHolds, PTL
=============================================================================
