--------------------------- MODULE LifecycleProofs ---------------------------
(***************************************************************************)
(* Theorems about Lifecycle, for any number of bots, callers and versions, *)
(* whatever calls fail, lose their replies or are dropped, and however     *)
(* updates, acknowledgements, heartbeats and checks interleave: the types, *)
(* the gapless versions, and AppliedNotAhead.  Grounded makes the last two *)
(* inductive: it says what a call knows, from what it has read, that no    *)
(* other call can take back.                                               *)
(*                                                                         *)
(* The second part proves that Lifecycle implements ConfigRegister when    *)
(* updates and acknowledgements of a bot are not called together.          *)
(***************************************************************************)
EXTENDS ConfigRefinement, StoreProofs, FiniteSetTheorems

----------------------------------------------------------------------------
(* The inductive invariant.                                                 *)

\* The versions of a bot are 1, ..., n.
Counted == \A b \in Bots : \E n \in Nat : configs[b] = 1 .. n

\* The configs of the bots that have a row.
Stored == [b \in {x \in Bots : BotExists(x)} |-> configs[b]]

\* What a call r knows of the configs stored, configs_of: an update that has drawn a
\* version has seen all of the versions below it, and the applied one among them; an
\* acknowledgement that has found its config will still find it.  Configs are only
\* added, so a call does not lose this knowledge to another one; and when the bot's row
\* is deleted, and its configs with it, there is nothing left to be wrong about.
KnownTo(r, configs_of) ==
    /\ r.pc \in CallLabels \ {"mark_stale"} => r.bot \in Bots
    /\ r.pc = "store_config" => r.version \in Nat \ {0}
    /\ r.bot \in DOMAIN configs_of =>
         /\ r.pc \in UpdateLabels => r.applied \in configs_of[r.bot] \cup {0}
         /\ r.pc = "store_config" =>
              1 .. r.version - 1 \subseteq configs_of[r.bot] /\ r.applied < r.version
         /\ r.pc = "offer" => r.version \in configs_of[r.bot] /\ r.applied < r.version
         /\ r.pc \in {"check_desired", "set_applied"} => r.version \in configs_of[r.bot]

Grounded == Counted /\ \A c \in Callers : KnownTo(call[c], Stored)

----------------------------------------------------------------------------
(* The tables and the calls keep their types.                               *)

\* The labels a call goes to.
LEMMA CallLabelTypes == CallLabels =
    {"read_bot", "read_config", "find_config", "check_desired", "set_applied", "ack_online",
     "next_version", "store_config", "offer", "beat", "mark_stale"}
BY DEF CallLabels, FetchLabels, AckLabels, UpdateLabels

\* An idle call, and the answer to one, are calls.
LEMMA CallTypes ==
    ASSUME LifecycleTypeOK, NEW c \in Callers
    PROVE  /\ NoCall \in Calls
           /\ \A reply \in Replies :
                Replied(c, reply) \in Calls /\ [NoCall EXCEPT !.pc = reply] \in Calls
           /\ \A label \in CallLabels : CallAt(c, label) \in Calls
<1>1. NoCall \in Calls
  BY DEF NoCall, Calls, CallOps
<1>2. call[c] \in Calls
  BY DEF LifecycleTypeOK, CallTypeOK
<1>3. ASSUME NEW reply \in Replies
      PROVE  Replied(c, reply) \in Calls /\ [NoCall EXCEPT !.pc = reply] \in Calls
  <2>1. (IF call[c].op = "fetch" /\ reply = "ok" THEN call[c].version ELSE 0) \in Nat
    BY <1>2 DEF Calls
  <2> QED  BY <1>1, <2>1 DEF Replied, Calls
<1>4. ASSUME NEW label \in CallLabels PROVE CallAt(c, label) \in Calls
  BY <1>2 DEF CallAt, Calls
<1> QED  BY <1>1, <1>3, <1>4

\* A call becomes another one.
LEMMA CallBecomesType ==
    ASSUME LifecycleTypeOK, NEW c, NEW r \in Calls, CallBecomes(c, r)
    PROVE  call' \in [Callers -> Calls]
BY DEF LifecycleTypeOK, CallTypeOK, CallBecomes

\* A step that only moves a call keeps the types.
LEMMA CallMoveType ==
    ASSUME LifecycleTypeOK, NEW c, NEW r \in Calls, CallBecomes(c, r), UNCHANGED <<tables, heard>>
    PROVE  LifecycleTypeOK'
BY CallBecomesType DEF LifecycleTypeOK, StoreTypeOK, CallTypeOK, tables

\* A SELECT keeps the types.
LEMMA ReadType ==
    ASSUME LifecycleTypeOK, NEW c \in Callers, NEW found \in Calls, Read(c, found)
    PROVE  LifecycleTypeOK'
<1>1. Replied(c, "error") \in Calls
  BY CallTypes DEF Replies
<1> QED  BY <1>1, CallMoveType DEF Read

\* An UPDATE of a bot row keeps the types.
LEMMA UpdateBotRowType ==
    ASSUME LifecycleTypeOK, NEW c \in Callers, NEW new \in [Bots -> BotRows], NEW next \in Calls,
           UpdateBotRow(c, new, next)
    PROVE  LifecycleTypeOK'
<1>1. PICK o \in Outcomes(call[c].pc) :
        /\ bots' = After(o, new, bots)
        /\ CallBecomes(c, CASE o # "done" -> Replied(c, "error")
                        [] o = "done" /\ ~BotExists(call[c].bot) -> Replied(c, "not_found")
                        [] OTHER -> next)
        /\ UNCHANGED <<accounts, configs, droplets, uuids, heard>>
  BY DEF UpdateBotRow
<1>2. bots' \in [Bots -> BotRows]
  BY <1>1, AfterIsEither DEF LifecycleTypeOK, StoreTypeOK
<1>3. Replied(c, "error") \in Calls /\ Replied(c, "not_found") \in Calls
  BY CallTypes DEF Replies
<1>4. call' \in [Callers -> Calls]
  BY <1>1, <1>3, CallBecomesType
<1> QED  BY <1>1, <1>2, <1>4 DEF LifecycleTypeOK, StoreTypeOK, CallTypeOK

\* The requests of the agents keep the types.
LEMMA ReceiveType ==
    ASSUME LifecycleTypeOK, NEW c \in Callers, NEW b \in Bots, NEW t,
           NEW op \in {"register", "fetch", "heartbeat", "ack"}, NEW owner \in Bots \cup {NoBot},
           NEW v \in Nat, Receive(c, op, b, t, owner, v)
    PROVE  LifecycleTypeOK'
<1>1. /\ [NoCall EXCEPT !.pc = "unauthorized"] \in Calls
      /\ [NoCall EXCEPT !.pc = "ok"] \in Calls
  BY CallTypes DEF Replies
<1>2. op # "register" => [NoCall EXCEPT !.pc = FirstLabel[op], !.op = op, !.bot = b,
                                      !.owner = owner, !.version = v] \in Calls
  <2>1. NoCall \in Calls
    BY CallTypes
  <2>2. op # "register" => FirstLabel[op] \in CallLabels /\ op \in CallOps
    BY CallLabelTypes DEF FirstLabel, CallOps
  <2> QED  BY <2>1, <2>2 DEF Calls
<1> QED  BY <1>1, <1>2, CallMoveType DEF Receive

\* What the calls of the agents are.
LEMMA AgentCalls ==
    ASSUME NEW c \in Callers, AgentCall(c)
    PROVE  \E b \in Bots, t \in Tokens, op \in {"register", "fetch", "heartbeat", "ack"},
              owner \in Bots \cup {NoBot}, v \in Nat : Receive(c, op, b, t, owner, v)
<1>1. PICK b \in Bots, t \in Tokens :
        \/ \E op \in {"register", "fetch", "heartbeat"} : Receive(c, op, b, t, NoBot, 0)
        \/ \E owner \in Bots, v \in 1 .. MaxVersion : Receive(c, "ack", b, t, owner, v)
  BY DEF AgentCall
<1>2. CASE \E op \in {"register", "fetch", "heartbeat"} : Receive(c, op, b, t, NoBot, 0)
  BY <1>2
<1>3. CASE \E owner \in Bots, v \in 1 .. MaxVersion : Receive(c, "ack", b, t, owner, v)
  <2>1. 1 .. MaxVersion \subseteq Nat
    BY LifecycleAssumption
  <2> QED  BY <1>3, <2>1
<1> QED  BY <1>1, <1>2, <1>3

\* The calls of the program around the service keep the types.
LEMMA HostCallType ==
    ASSUME LifecycleTypeOK, NEW c \in Callers, HostCall(c)
    PROVE  LifecycleTypeOK'
<1>1. \A reply \in Replies : [NoCall EXCEPT !.pc = reply] \in Calls
  BY CallTypes
<1>2. ASSUME NEW b \in Bots, BeginUpdate(c, b) PROVE LifecycleTypeOK'
  <2>1. [NoCall EXCEPT !.pc = "next_version", !.op = "update", !.bot = b,
                     !.applied = bots[b].applied] \in Calls
    <3>1. bots[b].applied \in Nat
      BY DEF LifecycleTypeOK, StoreTypeOK, BotRows
    <3>2. NoCall \in Calls
      BY CallTypes
    <3> QED  BY <3>1, <3>2, CallLabelTypes DEF Calls, CallOps
  <2> QED  BY <1>1, <1>2, <2>1, CallMoveType DEF BeginUpdate, Replies
<1>3. ASSUME BeginWatch(c) PROVE LifecycleTypeOK'
  <2>1. [NoCall EXCEPT !.pc = "mark_stale", !.op = "watch", !.stale = Stale] \in Calls
    <3>1. Stale \in SUBSET Bots
      BY DEF Stale
    <3>2. NoCall \in Calls
      BY CallTypes
    <3> QED  BY <3>1, <3>2, CallLabelTypes DEF Calls, CallOps
  <2> QED  BY <1>1, <1>3, <2>1, CallMoveType DEF BeginWatch, Replies
<1> QED  BY <1>2, <1>3 DEF HostCall

\* Every step of a call keeps the types.
LEMMA StepType ==
    ASSUME LifecycleTypeOK, Grounded, NEW c \in Callers, CallStep(c)
    PROVE  LifecycleTypeOK'
<1>1. /\ call[c] \in Calls /\ bots \in [Bots -> BotRows]
      /\ configs \in [Bots -> SUBSET Nat] /\ heard \in [Bots -> {"never", "stale", "fresh"}]
  BY DEF LifecycleTypeOK, CallTypeOK, StoreTypeOK
<1>2. /\ \A reply \in Replies : Replied(c, reply) \in Calls
      /\ \A label \in CallLabels : CallAt(c, label) \in Calls
  BY CallTypes
<1>3. /\ Replied(c, "ok") \in Calls /\ Replied(c, "not_found") \in Calls
      /\ Replied(c, "conflict") \in Calls /\ Replied(c, "error") \in Calls
  BY <1>2 DEF Replies
<1>4. call[c].version \in Nat /\ call[c].applied \in Nat
  BY <1>1 DEF Calls
<1>5. ASSUME ReadBot(c) PROVE LifecycleTypeOK'
  <2>1. call[c].bot \in Bots
    BY <1>5, CallLabelTypes DEF ReadBot, Grounded, KnownTo
  <2>2. bots[call[c].bot].desired \in Nat
    BY <1>1, <2>1 DEF BotRows
  <2>3. CallAt(c, "read_config") \in Calls
    BY <1>2, CallLabelTypes
  <2>4. [CallAt(c, "read_config") EXCEPT !.version = bots[call[c].bot].desired] \in Calls
    BY <2>2, <2>3 DEF Calls
  <2> QED  BY <1>3, <1>5, <2>4, ReadType DEF ReadBot
<1>6. ASSUME ReadConfig(c) PROVE LifecycleTypeOK'
  <2>1. Replied(c, IF call[c].version \in configs[call[c].bot] THEN "ok" ELSE "not_found") \in Calls
    BY <1>3
  <2> QED  BY <1>6, <2>1, ReadType DEF ReadConfig
<1>7. ASSUME FindConfig(c) PROVE LifecycleTypeOK'
  <2>1. CallAt(c, "check_desired") \in Calls
    BY <1>2, CallLabelTypes
  <2> QED  BY <1>3, <1>7, <2>1, ReadType DEF FindConfig
<1>8. ASSUME CheckDesired(c) PROVE LifecycleTypeOK'
  <2>1. call[c].bot \in Bots
    BY <1>8, CallLabelTypes DEF CheckDesired, Grounded, KnownTo
  <2>2. bots[call[c].bot].status \in BotStatus \cup {"absent"}
    BY <1>1, <2>1 DEF BotRows
  <2>3. CallAt(c, "set_applied") \in Calls
    BY <1>2, CallLabelTypes
  <2>4. [CallAt(c, "set_applied") EXCEPT !.status = bots[call[c].bot].status] \in Calls
    BY <2>2, <2>3 DEF Calls
  <2> QED  BY <1>3, <1>8, <2>4, ReadType DEF CheckDesired
<1>9. ASSUME SetApplied(c) PROVE LifecycleTypeOK'
  <2>1. CallAt(c, "ack_online") \in Calls
    BY <1>2, CallLabelTypes
  <2>2. WithConfigVersion(call[c].bot, call[c].version, call[c].version) \in [Bots -> BotRows]
    BY <1>1, <1>4, RowTypes
  <2> QED  BY <1>3, <1>9, <2>1, <2>2, UpdateBotRowType DEF SetApplied
<1>10. ASSUME AckOnline(c) PROVE LifecycleTypeOK'
  <2>1. WithStatus(call[c].bot, "online") \in [Bots -> BotRows]
    BY <1>1, RowTypes DEF BotStatus
  <2> QED  BY <1>3, <1>10, <2>1, UpdateBotRowType DEF AckOnline
<1>11. ASSUME Beat(c) PROVE LifecycleTypeOK'
  <2>1. heard' \in [Bots -> {"never", "stale", "fresh"}]
    <3>1. [heard EXCEPT ![call[c].bot] = "fresh"] \in [Bots -> {"never", "stale", "fresh"}]
      BY <1>1
    <3>2. heard' = [heard EXCEPT ![call[c].bot] = "fresh"] \/ heard' = heard
      BY <1>11 DEF Beat, After
    <3> QED  BY <1>1, <3>1, <3>2
  <2>2. call' \in [Callers -> Calls]
    BY <1>3, <1>11, CallBecomesType DEF Beat
  <2> QED  BY <1>11, <2>1, <2>2 DEF Beat, LifecycleTypeOK, StoreTypeOK, CallTypeOK, tables
<1>12. ASSUME DrawVersion(c) PROVE LifecycleTypeOK'
  <2>1. call[c].bot \in Bots
    BY <1>12, CallLabelTypes DEF DrawVersion, Grounded, KnownTo
  <2>2. NextVersion(call[c].bot) \in Nat
    BY <2>1, LatestIs DEF Grounded, Counted, NextVersion
  <2>3. CallAt(c, "store_config") \in Calls
    BY <1>2, CallLabelTypes
  <2>4. [CallAt(c, "store_config") EXCEPT !.owner = call[c].bot,
                                      !.version = NextVersion(call[c].bot)] \in Calls
    BY <2>1, <2>2, <2>3 DEF Calls
  <2> QED  BY <1>12, <2>4, ReadType DEF DrawVersion
<1>13. ASSUME StoreConfig(c) PROVE LifecycleTypeOK'
  <2>1. ConfigsWith(call[c].bot, call[c].version) \in [Bots -> SUBSET Nat]
    BY <1>1, <1>4 DEF ConfigsWith
  <2>2. configs' \in [Bots -> SUBSET Nat]
    BY <1>1, <1>13, <2>1, AfterIsEither DEF StoreConfig
  <2>3. CallAt(c, "offer") \in Calls
    BY <1>2, CallLabelTypes
  <2>4. call' \in [Callers -> Calls]
    BY <1>3, <1>13, <2>3, CallBecomesType DEF StoreConfig
  <2> QED  BY <1>13, <2>2, <2>4 DEF StoreConfig, LifecycleTypeOK, StoreTypeOK, CallTypeOK
<1>14. ASSUME Offer(c) PROVE LifecycleTypeOK'
  <2>1. WithConfigVersion(call[c].bot, call[c].version, call[c].applied) \in [Bots -> BotRows]
    BY <1>1, <1>4, RowTypes
  <2> QED  BY <1>3, <1>14, <2>1, UpdateBotRowType DEF Offer
<1>15. ASSUME NEW b \in Bots, MarkStale(c, b) PROVE LifecycleTypeOK'
  <2>1. WithStatus(b, "error") \in [Bots -> BotRows]
    BY <1>1, RowTypes DEF BotStatus
  <2>2. bots' \in [Bots -> BotRows]
    BY <1>1, <1>15, <2>1, AfterIsEither DEF MarkStale
  <2>3. [call[c] EXCEPT !.stale = @ \ {b}] \in Calls
    BY <1>1 DEF Calls
  <2>4. call' \in [Callers -> Calls]
    BY <1>3, <1>15, <2>3, CallBecomesType DEF MarkStale
  <2> QED  BY <1>15, <2>2, <2>4 DEF MarkStale, LifecycleTypeOK, StoreTypeOK, CallTypeOK
<1> QED  BY <1>5, <1>6, <1>7, <1>8, <1>9, <1>10, <1>11, <1>12, <1>13, <1>14, <1>15 DEF CallStep

\* Every step of the service keeps the types.
LEMMA LifecycleNextType == LifecycleTypeOK /\ Grounded /\ [LifecycleNext]_lifecycleVars => LifecycleTypeOK'
<1> SUFFICES ASSUME LifecycleTypeOK, Grounded, [LifecycleNext]_lifecycleVars PROVE LifecycleTypeOK'
  OBVIOUS
<1>1. CASE UNCHANGED lifecycleVars
  BY <1>1 DEF LifecycleTypeOK, StoreTypeOK, CallTypeOK, lifecycleVars, tables, callVars
<1>2. ASSUME NEW c \in Callers, Return(c) \/ Drop(c) PROVE LifecycleTypeOK'
  BY <1>2, CallTypes, CallMoveType DEF Return, Drop
<1>3. ASSUME NEW b \in Bots, Age(b) PROVE LifecycleTypeOK'
  BY <1>3 DEF Age, LifecycleTypeOK, StoreTypeOK, CallTypeOK, tables
<1> QED  BY <1>1, <1>2, <1>3, AgentCalls, ReceiveType, HostCallType, StepType DEF LifecycleNext

----------------------------------------------------------------------------
(* The invariant is inductive.                                              *)

\* What a call knows stays true when configs are added.
LEMMA KnownStays ==
    ASSUME NEW r, NEW before, NEW after, KnownTo(r, before),
           \A b \in DOMAIN after : b \in DOMAIN before /\ before[b] \subseteq after[b]
    PROVE  KnownTo(r, after)
BY CallLabelTypes DEF KnownTo, UpdateLabels

\* What the step of a call does not do: delete a config, or insert a bot.
OnlyStores ==
    \A b \in Bots : configs[b] \subseteq configs'[b] /\ (BotExists(b)' <=> BotExists(b))

\* Then the configs that are stored for the bots only grow.
LEMMA StoredGrows ==
    ASSUME OnlyStores
    PROVE  /\ \A b \in DOMAIN Stored' : b \in DOMAIN Stored /\ Stored[b] \subseteq Stored'[b]
           /\ DOMAIN Stored' = DOMAIN Stored
<1>1. /\ DOMAIN Stored = {b \in Bots : BotExists(b)}
      /\ \A b \in DOMAIN Stored : Stored[b] = configs[b]
  BY DEF Stored
<1>2. /\ DOMAIN Stored' = {b \in Bots : BotExists(b)'}
      /\ \A b \in DOMAIN Stored' : Stored'[b] = configs'[b]
  BY DEF Stored, BotExists
<1> QED  BY <1>1, <1>2 DEF OnlyStores

\* A step that makes one call another, and only adds configs, keeps Grounded's second part.
LEMMA KnownNext ==
    ASSUME LifecycleTypeOK, Grounded, NEW c \in Callers, NEW r, CallBecomes(c, r), OnlyStores,
           KnownTo(r, Stored)
    PROVE  \A x \in Callers : KnownTo(call'[x], Stored')
<1>1. ASSUME NEW x \in Callers PROVE KnownTo(call'[x], Stored')
  <2>1. call'[x] = r \/ call'[x] = call[x]
    BY DEF CallBecomes, LifecycleTypeOK, CallTypeOK
  <2>2. KnownTo(call[x], Stored)
    BY DEF Grounded
  <2>3. KnownTo(call'[x], Stored)
    BY <2>1, <2>2
  <2> QED  BY <2>3, KnownStays, StoredGrows
<1> QED  BY <1>1

\* Nothing is to be known for a call that has ended.
LEMMA EndedKnows ==
    ASSUME NEW r, NEW configs_of, r.pc \in Replies \cup {"idle"}
    PROVE  KnownTo(r, configs_of)
BY CallLabelTypes DEF KnownTo, UpdateLabels, Replies

\* A call that answers, or has been answered, need not know anything.
LEMMA AnswerKnows ==
    ASSUME LifecycleTypeOK, Grounded, NEW c \in Callers, KnownTo(call[c], Stored)
    PROVE  /\ \A reply \in Replies : KnownTo(Replied(c, reply), Stored)
           /\ KnownTo(NoCall, Stored)
           /\ \A reply \in Replies : KnownTo([NoCall EXCEPT !.pc = reply], Stored)
<1>1. \A reply \in Replies : Replied(c, reply).pc = reply
  BY DEF Replied, NoCall
<1>2. \A reply \in Replies : [NoCall EXCEPT !.pc = reply].pc = reply
  BY DEF NoCall
<1>3. NoCall.pc = "idle"
  BY DEF NoCall
<1>4. ASSUME NEW reply \in Replies
      PROVE  KnownTo(Replied(c, reply), Stored) /\ KnownTo([NoCall EXCEPT !.pc = reply], Stored)
  <2>1. KnownTo(Replied(c, reply), Stored)
    BY <1>1, EndedKnows
  <2>2. KnownTo([NoCall EXCEPT !.pc = reply], Stored)
    BY <1>2, EndedKnows
  <2> QED  BY <2>1, <2>2
<1>5. KnownTo(NoCall, Stored)
  BY <1>3, EndedKnows
<1> QED  BY <1>4, <1>5

\* A step that does not add a config keeps Grounded when its call goes on knowing.
LEMMA MoveKnows ==
    ASSUME LifecycleTypeOK, Grounded, NEW c \in Callers, NEW r, CallBecomes(c, r), configs' = configs,
           OnlyStores, KnownTo(r, Stored)
    PROVE  Grounded'
BY KnownNext DEF Grounded, Counted

\* A step that writes neither configs nor bots inserts and deletes nothing.
LEMMA SameStores ==
    ASSUME configs' = configs, bots' = bots
    PROVE  OnlyStores
BY DEF OnlyStores, BotExists

\* A request of an agent has not read anything yet ...
LEMMA ReceiveKnows ==
    ASSUME LifecycleTypeOK, Grounded, NEW c \in Callers, NEW b \in Bots, NEW t,
           NEW op \in {"register", "fetch", "heartbeat", "ack"}, NEW owner, NEW v,
           Receive(c, op, b, t, owner, v)
    PROVE  Grounded'
<1>1. configs' = configs /\ OnlyStores /\ NoCall \in Calls /\ KnownTo(call[c], Stored)
  BY CallTypes, SameStores DEF Receive, tables, Grounded
<1>2. \A reply \in Replies : KnownTo([NoCall EXCEPT !.pc = reply], Stored)
  BY <1>1, AnswerKnows
<1>3. op # "register" => KnownTo([NoCall EXCEPT !.pc = FirstLabel[op], !.op = op, !.bot = b,
                                              !.owner = owner, !.version = v], Stored)
  <2>1. op # "register" => FirstLabel[op] \in {"read_bot", "find_config", "beat"}
    BY DEF FirstLabel
  <2> QED  BY <1>1, <2>1, CallLabelTypes DEF KnownTo, UpdateLabels, Calls
<1> QED  BY <1>1, <1>2, <1>3, MoveKnows DEF Receive, Replies

\* ... and a call of the host knows the applied version it has read.
LEMMA HostCallKnows ==
    ASSUME LifecycleTypeOK, Grounded, AppliedNotAhead, NEW c \in Callers, HostCall(c)
    PROVE  Grounded'
<1>1. configs' = configs /\ OnlyStores /\ NoCall \in Calls /\ KnownTo(call[c], Stored)
  BY CallTypes, SameStores DEF HostCall, BeginUpdate, BeginWatch, tables, Grounded
<1>2. \A reply \in Replies : KnownTo([NoCall EXCEPT !.pc = reply], Stored)
  BY <1>1, AnswerKnows
<1>3. ASSUME NEW b \in Bots, BeginUpdate(c, b) PROVE Grounded'
  <2>1. bots[b].applied \in configs[b] \cup {0}
    BY DEF AppliedNotAhead
  <2>2. KnownTo([NoCall EXCEPT !.pc = "next_version", !.op = "update", !.bot = b,
                             !.applied = bots[b].applied], Stored)
    BY <1>1, <2>1, CallLabelTypes DEF KnownTo, Stored, UpdateLabels, Calls
  <2> QED  BY <1>1, <1>2, <1>3, <2>2, MoveKnows DEF BeginUpdate, Replies
<1>4. ASSUME BeginWatch(c) PROVE Grounded'
  <2>1. KnownTo([NoCall EXCEPT !.pc = "mark_stale", !.op = "watch", !.stale = Stale], Stored)
    BY <1>1, CallLabelTypes DEF KnownTo, UpdateLabels, Calls
  <2> QED  BY <1>1, <1>2, <1>4, <2>1, MoveKnows DEF BeginWatch, Replies
<1> QED  BY <1>3, <1>4 DEF HostCall

\* A call that is over, or dropped, takes its knowledge with it.
LEMMA EndedCallKnows ==
    ASSUME LifecycleTypeOK, Grounded, NEW c \in Callers, CallBecomes(c, NoCall), UNCHANGED tables
    PROVE  Grounded'
<1>1. configs' = configs /\ OnlyStores
  BY SameStores DEF tables
<1>2. KnownTo(NoCall, Stored)
  BY EndedKnows DEF NoCall
<1> QED  BY <1>1, <1>2, MoveKnows

\* So does a SELECT ...
LEMMA ReadKnows ==
    ASSUME LifecycleTypeOK, Grounded, NEW c \in Callers, NEW found, Read(c, found),
           KnownTo(found, Stored)
    PROVE  Grounded'
<1>1. KnownTo(Replied(c, "error"), Stored)
  BY AnswerKnows DEF Grounded, Replies
<1>2. configs' = configs /\ OnlyStores
  BY SameStores DEF Read, tables
<1> QED  BY <1>1, <1>2, MoveKnows DEF Read

\* The rows of `new` are those of the bots that there are.
SameRows(new) == \A b \in Bots : new[b].status # "absent" <=> BotExists(b)

\* An UPDATE inserts no row and deletes none.
LEMMA UpdatesKeepRows ==
    ASSUME LifecycleTypeOK, NEW b
    PROVE  /\ \A s \in BotStatus : SameRows(WithStatus(b, s))
           /\ \A v, w : SameRows(WithConfigVersion(b, v, w))
BY DEF SameRows, WithStatus, WithConfigVersion, WithBot, BotExists, BotStatus, LifecycleTypeOK,
       StoreTypeOK, BotRows

\* ... and an UPDATE of a bot row.
LEMMA UpdateBotKnows ==
    ASSUME LifecycleTypeOK, Grounded, NEW c \in Callers, NEW new, NEW next, UpdateBotRow(c, new, next),
           SameRows(new), KnownTo(next, Stored)
    PROVE  Grounded' /\ OnlyStores
<1>1. KnownTo(Replied(c, "error"), Stored) /\ KnownTo(Replied(c, "not_found"), Stored)
  BY AnswerKnows DEF Grounded, Replies
<1>2. configs' = configs /\ OnlyStores
  BY AfterIsEither DEF UpdateBotRow, OnlyStores, SameRows, BotExists
<1> QED  BY <1>1, <1>2, MoveKnows DEF UpdateBotRow

\* Storing a config keeps the versions gapless: the version drawn comes after versions
\* that are all stored, so either it is the next one, or it is stored already and refused.
LEMMA StoreKnows ==
    ASSUME LifecycleTypeOK, Grounded, NEW c \in Callers, StoreConfig(c)
    PROVE  Grounded' /\ OnlyStores
<1> DEFINE b == call[c].bot
           v == call[c].version
<1>1. /\ b \in Bots /\ v \in Nat \ {0}
      /\ BotExists(b) => /\ 1 .. v - 1 \subseteq configs[b]
                         /\ call[c].applied \in configs[b] \cup {0} /\ call[c].applied < v
  BY CallLabelTypes DEF StoreConfig, Grounded, KnownTo, Stored, UpdateLabels
<1>2. call[c] \in Calls /\ configs \in [Bots -> SUBSET Nat]
  BY DEF LifecycleTypeOK, CallTypeOK, StoreTypeOK
<1>3. PICK o \in Outcomes("store_config") :
        /\ configs' = After(o, ConfigsWith(b, v), configs)
        /\ CallBecomes(c, IF o = "done" /\ ConfigInsertable(b, v)
                      THEN CallAt(c, "offer") ELSE Replied(c, "error"))
  BY DEF StoreConfig
<1>4. \/ configs' = configs
      \/ /\ BotExists(b) /\ v \notin configs[b]
         /\ configs' = [configs EXCEPT ![b] = @ \cup {v}]
  BY <1>3 DEF After, ConfigsWith, ConfigInsertable
<1>5. OnlyStores
  BY <1>2, <1>4 DEF StoreConfig, OnlyStores, BotExists
<1>6. Counted'
  <2>1. SUFFICES ASSUME NEW x \in Bots PROVE \E n \in Nat : configs'[x] = 1 .. n
    BY DEF Counted
  <2>2. PICK n \in Nat : configs[x] = 1 .. n
    BY DEF Grounded, Counted
  <2>3. CASE configs'[x] = configs[x]
    BY <2>2, <2>3
  <2>4. CASE /\ x = b /\ BotExists(b) /\ v \notin configs[b]
             /\ configs'[x] = configs[x] \cup {v}
    <3>1. v > n
      BY <1>1, <2>2, <2>4
    <3>2. v - 1 <= n
      <4>1. CASE v = 1
        BY <4>1
      <4>2. CASE v # 1
        <5>1. v - 1 \in 1 .. v - 1
          BY <1>1, <4>2
        <5> QED  BY <1>1, <2>2, <2>4, <5>1
      <4> QED  BY <4>1, <4>2
    <3>3. v = n + 1
      BY <1>1, <3>1, <3>2
    <3>4. configs'[x] = 1 .. n + 1
      BY <2>2, <2>4, <3>3
    <3> QED  BY <3>4
  <2> QED  BY <1>2, <1>4, <2>3, <2>4
<1>7. CASE CallBecomes(c, Replied(c, "error"))
  <2>1. KnownTo(Replied(c, "error"), Stored)
    BY AnswerKnows DEF Grounded, Replies
  <2> QED  BY <1>5, <1>6, <1>7, <2>1, KnownNext DEF Grounded
<1>8. CASE CallBecomes(c, CallAt(c, "offer")) /\ o = "done" /\ ConfigInsertable(b, v)
  <2>1. configs'[b] = configs[b] \cup {v}
    BY <1>1, <1>2, <1>3, <1>8 DEF After, ConfigsWith
  <2>2. KnownTo(CallAt(c, "offer"), Stored')
    <3>1. b \in DOMAIN Stored' => Stored'[b] = configs'[b]
      BY DEF Stored
    <3>2. BotExists(b)
      BY <1>8 DEF ConfigInsertable
    <3> QED  BY <1>1, <1>2, <2>1, <3>1, <3>2, CallLabelTypes DEF KnownTo, CallAt, Calls, UpdateLabels
  <2>3. ASSUME NEW x \in Callers PROVE KnownTo(call'[x], Stored')
    <3>1. CASE x = c
      BY <1>8, <2>2, <3>1 DEF CallBecomes, LifecycleTypeOK, CallTypeOK
    <3>2. CASE x # c
      <4>1. call'[x] = call[x]
        BY <1>8, <3>2 DEF CallBecomes, LifecycleTypeOK, CallTypeOK
      <4>2. KnownTo(call[x], Stored)
        BY DEF Grounded
      <4> QED  BY <1>5, <4>1, <4>2, KnownStays, StoredGrows
    <3> QED  BY <3>1, <3>2
  <2> QED  BY <1>5, <1>6, <2>3 DEF Grounded
<1> QED  BY <1>3, <1>5, <1>7, <1>8

\* Every step of a call keeps Grounded.
LEMMA StepKnows ==
    ASSUME LifecycleTypeOK, Grounded, NEW c \in Callers, CallStep(c)
    PROVE  Grounded' /\ OnlyStores
<1>1. call[c] \in Calls /\ KnownTo(call[c], Stored)
  BY DEF LifecycleTypeOK, CallTypeOK, Grounded
<1>2. /\ KnownTo(Replied(c, "ok"), Stored) /\ KnownTo(Replied(c, "not_found"), Stored)
      /\ KnownTo(Replied(c, "conflict"), Stored) /\ KnownTo(Replied(c, "error"), Stored)
  BY <1>1, AnswerKnows DEF Replies
<1>3. ASSUME ReadBot(c) PROVE Grounded' /\ OnlyStores
  <2>1. KnownTo([CallAt(c, "read_config") EXCEPT !.version = bots[call[c].bot].desired], Stored)
    BY <1>1, <1>3, CallLabelTypes DEF ReadBot, KnownTo, CallAt, Calls, UpdateLabels
  <2> QED  BY <1>2, <1>3, <2>1, ReadKnows, SameStores DEF ReadBot, Read, tables
<1>4. ASSUME ReadConfig(c) PROVE Grounded' /\ OnlyStores
  <2>1. KnownTo(Replied(c, IF call[c].version \in configs[call[c].bot]
                            THEN "ok" ELSE "not_found"), Stored)
    BY <1>2
  <2> QED  BY <1>4, <2>1, ReadKnows, SameStores DEF ReadConfig, Read, tables
<1>5. ASSUME FindConfig(c) PROVE Grounded' /\ OnlyStores
  <2>1. call[c].version \in configs[call[c].owner] /\ call[c].owner = call[c].bot
          => KnownTo(CallAt(c, "check_desired"), Stored)
    BY <1>1, <1>5, CallLabelTypes DEF FindConfig, KnownTo, Stored, CallAt, Calls, UpdateLabels
  <2> QED  BY <1>2, <1>5, <2>1, ReadKnows, SameStores DEF FindConfig, Read, tables
<1>6. ASSUME CheckDesired(c) PROVE Grounded' /\ OnlyStores
  <2>1. KnownTo([CallAt(c, "set_applied") EXCEPT !.status = bots[call[c].bot].status], Stored)
    BY <1>1, <1>6, CallLabelTypes DEF CheckDesired, KnownTo, CallAt, Calls, UpdateLabels
  <2> QED  BY <1>2, <1>6, <2>1, ReadKnows, SameStores DEF CheckDesired, Read, tables
<1>7. ASSUME SetApplied(c) PROVE Grounded' /\ OnlyStores
  <2>1. KnownTo(CallAt(c, "ack_online"), Stored)
    BY <1>1, <1>7, CallLabelTypes DEF SetApplied, KnownTo, CallAt, Calls, UpdateLabels
  <2> QED  BY <1>2, <1>7, <2>1, UpdateBotKnows, UpdatesKeepRows DEF SetApplied
<1>8. ASSUME AckOnline(c) PROVE Grounded' /\ OnlyStores
  BY <1>2, <1>8, UpdateBotKnows, UpdatesKeepRows DEF AckOnline, BotStatus
<1>9. ASSUME Beat(c) PROVE Grounded' /\ OnlyStores
  BY <1>2, <1>9, MoveKnows, SameStores DEF Beat, tables
<1>10. ASSUME DrawVersion(c) PROVE Grounded' /\ OnlyStores
  <2> DEFINE b == call[c].bot
  <2>1. b \in Bots /\ (BotExists(b) => call[c].applied \in configs[b] \cup {0})
    BY <1>1, <1>10, CallLabelTypes DEF DrawVersion, KnownTo, Stored, UpdateLabels
  <2>2. PICK n \in Nat : configs[b] = 1 .. n
    BY <2>1 DEF Grounded, Counted
  <2>3. NextVersion(b) = n + 1
    BY <2>2, LatestIs DEF NextVersion
  <2>4. KnownTo([CallAt(c, "store_config") EXCEPT !.owner = b, !.version = n + 1], Stored)
    BY <1>1, <2>1, <2>2, CallLabelTypes DEF KnownTo, Stored, CallAt, Calls, UpdateLabels
  <2> QED  BY <1>10, <2>3, <2>4, ReadKnows, SameStores DEF DrawVersion, Read, tables
<1>11. ASSUME Offer(c) PROVE Grounded' /\ OnlyStores
  BY <1>2, <1>11, UpdateBotKnows, UpdatesKeepRows DEF Offer
<1>12. ASSUME NEW b \in Bots, MarkStale(c, b) PROVE Grounded' /\ OnlyStores
  <2>1. KnownTo([call[c] EXCEPT !.stale = @ \ {b}], Stored)
    BY <1>1, <1>12, CallLabelTypes DEF MarkStale, KnownTo, Calls, UpdateLabels
  <2>2. SameRows(WithStatus(b, "error"))
    BY UpdatesKeepRows DEF BotStatus
  <2>3. configs' = configs /\ OnlyStores
    BY <1>12, <2>2, AfterIsEither DEF MarkStale, OnlyStores, SameRows, BotExists
  <2> QED  BY <1>2, <1>12, <2>1, <2>3, MoveKnows DEF MarkStale
<1> QED  BY <1>3, <1>4, <1>5, <1>6, <1>7, <1>8, <1>9, <1>10, <1>11, <1>12, StoreKnows DEF CallStep

----------------------------------------------------------------------------
(* The config a bot is told to run and the one it runs.                     *)

Ordered(row, versions) ==
    {row.desired, row.applied} \subseteq versions \cup {0} /\ row.applied <= row.desired

\* A status leaves the two versions of a row alone.
LEMMA StatusOrdered ==
    ASSUME LifecycleTypeOK, AppliedNotAhead, NEW b, NEW s, NEW x \in Bots
    PROVE  Ordered(WithStatus(b, s)[x], configs[x])
BY DEF AppliedNotAhead, Ordered, WithStatus, WithBot, LifecycleTypeOK, StoreTypeOK, BotRows

\* Two stored versions in order are written in order.
LEMMA VersionsOrdered ==
    ASSUME LifecycleTypeOK, AppliedNotAhead, NEW b \in Bots, NEW desired, NEW applied,
           BotExists(b) => /\ desired \in configs[b] /\ applied \in configs[b] \cup {0}
                           /\ applied <= desired,
           NEW x \in Bots
    PROVE  Ordered(WithConfigVersion(b, desired, applied)[x], configs[x])
BY DEF AppliedNotAhead, Ordered, WithConfigVersion, WithBot, LifecycleTypeOK, StoreTypeOK, BotRows

\* The rows written are in order, so all rows are.
LEMMA OrderedNext ==
    ASSUME AppliedNotAhead,
           OnlyStores,
           \A x \in Bots : bots'[x] = bots[x] \/ Ordered(bots'[x], configs[x])
    PROVE  AppliedNotAhead'
<1>1. \A b \in Bots : configs[b] \subseteq configs'[b]
  BY DEF OnlyStores
<1> QED  BY <1>1 DEF AppliedNotAhead, Ordered

\* Every step of a call keeps applied behind desired.  For the writes of
\* create_bot_config this takes what it knows from its reads: its version was drawn
\* after the applied one it writes back was stored.
LEMMA StepOrdered ==
    ASSUME LifecycleTypeOK, Grounded, AppliedNotAhead, NEW c \in Callers, CallStep(c)
    PROVE  AppliedNotAhead'
<1>1. call[c] \in Calls /\ KnownTo(call[c], Stored) /\ configs \in [Bots -> SUBSET Nat]
  BY DEF LifecycleTypeOK, CallTypeOK, StoreTypeOK, Grounded
<1>2. OnlyStores
  BY StepKnows
<1>3. ASSUME bots' = bots PROVE AppliedNotAhead'
  BY <1>2, <1>3, OrderedNext
<1>4. ASSUME SetApplied(c) PROVE AppliedNotAhead'
  <2> DEFINE new == WithConfigVersion(call[c].bot, call[c].version, call[c].version)
  <2>1. call[c].bot \in Bots /\ (BotExists(call[c].bot) => call[c].version \in configs[call[c].bot])
    BY <1>1, <1>4, CallLabelTypes DEF SetApplied, KnownTo, Stored
  <2>2. call[c].version <= call[c].version
    BY <1>1 DEF Calls
  <2>3. \A x \in Bots : Ordered(new[x], configs[x])
    BY <2>1, <2>2, VersionsOrdered
  <2>4. bots' = new \/ bots' = bots
    BY <1>4 DEF SetApplied, UpdateBotRow, After
  <2> QED  BY <1>2, <2>3, <2>4, OrderedNext
<1>5. ASSUME Offer(c) PROVE AppliedNotAhead'
  <2> DEFINE new == WithConfigVersion(call[c].bot, call[c].version, call[c].applied)
  <2>1. /\ call[c].bot \in Bots
        /\ BotExists(call[c].bot) => /\ call[c].version \in configs[call[c].bot]
                                     /\ call[c].applied \in configs[call[c].bot] \cup {0}
                                     /\ call[c].applied < call[c].version
    BY <1>1, <1>5, CallLabelTypes DEF Offer, KnownTo, Stored, UpdateLabels
  <2>2. BotExists(call[c].bot) => call[c].applied <= call[c].version
    BY <1>1, <2>1 DEF Calls
  <2>3. \A x \in Bots : Ordered(new[x], configs[x])
    BY <2>1, <2>2, VersionsOrdered
  <2>4. bots' = new \/ bots' = bots
    BY <1>5 DEF Offer, UpdateBotRow, After
  <2> QED  BY <1>2, <2>3, <2>4, OrderedNext
<1>6. ASSUME NEW b, NEW s, bots' = WithStatus(b, s) \/ bots' = bots PROVE AppliedNotAhead'
  <2>1. \A x \in Bots : Ordered(WithStatus(b, s)[x], configs[x])
    BY StatusOrdered
  <2> QED  BY <1>2, <1>6, <2>1, OrderedNext
<1>7. ASSUME AckOnline(c) PROVE AppliedNotAhead'
  BY <1>6, <1>7 DEF AckOnline, UpdateBotRow, After
<1>8. ASSUME NEW b \in Bots, MarkStale(c, b) PROVE AppliedNotAhead'
  BY <1>6, <1>8 DEF MarkStale, After
<1>9. ASSUME ReadBot(c) \/ ReadConfig(c) \/ FindConfig(c) \/ CheckDesired(c) \/ Beat(c)
               \/ DrawVersion(c) \/ StoreConfig(c)
      PROVE  AppliedNotAhead'
  <2>1. bots' = bots
    BY <1>9 DEF ReadBot, ReadConfig, FindConfig, CheckDesired, Beat, DrawVersion, StoreConfig,
                Read, tables
  <2> QED  BY <1>3, <2>1
<1> QED  BY <1>4, <1>5, <1>7, <1>8, <1>9 DEF CallStep

----------------------------------------------------------------------------
(* The theorems.                                                            *)

\* Nothing here deletes a bot.
AllExist == \A b \in Bots : BotExists(b)

IInv == LifecycleTypeOK /\ Grounded /\ AppliedNotAhead /\ AllExist

\* Bots start with one config each, desired and not applied, and no call.
LEMMA InitIInv == LifecycleInit => IInv
<1> SUFFICES ASSUME LifecycleInit PROVE IInv
  OBVIOUS
<1>1. Counted
  <2>1. {1} = 1 .. 1
    OBVIOUS
  <2> QED  BY <2>1 DEF LifecycleInit, Counted
<1>2. call = [c \in Callers |-> NoCall]
  BY DEF LifecycleInit, CallInit
<1>3. NoCall \in Calls
  BY DEF NoCall, Calls, CallOps
<1>4. Grounded
  BY <1>1, <1>2, EndedKnows DEF Grounded, NoCall
<1>5. AppliedNotAhead
  BY DEF LifecycleInit, AppliedNotAhead
<1>6. LifecycleTypeOK
  <2>1. Home \in [Bots -> Droplets] /\ Key \in [Bots -> Tokens]
    BY HomesAssumption DEF Home, Key, OneEach
  <2>2. accounts \in [Accounts -> AccountRows]
    <3>1. Cardinality(Bots) \in Nat
      BY StoreAssumption, FS_CardinalityType
    <3> QED  BY <3>1 DEF LifecycleInit, AccountRows, Tiers
  <2>3. bots \in [Bots -> BotRows]
    BY <2>1 DEF LifecycleInit, BotRows, BotStatus
  <2>4. configs \in [Bots -> SUBSET Nat]
    BY DEF LifecycleInit
  <2>5. droplets \in [Droplets -> DropletRows]
    BY DEF LifecycleInit, DropletRows
  <2>6. uuids \subseteq Bots /\ heard \in [Bots -> {"never", "stale", "fresh"}]
    BY DEF LifecycleInit, CallInit
  <2> QED  BY <1>2, <1>3, <2>2, <2>3, <2>4, <2>5, <2>6
              DEF LifecycleTypeOK, StoreTypeOK, CallTypeOK
<1>7. AllExist
  BY DEF LifecycleInit, AllExist, BotExists
<1> QED  BY <1>4, <1>5, <1>6, <1>7 DEF IInv

\* What leaves the tables and the calls alone keeps what the calls know.
LEMMA GroundedStutters ==
    ASSUME Grounded, UNCHANGED <<bots, configs, call>>
    PROVE  Grounded'
<1>1. Stored' = Stored
  BY DEF Stored, BotExists
<1> QED  BY <1>1 DEF Grounded, Counted

\* Every step keeps the invariant.
LEMMA NextIInv == IInv /\ [LifecycleNext]_lifecycleVars => IInv'
<1> DEFINE Others == AppliedNotAhead /\ AllExist
<1> SUFFICES ASSUME LifecycleTypeOK, Grounded, Others, [LifecycleNext]_lifecycleVars
             PROVE  Grounded' /\ Others'
  BY LifecycleNextType DEF IInv
<1>0. UNCHANGED tables => Others'
  BY DEF AppliedNotAhead, AllExist, BotExists, tables
<1>1. CASE UNCHANGED lifecycleVars
  BY <1>0, <1>1, GroundedStutters DEF lifecycleVars, tables, callVars
<1>2. ASSUME NEW c \in Callers, AgentCall(c) \/ HostCall(c) PROVE Grounded' /\ Others'
  <2>1. UNCHANGED tables
    BY <1>2 DEF AgentCall, HostCall, Receive, BeginUpdate, BeginWatch
  <2> QED  BY <1>0, <1>2, <2>1, AgentCalls, ReceiveKnows, HostCallKnows
<1>3. ASSUME NEW c \in Callers, CallStep(c) PROVE Grounded' /\ Others'
  BY <1>3, StepKnows, StepOrdered DEF OnlyStores, AllExist
<1>4. ASSUME NEW c \in Callers, Return(c) \/ Drop(c) PROVE Grounded' /\ Others'
  BY <1>0, <1>4, EndedCallKnows DEF Return, Drop
<1>5. ASSUME NEW b \in Bots, Age(b) PROVE Grounded' /\ Others'
  BY <1>0, <1>5, GroundedStutters DEF Age, tables
<1> QED  BY <1>1, <1>2, <1>3, <1>4, <1>5 DEF LifecycleNext

\* Gapless versions up to some n are gapless up to the latest.
LEMMA CountedIsGapless == Counted => VersionsGapless
BY LatestIs DEF Counted, VersionsGapless

\* The tables and the calls keep their types in every reachable state.
THEOREM LifecycleTypeCorrect == LifecycleSpec => []LifecycleTypeOK
BY InitIInv, NextIInv, PTL DEF LifecycleSpec, IInv

\* Whatever updates draw the same version or fail half way, the versions of a bot are
\* 1, 2, ... without a gap (get_next_version_atomic and UNIQUE(bot_id, version)).
THEOREM VersionsGaplessHolds == LifecycleSpec => []VersionsGapless
<1>1. IInv => VersionsGapless
  BY CountedIsGapless DEF IInv, Grounded
<1> QED  BY <1>1, InitIInv, NextIInv, PTL DEF LifecycleSpec

\* Whatever create_bot_config and acknowledge_config write back from earlier reads, the
\* applied config is never ahead of the desired one, and both are stored.
THEOREM AppliedNotAheadHolds == LifecycleSpec => []AppliedNotAhead
<1>1. IInv => AppliedNotAhead
  BY DEF IInv
<1> QED  BY <1>1, InitIInv, NextIInv, PTL DEF LifecycleSpec

----------------------------------------------------------------------------
(* Lifecycle implements ConfigRegister, as long as no update of a bot is    *)
(* called together with an acknowledgement of it.  Both write back what     *)
(* they read some awaits before; Coordinated says that it is still so when  *)
(* they do.                                                                 *)

\* What the clients see to.
Separate == {"update", "ack"} \in Exclusive

\* What a call r has read is still so where it is written back: the applied version that
\* an update read, the desired one that an acknowledgement compared with; and an
\* acknowledgement goes on to set the bot online once it has set a version applied.
UpToDate(r) ==
    /\ r.pc \in UpdateLabels => r.op = "update" /\ r.applied = bots[r.bot].applied
    /\ r.pc \in AckLabels => r.op = "ack"
    /\ r.pc = "set_applied" => r.version = bots[r.bot].desired
    /\ r.pc = "ack_online" => bots[r.bot].applied # 0

\* No update of a bot is served together with an acknowledgement of it.
Apart ==
    \A x, y \in Callers :
        call[x].pc \in UpdateLabels /\ call[y].pc \in AckLabels => call[x].bot # call[y].bot

Coordinated == (\A c \in Callers : UpToDate(call[c])) /\ Apart /\ OnlineRunsConfig

CInv == IInv /\ Coordinated

----------------------------------------------------------------------------
(* What a step writes.                                                      *)

\* MAX of 1, ..., n is n, before a step and after it.
LEMMA LatestNext ==
    ASSUME NEW b, NEW n \in Nat, configs'[b] = 1 .. n
    PROVE  Latest(b)' = n
<1>1. n \in configs'[b] \cup {0} /\ \A w \in configs'[b] : w <= n
  OBVIOUS
<1>2. ASSUME NEW v \in configs'[b] \cup {0}, \A w \in configs'[b] : w <= v
      PROVE  v = n
  <2>1. CASE n = 0
    BY <1>2, <2>1
  <2>2. CASE n # 0
    <3>1. n \in configs'[b]
      BY <2>2
    <3>2. n <= v
      BY <1>2, <3>1
    <3> QED  BY <1>2, <3>2
  <2> QED  BY <2>1, <2>2
<1> QED  BY <1>1, <1>2 DEF Latest

\* The row of x keeps the versions it has.
Untouched(x) == bots'[x].desired = bots[x].desired /\ bots'[x].applied = bots[x].applied

\* A call's write of the versions of its bot: an offer of a stored config, which leaves
\* the applied one as it is, or an acknowledgement of the config on offer.
Offers(b) ==
    /\ bots'[b].applied = bots[b].applied /\ bots'[b].desired \in configs[b]
    /\ \A x \in Bots : x # b => Untouched(x)

Acknowledges(b) ==
    /\ bots'[b].desired = bots[b].desired /\ bots'[b].applied = bots[b].desired
    /\ bots[b].desired # 0
    /\ \A x \in Bots : x # b => Untouched(x)

\* A status leaves the versions of a row alone.
LEMMA StatusUntouched ==
    ASSUME LifecycleTypeOK, NEW b, NEW s, bots' = WithStatus(b, s) \/ bots' = bots
    PROVE  \A x \in Bots : Untouched(x)
BY DEF Untouched, WithStatus, WithBot, LifecycleTypeOK, StoreTypeOK, BotRows

\* When every bot has its row, a call knows of all configs.
LEMMA AllKnown ==
    ASSUME IInv
    PROVE  /\ \A c \in Callers : KnownTo(call[c], configs)
           /\ DOMAIN configs = Bots /\ Stored = configs
<1>1. configs \in [Bots -> SUBSET Nat] /\ \A b \in Bots : BotExists(b)
  BY DEF IInv, LifecycleTypeOK, StoreTypeOK, AllExist
<1>2. {b \in Bots : BotExists(b)} = Bots
  BY <1>1
<1>3. Stored = configs
  BY <1>1, <1>2 DEF Stored
<1> QED  BY <1>1, <1>3 DEF IInv, Grounded

\* What a step of a call writes to the versions of the bots.
LEMMA StepWrites ==
    ASSUME IInv, Coordinated, NEW c \in Callers, CallStep(c)
    PROVE  \/ \A x \in Bots : Untouched(x)
           \/ call[c].pc = "offer" /\ Offers(call[c].bot) /\ configs' = configs
           \/ call[c].pc = "set_applied" /\ Acknowledges(call[c].bot) /\ configs' = configs
<1> DEFINE b == call[c].bot
<1>1. /\ LifecycleTypeOK /\ Grounded /\ KnownTo(call[c], configs) /\ UpToDate(call[c])
      /\ bots \in [Bots -> BotRows] /\ call[c] \in Calls /\ configs \in [Bots -> SUBSET Nat]
      /\ DOMAIN configs = Bots
  BY AllKnown DEF IInv, Coordinated, LifecycleTypeOK, StoreTypeOK, CallTypeOK
<1>2. CASE bots' = bots
  BY <1>2 DEF Untouched
<1>3. CASE ReadBot(c) \/ ReadConfig(c) \/ FindConfig(c) \/ CheckDesired(c) \/ Beat(c)
             \/ DrawVersion(c) \/ StoreConfig(c)
  <2>1. bots' = bots
    BY <1>3 DEF ReadBot, ReadConfig, FindConfig, CheckDesired, Beat, DrawVersion, StoreConfig,
                Read, tables
  <2> QED  BY <1>2, <2>1
<1>4. CASE AckOnline(c)
  <2>1. bots' = WithStatus(b, "online") \/ bots' = bots
    BY <1>4 DEF AckOnline, UpdateBotRow, After
  <2> QED  BY <1>1, <2>1, StatusUntouched
<1>5. ASSUME NEW x \in Bots, MarkStale(c, x) PROVE \A y \in Bots : Untouched(y)
  <2>1. bots' = WithStatus(x, "error") \/ bots' = bots
    BY <1>5 DEF MarkStale, After
  <2> QED  BY <1>1, <2>1, StatusUntouched
<1>6. CASE Offer(c)
  <2>1. /\ call[c].pc = "offer" /\ b \in Bots /\ call[c].version \in configs[b]
        /\ call[c].applied = bots[b].applied
    BY <1>1, <1>6, CallLabelTypes DEF Offer, KnownTo, UpToDate, UpdateLabels
  <2>2. /\ bots' = WithConfigVersion(b, call[c].version, call[c].applied) \/ bots' = bots
        /\ configs' = configs
    BY <1>6 DEF Offer, UpdateBotRow, After
  <2>3. CASE bots' = [bots EXCEPT ![b] = [bots[b] EXCEPT !.desired = call[c].version,
                                                        !.applied = call[c].applied]]
    <3>1. bots'[b] = [bots[b] EXCEPT !.desired = call[c].version, !.applied = call[c].applied]
          /\ \A x \in Bots : x # b => bots'[x] = bots[x]
      BY <1>1, <2>1, <2>3
    <3>2. bots[b] \in BotRows
      BY <1>1, <2>1
    <3> QED  BY <2>1, <2>2, <3>1, <3>2 DEF Offers, Untouched, BotRows
  <2> QED  BY <1>2, <2>2, <2>3 DEF WithConfigVersion, WithBot
<1>7. CASE SetApplied(c)
  <2>1. /\ call[c].pc = "set_applied" /\ b \in Bots /\ call[c].version \in configs[b]
        /\ call[c].version = bots[b].desired
    BY <1>1, <1>7, CallLabelTypes DEF SetApplied, KnownTo, UpToDate
  <2>2. /\ bots' = WithConfigVersion(b, call[c].version, call[c].version) \/ bots' = bots
        /\ configs' = configs
    BY <1>7 DEF SetApplied, UpdateBotRow, After
  <2>3. call[c].version # 0
    BY <1>1, <2>1 DEF Grounded, Counted
  <2>4. CASE bots' = [bots EXCEPT ![b] = [bots[b] EXCEPT !.desired = call[c].version,
                                                        !.applied = call[c].version]]
    <3>1. bots'[b] = [bots[b] EXCEPT !.desired = call[c].version, !.applied = call[c].version]
          /\ \A x \in Bots : x # b => bots'[x] = bots[x]
      BY <1>1, <2>1, <2>4
    <3>2. bots[b] \in BotRows
      BY <1>1, <2>1
    <3> QED  BY <2>1, <2>2, <2>3, <3>1, <3>2 DEF Acknowledges, Untouched, BotRows
  <2> QED  BY <1>2, <2>2, <2>4 DEF WithConfigVersion, WithBot
<1> QED  BY <1>3, <1>4, <1>5, <1>6, <1>7 DEF CallStep

\* A call goes on as r with the bot it is about, knowing what it has read; an
\* acknowledgement sets the bot online after its write of the applied version.
GoesOn(c, r) ==
    /\ CallBecomes(c, r)
    /\ r.pc \in UpdateLabels => /\ call[c].pc \in UpdateLabels
                                /\ r.bot = call[c].bot /\ r.op = call[c].op
                                /\ r.applied = call[c].applied
    /\ r.pc \in AckLabels => /\ call[c].pc \in AckLabels
                             /\ r.bot = call[c].bot /\ r.op = call[c].op
    /\ r.pc = "set_applied" => bots' = bots /\ r.version = bots[r.bot].desired
    /\ r.pc = "ack_online" => bots'[r.bot].applied # 0

\* So does every call at every step of it.
LEMMA StepGoes ==
    ASSUME IInv, Coordinated, NEW c \in Callers, CallStep(c)
    PROVE  \E r : GoesOn(c, r)
<1>1. /\ LifecycleTypeOK /\ Grounded /\ KnownTo(call[c], configs) /\ UpToDate(call[c])
      /\ bots \in [Bots -> BotRows] /\ call[c] \in Calls /\ configs \in [Bots -> SUBSET Nat]
      /\ DOMAIN configs = Bots
  BY AllKnown DEF IInv, Coordinated, LifecycleTypeOK, StoreTypeOK, CallTypeOK
<1>2. ASSUME NEW r, CallBecomes(c, r), r.pc \in Replies PROVE GoesOn(c, r)
  BY <1>2 DEF GoesOn, Replies, UpdateLabels, AckLabels
<1>3. \A reply \in Replies : Replied(c, reply).pc = reply
  BY DEF Replied, NoCall
<1>4. \A label : CallAt(c, label) = [call[c] EXCEPT !.pc = label]
  BY DEF CallAt
<1>5. ASSUME NEW reply \in Replies, CallBecomes(c, Replied(c, reply)) PROVE \E r : GoesOn(c, r)
  BY <1>2, <1>3, <1>5
<1>6. ASSUME ReadBot(c) PROVE \E r : GoesOn(c, r)
  <2>1. CASE CallBecomes(c, [CallAt(c, "read_config") EXCEPT !.version = bots[call[c].bot].desired])
    <3>1. [CallAt(c, "read_config") EXCEPT !.version = bots[call[c].bot].desired].pc = "read_config"
      BY <1>1, <1>4 DEF Calls
    <3> QED  BY <2>1, <3>1 DEF GoesOn, UpdateLabels, AckLabels
  <2> QED  BY <1>5, <1>6, <2>1 DEF ReadBot, Read, Replies
<1>7. ASSUME ReadConfig(c) PROVE \E r : GoesOn(c, r)
  BY <1>5, <1>7 DEF ReadConfig, Read, Replies
<1>8. ASSUME FindConfig(c) PROVE \E r : GoesOn(c, r)
  <2>1. CASE CallBecomes(c, CallAt(c, "check_desired"))
    BY <1>1, <1>4, <1>8, <2>1 DEF FindConfig, GoesOn, UpdateLabels, AckLabels, Calls
  <2> QED  BY <1>5, <1>8, <2>1 DEF FindConfig, Read, Replies
<1>9. ASSUME CheckDesired(c) PROVE \E r : GoesOn(c, r)
  <2>1. CASE /\ CallBecomes(c, [CallAt(c, "set_applied") EXCEPT !.status = bots[call[c].bot].status])
             /\ bots[call[c].bot].desired = call[c].version
    <3>1. bots' = bots
      BY <1>9 DEF CheckDesired, Read, tables
    <3>2. PICK r : r = [CallAt(c, "set_applied") EXCEPT !.status = bots[call[c].bot].status]
      OBVIOUS
    <3>3. /\ r.pc = "set_applied" /\ r.bot = call[c].bot /\ r.op = call[c].op
          /\ r.version = call[c].version
      BY <1>1, <1>4, <3>2 DEF Calls
    <3> QED  BY <1>9, <2>1, <3>1, <3>2, <3>3 DEF CheckDesired, GoesOn, UpdateLabels, AckLabels
  <2> QED  BY <1>5, <1>9, <2>1 DEF CheckDesired, Read, Replies
<1>10. ASSUME SetApplied(c) PROVE \E r : GoesOn(c, r)
  <2> DEFINE b == call[c].bot
  <2>1. /\ call[c].pc = "set_applied" /\ b \in Bots /\ call[c].version \in configs[b]
    BY <1>1, <1>10, CallLabelTypes DEF SetApplied, KnownTo
  <2>2. call[c].version # 0
    BY <1>1, <2>1 DEF Grounded, Counted
  <2>3. CASE /\ CallBecomes(c, CallAt(c, "ack_online"))
             /\ bots' = WithConfigVersion(b, call[c].version, call[c].version) /\ BotExists(b)
    <3>1. bots'[b].applied = call[c].version
      BY <1>1, <2>1, <2>3 DEF WithConfigVersion, WithBot, BotRows
    <3> DEFINE r == CallAt(c, "ack_online")
    <3>2. r.pc = "ack_online" /\ r.bot = b /\ r.op = call[c].op
      BY <1>1, <1>4, <2>1 DEF Calls
    <3> HIDE DEF r
    <3>3. GoesOn(c, r)
      BY <2>1, <2>2, <2>3, <3>1, <3>2 DEF GoesOn, UpdateLabels, AckLabels, r
    <3> QED  BY <3>3
  <2>4. CASE ~CallBecomes(c, CallAt(c, "ack_online"))
    BY <1>5, <1>10, <2>4 DEF SetApplied, UpdateBotRow, Replies
  <2>5. CASE CallBecomes(c, CallAt(c, "ack_online"))
    <3>1. CallAt(c, "ack_online").pc = "ack_online"
      BY <1>1, <1>4 DEF Calls
    <3>2. call' \in [Callers -> Calls] \/ call'[c].pc = "ack_online"
      BY <1>1, <2>5, <3>1 DEF CallBecomes, LifecycleTypeOK, CallTypeOK
    <3>3. call'[c].pc = "ack_online"
      BY <1>1, <2>5, <3>1 DEF CallBecomes, LifecycleTypeOK, CallTypeOK
    <3>4. \A reply \in Replies : ~CallBecomes(c, Replied(c, reply))
      BY <1>1, <1>3, <3>3 DEF CallBecomes, LifecycleTypeOK, CallTypeOK, Replies
    <3>5. bots' = WithConfigVersion(b, call[c].version, call[c].version) /\ BotExists(b)
      BY <1>10, <3>4 DEF SetApplied, UpdateBotRow, After, Replies
    <3> QED  BY <2>3, <2>5, <3>5
  <2> QED  BY <2>4, <2>5
<1>11. ASSUME AckOnline(c) PROVE \E r : GoesOn(c, r)
  BY <1>5, <1>11 DEF AckOnline, UpdateBotRow, Replies
<1>12. ASSUME Beat(c) PROVE \E r : GoesOn(c, r)
  BY <1>5, <1>12 DEF Beat, Replies
<1>13. ASSUME DrawVersion(c) PROVE \E r : GoesOn(c, r)
  <2>1. CASE CallBecomes(c, [CallAt(c, "store_config") EXCEPT !.owner = call[c].bot,
                                                      !.version = NextVersion(call[c].bot)])
    <3>1. PICK r : r = [CallAt(c, "store_config") EXCEPT !.owner = call[c].bot,
                                                    !.version = NextVersion(call[c].bot)]
      OBVIOUS
    <3>2. /\ r.pc = "store_config" /\ r.bot = call[c].bot /\ r.op = call[c].op
          /\ r.applied = call[c].applied
      BY <1>1, <1>4, <3>1 DEF Calls
    <3> QED  BY <1>13, <2>1, <3>1, <3>2 DEF DrawVersion, GoesOn, UpdateLabels, AckLabels
  <2> QED  BY <1>5, <1>13, <2>1 DEF DrawVersion, Read, Replies
<1>14. ASSUME StoreConfig(c) PROVE \E r : GoesOn(c, r)
  <2>1. CASE CallBecomes(c, CallAt(c, "offer"))
    BY <1>1, <1>4, <1>14, <2>1 DEF StoreConfig, GoesOn, UpdateLabels, AckLabels, Calls
  <2> QED  BY <1>5, <1>14, <2>1 DEF StoreConfig, Replies
<1>15. ASSUME Offer(c) PROVE \E r : GoesOn(c, r)
  BY <1>5, <1>15 DEF Offer, UpdateBotRow, Replies
<1>16. ASSUME NEW x \in Bots, MarkStale(c, x) PROVE \E r : GoesOn(c, r)
  <2>1. CASE CallBecomes(c, [call[c] EXCEPT !.stale = @ \ {x}])
    BY <1>1, <1>16, <2>1 DEF MarkStale, GoesOn, UpdateLabels, AckLabels, Calls
  <2> QED  BY <1>5, <1>16, <2>1 DEF MarkStale, Replies
<1> QED  BY <1>6, <1>7, <1>8, <1>9, <1>10, <1>11, <1>12, <1>13, <1>14, <1>15, <1>16 DEF CallStep

----------------------------------------------------------------------------
(* CInv is inductive.                                                       *)

\* A version that is applied stays another one than 0, and what the other calls have
\* read stays so: a write of the desired version meets no acknowledgement, and one of
\* the applied version no update.
LEMMA OthersUpToDate ==
    ASSUME IInv, Coordinated, NEW c \in Callers, CallStep(c),
           NEW x \in Callers, NEW s, s = call[x], x # c
    PROVE  UpToDate(s)'
<1>1. UpToDate(s) /\ KnownTo(s, configs)
  BY AllKnown DEF Coordinated
<1>2. s.pc \in UpdateLabels \cup AckLabels => s.bot \in Bots
  BY <1>1, CallLabelTypes DEF KnownTo, UpdateLabels, AckLabels
<1>3. s.pc \in AckLabels => ~(call[c].pc \in UpdateLabels /\ call[c].bot = s.bot)
  BY DEF Coordinated, Apart
<1>4. s.pc \in UpdateLabels => ~(call[c].pc \in AckLabels /\ call[c].bot = s.bot)
  BY DEF Coordinated, Apart
<1>5. CASE \A y \in Bots : Untouched(y)
  BY <1>1, <1>2, <1>5 DEF UpToDate, Untouched, UpdateLabels, AckLabels
<1>6. CASE call[c].pc = "offer" /\ Offers(call[c].bot)
  <2>1. call[c].pc \in UpdateLabels
    BY <1>6 DEF UpdateLabels
  <2> QED  BY <1>1, <1>2, <1>3, <1>6, <2>1 DEF UpToDate, Offers, Untouched, UpdateLabels, AckLabels
<1>7. CASE call[c].pc = "set_applied" /\ Acknowledges(call[c].bot)
  <2>1. call[c].pc \in AckLabels
    BY <1>7 DEF AckLabels
  <2> QED  BY <1>1, <1>2, <1>4, <1>7, <2>1
              DEF UpToDate, Acknowledges, Untouched, UpdateLabels, AckLabels
<1> QED  BY <1>5, <1>6, <1>7, StepWrites

\* Nor does a step of the call itself make what it has read untrue.
LEMMA SelfUpToDate ==
    ASSUME IInv, Coordinated, NEW c \in Callers, CallStep(c), NEW r, GoesOn(c, r)
    PROVE  UpToDate(r)'
<1>1. UpToDate(call[c]) /\ KnownTo(call[c], configs)
  BY AllKnown DEF Coordinated
<1>2. call[c].pc \in UpdateLabels => call[c].bot \in Bots
  BY <1>1, CallLabelTypes DEF KnownTo, UpdateLabels
<1>3. call[c].pc \in UpdateLabels => bots'[call[c].bot].applied = bots[call[c].bot].applied
  BY <1>2, StepWrites DEF Untouched, Offers, UpdateLabels
<1> QED  BY <1>1, <1>3 DEF GoesOn, UpToDate, UpdateLabels, AckLabels

\* A bot goes online when a version is applied to it, and none is taken off it.
LEMMA StepOnline ==
    ASSUME IInv, Coordinated, NEW c \in Callers, CallStep(c)
    PROVE  OnlineRunsConfig'
<1>1. LifecycleTypeOK /\ OnlineRunsConfig /\ UpToDate(call[c]) /\ bots \in [Bots -> BotRows]
  BY DEF IInv, Coordinated, LifecycleTypeOK, StoreTypeOK
<1>2. \A x \in Bots : bots[x].applied # 0 => bots'[x].applied # 0
  BY StepWrites DEF Untouched, Offers, Acknowledges
<1>3. ASSUME NEW x \in Bots, bots'[x].status = "online"
      PROVE  bots[x].status = "online" \/ bots[x].applied # 0
  <2>1. ASSUME NEW b, NEW s, bots' = WithStatus(b, s) \/ bots' = bots
        PROVE  bots'[x].status = bots[x].status \/ (x = b /\ bots'[x].status = s)
    BY <1>1, <2>1 DEF WithStatus, WithBot, BotRows
  <2>2. ASSUME NEW b, NEW v, NEW w, bots' = WithConfigVersion(b, v, w) \/ bots' = bots
        PROVE  bots'[x].status = bots[x].status
    <3>1. bots[x] \in BotRows
      BY <1>1
    <3>2. [bots[x] EXCEPT !.desired = v, !.applied = w].status = bots[x].status
      BY <3>1 DEF BotRows
    <3>3. \/ bots' = bots
          \/ bots' = [bots EXCEPT ![b] = [bots[b] EXCEPT !.desired = v, !.applied = w]]
      BY <2>2 DEF WithConfigVersion, WithBot
    <3> QED  BY <1>1, <3>2, <3>3
  <2>3. CASE AckOnline(c)
    <3>1. bots' = WithStatus(call[c].bot, "online") \/ bots' = bots
      BY <2>3 DEF AckOnline, UpdateBotRow, After
    <3> QED  BY <1>1, <1>3, <2>1, <2>3, <3>1 DEF AckOnline, UpToDate
  <2>4. ASSUME NEW b \in Bots, MarkStale(c, b) PROVE bots[x].status = "online"
    <3>1. bots' = WithStatus(b, "error") \/ bots' = bots
      BY <2>4 DEF MarkStale, After
    <3> QED  BY <1>3, <2>1, <3>1
  <2>5. CASE SetApplied(c) \/ Offer(c)
    <3>1. \E v, w : bots' = WithConfigVersion(call[c].bot, v, w) \/ bots' = bots
      BY <2>5 DEF SetApplied, Offer, UpdateBotRow, After
    <3> QED  BY <1>3, <2>2, <3>1
  <2>6. CASE ReadBot(c) \/ ReadConfig(c) \/ FindConfig(c) \/ CheckDesired(c) \/ Beat(c)
               \/ DrawVersion(c) \/ StoreConfig(c)
    <3>1. bots' = bots
      BY <2>6 DEF ReadBot, ReadConfig, FindConfig, CheckDesired, Beat, DrawVersion,
                  StoreConfig, Read, tables
    <3> QED  BY <1>3, <3>1
  <2> QED  BY <2>3, <2>4, <2>5, <2>6 DEF CallStep
<1> QED  BY <1>1, <1>2, <1>3 DEF OnlineRunsConfig

\* Every step of a call keeps Coordinated.
LEMMA StepCoordinated ==
    ASSUME IInv, Coordinated, NEW c \in Callers, CallStep(c)
    PROVE  Coordinated'
<1>1. PICK r : GoesOn(c, r)
  BY StepGoes
<1>2. call'[c] = r /\ \A x \in Callers : x # c => call'[x] = call[x]
  BY <1>1 DEF GoesOn, CallBecomes, IInv, LifecycleTypeOK, CallTypeOK
<1>3. \A x \in Callers : UpToDate(call[x])'
  <2> SUFFICES ASSUME NEW x \in Callers PROVE UpToDate(call[x])'
    OBVIOUS
  <2>1. CASE x = c
    BY <1>1, <1>2, <2>1, SelfUpToDate DEF UpToDate
  <2>2. CASE x # c
    <3>1. PICK s : s = call[x]
      OBVIOUS
    <3>2. UpToDate(s)'
      BY <2>2, <3>1, OthersUpToDate
    <3> QED  BY <1>2, <2>2, <3>1, <3>2 DEF UpToDate
  <2> QED  BY <2>1, <2>2
<1>4. Apart'
  <2>1. ASSUME NEW x \in Callers
        PROVE  /\ call'[x].pc \in UpdateLabels => /\ call[x].pc \in UpdateLabels
                                                  /\ call'[x].bot = call[x].bot
               /\ call'[x].pc \in AckLabels => /\ call[x].pc \in AckLabels
                                               /\ call'[x].bot = call[x].bot
    BY <1>1, <1>2 DEF GoesOn
  <2> QED  BY <2>1 DEF Coordinated, Apart
<1> QED  BY <1>3, <1>4, StepOnline DEF Coordinated

\* A step that makes one call another, and writes nothing, keeps Coordinated when the new
\* call is up to date and not an update beside an acknowledgement.
LEMMA CallCoordinated ==
    ASSUME IInv, Coordinated, NEW c \in Callers, NEW r, CallBecomes(c, r), UNCHANGED tables,
           UpToDate(r),
           r.pc \in UpdateLabels =>
               \A x \in Callers : call[x].pc \in AckLabels => call[x].bot # r.bot,
           r.pc \in AckLabels =>
               \A x \in Callers : call[x].pc \in UpdateLabels => call[x].bot # r.bot
    PROVE  Coordinated'
<1>1. call'[c] = r /\ \A x \in Callers : x # c => call'[x] = call[x]
  BY DEF CallBecomes, IInv, LifecycleTypeOK, CallTypeOK
<1>2. bots' = bots
  BY DEF tables
<1>3. \A x \in Callers : UpToDate(call[x])'
  BY <1>1, <1>2 DEF Coordinated, UpToDate
<1>4. Apart'
  <2>1. ~(r.pc \in UpdateLabels /\ r.pc \in AckLabels)
    BY DEF UpdateLabels, AckLabels
  <2> SUFFICES ASSUME NEW x \in Callers, NEW y \in Callers, call'[x].pc \in UpdateLabels,
                      call'[y].pc \in AckLabels
               PROVE  call'[x].bot # call'[y].bot
    BY DEF Apart
  <2> QED  BY <1>1, <2>1 DEF Coordinated, Apart
<1> QED  BY <1>2, <1>3, <1>4 DEF Coordinated, OnlineRunsConfig

\* An idle call, and the answer to one, have read nothing.
LEMMA EndedUpToDate ==
    ASSUME NEW r, r.pc \in Replies \cup {"idle"}
    PROVE  UpToDate(r) /\ r.pc \notin UpdateLabels \cup AckLabels
BY DEF UpToDate, UpdateLabels, AckLabels, Replies

\* An update or an acknowledgement starts when its bot has none of the other.
LEMMA BeginCoordinated ==
    ASSUME Separate, IInv, Coordinated, NEW c \in Callers, AgentCall(c) \/ HostCall(c)
    PROVE  Coordinated'
<1>1. LifecycleTypeOK /\ NoCall \in Calls /\ UNCHANGED tables
  BY CallTypes DEF IInv, AgentCall, HostCall, Receive, BeginUpdate, BeginWatch
<1>2. ASSUME NEW reply \in Replies, CallBecomes(c, [NoCall EXCEPT !.pc = reply]) PROVE Coordinated'
  <2>1. [NoCall EXCEPT !.pc = reply].pc = reply
    BY <1>1 DEF Calls
  <2> QED  BY <1>1, <1>2, <2>1, EndedUpToDate, CallCoordinated
<1>3. ASSUME NEW b, MayCall("ack", b), NEW x \in Callers, call[x].pc \in UpdateLabels
      PROVE  call[x].bot # b
  <2>1. call[x].op = "update" /\ InProgress(x)
    BY <1>3 DEF Coordinated, UpToDate, InProgress, CallLabels
  <2>2. {"ack", "update"} = {"update", "ack"}
    OBVIOUS
  <2> QED  BY <1>3, <2>1, <2>2 DEF MayCall, Separate
<1>4. ASSUME NEW b, MayCall("update", b), NEW x \in Callers, call[x].pc \in AckLabels
      PROVE  call[x].bot # b
  <2>1. call[x].op = "ack" /\ InProgress(x)
    BY <1>4 DEF Coordinated, UpToDate, InProgress, CallLabels
  <2> QED  BY <1>4, <2>1 DEF MayCall, Separate
<1>5. ASSUME NEW b \in Bots, NEW t, NEW op \in {"register", "fetch", "heartbeat", "ack"},
             NEW owner, NEW v, Receive(c, op, b, t, owner, v)
      PROVE  Coordinated'
  <2>1. PICK r : r = [NoCall EXCEPT !.pc = FirstLabel[op], !.op = op, !.bot = b,
                                  !.owner = owner, !.version = v]
    OBVIOUS
  <2>2. r.pc = FirstLabel[op] /\ r.op = op /\ r.bot = b
    BY <1>1, <2>1 DEF Calls
  <2>3. CASE op # "register" /\ CallBecomes(c, r)
    <3>1. CASE op = "ack"
      <4>1. r.pc = "find_config" /\ r.op = "ack" /\ MayCall("ack", b)
        BY <1>5, <2>2, <3>1 DEF FirstLabel, Receive
      <4>2. UpToDate(r) /\ r.pc \notin UpdateLabels
        BY <4>1 DEF UpToDate, UpdateLabels, AckLabels
      <4> QED  BY <1>1, <1>3, <2>2, <2>3, <4>1, <4>2, CallCoordinated
    <3>2. CASE op # "ack"
      <4>1. r.pc \notin UpdateLabels \cup AckLabels
        BY <2>2, <2>3, <3>2 DEF FirstLabel, UpdateLabels, AckLabels
      <4>2. UpToDate(r)
        BY <4>1 DEF UpToDate, AckLabels
      <4> QED  BY <1>1, <2>3, <4>1, <4>2, CallCoordinated
    <3> QED  BY <3>1, <3>2
  <2> QED  BY <1>2, <1>5, <2>1, <2>3 DEF Receive, Replies
<1>6. ASSUME NEW b \in Bots, BeginUpdate(c, b) PROVE Coordinated'
  <2>1. PICK r : r = [NoCall EXCEPT !.pc = "next_version", !.op = "update", !.bot = b,
                                  !.applied = bots[b].applied]
    OBVIOUS
  <2>2. r.pc = "next_version" /\ r.op = "update" /\ r.bot = b /\ r.applied = bots[b].applied
    BY <1>1, <2>1 DEF Calls
  <2>3. UpToDate(r) /\ r.pc \notin AckLabels
    BY <2>2 DEF UpToDate, UpdateLabels, AckLabels
  <2>4. CASE CallBecomes(c, r)
    BY <1>1, <1>4, <1>6, <2>2, <2>3, <2>4, CallCoordinated DEF BeginUpdate
  <2> QED  BY <1>2, <1>6, <2>1, <2>4 DEF BeginUpdate, Replies
<1>7. ASSUME BeginWatch(c) PROVE Coordinated'
  <2>1. PICK r : r = [NoCall EXCEPT !.pc = "mark_stale", !.op = "watch", !.stale = Stale]
    OBVIOUS
  <2>2. r.pc = "mark_stale"
    BY <1>1, <2>1 DEF Calls
  <2>3. UpToDate(r) /\ r.pc \notin UpdateLabels \cup AckLabels
    BY <2>2 DEF UpToDate, UpdateLabels, AckLabels
  <2>4. CASE CallBecomes(c, r)
    BY <1>1, <2>3, <2>4, CallCoordinated
  <2> QED  BY <1>2, <1>7, <2>1, <2>4 DEF BeginWatch, Replies
<1> QED  BY <1>5, <1>6, <1>7 DEF AgentCall, HostCall

\* Bots start with nothing read and nothing applied, and none of them is online.
LEMMA InitCInv == LifecycleInit => CInv
<1> SUFFICES ASSUME LifecycleInit PROVE Coordinated
  BY InitIInv DEF CInv
<1>1. \A c \in Callers : call[c].pc = "idle"
  BY DEF LifecycleInit, CallInit, NoCall
<1>2. \A b \in Bots : bots[b].status = "provisioning"
  BY DEF LifecycleInit
<1>3. \A c \in Callers : UpToDate(call[c]) /\ call[c].pc \notin UpdateLabels \cup AckLabels
  BY <1>1, EndedUpToDate
<1> QED  BY <1>2, <1>3 DEF Coordinated, Apart, OnlineRunsConfig

\* Every step keeps the invariant, when updates and acknowledgements are apart.
LEMMA NextCInv == ASSUME Separate PROVE CInv /\ [LifecycleNext]_lifecycleVars => CInv'
<1> SUFFICES ASSUME IInv, Coordinated, [LifecycleNext]_lifecycleVars PROVE Coordinated'
  BY NextIInv DEF CInv
<1>1. CASE UNCHANGED lifecycleVars
  BY <1>1 DEF Coordinated, Apart, OnlineRunsConfig, UpToDate, lifecycleVars, tables, callVars
<1>2. ASSUME NEW c \in Callers, Return(c) \/ Drop(c) PROVE Coordinated'
  <2>1. UpToDate(NoCall) /\ NoCall.pc \notin UpdateLabels \cup AckLabels
    BY EndedUpToDate DEF NoCall
  <2>2. CallBecomes(c, NoCall) /\ UNCHANGED tables
    BY <1>2 DEF Return, Drop
  <2> QED  BY <2>1, <2>2, CallCoordinated
<1>3. ASSUME NEW b \in Bots, Age(b) PROVE Coordinated'
  BY <1>3 DEF Age, Coordinated, Apart, OnlineRunsConfig, UpToDate, tables
<1> QED  BY <1>1, <1>2, <1>3, BeginCoordinated, StepCoordinated DEF LifecycleNext

----------------------------------------------------------------------------
(* The refinement.                                                          *)

\* The configs of a bot are counted by the latest.
LEMMA LatestOf == ASSUME Counted, NEW b \in Bots
                  PROVE  Latest(b) \in Nat /\ configs[b] = 1 .. Latest(b)
BY LatestIs DEF Counted

\* A config that is stored is the next one of its bot, and the others keep theirs.
LEMMA StoreCounts ==
    ASSUME IInv, NEW c \in Callers, StoreConfig(c)
    PROVE  \/ configs' = configs
           \/ \E b \in Bots : /\ Latest(b)' = Latest(b) + 1
                              /\ \A x \in Bots : x # b => Latest(x)' = Latest(x)
<1>1. /\ Grounded /\ Counted /\ KnownTo(call[c], configs) /\ configs \in [Bots -> SUBSET Nat]
  BY AllKnown DEF IInv, Grounded, LifecycleTypeOK, StoreTypeOK
<1>2. PICK b \in Bots, v \in Nat \ {0} :
        b = call[c].bot /\ v = call[c].version /\ 1 .. v - 1 \subseteq configs[b]
  BY <1>1, CallLabelTypes DEF StoreConfig, KnownTo
<1>3. \/ configs' = configs
      \/ v \notin configs[b] /\ configs' = [configs EXCEPT ![b] = @ \cup {v}]
  BY <1>2 DEF StoreConfig, After, ConfigsWith, ConfigInsertable
<1>4. PICK n \in Nat : n = Latest(b) /\ configs[b] = 1 .. n
  BY <1>1, LatestOf
<1>5. ASSUME v \notin configs[b], configs' = [configs EXCEPT ![b] = @ \cup {v}]
      PROVE  /\ Latest(b)' = Latest(b) + 1
             /\ \A x \in Bots : x # b => Latest(x)' = Latest(x)
  <2>1. v = n + 1
    <3>1. v > n
      BY <1>4, <1>5
    <3>2. CASE v = 1
      BY <1>4, <3>1, <3>2
    <3>3. CASE v # 1
      <4>1. v - 1 \in 1 .. v - 1
        BY <3>3
      <4> QED  BY <1>2, <1>4, <3>1, <4>1
    <3> QED  BY <3>2, <3>3
  <2>2. configs'[b] = 1 .. n + 1
    <3>1. configs'[b] = (1 .. n) \cup {n + 1}
      BY <1>1, <1>4, <1>5, <2>1
    <3> QED  BY <3>1
  <2>3. \A x \in Bots : x # b => configs'[x] = configs[x]
    BY <1>1, <1>5
  <2>4. Latest(b)' = n + 1
    BY <2>2, LatestNext
  <2> QED  BY <1>4, <2>3, <2>4 DEF Latest
<1> QED  BY <1>3, <1>5

\* Before anything is called, every bot has one config stored and offered.
LEMMA InitRegister == LifecycleInit => Register!Init
<1> SUFFICES ASSUME LifecycleInit PROVE Register!Init
  OBVIOUS
<1>1. ASSUME NEW b \in Bots PROVE Latest(b) = 1
  <2>1. configs[b] = 1 .. 1
    BY DEF LifecycleInit
  <2> QED  BY <2>1, LatestIs
<1>2. \A b \in Bots : bots[b].desired = 1 /\ bots[b].applied = 0
  BY DEF LifecycleInit
<1> QED  BY <1>1, <1>2 DEF Register!Init

\* Every step of Lifecycle is a step of the register, or leaves it as it is.
LEMMA NextRegister ==
    ASSUME CInv, [LifecycleNext]_lifecycleVars
    PROVE  [Register!Next]_<<[b \in Bots |-> Latest(b)], [b \in Bots |-> bots[b].desired],
                             [b \in Bots |-> bots[b].applied]>>
<1> DEFINE stored == [b \in Bots |-> Latest(b)]
           desired == [b \in Bots |-> bots[b].desired]
           applied == [b \in Bots |-> bots[b].applied]
<1> SUFFICES [Register!Next]_<<stored, desired, applied>>
  OBVIOUS
<1>1. IInv /\ Coordinated /\ Counted
  BY DEF CInv, IInv, Grounded
<1>2. configs' = configs => stored' = stored
  BY DEF Latest
<1>3. (\A b \in Bots : Untouched(b)) => desired' = desired /\ applied' = applied
  BY DEF Untouched
<1>4. CASE UNCHANGED tables
  <2>1. configs' = configs /\ \A b \in Bots : Untouched(b)
    BY <1>4 DEF tables, Untouched
  <2> QED  BY <1>2, <1>3, <2>1
<1>5. ASSUME NEW c \in Callers, CallStep(c) PROVE [Register!Next]_<<stored, desired, applied>>
  <2>1. CASE StoreConfig(c)
    <3>1. \A b \in Bots : Untouched(b)
      BY <2>1 DEF StoreConfig, Untouched
    <3>2. CASE configs' = configs
      BY <1>2, <1>3, <3>1, <3>2
    <3>3. ASSUME NEW b \in Bots, Latest(b)' = Latest(b) + 1,
                 \A x \in Bots : x # b => Latest(x)' = Latest(x)
          PROVE  Register!Store(b)
      <4>1. stored' = [stored EXCEPT ![b] = @ + 1]
        BY <3>3
      <4> QED  BY <1>3, <3>1, <4>1 DEF Register!Store
    <3> QED  BY <1>1, <2>1, <3>2, <3>3, StoreCounts DEF Register!Next
  <2>2. CASE ~StoreConfig(c)
    <3>1. configs' = configs
      BY <1>5, <2>2 DEF CallStep, ReadBot, ReadConfig, FindConfig, CheckDesired, SetApplied,
                        AckOnline, Beat, DrawVersion, Offer, MarkStale, UpdateBotRow, Read, tables
    <3>2. CASE \A b \in Bots : Untouched(b)
      BY <1>2, <1>3, <3>1, <3>2
    <3>3. PICK b : b = call[c].bot
      OBVIOUS
    <3>4. CASE call[c].pc = "offer" /\ Offers(b)
      <4>1. b \in Bots
        BY <1>1, <3>3, <3>4, CallLabelTypes DEF IInv, Grounded, KnownTo
      <4>2. PICK v \in 1 .. Latest(b) : v = bots'[b].desired
        BY <1>1, <3>4, <4>1, LatestOf DEF Offers
      <4>3. desired' = [desired EXCEPT ![b] = v] /\ applied' = applied
        BY <3>4, <4>2 DEF Offers, Untouched
      <4>4. \E w \in 1 .. stored[b] : desired' = [desired EXCEPT ![b] = w]
        BY <4>1, <4>2, <4>3
      <4>5. Register!Offer(b)
        BY <1>2, <3>1, <4>3, <4>4 DEF Register!Offer
      <4> QED  BY <4>1, <4>5 DEF Register!Next
    <3>5. CASE call[c].pc = "set_applied" /\ Acknowledges(b)
      <4>1. b \in Bots
        BY <1>1, <3>3, <3>5, CallLabelTypes DEF IInv, Grounded, KnownTo
      <4>2. applied' = [applied EXCEPT ![b] = desired[b]] /\ desired' = desired
        BY <3>5, <4>1 DEF Acknowledges, Untouched
      <4>3. Register!Acknowledge(b)
        BY <1>2, <3>1, <4>2 DEF Register!Acknowledge
      <4> QED  BY <4>1, <4>3 DEF Register!Next
    <3> QED  BY <1>1, <1>5, <3>2, <3>3, <3>4, <3>5, StepWrites
  <2> QED  BY <2>1, <2>2
<1>6. UNCHANGED lifecycleVars => UNCHANGED tables
  BY DEF lifecycleVars
<1>7. \A c \in Callers : AgentCall(c) \/ HostCall(c) \/ Return(c) \/ Drop(c) => UNCHANGED tables
  BY DEF AgentCall, HostCall, Receive, BeginUpdate, BeginWatch, Return, Drop
<1>8. \A b \in Bots : Age(b) => UNCHANGED tables
  BY DEF Age
<1> QED  BY <1>4, <1>5, <1>6, <1>7, <1>8 DEF LifecycleNext

\* When updates and acknowledgements of a bot are not called together, a bot that was
\* brought online by its agent runs a config: no update takes the first acknowledgement
\* back (acknowledge_config, create_bot_config).
THEOREM OnlineRunsConfigHolds == ASSUME Separate PROVE LifecycleSpec => []OnlineRunsConfig
<1>1. CInv => OnlineRunsConfig
  BY DEF CInv, Coordinated
<1> QED  BY <1>1, InitCInv, NextCInv, PTL DEF LifecycleSpec

\* Then the service is the register: only stored configs are offered, only the one on
\* offer is acknowledged, and neither takes the other back, although updates draw the
\* same versions, fail half way and write what they read before.
THEOREM ImplementsRegisterHolds == ASSUME Separate PROVE LifecycleSpec => ImplementsRegister
<1>1. CInv /\ [LifecycleNext]_lifecycleVars =>
        [Register!Next]_<<[b \in Bots |-> Latest(b)], [b \in Bots |-> bots[b].desired],
                          [b \in Bots |-> bots[b].applied]>>
  BY NextRegister
<1> QED  BY <1>1, InitCInv, NextCInv, InitRegister, PTL
         DEF LifecycleSpec, ImplementsRegister, Register!RegisterSpec, Register!registerVars
=============================================================================
