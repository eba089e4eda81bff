--------------------------- MODULE DoClientProofs ---------------------------
(***************************************************************************)
(* Theorems about DigitalOceanClient, for any number of bots, droplets and *)
(* calls, whatever the network does: what a call said when it returned,    *)
(* although requests of it may still be on their way.                      *)
(***************************************************************************)
EXTENDS DoClient, FiniteSetTheorems, TLAPS

----------------------------------------------------------------------------
(* The inductive invariant.                                                 *)

\* A droplet has a bot from its creation on.
UnusedIsNobodys == \A d \in Droplets : cloud[d].power = "none" => cloud[d].bot = NoBot

\* A request on its way was sent by the call that is made for its bot, or by an earlier
\* one, and is about a droplet of that bot.
NetKnown ==
    \A m \in net :
        /\ 1 <= m.number /\ m.number <= call[m.bot].number
        /\ m.op # "create" => m.droplet \in Made(m.bot)
        /\ m.number = call[m.bot].number /\ Busy(m.bot) =>
             /\ m.op = call[m.bot].op
             /\ m.op # "create" => m.droplet = call[m.bot].droplet

\* The reply a call r waits to look at, or its result.
Says(r, reply, result) == (r.pc = "wait" /\ r.reply = reply) \/ r.pc = result

\* The power a shutdown or a reboot asked for.
HasPower(r) ==
    /\ r.op = "shutdown" => cloud[r.droplet].power \in {"stopping", "off"}
    /\ r.op = "reboot" => cloud[r.droplet].power = "active"

\* A call r is about a droplet of its bot b, and what it was told is so.
Knows(b, r) ==
    /\ r.pc # "idle" => r.op # "none" /\ 1 <= r.number
    /\ r.pc # "wait" => r.reply = "none"
    /\ r.pc = "NotFound" => r.op \in {"get", "destroy"}
    /\ r.op \notin {"create", "none"} => r.droplet \in Made(b)
    /\ Says(r, "success", "ok") =>
         /\ r.op = "create" => r.droplet \in Made(b)
         /\ r.op = "destroy" => ~IsUp(r.droplet)
         /\ "timeout" \notin trouble => HasPower(r)
    /\ Says(r, "not_found", "NotFound") /\ r.op # "create" => ~IsUp(r.droplet)

CallsKnow == \A b \in Bots : Knows(b, call[b])

\* The requests for a droplet that are on their way, and those a call r has sent; a bot
\* that makes other calls has no more of them to send.
Pending(b) == {m \in net : m.bot = b /\ m.op = "create"}

Posted(r) ==
    IF r.op # "create" THEN MAX_RETRIES
    ELSE IF r.pc = "send" THEN r.attempt ELSE r.attempt + 1

\* Each request sent is on its way, or has been handled and made at most one droplet.
WithinBudget(b, r) ==
    /\ IsFiniteSet(Made(b)) /\ IsFiniteSet(Pending(b))
    /\ Cardinality(Made(b)) + Cardinality(Pending(b)) <= Posted(r)

Budget == \A b \in Bots : WithinBudget(b, call[b])

\* The request of the attempt that is made.
Sent(b) == [bot |-> b, number |-> call[b].number, attempt |-> call[b].attempt,
            op |-> call[b].op, droplet |-> call[b].droplet]

\* When nothing times out, the only request on its way is the one that is waited for.
Punctual ==
    "timeout" \notin trouble =>
        \A m \in net : /\ call[m.bot].pc = "wait" /\ call[m.bot].reply = "none"
                       /\ m = Sent(m.bot)

ClientInv ==
    /\ ClientTypeOK
    /\ UnusedIsNobodys /\ NetKnown /\ CallsKnow /\ Budget /\ Punctual

----------------------------------------------------------------------------
(* The steps of a call.                                                     *)

\* A droplet of a bot was created.
LEMMA MadeIsUsed ==
    ASSUME ClientInv, NEW b \in Bots, NEW d \in Made(b)
    PROVE  d \in Droplets /\ cloud[d].power # "none"
BY StoreAssumption DEF ClientInv, UnusedIsNobodys, Made

\* No call has sent more requests than it has attempts.
LEMMA PostedAtMost == ASSUME NEW r \in Calls PROVE Posted(r) \in 0 .. MAX_RETRIES
BY DEF Calls, Posted, MAX_RETRIES

\* A step that only makes the call of b the call r keeps the invariant, when r knows what
\* it has to know and goes on with the same request or with a later one.
LEMMA CallMoves ==
    ASSUME ClientInv, NEW b \in Bots, NEW r \in Calls, Becomes(b, r),
           UNCHANGED <<tables, cloud, net, trouble>>,
           Knows(b, r), WithinBudget(b, r),
           call[b].number <= r.number,
           r.number = call[b].number /\ r.pc \in {"send", "wait"} =>
               Busy(b) /\ r.op = call[b].op /\ r.droplet = call[b].droplet,
           "timeout" \notin trouble => call[b].pc # "wait" \/ call[b].reply # "none"
    PROVE  ClientInv'
<1>1. /\ call \in [Bots -> Calls] /\ net \subseteq Requests
      /\ cloud' = cloud /\ net' = net /\ trouble' = trouble
      /\ call' = [call EXCEPT ![b] = r]
  BY DEF ClientInv, ClientTypeOK, Becomes
<1>2. ClientTypeOK'
  BY <1>1 DEF ClientInv, ClientTypeOK, StoreTypeOK, CloudTypeOK, tables
<1>3. UnusedIsNobodys'
  BY <1>1 DEF ClientInv, UnusedIsNobodys
<1>4. \A x \in Bots : Made(x)' = Made(x) /\ Pending(x)' = Pending(x)
  BY <1>1 DEF Made, Pending
<1>5. NetKnown'
  <2> SUFFICES ASSUME NEW m \in net
               PROVE  /\ 1 <= m.number /\ m.number <= call'[m.bot].number
                      /\ m.op # "create" => m.droplet \in Made(m.bot)
                      /\ m.number = call'[m.bot].number /\ Busy(m.bot)' =>
                           /\ m.op = call'[m.bot].op
                           /\ m.op # "create" => m.droplet = call'[m.bot].droplet
    BY <1>1, <1>4 DEF NetKnown, Requests
  <2>1. /\ 1 <= m.number /\ m.number <= call[m.bot].number
        /\ m.op # "create" => m.droplet \in Made(m.bot)
        /\ m.number = call[m.bot].number /\ Busy(m.bot) =>
             /\ m.op = call[m.bot].op
             /\ m.op # "create" => m.droplet = call[m.bot].droplet
    BY DEF ClientInv, NetKnown
  <2>2. m \in Requests /\ call[b] \in Calls
    BY <1>1
  <2>3. CASE m.bot = b
    <3>1. call'[m.bot] = r
      BY <1>1, <2>3
    <3>2. m.number \in Nat /\ call[b].number \in Nat /\ r.number \in Nat
      BY <2>2, ClientAssumption DEF Requests, Calls
    <3>3. m.number <= r.number
      BY <2>1, <2>3, <3>2
    <3>4. m.number = r.number => r.number = call[b].number
      BY <2>1, <2>3, <3>2
    <3> QED  BY <2>1, <2>3, <3>1, <3>3, <3>4 DEF Busy
  <2>4. CASE m.bot # b
    BY <1>1, <2>1, <2>2, <2>4 DEF Busy, Requests
  <2> QED  BY <2>3, <2>4
<1>6. CallsKnow'
  <2> SUFFICES ASSUME NEW x \in Bots PROVE Knows(x, call[x])'
    BY DEF CallsKnow
  <2>1. Knows(x, call'[x])
    BY <1>1 DEF ClientInv, CallsKnow
  <2> QED  BY <1>1, <1>4, <2>1 DEF Knows, Says, IsUp, HasPower
<1>7. Budget'
  <2> SUFFICES ASSUME NEW x \in Bots PROVE WithinBudget(x, call[x])'
    BY DEF Budget
  <2>1. WithinBudget(x, call'[x])
    BY <1>1 DEF ClientInv, Budget
  <2> QED  BY <1>1, <1>4, <2>1 DEF WithinBudget, Posted
<1>8. Punctual'
  <2> SUFFICES ASSUME "timeout" \notin trouble, NEW m \in net
               PROVE  call'[m.bot].pc = "wait" /\ call'[m.bot].reply = "none"
                      /\ m = Sent(m.bot)'
    BY <1>1 DEF Punctual
  <2>1. /\ call[m.bot].pc = "wait" /\ call[m.bot].reply = "none" /\ m = Sent(m.bot)
    BY DEF ClientInv, Punctual
  <2>2. m.bot # b /\ m.bot \in Bots
    BY <1>1, <2>1 DEF Requests
  <2>3. call'[m.bot] = call[m.bot]
    BY <1>1, <2>2
  <2> QED  BY <2>1, <2>3 DEF Sent
<1> QED  BY <1>2, <1>3, <1>5, <1>6, <1>7, <1>8 DEF ClientInv

\* No call is one.
LEMMA NoCallType == NoCall \in Calls
BY ClientAssumption DEF NoCall, Calls, MAX_RETRIES

\* A call is made of a bot's droplets.  The creation is the first one, so that no
\* request for a droplet is on its way.
LEMMA BeginStep ==
    ASSUME ClientInv, NEW b \in Bots, NEW op \in Ops, NEW d \in Droplets \cup {NoDroplet},
           Begin(b, op, d), UNCHANGED trouble
    PROVE  ClientInv'
<1> DEFINE r == [NoCall EXCEPT !.pc = "send", !.op = op, !.droplet = d,
                               !.number = call[b].number + 1]
<1>1. call[b] \in Calls /\ call[b].pc = "idle" /\ call[b].number < MaxCalls
  BY DEF ClientInv, ClientTypeOK, Begin
<1>2. call[b].number \in Nat
  BY <1>1, ClientAssumption DEF Calls
<1>3. /\ r.pc = "send" /\ r.op = op /\ r.droplet = d /\ r.number = call[b].number + 1
      /\ r.attempt = 0 /\ r.reply = "none"
  BY DEF NoCall
<1>4. r \in Calls
  <2>1. call[b].number + 1 \in 0 .. MaxCalls
    BY <1>1, <1>2, ClientAssumption
  <2> QED  BY <2>1, NoCallType DEF Calls
<1>5. Knows(b, r)
  BY <1>2, <1>3 DEF Knows, Says, Begin, Ops, Results
<1>6. WithinBudget(b, r)
  <2>1. WithinBudget(b, call[b])
    BY DEF ClientInv, Budget
  <2>2. CASE op # "create"
    <3>1. Posted(r) = 3
      BY <1>3, <2>2 DEF Posted, MAX_RETRIES
    <3>2. Posted(call[b]) \in 0 .. 3
      BY <1>1, PostedAtMost DEF MAX_RETRIES
    <3>3. Cardinality(Made(b)) \in Nat /\ Cardinality(Pending(b)) \in Nat
      BY <2>1, FS_CardinalityType DEF WithinBudget
    <3> QED  BY <2>1, <3>1, <3>2, <3>3 DEF WithinBudget
  <2>3. CASE op = "create"
    <3>1. Made(b) = {} /\ call[b].number = 0
      BY <2>3 DEF Begin
    <3>2. Pending(b) = {}
      BY <3>1 DEF Pending, ClientInv, ClientTypeOK, NetKnown, Requests
    <3>3. Posted(r) = 0
      BY <1>3, <2>3 DEF Posted
    <3> QED  BY <3>1, <3>2, <3>3, FS_EmptySet DEF WithinBudget
  <2> QED  BY <2>2, <2>3
<1>7. Becomes(b, r) /\ UNCHANGED <<tables, cloud, net, trouble>>
  BY DEF Begin
<1> HIDE DEF r
<1> QED  BY <1>1, <1>2, <1>3, <1>4, <1>5, <1>6, <1>7, CallMoves

\* An attempt is sent: one more request is on its way.
LEMMA SendStep ==
    ASSUME ClientInv, NEW b \in Bots, Send(b), UNCHANGED trouble
    PROVE  ClientInv'
<1> DEFINE m == Sent(b)
           r == [call[b] EXCEPT !.pc = "wait"]
<1>1. /\ call \in [Bots -> Calls] /\ net \subseteq Requests
      /\ call[b] \in Calls /\ call[b].pc = "send" /\ Knows(b, call[b])
  BY DEF ClientInv, ClientTypeOK, CallsKnow, Send
<1>2. /\ net' = net \cup {m} /\ call' = [call EXCEPT ![b] = r]
      /\ UNCHANGED <<tables, cloud, trouble>>
  BY DEF Send, Sent, Becomes
<1>3. /\ r.pc = "wait" /\ r.op = call[b].op /\ r.droplet = call[b].droplet
      /\ r.number = call[b].number /\ r.attempt = call[b].attempt /\ r.reply = "none"
      /\ r \in Calls
  BY <1>1 DEF Calls, Knows
<1>4. /\ m.bot = b /\ m.number = call[b].number /\ m.attempt = call[b].attempt
      /\ m.op = call[b].op /\ m.droplet = call[b].droplet
      /\ call[b].op # "none" /\ 1 <= call[b].number
  BY <1>1 DEF Sent, Knows
<1>5. m \in Requests
  BY <1>1, <1>4 DEF Sent, Requests, Calls
<1>6. call'[b] = r /\ \A x \in Bots : x # b => call'[x] = call[x]
  BY <1>1, <1>2
<1> HIDE DEF m, r
<1>7. ClientTypeOK'
  BY <1>1, <1>2, <1>3, <1>5 DEF ClientInv, ClientTypeOK, StoreTypeOK, CloudTypeOK, tables
<1>8. UnusedIsNobodys'
  BY <1>2 DEF ClientInv, UnusedIsNobodys
<1>9. \A x \in Bots : Made(x)' = Made(x)
  BY <1>2 DEF Made
<1>10. NetKnown'
  <2> SUFFICES ASSUME NEW n \in net'
               PROVE  /\ 1 <= n.number /\ n.number <= call'[n.bot].number
                      /\ n.op # "create" => n.droplet \in Made(n.bot)'
                      /\ n.number = call'[n.bot].number /\ Busy(n.bot)' =>
                           /\ n.op = call'[n.bot].op
                           /\ n.op # "create" => n.droplet = call'[n.bot].droplet
    BY DEF NetKnown
  <2>1. CASE n = m
    <3>1. r.number <= r.number
      BY <1>3, ClientAssumption DEF Calls
    <3> QED  BY <1>1, <1>3, <1>4, <1>6, <1>9, <2>1, <3>1 DEF Knows, Ops, Calls
  <2>2. CASE n \in net
    <3>1. /\ 1 <= n.number /\ n.number <= call[n.bot].number
          /\ n.op # "create" => n.droplet \in Made(n.bot)
          /\ n.number = call[n.bot].number /\ Busy(n.bot) =>
               /\ n.op = call[n.bot].op
               /\ n.op # "create" => n.droplet = call[n.bot].droplet
          /\ n.bot \in Bots
      BY <1>1, <2>2 DEF ClientInv, NetKnown, Requests
    <3> QED  BY <1>1, <1>3, <1>6, <1>9, <3>1 DEF Busy
  <2> QED  BY <1>2, <2>1, <2>2
<1>11. CallsKnow'
  <2> SUFFICES ASSUME NEW x \in Bots PROVE Knows(x, call[x])'
    BY DEF CallsKnow
  <2>1. CASE x = b
    BY <1>1, <1>2, <1>3, <1>6, <1>9, <2>1 DEF Knows, Says
  <2>2. CASE x # b
    <3>1. Knows(x, call[x])
      BY DEF ClientInv, CallsKnow
    <3> QED  BY <1>2, <1>6, <1>9, <2>2, <3>1 DEF Knows, Says, IsUp, HasPower
  <2> QED  BY <2>1, <2>2
<1>12. Budget'
  <2> SUFFICES ASSUME NEW x \in Bots PROVE WithinBudget(x, call[x])'
    BY DEF Budget
  <2>1. WithinBudget(x, call[x])
    BY DEF ClientInv, Budget
  <2>2. CASE x = b /\ call[b].op = "create"
    <3>1. Pending(b)' = Pending(b) \cup {m}
      BY <1>2, <1>4, <2>2 DEF Pending
    <3>2. /\ IsFiniteSet(Pending(b)')
          /\ \/ Cardinality(Pending(b)') = Cardinality(Pending(b)) + 1
             \/ Cardinality(Pending(b)') = Cardinality(Pending(b))
      BY <2>1, <2>2, <3>1, FS_AddElement DEF WithinBudget
    <3>3. Cardinality(Made(b)) \in Nat /\ Cardinality(Pending(b)) \in Nat
      BY <2>1, <2>2, FS_CardinalityType DEF WithinBudget
    <3>4. Posted(call[b]) = call[b].attempt /\ Posted(r) = call[b].attempt + 1
      BY <1>1, <1>3, <2>2 DEF Posted
    <3>5. call[b].attempt \in Nat
      BY <1>1 DEF Calls
    <3>6. Cardinality(Made(b)) + Cardinality(Pending(b)') <= Posted(r)
      BY <2>1, <2>2, <3>2, <3>3, <3>4, <3>5 DEF WithinBudget
    <3>7. Posted(call[b])' = Posted(r)
      BY <1>6 DEF Posted
    <3> QED  BY <1>9, <2>1, <2>2, <3>2, <3>6, <3>7 DEF WithinBudget
  <2>3. CASE ~(x = b /\ call[b].op = "create")
    <3>1. Pending(x)' = Pending(x)
      BY <1>2, <1>4, <2>3 DEF Pending
    <3>2. Posted(call[x])' = Posted(call[x])
      BY <1>3, <1>6, <2>3 DEF Posted
    <3> QED  BY <1>9, <2>1, <3>1, <3>2 DEF WithinBudget
  <2> QED  BY <2>2, <2>3
<1>13. Punctual'
  <2> SUFFICES ASSUME "timeout" \notin trouble, NEW n \in net'
               PROVE  call'[n.bot].pc = "wait" /\ call'[n.bot].reply = "none"
                      /\ n = Sent(n.bot)'
    BY <1>2 DEF Punctual
  <2>1. CASE n = m
    BY <1>3, <1>4, <1>6, <2>1 DEF Sent, m
  <2>2. CASE n \in net
    <3>1. /\ call[n.bot].pc = "wait" /\ call[n.bot].reply = "none" /\ n = Sent(n.bot)
          /\ n.bot \in Bots
      BY <1>1, <2>2 DEF ClientInv, Punctual, Requests
    <3>2. call'[n.bot] = call[n.bot]
      BY <1>1, <1>6, <3>1
    <3> QED  BY <3>1, <3>2 DEF Sent
  <2> QED  BY <1>2, <2>1, <2>2
<1> QED  BY <1>7, <1>8, <1>10, <1>11, <1>12, <1>13 DEF ClientInv

\* A call that goes on after a reply, or after the attempt timed out, sends nothing: it
\* counts its next attempt, or returns.
LEMMA Goes ==
    ASSUME ClientInv, NEW b \in Bots, call[b].pc = "wait",
           NEW pc \in Results, pc # "ok", pc # "NotFound"
    PROVE  LET ended == [call[b] EXCEPT !.pc = pc, !.reply = "none"] IN
           /\ ended \in Calls /\ Knows(b, ended) /\ WithinBudget(b, ended)
           /\ LET r == Retried(b, pc) IN
              /\ r \in Calls /\ Knows(b, r) /\ WithinBudget(b, r)
              /\ r.number = call[b].number /\ r.op = call[b].op /\ r.droplet = call[b].droplet
<1>1. call[b] \in Calls /\ Knows(b, call[b]) /\ WithinBudget(b, call[b])
  BY DEF ClientInv, ClientTypeOK, CallsKnow, Budget
<1> DEFINE ended == [call[b] EXCEPT !.pc = pc, !.reply = "none"]
           again == [call[b] EXCEPT !.pc = "send", !.attempt = @ + 1, !.reply = "none"]
<1>2. ended \in Calls /\ Knows(b, ended)
  BY <1>1 DEF Calls, Knows, Says, Results
<1>3. Posted(ended) = Posted(call[b])
  BY <1>1 DEF Posted, Calls, Results
<1>4. ended.number = call[b].number /\ ended.op = call[b].op /\ ended.droplet = call[b].droplet
  BY <1>1 DEF Calls
<1>5. ASSUME call[b].attempt < MAX_RETRIES - 1
      PROVE  /\ again \in Calls /\ Knows(b, again) /\ Posted(again) = Posted(call[b])
             /\ again.number = call[b].number /\ again.op = call[b].op
             /\ again.droplet = call[b].droplet
  <2>1. call[b].attempt + 1 \in 0 .. MAX_RETRIES - 1
    BY <1>1, <1>5 DEF Calls, MAX_RETRIES
  <2> QED  BY <1>1, <2>1 DEF Calls, Knows, Says, Posted
<1>6. WithinBudget(b, ended) /\ (Posted(again) = Posted(call[b]) => WithinBudget(b, again))
  BY <1>1, <1>3 DEF WithinBudget
<1> QED  BY <1>2, <1>4, <1>5, <1>6 DEF Retried

\* What the call makes of a reply.
LEMMA ReceiveStep ==
    ASSUME ClientInv, NEW b \in Bots, Receive(b), UNCHANGED trouble
    PROVE  ClientInv'
<1>1. /\ call[b] \in Calls /\ Knows(b, call[b]) /\ WithinBudget(b, call[b])
      /\ call[b].pc = "wait" /\ call[b].reply # "none"
      /\ UNCHANGED <<tables, cloud, net, trouble>>
  BY DEF ClientInv, ClientTypeOK, CallsKnow, Budget, Receive
<1>2. call[b].number <= call[b].number /\ Busy(b)
  BY <1>1, ClientAssumption DEF Calls, Busy
<1>3. ASSUME NEW result \in Results, Becomes(b, [call[b] EXCEPT !.pc = result, !.reply = "none"]),
             Knows(b, [call[b] EXCEPT !.pc = result, !.reply = "none"])
      PROVE  ClientInv'
  <2> DEFINE r == [call[b] EXCEPT !.pc = result, !.reply = "none"]
  <2>1. r \in Calls /\ r.number = call[b].number /\ r.pc = result
    BY <1>1 DEF Calls, Results
  <2>2. Posted(r) = Posted(call[b])
    BY <1>1 DEF Calls, Posted, Results
  <2>3. WithinBudget(b, r)
    BY <1>1, <2>2 DEF WithinBudget
  <2>4. r.pc \notin {"send", "wait"}
    BY <2>1 DEF Results
  <2> HIDE DEF r
  <2> QED  BY <1>1, <1>2, <1>3, <2>1, <2>3, <2>4, CallMoves DEF r
<1>4. CASE call[b].reply = "success"
  <2>1. PICK result \in {"ok", "InvalidResponse"} :
            Becomes(b, [call[b] EXCEPT !.pc = result, !.reply = "none"])
    BY <1>4 DEF Receive
  <2>2. Knows(b, [call[b] EXCEPT !.pc = result, !.reply = "none"])
    BY <1>1, <1>4 DEF Knows, Says, Calls, HasPower
  <2> QED  BY <1>3, <2>1, <2>2 DEF Results
<1>5. CASE call[b].reply = "not_found" /\ call[b].op \in {"get", "destroy"}
  <2>1. Becomes(b, [call[b] EXCEPT !.pc = "NotFound", !.reply = "none"])
    <3>1. Becomes(b, [call[b] EXCEPT !.reply = "none", !.pc = "NotFound"])
      BY <1>5 DEF Receive
    <3>2. [call[b] EXCEPT !.reply = "none", !.pc = "NotFound"]
            = [call[b] EXCEPT !.pc = "NotFound", !.reply = "none"]
      BY <1>1 DEF Calls
    <3> QED  BY <3>1, <3>2
  <2>2. Knows(b, [call[b] EXCEPT !.pc = "NotFound", !.reply = "none"])
    BY <1>1, <1>5 DEF Knows, Says, Calls
  <2> QED  BY <1>3, <2>1, <2>2 DEF Results
<1>6. CASE call[b].reply = "not_found" /\ call[b].op \notin {"get", "destroy"}
  <2>1. Becomes(b, [call[b] EXCEPT !.pc = "Failed", !.reply = "none"])
    <3>1. Becomes(b, [call[b] EXCEPT !.reply = "none", !.pc = "Failed"])
      BY <1>6 DEF Receive, Failure
    <3>2. [call[b] EXCEPT !.reply = "none", !.pc = "Failed"]
            = [call[b] EXCEPT !.pc = "Failed", !.reply = "none"]
      BY <1>1 DEF Calls
    <3> QED  BY <3>1, <3>2
  <2> QED  BY <1>1, <1>3, <2>1, Goes DEF Results
<1>7. CASE call[b].reply = "rate_limited"
  <2>1. Becomes(b, [call[b] EXCEPT !.pc = "RateLimited", !.reply = "none"])
    BY <1>7 DEF Receive
  <2> QED  BY <1>1, <1>3, <2>1, Goes DEF Results
<1>8. CASE call[b].reply = "rejected"
  <2>1. Becomes(b, [call[b] EXCEPT !.pc = "Failed", !.reply = "none"])
    BY <1>8 DEF Receive, Failure
  <2> QED  BY <1>1, <1>3, <2>1, Goes DEF Results
<1>9. CASE call[b].reply = "unavailable"
  <2>1. Becomes(b, Retried(b, "Failed"))
    BY <1>9 DEF Receive, Failure
  <2>2. LET r == Retried(b, "Failed") IN
          /\ r \in Calls /\ Knows(b, r) /\ WithinBudget(b, r)
          /\ r.number = call[b].number /\ r.op = call[b].op /\ r.droplet = call[b].droplet
    BY <1>1, Goes DEF Results
  <2> QED  BY <1>1, <1>2, <2>1, <2>2, CallMoves
<1> QED  BY <1>4, <1>5, <1>6, <1>7, <1>8, <1>9 DEF Receive

\* An attempt timed out.
LEMMA TimeOutStep ==
    ASSUME ClientInv, NEW b \in Bots, TimeOut(b), UNCHANGED trouble
    PROVE  ClientInv'
<1>1. /\ call[b] \in Calls /\ call[b].pc = "wait" /\ "timeout" \in trouble
      /\ UNCHANGED <<tables, cloud, net, trouble>> /\ Becomes(b, Retried(b, "Failed"))
  BY DEF ClientInv, ClientTypeOK, TimeOut
<1>2. call[b].number <= call[b].number /\ Busy(b)
  BY <1>1, ClientAssumption DEF Calls, Busy
<1>3. LET r == Retried(b, "Failed") IN
        /\ r \in Calls /\ Knows(b, r) /\ WithinBudget(b, r)
        /\ r.number = call[b].number /\ r.op = call[b].op /\ r.droplet = call[b].droplet
  BY <1>1, Goes DEF Results
<1> QED  BY <1>1, <1>2, <1>3, CallMoves

\* A call returned.
LEMMA ReturnStep ==
    ASSUME ClientInv, NEW b \in Bots, Return(b), UNCHANGED trouble
    PROVE  ClientInv'
<1> DEFINE r == [NoCall EXCEPT !.number = call[b].number]
<1>1. /\ call[b] \in Calls /\ call[b].pc \in Results /\ WithinBudget(b, call[b])
      /\ UNCHANGED <<tables, cloud, net, trouble>> /\ Becomes(b, r)
  BY DEF ClientInv, ClientTypeOK, Return, Budget
<1>2. /\ r.pc = "idle" /\ r.op = "none" /\ r.reply = "none" /\ r.number = call[b].number
      /\ r \in Calls
  BY <1>1, NoCallType DEF NoCall, Calls
<1>3. call[b].number <= r.number
  BY <1>1, <1>2, ClientAssumption DEF Calls
<1> HIDE DEF r
<1>4. Knows(b, r)
  BY <1>2 DEF Knows, Says
<1>5. WithinBudget(b, r)
  <2>1. Posted(r) = 3 /\ Posted(call[b]) \in 0 .. 3
    BY <1>1, <1>2, PostedAtMost DEF Posted, MAX_RETRIES
  <2>2. Cardinality(Made(b)) \in Nat /\ Cardinality(Pending(b)) \in Nat
    BY <1>1, FS_CardinalityType DEF WithinBudget
  <2> QED  BY <1>1, <2>1, <2>2 DEF WithinBudget
<1>6. call[b].pc # "wait" /\ r.pc \notin {"send", "wait"}
  BY <1>1, <1>2 DEF Results
<1> QED  BY <1>1, <1>2, <1>3, <1>4, <1>5, <1>6, CallMoves

----------------------------------------------------------------------------
(* The steps of DigitalOcean.                                               *)

\* What carrying out a request does: it creates an unused droplet, or changes the power
\* of the one it is about.
LEMMA Carried ==
    ASSUME ClientInv, NEW m \in net, NEW d, Accepts(m), cloud' = Done(m, d),
           IF m.op = "create" THEN d \in Unused ELSE d = m.droplet
    PROVE  /\ d \in Droplets /\ cloud' \in [Droplets -> CloudRows]
           /\ \A x \in Droplets : x # d => cloud'[x] = cloud[x]
           /\ cloud'[d].power # "none"
           /\ m.op = "create" => cloud[d].power = "none" /\ cloud'[d].bot = m.bot
           /\ m.op # "create" => cloud'[d].bot = cloud[d].bot /\ IsUp(d)
           /\ m.op = "destroy" => cloud'[d].power = "gone"
           /\ m.op = "shutdown" => cloud'[d].power \in {"stopping", "off"}
           /\ m.op = "reboot" => cloud'[d].power = "active"
<1>1. /\ m \in Requests /\ cloud \in [Droplets -> CloudRows]
      /\ m.op # "create" => d \in Droplets
  BY DEF ClientInv, ClientTypeOK, CloudTypeOK, NetKnown, Made
<1>2. m.bot \in Bots /\ m.op \in Ops
  BY <1>1 DEF Requests
<1>3. CASE m.op = "create"
  <2>1. cloud' = [cloud EXCEPT ![d] = [power |-> "new", bot |-> m.bot, token |-> 0]]
    BY <1>3 DEF Done, Created
  <2>2. d \in Droplets /\ cloud[d].power = "none"
    BY <1>3 DEF Unused
  <2>3. [power |-> "new", bot |-> m.bot, token |-> 0] \in CloudRows
    BY <1>2 DEF CloudRows, Powers
  <2> QED  BY <1>1, <1>3, <2>1, <2>2, <2>3
<1>4. CASE m.op # "create"
  <2>1. IsUp(d) /\ d \in Droplets /\ cloud[d] \in CloudRows
    BY <1>1, <1>4 DEF Accepts
  <2>2. \A power \in Powers :
           /\ WithPower(d, power) \in [Droplets -> CloudRows]
           /\ \A x \in Droplets : x # d => WithPower(d, power)[x] = cloud[x]
           /\ WithPower(d, power)[d].power = power
           /\ WithPower(d, power)[d].bot = cloud[d].bot
    BY <1>1, <2>1 DEF WithPower, CloudRows
  <2>3. CASE m.op = "get"
    BY <1>1, <2>1, <2>3 DEF Done, IsUp
  <2>4. CASE m.op = "destroy"
    BY <1>1, <2>1, <2>2, <2>4 DEF Done, Destroyed, Powers
  <2>5. CASE m.op = "shutdown"
    <3>1. cloud' = ShutDown(d)
      BY <2>5 DEF Done
    <3>2. CASE cloud[d].power \in {"new", "active"}
      BY <1>1, <2>1, <2>2, <2>5, <3>1, <3>2 DEF ShutDown, Powers
    <3>3. CASE cloud[d].power \notin {"new", "active"}
      BY <1>1, <2>1, <2>5, <3>1, <3>3 DEF ShutDown, IsUp, CloudRows, Powers
    <3> QED  BY <3>2, <3>3
  <2>6. CASE m.op = "reboot"
    BY <1>1, <2>1, <2>2, <2>6 DEF Done, Rebooted, Powers
  <2> QED  BY <1>2, <1>4, <2>3, <2>4, <2>5, <2>6 DEF Ops
<1> QED  BY <1>3, <1>4

\* Handling a request changes nothing or carries it out, and the reply, should the call
\* still wait for it, says which: a success was carried out, and a droplet that was not
\* found is not up.
LEMMA HandleDoes ==
    ASSUME ClientInv, NEW m \in net, Handle(m)
    PROVE  \E status \in Statuses, d \in Droplets \cup {NoDroplet} :
             /\ Answered(m, status, d)
             /\ m.op # "create" => d = m.droplet
             /\ \/ cloud' = cloud /\ status # "success"
                \/ /\ Accepts(m)
                   /\ \E e \in Droplets :
                        /\ IF m.op = "create" THEN e \in Unused ELSE e = m.droplet
                        /\ cloud' = Done(m, e)
                        /\ status = "success" => d = e
                        /\ status # "not_found"
             /\ status = "not_found" => m.op # "create" /\ ~IsUp(m.droplet)
<1>1. m \in Requests /\ m.droplet \in Droplets \cup {NoDroplet}
  BY DEF ClientInv, ClientTypeOK, Requests
<1>2. CASE UNCHANGED cloud /\ ~Accepts(m)
           /\ Answered(m, IF m.op = "create" THEN "rejected" ELSE "not_found", m.droplet)
  BY <1>1, <1>2 DEF Statuses, Accepts
<1>3. CASE UNCHANGED cloud /\ Answered(m, "rate_limited", m.droplet)
  BY <1>1, <1>3 DEF Statuses
<1>4. CASE UNCHANGED cloud /\ Answered(m, "unavailable", m.droplet)
  BY <1>1, <1>4 DEF Statuses
<1>5. CASE UNCHANGED cloud /\ Answered(m, "rejected", m.droplet)
  BY <1>1, <1>5 DEF Statuses
<1>6. ASSUME NEW e, e = (IF m.op = "create" THEN CHOOSE x \in Unused : TRUE ELSE m.droplet),
             Accepts(m), cloud' = Done(m, e),
             Answered(m, "success", e) \/ Answered(m, "unavailable", m.droplet)
      PROVE  \E status \in Statuses, d \in Droplets \cup {NoDroplet} :
               /\ Answered(m, status, d)
               /\ m.op # "create" => d = m.droplet
               /\ \/ cloud' = cloud /\ status # "success"
                  \/ /\ Accepts(m)
                     /\ \E x \in Droplets :
                          /\ IF m.op = "create" THEN x \in Unused ELSE x = m.droplet
                          /\ cloud' = Done(m, x)
                          /\ status = "success" => d = x
                          /\ status # "not_found"
               /\ status = "not_found" => m.op # "create" /\ ~IsUp(m.droplet)
  <2>1. IF m.op = "create" THEN e \in Unused ELSE e = m.droplet
    BY <1>6 DEF Accepts
  <2>2. e \in Droplets
    BY <2>1 DEF Unused, ClientInv, NetKnown, Made
  <2>3. CASE Answered(m, "success", e)
    BY <1>6, <2>1, <2>2, <2>3 DEF Statuses
  <2>4. CASE Answered(m, "unavailable", m.droplet)
    BY <1>1, <1>6, <2>1, <2>2, <2>4 DEF Statuses
  <2> QED  BY <1>6, <2>3, <2>4
<1> QED  BY <1>2, <1>3, <1>4, <1>5, <1>6 DEF Handle

\* A request is handled.
LEMMA HandleStep ==
    ASSUME ClientInv, NEW m \in net, Handle(m), UNCHANGED trouble
    PROVE  ClientInv'
<1> DEFINE b == m.bot
<1>1. /\ call \in [Bots -> Calls] /\ net \subseteq Requests /\ m \in Requests /\ b \in Bots
      /\ cloud \in [Droplets -> CloudRows]
      /\ net' = net \ {m} /\ UNCHANGED tables
  BY DEF ClientInv, ClientTypeOK, CloudTypeOK, Handle, Requests
<1>2. PICK status \in Statuses, d \in Droplets \cup {NoDroplet} :
             /\ Answered(m, status, d)
             /\ m.op # "create" => d = m.droplet
             /\ \/ cloud' = cloud /\ status # "success"
                \/ /\ Accepts(m)
                   /\ \E e \in Droplets :
                        /\ IF m.op = "create" THEN e \in Unused ELSE e = m.droplet
                        /\ cloud' = Done(m, e)
                        /\ status = "success" => d = e
                        /\ status # "not_found"
             /\ status = "not_found" => m.op # "create" /\ ~IsUp(m.droplet)
  BY HandleDoes
<1> DEFINE r == IF WaitsFor(m) THEN [call[b] EXCEPT !.reply = status, !.droplet = d]
                               ELSE call[b]
           Effect(e) == /\ e \in Droplets
                        /\ \A x \in Droplets : x # e => cloud'[x] = cloud[x]
                        /\ cloud'[e].power # "none"
                        /\ m.op = "create" => cloud[e].power = "none" /\ cloud'[e].bot = m.bot
                        /\ m.op # "create" => cloud'[e].bot = cloud[e].bot /\ IsUp(e)
                                              /\ e = m.droplet
                        /\ m.op = "destroy" => cloud'[e].power = "gone"
                        /\ m.op = "shutdown" => cloud'[e].power \in {"stopping", "off"}
                        /\ m.op = "reboot" => cloud'[e].power = "active"
                        /\ status = "success" => d = e
                        /\ status # "not_found"
<1>3. /\ call'[b] = r /\ \A x \in Bots : x # b => call'[x] = call[x]
      /\ call' \in [Bots -> Calls]
  <2>1. r \in Calls
    <3>1. call[b] \in Calls /\ status \in Statuses \cup {"none"} /\ d \in Droplets \cup {NoDroplet}
      BY <1>1
    <3>2. \A x \in Calls, s \in Statuses \cup {"none"}, e \in Droplets \cup {NoDroplet} :
             [x EXCEPT !.reply = s, !.droplet = e] \in Calls
      BY DEF Calls
    <3> QED  BY <3>1, <3>2
  <2>2. call' = [call EXCEPT ![b] = r]
    <3>1. CASE WaitsFor(m)
      <4>1. [call EXCEPT ![m.bot].reply = status, ![m.bot].droplet = d]
              = [call EXCEPT ![b] = [call[b] EXCEPT !.reply = status, !.droplet = d]]
        BY <1>1
      <4> QED  BY <1>2, <3>1, <4>1 DEF Answered
    <3>2. CASE ~WaitsFor(m)
      BY <1>1, <1>2, <3>2 DEF Answered
    <3> QED  BY <3>1, <3>2
  <2> QED  BY <1>1, <2>1, <2>2
<1>4. /\ r.pc = call[b].pc /\ r.op = call[b].op /\ r.number = call[b].number
      /\ r.attempt = call[b].attempt
      /\ WaitsFor(m) => /\ r.reply = status /\ r.droplet = d /\ call[b].pc = "wait"
                        /\ m.op = call[b].op
                        /\ m.op # "create" => m.droplet = call[b].droplet
      /\ ~WaitsFor(m) => r = call[b]
  BY <1>1 DEF WaitsFor, Calls, ClientInv, NetKnown, Busy
<1>5. cloud' \in [Droplets -> CloudRows]
      /\ ((cloud' = cloud /\ status # "success") \/ \E e \in Droplets : Effect(e))
  BY <1>1, <1>2, Carried
<1> HIDE DEF r
<1>6. ClientTypeOK'
  BY <1>1, <1>3, <1>5 DEF ClientInv, ClientTypeOK, StoreTypeOK, CloudTypeOK, tables
<1>7. UnusedIsNobodys'
  <2>1. CASE cloud' = cloud
    BY <2>1 DEF ClientInv, UnusedIsNobodys
  <2>2. ASSUME NEW e \in Droplets, Effect(e) PROVE UnusedIsNobodys'
    BY <2>2 DEF ClientInv, UnusedIsNobodys
  <2> QED  BY <1>5, <2>1, <2>2
<1>8. \A x \in Bots : Made(x) \subseteq Made(x)'
  <2>1. CASE cloud' = cloud
    BY <2>1 DEF Made
  <2>2. ASSUME NEW e \in Droplets, Effect(e) PROVE \A x \in Bots : Made(x) \subseteq Made(x)'
    BY <2>2, MadeIsUsed DEF Made
  <2> QED  BY <1>5, <2>1, <2>2
<1>9. NetKnown'
  <2> SUFFICES ASSUME NEW n \in net
               PROVE  /\ 1 <= n.number /\ n.number <= call'[n.bot].number
                      /\ n.op # "create" => n.droplet \in Made(n.bot)'
                      /\ n.number = call'[n.bot].number /\ Busy(n.bot)' =>
                           /\ n.op = call'[n.bot].op
                           /\ n.op # "create" => n.droplet = call'[n.bot].droplet
    BY <1>1 DEF NetKnown
  <2>1. /\ 1 <= n.number /\ n.number <= call[n.bot].number
        /\ n.op # "create" => n.droplet \in Made(n.bot)
        /\ n.number = call[n.bot].number /\ Busy(n.bot) =>
             /\ n.op = call[n.bot].op
             /\ n.op # "create" => n.droplet = call[n.bot].droplet
        /\ n.bot \in Bots
    BY <1>1 DEF ClientInv, NetKnown, Requests
  <2>2. n.op # "create" => n.droplet \in Made(n.bot)'
    BY <1>8, <2>1
  <2>3. CASE n.bot = b /\ WaitsFor(m)
    BY <1>2, <1>3, <1>4, <2>1, <2>2, <2>3 DEF Busy
  <2>4. CASE ~(n.bot = b /\ WaitsFor(m))
    <3>1. call'[n.bot] = call[n.bot]
      BY <1>3, <1>4, <2>1, <2>4
    <3> QED  BY <2>1, <2>2, <3>1 DEF Busy
  <2> QED  BY <2>3, <2>4
<1>10. ASSUME NEW x \in Bots, NEW s, s = call[x], Knows(x, s) PROVE Knows(x, s)'
  <2>1. CASE cloud' = cloud
    BY <1>1, <1>10, <2>1 DEF Knows, Says, IsUp, HasPower, Made
  <2>2. ASSUME NEW e \in Droplets, Effect(e) PROVE Knows(x, s)'
    <3>1. s.droplet \in Made(x) => s.droplet \in Made(x)'
      BY <1>8
    <3>2. s.droplet \in Made(x) /\ ~IsUp(s.droplet) => ~IsUp(s.droplet)'
      <4>1. CASE e = s.droplet
        BY <2>2, <4>1, MadeIsUsed DEF IsUp
      <4>2. CASE e # s.droplet
        BY <2>2, <4>2, MadeIsUsed DEF IsUp
      <4> QED  BY <4>1, <4>2
    <3>3. "timeout" \notin trouble /\ Says(s, "success", "ok") /\ s.op # "create"
            /\ s.droplet \in Made(x) => cloud'[s.droplet] = cloud[s.droplet]
      <4> SUFFICES ASSUME "timeout" \notin trouble, Says(s, "success", "ok"), s.op # "create",
                          s.droplet \in Made(x)
                   PROVE  cloud'[s.droplet] = cloud[s.droplet]
        OBVIOUS
      <4>1. call[b].pc = "wait" /\ call[b].reply = "none"
        BY DEF ClientInv, Punctual
      <4>2. x # b
        BY <1>10, <4>1 DEF Says
      <4>3. e # s.droplet
        <5>1. CASE m.op = "create"
          BY <2>2, <5>1, MadeIsUsed
        <5>2. CASE m.op # "create"
          <6>1. e \in Made(b)
            BY <2>2, <5>2 DEF ClientInv, NetKnown
          <6> QED  BY <4>2, <6>1 DEF Made
        <5> QED  BY <5>1, <5>2
      <4> QED  BY <2>2, <4>3, MadeIsUsed
    <3>4. "timeout" \notin trouble /\ Says(s, "success", "ok") => HasPower(s)'
      BY <1>10, <3>3 DEF HasPower, Knows
    <3>5. Says(s, "success", "ok") \/ Says(s, "not_found", "NotFound") => s.op # "none"
      BY <1>10 DEF Knows, Says
    <3> QED  BY <1>10, <3>1, <3>2, <3>4, <3>5 DEF Knows, Says
  <2> QED  BY <1>5, <2>1, <2>2
<1>11. CallsKnow'
  <2> SUFFICES ASSUME NEW x \in Bots PROVE Knows(x, call[x])'
    BY DEF CallsKnow
  <2>1. Knows(x, call[x])
    BY DEF ClientInv, CallsKnow
  <2>2. CASE ~(x = b /\ WaitsFor(m))
    <3>1. PICK s : s = call[x]
      OBVIOUS
    <3>2. Knows(x, s)'
      BY <1>10, <2>1, <3>1
    <3>3. call'[x] = s
      BY <1>3, <1>4, <2>2, <3>1
    <3> QED  BY <3>2, <3>3 DEF Knows, Says, HasPower
  <2>3. CASE x = b /\ WaitsFor(m)
    <3>1. /\ r.pc = "wait" /\ r.op = m.op /\ r.reply = status /\ r.droplet = d
          /\ 1 <= r.number /\ m.op # "none"
      <4>1. m.op # "none" /\ call[b].pc = "wait"
        BY <1>1, <1>4, <2>3 DEF Requests, Ops
      <4>2. 1 <= call[b].number
        BY <2>1, <2>3, <4>1 DEF Knows
      <4> QED  BY <1>4, <2>3, <4>1, <4>2
    <3>2. m.op # "create" => d = m.droplet /\ d \in Made(b)'
      BY <1>1, <1>2, <1>8 DEF ClientInv, NetKnown
    <3>3. ASSUME status = "success"
          PROVE  /\ m.op = "create" => d \in Made(b)'
                 /\ m.op = "destroy" => ~IsUp(d)'
                 /\ m.op = "shutdown" => cloud'[d].power \in {"stopping", "off"}
                 /\ m.op = "reboot" => cloud'[d].power = "active"
      <4>1. PICK e \in Droplets : Effect(e)
        BY <1>5, <3>3
      <4>2. d = e
        BY <3>3, <4>1
      <4> QED  BY <4>1, <4>2 DEF Made, IsUp
    <3>4. ASSUME status = "not_found" PROVE ~IsUp(d)'
      BY <1>2, <1>5, <3>4 DEF IsUp
    <3> QED  BY <1>3, <2>3, <3>1, <3>2, <3>3, <3>4 DEF Knows, Says, HasPower
  <2> QED  BY <2>2, <2>3
<1>12. Budget'
  <2> SUFFICES ASSUME NEW x \in Bots PROVE WithinBudget(x, call[x])'
    BY DEF Budget
  <2>1. WithinBudget(x, call[x])
    BY DEF ClientInv, Budget
  <2>2. Posted(call[x])' = Posted(call[x])
    BY <1>3, <1>4 DEF Posted
  <2>3. /\ Cardinality(Made(x)) \in Nat /\ Cardinality(Pending(x)) \in Nat
        /\ call[x] \in Calls
    BY <1>1, <2>1, FS_CardinalityType DEF WithinBudget
  <2>4. Posted(call[x]) \in 0 .. 3
    BY <2>3, PostedAtMost DEF MAX_RETRIES
  <2>5. CASE x = b /\ m.op = "create"
    <3>1. Pending(b)' = Pending(b) \ {m} /\ m \in Pending(b)
      BY <1>1, <2>5 DEF Pending
    <3>2. IsFiniteSet(Pending(b)') /\ Cardinality(Pending(b)') = Cardinality(Pending(b)) - 1
      BY <2>1, <2>5, <3>1, FS_RemoveElement DEF WithinBudget
    <3>3. \E e : Made(b)' \subseteq Made(b) \cup {e}
      <4>1. CASE cloud' = cloud
        BY <4>1 DEF Made
      <4>2. ASSUME NEW e \in Droplets, Effect(e) PROVE Made(b)' \subseteq Made(b) \cup {e}
        BY <4>2 DEF Made
      <4> QED  BY <1>5, <4>1, <4>2
    <3>4. IsFiniteSet(Made(b)') /\ Cardinality(Made(b)') \in Nat
          /\ Cardinality(Made(b)') <= Cardinality(Made(b)) + 1
      <4>1. PICK e : Made(b)' \subseteq Made(b) \cup {e}
        BY <3>3
      <4>2. /\ IsFiniteSet(Made(b) \cup {e})
            /\ \/ Cardinality(Made(b) \cup {e}) = Cardinality(Made(b))
               \/ Cardinality(Made(b) \cup {e}) = Cardinality(Made(b)) + 1
        BY <2>1, <2>5, FS_AddElement DEF WithinBudget
      <4>3. /\ IsFiniteSet(Made(b)')
            /\ Cardinality(Made(b)') <= Cardinality(Made(b) \cup {e})
        BY <4>1, <4>2, FS_Subset
      <4> QED  BY <2>3, <2>5, <4>2, <4>3, FS_CardinalityType
    <3> QED  BY <2>1, <2>2, <2>3, <2>4, <2>5, <3>2, <3>4 DEF WithinBudget
  <2>6. CASE ~(x = b /\ m.op = "create")
    <3>1. Pending(x)' = Pending(x)
      BY <1>1, <2>6 DEF Pending
    <3>2. Made(x)' = Made(x)
      <4>1. CASE cloud' = cloud
        BY <4>1 DEF Made
      <4>2. ASSUME NEW e \in Droplets, Effect(e) PROVE Made(x)' = Made(x)
        <5>1. CASE m.op = "create"
          <6>1. x # b
            BY <2>6, <5>1
          <6>2. e \notin Made(x) /\ e \notin Made(x)'
            BY <4>2, <5>1, <6>1, MadeIsUsed DEF Made
          <6> QED  BY <4>2, <6>2 DEF Made
        <5>2. CASE m.op # "create"
          BY <4>2, <5>2 DEF Made
        <5> QED  BY <5>1, <5>2
      <4> QED  BY <1>5, <4>1, <4>2
    <3> QED  BY <2>1, <2>2, <3>1, <3>2 DEF WithinBudget
  <2> QED  BY <2>5, <2>6
<1>13. Punctual'
  <2> SUFFICES ASSUME "timeout" \notin trouble, NEW n \in net, n # m
               PROVE  call'[n.bot].pc = "wait" /\ call'[n.bot].reply = "none"
                      /\ n = Sent(n.bot)'
    BY <1>1 DEF Punctual
  <2>1. /\ call[n.bot].pc = "wait" /\ call[n.bot].reply = "none" /\ n = Sent(n.bot)
        /\ m = Sent(b) /\ n.bot \in Bots
    BY <1>1 DEF ClientInv, Punctual, Requests
  <2>2. n.bot # b
    BY <2>1
  <2>3. call'[n.bot] = call[n.bot]
    BY <1>3, <2>1, <2>2
  <2> QED  BY <2>1, <2>3 DEF Sent
<1> QED  BY <1>6, <1>7, <1>9, <1>11, <1>12, <1>13 DEF ClientInv

\* A droplet boots, or finishes its shutdown, by itself.
LEMMA CloudStep ==
    ASSUME ClientInv, NEW d \in Droplets, Boot(d) \/ PowerOff(d),
           UNCHANGED <<call, net, trouble>>
    PROVE  ClientInv'
<1>1. cloud \in [Droplets -> CloudRows] /\ UNCHANGED tables
  BY DEF ClientInv, ClientTypeOK, CloudTypeOK, Boot, PowerOff
<1>2. /\ cloud' \in [Droplets -> CloudRows]
      /\ \A x \in Droplets : x # d => cloud'[x] = cloud[x]
      /\ cloud'[d].bot = cloud[d].bot
      /\ \/ cloud[d].power = "new" /\ cloud'[d].power = "active"
         \/ cloud[d].power = "stopping" /\ cloud'[d].power = "off"
  BY <1>1 DEF Boot, PowerOff, WithPower, CloudRows, Powers
<1>3. \A x \in Bots : Made(x)' = Made(x) /\ Pending(x)' = Pending(x)
  BY <1>2 DEF Made, Pending
<1>4. \A x \in Droplets : IsUp(x)' = IsUp(x)
  BY <1>2 DEF IsUp
<1>5. ClientTypeOK'
  BY <1>1, <1>2 DEF ClientInv, ClientTypeOK, StoreTypeOK, CloudTypeOK, tables
<1>6. UnusedIsNobodys'
  BY <1>2 DEF ClientInv, UnusedIsNobodys
<1>7. NetKnown'
  <2>1. net \subseteq Requests
    BY DEF ClientInv, ClientTypeOK
  <2> QED  BY <1>3, <2>1 DEF ClientInv, NetKnown, Busy, Requests
<1>8. CallsKnow'
  <2> SUFFICES ASSUME NEW x \in Bots PROVE Knows(x, call[x])'
    BY DEF CallsKnow
  <2>1. Knows(x, call[x])
    BY DEF ClientInv, CallsKnow
  <2>2. call[x].droplet \in Made(x) => call[x].droplet \in Droplets
    BY DEF Made
  <2>3. call[x].droplet \in Droplets /\ HasPower(call[x]) => HasPower(call[x])'
    BY <1>2 DEF HasPower
  <2>4. Says(call[x], "success", "ok") /\ call[x].op = "create"
          => (HasPower(call[x]))'
    BY DEF HasPower
  <2>5. Says(call[x], "success", "ok") => call[x].op # "none"
    BY <2>1 DEF Knows, Says
  <2>6. Says(call[x], "not_found", "NotFound") => call[x].op # "none"
    BY <2>1 DEF Knows, Says
  <2> QED  BY <1>3, <1>4, <2>1, <2>2, <2>3, <2>4, <2>5, <2>6 DEF Knows, Says
<1>9. Budget'
  BY <1>3 DEF ClientInv, Budget, WithinBudget, Posted
<1>10. Punctual'
  BY DEF ClientInv, Punctual, Sent
<1> QED  BY <1>5, <1>6, <1>7, <1>8, <1>9, <1>10 DEF ClientInv

----------------------------------------------------------------------------
(* The theorems.                                                            *)

\* A bot starts with no droplet, or with the one of an earlier spawn.
LEMMA InitClientInv == ClientInit => ClientInv
<1> SUFFICES ASSUME ClientInit PROVE ClientInv
  OBVIOUS
<1>1. PICK had \in SUBSET Bots, first \in {f \in [Bots -> Droplets] :
                                              \A x, y \in Bots : x # y => f[x] # f[y]} :
         cloud = [d \in Droplets |->
                    IF \E b \in had : first[b] = d
                    THEN [power |-> "active", bot |-> CHOOSE b \in had : first[b] = d, token |-> 0]
                    ELSE [power |-> "none", bot |-> NoBot, token |-> 0]]
  BY DEF ClientInit
<1>2. /\ call = [b \in Bots |-> NoCall] /\ net = {} /\ trouble \in Weathers /\ StoreInit
  BY DEF ClientInit
<1>3. ASSUME NEW d \in Droplets
      PROVE  \/ /\ cloud[d].power = "active" /\ cloud[d].bot \in Bots
                /\ first[cloud[d].bot] = d /\ cloud[d] \in CloudRows
             \/ /\ cloud[d].power = "none" /\ cloud[d].bot = NoBot /\ cloud[d] \in CloudRows
  <2>1. CASE \E b \in had : first[b] = d
    <3> DEFINE b == CHOOSE x \in had : first[x] = d
    <3>1. b \in had /\ first[b] = d
      BY <2>1
    <3>2. cloud[d] = [power |-> "active", bot |-> b, token |-> 0]
      BY <1>1, <2>1
    <3> HIDE DEF b
    <3> QED  BY <3>1, <3>2 DEF CloudRows, Powers
  <2>2. CASE ~\E b \in had : first[b] = d
    BY <1>1, <2>2 DEF CloudRows, Powers
  <2> QED  BY <2>1, <2>2
<1>4. StoreTypeOK
  <2>1. NoBotRow \in BotRows
    BY DEF NoBotRow, BotRows
  <2>2. [tier |-> "none", current_count |-> 0] \in AccountRows
    BY DEF AccountRows, Tiers
  <2>3. [status |-> "absent", bot |-> NoBot] \in DropletRows
    BY DEF DropletRows
  <2> QED  BY <1>2, <2>1, <2>2, <2>3 DEF StoreInit, StoreTypeOK
<1>5. ClientTypeOK
  <2>1. cloud \in [Droplets -> CloudRows]
    BY <1>1, <1>3
  <2> QED  BY <1>2, <1>4, <2>1, NoCallType DEF ClientTypeOK, CloudTypeOK
<1>6. UnusedIsNobodys
  BY <1>3 DEF UnusedIsNobodys
<1>7. NetKnown /\ Punctual
  BY <1>2 DEF NetKnown, Punctual
<1>8. CallsKnow
  BY <1>2 DEF CallsKnow, Knows, Says, NoCall
<1>9. Budget
  <2> SUFFICES ASSUME NEW b \in Bots PROVE WithinBudget(b, call[b])
    BY DEF Budget
  <2>1. Pending(b) = {}
    BY <1>2 DEF Pending
  <2>2. Made(b) \subseteq {first[b]}
    BY <1>3, StoreAssumption DEF Made
  <2>3. IsFiniteSet(Made(b)) /\ Cardinality(Made(b)) \in 0 .. 1
    <3>1. IsFiniteSet({first[b]}) /\ Cardinality({first[b]}) = 1
      BY FS_Singleton
    <3>2. IsFiniteSet(Made(b)) /\ Cardinality(Made(b)) <= 1
      BY <2>2, <3>1, FS_Subset
    <3> QED  BY <3>2, FS_CardinalityType
  <2>4. Posted(call[b]) = 3
    BY <1>2 DEF NoCall, Posted, MAX_RETRIES
  <2> QED  BY <2>1, <2>3, <2>4, FS_EmptySet DEF WithinBudget
<1> QED  BY <1>5, <1>6, <1>7, <1>8, <1>9 DEF ClientInv

\* Every step keeps the invariant.
LEMMA NextClientInv == ClientInv /\ [ClientNext]_clientVars => ClientInv'
<1> SUFFICES ASSUME ClientInv, [ClientNext]_clientVars PROVE ClientInv'
  OBVIOUS
<1>1. CASE UNCHANGED clientVars
  <2> USE <1>1 DEF clientVars, tables, ClientInv
  <2>1. ClientTypeOK'
    BY DEF ClientTypeOK, StoreTypeOK, CloudTypeOK
  <2>2. UnusedIsNobodys' /\ Punctual'
    BY DEF UnusedIsNobodys, Punctual, Sent, Busy
  <2>3. NetKnown'
    BY DEF NetKnown, Made, Busy
  <2>4. CallsKnow'
    BY DEF CallsKnow, Knows, Made, Says, HasPower, IsUp
  <2>5. Budget'
    BY DEF Budget, WithinBudget, Made, Pending, Posted
  <2> QED  BY <2>1, <2>2, <2>3, <2>4, <2>5
<1>2. ASSUME NEW b \in Bots, NEW op \in Ops, NEW d \in Droplets \cup {NoDroplet},
             Begin(b, op, d), UNCHANGED trouble
      PROVE  ClientInv'
  BY <1>2, BeginStep
<1>3. ASSUME NEW b \in Bots, Send(b) \/ Receive(b) \/ TimeOut(b) \/ Return(b),
             UNCHANGED trouble
      PROVE  ClientInv'
  BY <1>3, SendStep, ReceiveStep, TimeOutStep, ReturnStep
<1>4. ASSUME NEW m \in net, Handle(m), UNCHANGED trouble PROVE ClientInv'
  BY <1>4, HandleStep
<1>5. ASSUME NEW d \in Droplets, (Boot(d) \/ PowerOff(d)) /\ UNCHANGED <<call, net>>,
             UNCHANGED trouble
      PROVE  ClientInv'
  BY <1>5, CloudStep
<1> QED  BY <1>1, <1>2, <1>3, <1>4, <1>5 DEF ClientNext

\* The client and the service keep their types in every reachable state.
THEOREM ClientTypeCorrect == ClientSpec => []ClientTypeOK
<1>1. ClientInv => ClientTypeOK
  BY DEF ClientInv
<1> QED  BY <1>1, InitClientInv, NextClientInv, PTL DEF ClientSpec

\* However many attempts of a creation the network delays or answers in the service's
\* place, the bot has at most as many droplets as the creation had attempts
\* (send_with_retry, create_droplet).
THEOREM CreatedAtMostHolds == ClientSpec => []CreatedAtMost
<1>1. ClientInv => CreatedAtMost
  <2> SUFFICES ASSUME ClientInv, NEW b \in Bots PROVE Cardinality(Made(b)) <= MAX_RETRIES
    BY DEF CreatedAtMost
  <2>1. WithinBudget(b, call[b]) /\ call[b] \in Calls
    BY DEF ClientInv, Budget, ClientTypeOK
  <2>2. Posted(call[b]) \in 0 .. 3
    BY <2>1, PostedAtMost DEF MAX_RETRIES
  <2>3. Cardinality(Made(b)) \in Nat /\ Cardinality(Pending(b)) \in Nat
    BY <2>1, FS_CardinalityType DEF WithinBudget
  <2> QED  BY <2>1, <2>2, <2>3 DEF WithinBudget, MAX_RETRIES
<1> QED  BY <1>1, InitClientInv, NextClientInv, PTL DEF ClientSpec

\* A call that returned without an error took effect, whichever of its attempts did it,
\* and nothing on its way undoes that: the droplet is destroyed, or was made for this bot.
THEOREM OkMeansDoneHolds == ClientSpec => []OkMeansDone
<1>1. ClientInv => OkMeansDone
  BY DEF ClientInv, CallsKnow, Knows, Says, OkMeansDone
<1> QED  BY <1>1, InitClientInv, NextClientInv, PTL DEF ClientSpec

\* NotFound is only said of a droplet that is gone, so destroy_bot and redeploy_bot may
\* take it for a success.
THEOREM NotFoundMeansGoneHolds == ClientSpec => []NotFoundMeansGone
<1>1. ClientInv => NotFoundMeansGone
  BY DEF ClientInv, CallsKnow, Knows, Says, NotFoundMeansGone
<1> QED  BY <1>1, InitClientInv, NextClientInv, PTL DEF ClientSpec

\* When no attempt times out, an answered shutdown or reboot is the last word about the
\* droplet's power: the only request on its way is the one that is waited for.
THEOREM PowerAsAskedHolds == ClientSpec => []PowerAsAsked
<1>1. ClientInv => PowerAsAsked
  BY DEF ClientInv, CallsKnow, Knows, Says, HasPower, PowerAsAsked
<1> QED  BY <1>1, InitClientInv, NextClientInv, PTL DEF ClientSpec
=============================================================================
