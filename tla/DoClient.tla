------------------------------ MODULE DoClient ------------------------------
(***************************************************************************)
(* DigitalOceanClient (src/infrastructure/digital_ocean.rs) at the grain   *)
(* of its HTTP attempts: the five calls, and send_with_retry under them,   *)
(* over a network that delays and loses requests and replies.  A request   *)
(* the client has given up on may still be on its way, and take effect     *)
(* after the next attempt, or after the call returned.                     *)
(*                                                                         *)
(* Provisioning takes a call for one step with one of three outcomes; the  *)
(* properties below say which of its assumptions the client keeps.         *)
(***************************************************************************)
EXTENDS DigitalOcean

CONSTANTS
    MaxCalls,   \* bound: the calls made for a bot, the first of which may create
    Weathers    \* what the network and the service may do to requests: a set of sets

ASSUME ClientAssumption == MaxCalls \in Nat

MAX_RETRIES == 3

VARIABLES
    call,   \* for each bot, the call that is made for it, of the bot's droplets
    net,    \* the requests DigitalOcean has not handled
    trouble \* what befalls the requests of this behaviour

clientVars == <<tables, cloud, call, net, trouble>>

Ops == {"create", "get", "destroy", "shutdown", "reboot"}

\* Classes of HTTP status.  "unavailable" is 500, 502 or 503 (is_retryable_status).
Statuses == {"success", "not_found", "rate_limited", "unavailable", "rejected"}

Results == {"ok", "NotFound", "RateLimited", "Failed", "InvalidResponse"}

Calls == [pc      : {"idle", "send", "wait"} \cup Results,
          op      : Ops \cup {"none"},
          droplet : Droplets \cup {NoDroplet},   \* the argument, or the droplet created
          attempt : 0 .. MAX_RETRIES - 1,
          reply   : Statuses \cup {"none"},
          number  : 0 .. MaxCalls]

Requests == [bot : Bots, number : 0 .. MaxCalls, attempt : 0 .. MAX_RETRIES - 1,
             op : Ops, droplet : Droplets \cup {NoDroplet}]

ClientTypeOK == /\ StoreTypeOK /\ CloudTypeOK
                /\ call \in [Bots -> Calls] /\ net \subseteq Requests
                /\ trouble \in Weathers

NoCall == [pc |-> "idle", op |-> "none", droplet |-> NoDroplet, attempt |-> 0,
           reply |-> "none", number |-> 0]

\* Every bot may have a droplet of an earlier spawn.
ClientInit ==
    /\ StoreInit
    /\ \E had \in SUBSET Bots, first \in {f \in [Bots -> Droplets] :
                                             \A x, y \in Bots : x # y => f[x] # f[y]} :
         cloud = [d \in Droplets |->
                    IF \E b \in had : first[b] = d
                    THEN [power |-> "active", bot |-> CHOOSE b \in had : first[b] = d, token |-> 0]
                    ELSE [power |-> "none", bot |-> NoBot, token |-> 0]]
    /\ call = [b \in Bots |-> NoCall]
    /\ net = {}
    /\ trouble \in Weathers

Busy(b) == call[b].pc \in {"send", "wait"}

Becomes(b, r) == call' = [call EXCEPT ![b] = r]

Made(b) == {d \in Droplets : cloud[d].bot = b}

Begin(b, op, d) ==
    /\ call[b].pc = "idle"
    /\ call[b].number < MaxCalls
    /\ IF op = "create" THEN d = NoDroplet /\ call[b].number = 0 /\ Made(b) = {}
                        ELSE d \in Made(b)
    /\ Becomes(b, [NoCall EXCEPT !.pc = "send", !.op = op, !.droplet = d,
                                 !.number = call[b].number + 1])
    /\ UNCHANGED <<tables, cloud, net>>

----------------------------------------------------------------------------
(* send_with_retry                                                          *)

Send(b) ==
    /\ call[b].pc = "send"
    /\ net' = net \cup {[bot |-> b, number |-> call[b].number, attempt |-> call[b].attempt,
                         op |-> call[b].op, droplet |-> call[b].droplet]}
    /\ Becomes(b, [call[b] EXCEPT !.pc = "wait"])
    /\ UNCHANGED <<tables, cloud>>

\* The next attempt, after the backoff, or `giveUp` when this was the last one.
\* Mutation: one attempt too many.
RetriedOnceMore(b, giveUp) ==
    IF call[b].attempt < MAX_RETRIES
    THEN [call[b] EXCEPT !.pc = "send", !.attempt = @ + 1, !.reply = "none"]
    ELSE [call[b] EXCEPT !.pc = giveUp, !.reply = "none"]
\* Mutation: the attempts are not counted.
RetriedForever(b, giveUp) == [call[b] EXCEPT !.pc = "send", !.reply = "none"]
Retried(b, giveUp) ==
    IF call[b].attempt < MAX_RETRIES - 1
    THEN [call[b] EXCEPT !.pc = "send", !.attempt = @ + 1, !.reply = "none"]
    ELSE [call[b] EXCEPT !.pc = giveUp, !.reply = "none"]

\* Mutation: the status of a reply that is not retried any more is not looked at.
FailedUnchecked(b) == "ok"
\* Mutation: every error about a droplet is taken for its absence.
FailedAsAbsent(b) == IF call[b].op \in {"get", "destroy"} THEN "NotFound" ELSE "Failed"
\* A status that is no success and is not retried any more.
Failure(b) == "Failed"

\* What the call makes of a reply.
Receive(b) ==
    /\ call[b].pc = "wait"
    /\ \/ /\ call[b].reply = "success"
          /\ \E result \in {"ok"} \cup {r \in {"InvalidResponse"} :
                                "garbled" \in trouble /\ call[b].op \in {"create", "get"}} :
               Becomes(b, [call[b] EXCEPT !.pc = result, !.reply = "none"])
       \/ /\ call[b].reply = "rate_limited"
          /\ Becomes(b, [call[b] EXCEPT !.pc = "RateLimited", !.reply = "none"])
       \/ /\ call[b].reply = "not_found"
          /\ Becomes(b, [call[b] EXCEPT !.reply = "none",
                             !.pc = IF call[b].op \in {"get", "destroy"} THEN "NotFound"
                                    ELSE Failure(b)])
       \/ /\ call[b].reply = "unavailable"
          /\ Becomes(b, Retried(b, Failure(b)))
       \/ /\ call[b].reply = "rejected"
          /\ Becomes(b, [call[b] EXCEPT !.pc = Failure(b), !.reply = "none"])
    /\ UNCHANGED <<tables, cloud, net>>

\* A transport error: the 30 seconds are over, or the connection broke.
TimeOut(b) ==
    /\ "timeout" \in trouble
    /\ call[b].pc = "wait"
    /\ Becomes(b, Retried(b, "Failed"))
    /\ UNCHANGED <<tables, cloud, net>>

\* The service method returned; its caller goes on.
Return(b) ==
    /\ call[b].pc \in Results
    /\ Becomes(b, [NoCall EXCEPT !.number = call[b].number])
    /\ UNCHANGED <<tables, cloud, net>>

----------------------------------------------------------------------------
(* DigitalOcean handles a request; its reply reaches the client that still  *)
(* waits for it.                                                            *)

WaitsFor(m) == /\ call[m.bot].pc = "wait"
               /\ call[m.bot].number = m.number
               /\ call[m.bot].attempt = m.attempt

Answered(m, status, d) ==
    call' = IF WaitsFor(m) THEN [call EXCEPT ![m.bot].reply = status, ![m.bot].droplet = d]
                           ELSE call

Accepts(m) == IF m.op = "create" THEN Unused # {} ELSE IsUp(m.droplet)

\* The droplet that has to be there, and what becomes of it.
Done(m, d) == CASE m.op = "create" -> Created(d, m.bot, 0)
                [] m.op = "get" -> cloud
                [] m.op = "destroy" -> Destroyed(d)
                [] m.op = "shutdown" -> ShutDown(d)
                [] m.op = "reboot" -> Rebooted(d)

Handle(m) ==
    /\ m \in net
    /\ net' = net \ {m}
    /\ \/ \* carried out; a gateway may still answer 502 in its place
          /\ Accepts(m)
          /\ LET d == IF m.op = "create" THEN CHOOSE x \in Unused : TRUE ELSE m.droplet
             IN  /\ cloud' = Done(m, d)
                 /\ \/ Answered(m, "success", d)
                    \/ "gateway" \in trouble /\ Answered(m, "unavailable", m.droplet)
       \/ \* not carried out
          /\ UNCHANGED cloud
          /\ \/ ~Accepts(m) /\ Answered(m, IF m.op = "create" THEN "rejected" ELSE "not_found",
                                        m.droplet)
             \/ "rate_limit" \in trouble /\ Answered(m, "rate_limited", m.droplet)
             \/ "unavailable" \in trouble /\ Answered(m, "unavailable", m.droplet)
             \/ "reject" \in trouble /\ Answered(m, "rejected", m.droplet)
    /\ UNCHANGED tables

----------------------------------------------------------------------------

ClientNext ==
    /\ \/ \E b \in Bots :
            \/ \E op \in Ops, d \in Droplets \cup {NoDroplet} : Begin(b, op, d)
            \/ Send(b) \/ Receive(b) \/ TimeOut(b) \/ Return(b)
       \/ \E m \in net : Handle(m)
       \/ \E d \in Droplets : (Boot(d) \/ PowerOff(d)) /\ UNCHANGED <<call, net>>
    /\ UNCHANGED trouble

ClientSpec == ClientInit /\ [][ClientNext]_clientVars

\* The runtime polls the call; nothing makes DigitalOcean answer, but the timeout
\* of the HTTP client comes (CRIT-004).
FairClientSpec ==
    ClientSpec /\ \A b \in Bots : WF_clientVars((Send(b) \/ Receive(b) \/ TimeOut(b)) /\ UNCHANGED trouble)

----------------------------------------------------------------------------

\* A creation pays for at most as many droplets as it has attempts, though none of them
\* can be taken back and any may take effect after the client gave up on it.
CreatedAtMost == \A b \in Bots : Cardinality(Made(b)) <= MAX_RETRIES

\* A call that returned without an error took effect: a destroyed droplet is gone and a
\* created one was made for this bot, however many attempts it took.
OkMeansDone ==
    \A b \in Bots :
        call[b].pc = "ok" => CASE call[b].op = "destroy" -> ~IsUp(call[b].droplet)
                               [] call[b].op = "create" -> call[b].droplet \in Made(b)
                               [] OTHER -> TRUE

\* NotFound is only said of a droplet that is gone, by this call or another: destroy_bot
\* and redeploy_bot take it for a success.
NotFoundMeansGone ==
    \A b \in Bots : call[b].pc = "NotFound" => ~IsUp(call[b].droplet)

\* When no attempt times out, a shutdown or reboot that returned without an error is the
\* last word about the power: no earlier request is still on its way to undo it.
PowerAsAsked ==
    \A b \in Bots :
        call[b].pc = "ok" /\ "timeout" \notin trouble =>
            CASE call[b].op = "shutdown" -> cloud[call[b].droplet].power \in {"stopping", "off"}
              [] call[b].op = "reboot" -> cloud[call[b].droplet].power = "active"
              [] OTHER -> TRUE

\* Every call returns, whatever the network does, as its attempts time out (CRIT-004,
\* REL-002).
EveryCallReturns ==
    \A b \in Bots : Busy(b) /\ "timeout" \in trouble ~> ~Busy(b)
=============================================================================
