------------------------------ MODULE BotAgent ------------------------------
(***************************************************************************)
(* The agent of a bot, scripts/openclaw-bootstrap.sh and the run.sh it     *)
(* installs, against the control plane of Lifecycle.  Each droplet is the  *)
(* caller of its agent; the other callers are tasks of the program that    *)
(* embeds the service, which store configs and look for stale bots.        *)
(*                                                                         *)
(* The agent has one request out at a time.  Whether it will be answered   *)
(* is settled when it is sent (`fate`): a "doomed" one may break off at    *)
(* any await of the server, before or after its writes, as curl's          *)
(* --max-time, the network or either end may do.                           *)
(***************************************************************************)
EXTENDS Lifecycle, DigitalOcean

CONSTANTS
    Lossy,    \* requests may break off
    Delays,   \* how long a heartbeat takes, in ticks of 10 seconds
    Cycle     \* the period of the loop's clock, in ticks: 12, for time % 120

MAX_REGISTRATIONS == 5   \* MAX_RETRIES
SyncWindow == 3          \* ... -lt 30
SleepTicks == 3          \* sleep 30

ASSUME AgentAssumption ==
    /\ Droplets \subseteq Callers /\ Lossy \in BOOLEAN
    /\ Delays \subseteq 0 .. 3 /\ Cycle \in SyncWindow .. 12

VARIABLE agent

agentVars == <<lifecycleVars, cloud, agent>>

Hosts == Callers \ Droplets

\* "off" is a droplet without a running agent; the others are the request the script
\* makes next, or is waiting for.
AgentRows == [pc         : {"off", "register", "start", "heartbeat", "sync", "ack", "sleep"},
              fate       : {"none", "good", "doomed"},
              tries      : 0 .. MAX_REGISTRATIONS - 1,
              registered : {"no", "yes", "given_up"},
              config     : Nat,                   \* config.json, 0 for {}
              time       : 0 .. Cycle - 1]

AgentTypeOK == LifecycleTypeOK /\ CloudTypeOK /\ agent \in [Droplets -> AgentRows]

Running(d) == cloud[d].power \in {"active", "stopping"}

OffAt(t) == [pc |-> "off", fate |-> "none", tries |-> 0, registered |-> "no", config |-> 0,
             time |-> t]

\* What stays of an agent when its droplet stops: the disk, unless that is destroyed too.
Halted(d, destroyed) ==
    IF destroyed THEN OffAt(0) ELSE [agent[d] EXCEPT !.pc = "off", !.fate = "none", !.tries = 0]

AgentBecomes(d, r) == agent' = [agent EXCEPT ![d] = r]

----------------------------------------------------------------------------
(* cloud-init runs the bootstrap script once; systemd starts run.sh at boot *)
(* from then on.                                                            *)

WakeUp(d) ==
    /\ agent[d].pc = "off"
    /\ Running(d)
    /\ AgentBecomes(d, [agent[d] EXCEPT !.pc = IF agent[d].registered = "no"
                                               THEN "register" ELSE "start"])
    /\ UNCHANGED <<lifecycleVars, cloud>>

\* What each request asks, and the config an acknowledgement names.
Asked == [register |-> "register", start |-> "fetch", heartbeat |-> "heartbeat",
          sync |-> "fetch", ack |-> "ack"]

Send(d, pc, fate) ==
    /\ Running(d)
    /\ agent[d].pc = pc
    /\ agent[d].fate = "none"
    /\ IF pc = "ack" THEN Receive(d, "ack", cloud[d].bot, cloud[d].token, cloud[d].bot, agent[d].config)
                     ELSE Receive(d, Asked[pc], cloud[d].bot, cloud[d].token, NoBot, 0)
    /\ AgentBecomes(d, [agent[d] EXCEPT !.fate = fate])
    /\ UNCHANGED cloud

\* Mutation: only a config that is not in config.json yet is acknowledged.
SyncedIfNew(d, reply, v) ==
    [agent[d] EXCEPT !.fate = "none", !.config = IF reply = "ok" THEN v ELSE @,
                     !.pc = IF reply = "ok" /\ v # agent[d].config THEN "ack" ELSE "sleep"]
\* fetch_config in the loop
Synced(d, reply, v) ==
    [agent[d] EXCEPT !.fate = "none", !.config = IF reply = "ok" THEN v ELSE @,
                     !.pc = IF reply = "ok" THEN "ack" ELSE "sleep"]

\* The script after the request it was waiting for: `reply`, or "none" without an answer.
Reactions(d, reply, v) ==
    LET a == [agent[d] EXCEPT !.fate = "none"]
        givingUp == a.tries + 1 = MAX_REGISTRATIONS
    IN  CASE a.pc = "register" ->
                 {IF reply = "ok" THEN [a EXCEPT !.pc = "start", !.registered = "yes", !.tries = 0]
                  ELSE IF givingUp THEN [a EXCEPT !.pc = "start", !.registered = "given_up", !.tries = 0]
                  ELSE [a EXCEPT !.tries = @ + 1]}
          [] a.pc = "start" ->
                 {[a EXCEPT !.pc = "heartbeat", !.config = IF reply = "ok" THEN v ELSE @]}
          [] a.pc = "heartbeat" ->
                 {LET now == (a.time + delay) % Cycle
                  IN  [a EXCEPT !.time = now, !.pc = IF now < SyncWindow THEN "sync" ELSE "sleep"]
                  : delay \in Delays}
          [] a.pc = "sync" -> {Synced(d, reply, v)}
          \* set -e: without an answer the script ends and systemd starts it again
          [] a.pc = "ack" -> {[a EXCEPT !.pc = IF reply = "none" THEN "start" ELSE "sleep"]}

Hear(d) ==
    /\ agent[d].fate # "none"
    /\ call[d].pc \in Replies
    /\ \E a \in Reactions(d, call[d].pc, call[d].version) : AgentBecomes(d, a)
    /\ CallBecomes(d, NoCall)
    /\ UNCHANGED <<tables, heard, cloud>>

BreakOff(d) ==
    /\ agent[d].fate = "doomed"
    /\ \E a \in Reactions(d, "none", 0) : AgentBecomes(d, a)
    /\ CallBecomes(d, NoCall)
    /\ UNCHANGED <<tables, heard, cloud>>

Sleep(d) ==
    /\ Running(d)
    /\ agent[d].pc = "sleep"
    /\ AgentBecomes(d, [agent[d] EXCEPT !.pc = "heartbeat", !.time = (@ + SleepTicks) % Cycle])
    /\ UNCHANGED <<lifecycleVars, cloud>>

----------------------------------------------------------------------------

SendAny(d) ==
    \E pc \in DOMAIN Asked : Send(d, pc, "good") \/ (Lossy /\ Send(d, pc, "doomed"))

\* The calls of the embedding program.
Host(c) == (HostCall(c) \/ Return(c) \/ Drop(c)) /\ UNCHANGED <<cloud, agent>>

Serve(c) == CallStep(c) /\ UNCHANGED <<cloud, agent>>

AgentStep(d) == WakeUp(d) \/ SendAny(d) \/ Hear(d) \/ BreakOff(d) \/ Sleep(d)

BootDroplet(d) == Boot(d) /\ UNCHANGED <<callVars, agent>>

AgentNext ==
    \/ \E d \in Droplets : AgentStep(d) \/ BootDroplet(d)
    \/ \E c \in Callers : Serve(c)
    \/ \E c \in Hosts : Host(c)
    \/ \E b \in Bots : Age(b) /\ UNCHANGED <<cloud, agent>>

\* The droplets create_bot has just made.
AgentInit ==
    /\ LifecycleInit
    /\ cloud = [d \in Droplets |->
            IF droplets[d].bot = NoBot THEN [power |-> "none", bot |-> NoBot, token |-> 0]
            ELSE [power |-> "new", bot |-> droplets[d].bot, token |-> bots[droplets[d].bot].token]]
    /\ \E t \in 0 .. Cycle - 1 : agent = [d \in Droplets |-> OffAt(t)]

AgentSpec == AgentInit /\ [][AgentNext]_agentVars

\* A heartbeat that is over in the 30 seconds in which the loop fetches the config.
BeatInWindow(d) ==
    (Hear(d) \/ BreakOff(d)) /\ agent[d].pc = "heartbeat" /\ agent'[d].pc = "sync"

\* The droplet boots, the script and the server's tasks run on; and of requests that are
\* sent again and again, not all are doomed, nor do all heartbeats miss the window.
AgentFairness ==
    /\ \A d \in Droplets :
         /\ WF_agentVars(BootDroplet(d))
         /\ WF_agentVars(WakeUp(d) \/ SendAny(d) \/ Hear(d) \/ Sleep(d))
         /\ SF_agentVars(BeatInWindow(d))
         /\ SF_agentVars(Send(d, "sync", "good"))
         /\ SF_agentVars(Send(d, "ack", "good"))
    /\ \A c \in Callers : WF_agentVars(Serve(c))

FairAgentSpec == AgentSpec /\ AgentFairness

----------------------------------------------------------------------------

\* The control plane never says a bot runs a config that its agent has not got on disk,
\* whatever breaks off and however an update interleaves with acknowledgements (as long
\* as the updates of a bot are made one at a time).
AppliedIsOnDisk ==
    \A b \in Bots : \A d \in Droplets :
        bots[b].droplet = d => bots[b].applied <= agent[d].config

\* Once the owner stops updating, the applied config becomes the desired one and stays
\* so: an acknowledgement that was lost, or undone by create_bot_config, is repeated.
ConfigConverges == <>[](\A b \in Bots : bots[b].applied = bots[b].desired)

\* A provisioned bot comes online, whatever acknowledgements break off half way.
ProvisionedComesOnline ==
    \A b \in Bots : bots[b].status = "provisioning" ~> bots[b].status = "online"
=============================================================================
