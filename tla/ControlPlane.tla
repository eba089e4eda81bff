---------------------------- MODULE ControlPlane ----------------------------
(***************************************************************************)
(* The whole system: the requests of Provisioning, the calls of Lifecycle  *)
(* and the agents of BotAgent, over one database and one DigitalOcean.     *)
(* The server (src/server/state.rs) builds both services on the same       *)
(* repositories and orders nothing between them.                           *)
(***************************************************************************)
EXTENDS Provisioning, BotAgent

systemVars == <<agentVars, req>>

SystemTypeOK == AgentTypeOK /\ TypeOK

SystemInit ==
    /\ Init
    /\ CallInit
    /\ agent = [d \in Droplets |-> OffAt(0)]

\* An agent stops with its droplet.
AgentsFollow ==
    agent' = [d \in Droplets |-> IF IsUp(d) /\ ~Running(d)' THEN Halted(d, ~IsUp(d)') ELSE agent[d]]

Provision(p) == (Start(p) \/ Step(p) \/ Cancel(p)) /\ AgentsFollow /\ UNCHANGED callVars

Manage(a, tier) ==
    (CreateAccount(a, tier) \/ UpdateSubscription(a, tier)) /\ UNCHANGED <<callVars, agent>>

Power(d) == (Boot(d) \/ PowerOff(d)) /\ AgentsFollow /\ UNCHANGED <<callVars, req>>

\* The call of an agent that is gone is dropped, now or after more of its steps.
Abandoned(d) ==
    /\ agent[d].fate = "none" /\ call[d].pc # "idle"
    /\ CallBecomes(d, NoCall)
    /\ UNCHANGED <<tables, heard, cloud, agent>>

Converse ==
    /\ \/ \E d \in Droplets : AgentStep(d) \/ Abandoned(d)
       \/ \E c \in Callers : Serve(c)
       \/ \E c \in Hosts : Host(c)
       \/ \E b \in Bots : Age(b) /\ UNCHANGED <<cloud, agent>>
    /\ UNCHANGED req

SystemNext ==
    \/ \E p \in Handlers : Provision(p)
    \/ \E a \in Accounts, tier \in TierChoices : Manage(a, tier)
    \/ \E d \in Droplets : Power(d)
    \/ Converse

SystemSpec == SystemInit /\ [][SystemNext]_systemVars

\* As in Provisioning and BotAgent; the droplets boot and shut down.
SystemFairness ==
    /\ \A p \in Handlers : WF_systemVars(Step(p) /\ AgentsFollow /\ UNCHANGED callVars)
    /\ \A c \in Callers : WF_systemVars(Serve(c) /\ UNCHANGED req)
    /\ \A d \in Droplets :
         /\ WF_systemVars(Power(d))
         /\ WF_systemVars((WakeUp(d) \/ SendAny(d) \/ Hear(d) \/ Sleep(d) \/ Abandoned(d))
                            /\ UNCHANGED req)
         /\ SF_systemVars(Send(d, "sync", "good") /\ UNCHANGED req)
         /\ SF_systemVars(Send(d, "ack", "good") /\ UNCHANGED req)

FairSystemSpec == SystemSpec /\ SystemFairness

----------------------------------------------------------------------------

\* A bot that was created, that nobody requests anything of and that no check of stale
\* bots has on its list, comes online: its droplet boots, its agent is let in, fetches
\* the config and acknowledges it.
ProvisionedComesUp ==
    \A b \in Bots :
        (Quiet(b) /\ bots[b].status = "provisioning" /\ \A c \in Callers : b \notin call[c].stale)
            ~> (bots[b].status = "online" \/ ~Quiet(b))
=============================================================================
