---------------------------- MODULE DigitalOcean ----------------------------
(***************************************************************************)
(* The DigitalOcean droplets behind DigitalOceanClient                     *)
(* (src/infrastructure/digital_ocean.rs): what the five calls of the       *)
(* client do to a droplet, and what a droplet does by itself.  The service *)
(* is external and is modelled from how the client uses it: a created      *)
(* droplet boots from "new" to "active", and the shutdown action is only   *)
(* accepted by the call and takes effect later ("stopping").               *)
(***************************************************************************)
EXTENDS Store

VARIABLE cloud

Powers == {"none", "new", "active", "stopping", "off", "gone"}

\* bot and token are what generate_user_data writes in the droplet's user data.
CloudRows == [power : Powers, bot : Bots \cup {NoBot}, token : Tokens \cup {0}]

CloudTypeOK == cloud \in [Droplets -> CloudRows]

CloudInit == cloud = [d \in Droplets |-> [power |-> "none", bot |-> NoBot, token |-> 0]]

\* The droplet exists at DigitalOcean, and is paid for.
IsUp(d) == cloud[d].power \notin {"none", "gone"}

Unused == {d \in Droplets : cloud[d].power = "none"}

WithPower(d, power) == [cloud EXCEPT ![d].power = power]

\* POST /droplets
Created(d, b, t) == [cloud EXCEPT ![d] = [power |-> "new", bot |-> b, token |-> t]]

\* DELETE /droplets/{id}, on a droplet that is up (404 otherwise)
Destroyed(d) == WithPower(d, "gone")

\* POST /droplets/{id}/actions, type shutdown and type reboot
ShutDown(d) == IF cloud[d].power \in {"new", "active"} THEN WithPower(d, "stopping") ELSE cloud
Rebooted(d) == WithPower(d, "active")

\* DropletStatus::from_do_status of the status GET /droplets/{id} reports
Reported(d) == CASE cloud[d].power = "new" -> "New"
                 [] cloud[d].power \in {"active", "stopping"} -> "Active"
                 [] OTHER -> "Off"

Boot(d) == /\ cloud[d].power = "new"
           /\ cloud' = WithPower(d, "active")
           /\ UNCHANGED tables

PowerOff(d) == /\ cloud[d].power = "stopping"
               /\ cloud' = WithPower(d, "off")
               /\ UNCHANGED tables
=============================================================================
