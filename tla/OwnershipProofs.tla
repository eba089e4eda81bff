--------------------------- MODULE OwnershipProofs ---------------------------
(***************************************************************************)
(* The types of Provisioning's state, and which droplet belongs to which   *)
(* bot, proved for any number of handlers, bots, droplets and accounts,    *)
(* whatever calls fail or lose their replies, and whatever the clients do. *)
(* Ownership strengthens the invariants DropletOwnership,                  *)
(* MarkedDestroyedIsGone and DesiredConfigExists to an inductive one,      *)
(* which also shows that no request destroys another bot's droplet.        *)
(***************************************************************************)
EXTENDS Provisioning, StoreProofs

----------------------------------------------------------------------------
(* The tables and the requests keep their types.                            *)

\* The other tables, and DigitalOcean, as the calls leave them.
LEMMA TableTypes ==
    ASSUME StoreTypeOK
    PROVE  /\ \A a : Incremented(a) \in [Accounts -> AccountRows]
           /\ \A a : Decremented(a) \in [Accounts -> AccountRows]
           /\ \A b : ConfigsWith(b, 1) \in [Bots -> SUBSET Nat]
           /\ \A b : ConfigsWithout(b) \in [Bots -> SUBSET Nat]
           /\ \A b : DropletsReleased(b) \in [Droplets -> DropletRows]
           /\ \A d : DropletInserted(d) \in [Droplets -> DropletRows]
           /\ \A d : \A b \in Bots \cup {NoBot} : WithAssignment(d, b) \in [Droplets -> DropletRows]
           /\ \A d : MarkedDestroyed(d) \in [Droplets -> DropletRows]
<1> USE DEF StoreTypeOK
<1>0. \A a : \A n \in Nat : [accounts EXCEPT ![a].current_count = n] \in [Accounts -> AccountRows]
  BY DEF AccountRows
<1>1. ASSUME NEW a PROVE Incremented(a) \in [Accounts -> AccountRows]
  <2>1. CASE a \in Accounts
    <3>1. accounts[a].current_count + 1 \in Nat
      BY <2>1 DEF AccountRows
    <3> QED  BY <1>0, <3>1 DEF Incremented
  <2>2. CASE a \notin Accounts
    BY <2>2 DEF Incremented
  <2> QED  BY <2>1, <2>2
<1>2. ASSUME NEW a PROVE Decremented(a) \in [Accounts -> AccountRows]
  <2>1. CASE a \in Accounts
    <3> DEFINE n == accounts[a].current_count
    <3>1. (IF n > 0 THEN n - 1 ELSE 0) \in Nat
      BY <2>1 DEF AccountRows
    <3> QED  BY <1>0, <3>1 DEF Decremented
  <2>2. CASE a \notin Accounts
    BY <2>2 DEF Decremented
  <2> QED  BY <2>1, <2>2
<1>3. ASSUME NEW b PROVE ConfigsWith(b, 1) \in [Bots -> SUBSET Nat]
  <2>1. CASE b \in Bots
    <3>1. configs[b] \cup {1} \in SUBSET Nat
      BY <2>1
    <3> QED  BY <3>1 DEF ConfigsWith
  <2>2. CASE b \notin Bots
    BY <2>2 DEF ConfigsWith
  <2> QED  BY <2>1, <2>2
<1>4. ASSUME NEW b PROVE ConfigsWithout(b) \in [Bots -> SUBSET Nat]
  BY DEF ConfigsWithout
<1>5. ASSUME NEW b PROVE DropletsReleased(b) \in [Droplets -> DropletRows]
  BY DEF DropletsReleased, DropletRows
<1>6. ASSUME NEW d PROVE DropletInserted(d) \in [Droplets -> DropletRows]
  BY DEF DropletInserted, DropletRows
<1>7. ASSUME NEW d, NEW b \in Bots \cup {NoBot}
      PROVE  WithAssignment(d, b) \in [Droplets -> DropletRows]
  BY DEF WithAssignment, DropletRows
<1>8. ASSUME NEW d PROVE MarkedDestroyed(d) \in [Droplets -> DropletRows]
  BY DEF MarkedDestroyed, DropletRows
<1> QED  BY <1>1, <1>2, <1>3, <1>4, <1>5, <1>6, <1>7, <1>8

\* What the client's calls make of DigitalOcean is well typed.
LEMMA CloudTypes ==
    ASSUME CloudTypeOK
    PROVE  /\ \A d : \A power \in Powers : WithPower(d, power) \in [Droplets -> CloudRows]
           /\ \A d : Destroyed(d) \in [Droplets -> CloudRows]
           /\ \A d : ShutDown(d) \in [Droplets -> CloudRows]
           /\ \A d : Rebooted(d) \in [Droplets -> CloudRows]
           /\ \A d : \A b \in Bots \cup {NoBot} : \A t \in Tokens \cup {0} :
                 Created(d, b, t) \in [Droplets -> CloudRows]
<1>1. ASSUME NEW d, NEW power \in Powers PROVE WithPower(d, power) \in [Droplets -> CloudRows]
  BY DEF WithPower, CloudTypeOK, CloudRows
<1>2. ASSUME NEW d, NEW b \in Bots \cup {NoBot}, NEW t \in Tokens \cup {0}
      PROVE  Created(d, b, t) \in [Droplets -> CloudRows]
  BY DEF Created, CloudTypeOK, CloudRows, Powers
<1>3. {"gone", "stopping", "active"} \subseteq Powers
  BY DEF Powers
<1>4. cloud \in [Droplets -> CloudRows]
  BY DEF CloudTypeOK
<1>5. \A d : /\ Destroyed(d) \in [Droplets -> CloudRows]
             /\ ShutDown(d) \in [Droplets -> CloudRows]
             /\ Rebooted(d) \in [Droplets -> CloudRows]
  BY <1>1, <1>3, <1>4 DEF Destroyed, ShutDown, Rebooted
<1> QED  BY <1>1, <1>2, <1>5

\* Where a request goes next, it is a request.
LEMMA RequestTypes ==
    ASSUME NEW r \in Requests
    PROVE  /\ \A label \in Working : At(r, label) \in Requests
           /\ \A result \in {"ok", "failed", "dropped"} : Answered(r, result) \in Requests
           /\ Failed(r) \in Requests
           /\ \A giveUp \in Requests : Retried(r, giveUp) \in Requests
           /\ Idle \in Requests
           /\ \A t \in Tokens \cup {0} : [r EXCEPT !.token = t] \in Requests
           /\ \A d \in Droplets \cup {NoDroplet} : [r EXCEPT !.droplet = d] \in Requests
<1>1. Idle \in Requests
  BY DEF Idle, Requests, Operations
<1>2. \A label \in Working : At(r, label) \in Requests
  BY DEF At, Requests
<1>3. \A result \in {"ok", "failed", "dropped"} : Answered(r, result) \in Requests
  BY <1>1 DEF Answered, Requests
<1>4. "hard_delete" \in Working
  BY DEF Working, RollbackLabels
<1>5. \A giveUp \in Requests : Retried(r, giveUp) \in Requests
  BY DEF Retried, Requests
<1>6. /\ \A t \in Tokens \cup {0} : [r EXCEPT !.token = t] \in Requests
      /\ \A d \in Droplets \cup {NoDroplet} : [r EXCEPT !.droplet = d] \in Requests
  BY DEF Requests
<1> QED  BY <1>1, <1>2, <1>3, <1>4, <1>5, <1>6 DEF Failed

\* The labels the handlers go to are labels of requests in flight.
LEMMA LabelTypes == Working =
    {"create_bot", "create_config", "set_desired",
     "set_provisioning", "set_token", "create_droplet", "set_pending", "set_error",
     "insert_droplet", "assign_droplet", "link_droplet", "cleanup_droplet", "mark_failed",
     "hard_delete", "give_back",
     "destroy_droplet", "mark_destroyed", "unlink_droplet", "delete_bot", "decrement",
     "redeploy_destroy", "redeploy_mark", "get_latest",
     "shutdown", "set_paused", "get_droplet", "reboot", "set_online"}
BY DEF Working, CreateLabels, SpawnLabels, RollbackLabels, DestroyLabels, RedeployLabels,
       PowerLabels

\* What a request becomes is a request.
LEMMA BecomesType ==
    ASSUME TypeOK, NEW p, NEW r \in Requests, Becomes(p, r)
    PROVE  req' \in [Handlers -> Requests]
BY DEF TypeOK, Becomes

\* A step that only moves a request keeps the types.
LEMMA MoveType ==
    ASSUME TypeOK, NEW p, NEW r \in Requests, Becomes(p, r), UNCHANGED <<tables, cloud>>
    PROVE  TypeOK'
BY BecomesType DEF TypeOK, StoreTypeOK, CloudTypeOK, tables

\* A step that updates its bot's row keeps the types.
LEMMA UpdateBotType ==
    ASSUME TypeOK, NEW p, NEW new \in [Bots -> BotRows],
           NEW next \in Requests, NEW error \in Requests,
           UpdateBot(p, new, next, error)
    PROVE  TypeOK'
<1>1. PICK o \in Outcomes(req[p].pc) :
        /\ bots' = After(o, new, bots)
        /\ Becomes(p, IF o = "done" /\ BotExists(req[p].bot) THEN next ELSE error)
        /\ UNCHANGED <<accounts, configs, droplets, uuids, cloud>>
  BY DEF UpdateBot
<1>2. bots' \in [Bots -> BotRows]
  BY <1>1, AfterIsEither DEF TypeOK, StoreTypeOK
<1>3. req' \in [Handlers -> Requests]
  BY <1>1, BecomesType
<1> QED  BY <1>1, <1>2, <1>3 DEF TypeOK, StoreTypeOK, CloudTypeOK

\* The destroy call of destroy_bot and redeploy_bot keeps the types.
LEMMA DestroyCallType ==
    ASSUME TypeOK, NEW p \in Handlers, NEW next \in Working, DestroyCall(p, next)
    PROVE  TypeOK'
<1>1. PICK o \in Outcomes(req[p].pc) :
        /\ cloud' = After(o, IF IsUp(req[p].droplet) THEN Destroyed(req[p].droplet) ELSE cloud,
                          cloud)
        /\ Becomes(p, IF o = "done" THEN At(req[p], next) ELSE Answered(req[p], "failed"))
        /\ UNCHANGED tables
  BY DEF DestroyCall
<1>2. CloudTypeOK'
  BY <1>1, AfterIsEither, CloudTypes DEF TypeOK, CloudTypeOK
<1>3. req' \in [Handlers -> Requests]
  BY <1>1, BecomesType, RequestTypes DEF TypeOK
<1> QED  BY <1>1, <1>2, <1>3 DEF TypeOK, StoreTypeOK, tables

\* Marking a droplet destroyed keeps the types.
LEMMA MarkCallType ==
    ASSUME TypeOK, NEW p \in Handlers, NEW next \in Working, NEW error \in Requests,
           MarkCall(p, next, error)
    PROVE  TypeOK'
<1>1. PICK o \in Outcomes(req[p].pc) :
        /\ droplets' = After(o, MarkedDestroyed(req[p].droplet), droplets)
        /\ Becomes(p, IF o = "done" /\ DropletExists(req[p].droplet)
                      THEN At(req[p], next) ELSE error)
        /\ UNCHANGED <<accounts, bots, configs, uuids, cloud>>
  BY DEF MarkCall
<1>2. droplets' \in [Droplets -> DropletRows]
  BY <1>1, AfterIsEither, TableTypes DEF TypeOK, StoreTypeOK
<1>3. req' \in [Handlers -> Requests]
  BY <1>1, BecomesType, RequestTypes DEF TypeOK
<1> QED  BY <1>1, <1>2, <1>3 DEF TypeOK, StoreTypeOK, CloudTypeOK

\* Every action of a handler keeps the types.
LEMMA HandlerType ==
    ASSUME TypeOK, NEW p \in Handlers, Start(p) \/ Step(p) \/ Cancel(p)
    PROVE  TypeOK'
<1>1. req[p] \in Requests /\ bots \in [Bots -> BotRows]
  BY DEF TypeOK, StoreTypeOK
<1>2. /\ \A label \in Working : At(req[p], label) \in Requests
      /\ \A result \in {"ok", "failed", "dropped"} : Answered(req[p], result) \in Requests
      /\ Failed(req[p]) \in Requests
      /\ \A giveUp \in Requests : Retried(req[p], giveUp) \in Requests
  BY <1>1, RequestTypes
<1>3. req[p].droplet \in Droplets \cup {NoDroplet}
  BY <1>1 DEF Requests
<1>10. ASSUME SetDesired(p) PROVE TypeOK'
  BY <1>10, <1>1, <1>2, <1>3, RowTypes, LabelTypes, UpdateBotType DEF SetDesired, BotStatus
<1>11. ASSUME SetProvisioning(p) PROVE TypeOK'
  BY <1>11, <1>1, <1>2, <1>3, RowTypes, LabelTypes, UpdateBotType DEF SetProvisioning, BotStatus
<1>12. ASSUME SetPending(p) PROVE TypeOK'
  BY <1>12, <1>1, <1>2, <1>3, RowTypes, LabelTypes, UpdateBotType DEF SetPending, BotStatus
<1>13. ASSUME SetError(p) PROVE TypeOK'
  BY <1>13, <1>1, <1>2, <1>3, RowTypes, LabelTypes, UpdateBotType DEF SetError, BotStatus
<1>14. ASSUME LinkDroplet(p) PROVE TypeOK'
  BY <1>14, <1>1, <1>2, <1>3, RowTypes, LabelTypes, UpdateBotType DEF LinkDroplet, BotStatus
<1>15. ASSUME MarkFailed(p) PROVE TypeOK'
  BY <1>15, <1>1, <1>2, <1>3, RowTypes, LabelTypes, UpdateBotType DEF MarkFailed, BotStatus
<1>16. ASSUME UnlinkDroplet(p) PROVE TypeOK'
  BY <1>16, <1>1, <1>2, <1>3, RowTypes, LabelTypes, UpdateBotType DEF UnlinkDroplet, BotStatus
<1>17. ASSUME DeleteBot(p) PROVE TypeOK'
  BY <1>17, <1>1, <1>2, <1>3, RowTypes, LabelTypes, UpdateBotType DEF DeleteBot, BotStatus
<1>18. ASSUME SetPaused(p) PROVE TypeOK'
  BY <1>18, <1>1, <1>2, <1>3, RowTypes, LabelTypes, UpdateBotType DEF SetPaused, BotStatus
<1>19. ASSUME SetOnline(p) PROVE TypeOK'
  BY <1>19, <1>1, <1>2, <1>3, RowTypes, LabelTypes, UpdateBotType DEF SetOnline, BotStatus
<1>20. ASSUME DestroyDroplet(p) PROVE TypeOK'
  BY <1>20, <1>1, <1>2, LabelTypes, DestroyCallType DEF DestroyDroplet
<1>21. ASSUME RedeployDestroy(p) PROVE TypeOK'
  BY <1>21, <1>1, <1>2, LabelTypes, DestroyCallType DEF RedeployDestroy
<1>22. ASSUME MarkDestroyed(p) PROVE TypeOK'
  BY <1>22, <1>1, <1>2, LabelTypes, MarkCallType DEF MarkDestroyed
<1>23. ASSUME RedeployMark(p) PROVE TypeOK'
  BY <1>23, <1>1, <1>2, LabelTypes, MarkCallType DEF RedeployMark
<1>24. ASSUME InsertBot(p) PROVE TypeOK'
  <2>1. bots' \in [Bots -> BotRows]
    <3>1. req[p].account \in Accounts \cup {NoAccount}
      BY <1>1 DEF Requests
    <3>2. Inserted(req[p].bot, req[p].account) \in [Bots -> BotRows]
      BY <1>1, <3>1, RowTypes
    <3> QED  BY <1>24, <1>1, <3>2, AfterIsEither DEF InsertBot
  <2>2. req' \in [Handlers -> Requests]
    BY <1>24, <1>1, <1>2, LabelTypes, BecomesType DEF InsertBot
  <2> QED  BY <1>24, <2>1, <2>2 DEF InsertBot, TypeOK, StoreTypeOK, CloudTypeOK, tables
<1>25. ASSUME InsertConfig(p) PROVE TypeOK'
  <2>1. configs' \in [Bots -> SUBSET Nat]
    BY <1>25, <1>1, AfterIsEither, TableTypes DEF InsertConfig, TypeOK, StoreTypeOK, CloudTypeOK
  <2>2. req' \in [Handlers -> Requests]
    BY <1>25, <1>1, <1>2, LabelTypes, BecomesType DEF InsertConfig
  <2> QED  BY <1>25, <2>1, <2>2 DEF InsertConfig, TypeOK, StoreTypeOK, CloudTypeOK, tables
<1>26. ASSUME RollbackBot(p) PROVE TypeOK'
  <2>1. bots' \in [Bots -> BotRows]
    BY <1>26, <1>1, AfterIsEither, RowTypes DEF RollbackBot, TypeOK, StoreTypeOK, CloudTypeOK
  <2>2. configs' \in [Bots -> SUBSET Nat]
    BY <1>26, <1>1, AfterIsEither, TableTypes DEF RollbackBot, TypeOK, StoreTypeOK, CloudTypeOK
  <2>3. droplets' \in [Droplets -> DropletRows]
    BY <1>26, <1>1, AfterIsEither, TableTypes DEF RollbackBot, TypeOK, StoreTypeOK, CloudTypeOK
  <2>4. req' \in [Handlers -> Requests]
    BY <1>26, <1>1, <1>2, LabelTypes, BecomesType DEF RollbackBot
  <2> QED  BY <1>26, <2>1, <2>2, <2>3, <2>4
              DEF RollbackBot, TypeOK, StoreTypeOK, CloudTypeOK, tables
<1>27. ASSUME RollbackCounter(p) PROVE TypeOK'
  <2>1. accounts' \in [Accounts -> AccountRows]
    BY <1>27, <1>1, AfterIsEither, TableTypes DEF RollbackCounter, TypeOK, StoreTypeOK, CloudTypeOK
  <2>2. req' \in [Handlers -> Requests]
    BY <1>27, <1>1, <1>2, LabelTypes, BecomesType DEF RollbackCounter
  <2> QED  BY <1>27, <2>1, <2>2 DEF RollbackCounter, TypeOK, StoreTypeOK, CloudTypeOK, tables
<1>28. ASSUME InsertDroplet(p) PROVE TypeOK'
  <2>1. droplets' \in [Droplets -> DropletRows]
    BY <1>28, <1>1, AfterIsEither, TableTypes DEF InsertDroplet, TypeOK, StoreTypeOK, CloudTypeOK
  <2>2. req' \in [Handlers -> Requests]
    BY <1>28, <1>1, <1>2, LabelTypes, BecomesType DEF InsertDroplet
  <2> QED  BY <1>28, <2>1, <2>2 DEF InsertDroplet, TypeOK, StoreTypeOK, CloudTypeOK, tables
<1>29. ASSUME AssignDroplet(p) PROVE TypeOK'
  <2>1. droplets' \in [Droplets -> DropletRows]
    BY <1>29, <1>1, AfterIsEither, TableTypes
       DEF AssignDroplet, TypeOK, StoreTypeOK, CloudTypeOK, Requests
  <2>2. req' \in [Handlers -> Requests]
    BY <1>29, <1>1, <1>2, LabelTypes, BecomesType DEF AssignDroplet
  <2> QED  BY <1>29, <2>1, <2>2 DEF AssignDroplet, TypeOK, StoreTypeOK, CloudTypeOK, tables
<1>30. ASSUME CleanupDroplet(p) PROVE TypeOK'
  <2>1. cloud' \in [Droplets -> CloudRows]
    BY <1>30, <1>1, AfterIsEither, CloudTypes DEF CleanupDroplet, TypeOK, StoreTypeOK, CloudTypeOK
  <2>2. req' \in [Handlers -> Requests]
    BY <1>30, <1>1, <1>2, LabelTypes, BecomesType DEF CleanupDroplet
  <2> QED  BY <1>30, <2>1, <2>2 DEF CleanupDroplet, TypeOK, StoreTypeOK, CloudTypeOK, tables
<1>31. ASSUME ReleaseSlot(p) PROVE TypeOK'
  <2>1. accounts' \in [Accounts -> AccountRows]
    BY <1>31, <1>1, AfterIsEither, TableTypes DEF ReleaseSlot, TypeOK, StoreTypeOK, CloudTypeOK
  <2>2. req' \in [Handlers -> Requests]
    BY <1>31, <1>1, <1>2, LabelTypes, BecomesType DEF ReleaseSlot
  <2> QED  BY <1>31, <2>1, <2>2 DEF ReleaseSlot, TypeOK, StoreTypeOK, CloudTypeOK, tables
<1>32. ASSUME Shutdown(p) PROVE TypeOK'
  <2>1. cloud' \in [Droplets -> CloudRows]
    BY <1>32, <1>1, AfterIsEither, CloudTypes DEF Shutdown, TypeOK, StoreTypeOK, CloudTypeOK
  <2>2. req' \in [Handlers -> Requests]
    BY <1>32, <1>1, <1>2, LabelTypes, BecomesType DEF Shutdown
  <2> QED  BY <1>32, <2>1, <2>2 DEF Shutdown, TypeOK, StoreTypeOK, CloudTypeOK, tables
<1>33. ASSUME Reboot(p) PROVE TypeOK'
  <2>1. cloud' \in [Droplets -> CloudRows]
    BY <1>33, <1>1, AfterIsEither, CloudTypes DEF Reboot, TypeOK, StoreTypeOK, CloudTypeOK
  <2>2. req' \in [Handlers -> Requests]
    BY <1>33, <1>1, <1>2, LabelTypes, BecomesType DEF Reboot
  <2> QED  BY <1>33, <2>1, <2>2 DEF Reboot, TypeOK, StoreTypeOK, CloudTypeOK, tables
<1>34. ASSUME GetDroplet(p) PROVE TypeOK'
  <2>1. req' \in [Handlers -> Requests]
    BY <1>34, <1>1, <1>2, LabelTypes, BecomesType DEF GetDroplet
  <2> QED  BY <1>34, <2>1 DEF GetDroplet, TypeOK, StoreTypeOK, CloudTypeOK, tables
<1>35. ASSUME GetLatest(p) PROVE TypeOK'
  <2>1. [At(req[p], "set_provisioning") EXCEPT !.droplet = NoDroplet] \in Requests
    <3>1. At(req[p], "set_provisioning") \in Requests
      BY <1>2, LabelTypes
    <3>2. \A x \in Requests : [x EXCEPT !.droplet = NoDroplet] \in Requests
      BY DEF Requests
    <3> QED  BY <3>1, <3>2
  <2>2. req' \in [Handlers -> Requests]
    BY <1>35, <1>2, <2>1, BecomesType DEF GetLatest
  <2> QED  BY <1>35, <2>1, <2>2 DEF GetLatest, TypeOK, StoreTypeOK, CloudTypeOK, tables
<1>36. ASSUME SetToken(p) PROVE TypeOK'
  <2> DEFINE t == CHOOSE token \in FreshTokens : TRUE
  <2>1. t \in Tokens
    BY <1>36 DEF SetToken, FreshTokens
  <2>2. [At(req[p], "create_droplet") EXCEPT !.token = t] \in Requests
    BY <1>2, <2>1, LabelTypes, RequestTypes
  <2> QED  BY <1>36, <1>1, <1>2, <2>1, <2>2, RowTypes, UpdateBotType DEF SetToken
<1>37. ASSUME CreateDroplet(p) PROVE TypeOK'
  <2>1. Unused # {} => NewDroplet \in Droplets
    BY DEF NewDroplet, Unused
  <2>2. cloud' \in [Droplets -> CloudRows]
    <3>1. req[p].bot \in Bots \cup {NoBot} /\ req[p].token \in Tokens \cup {0}
      BY <1>1 DEF Requests
    <3>2. Created(NewDroplet, req[p].bot, req[p].token) \in [Droplets -> CloudRows]
      BY <3>1, CloudTypes DEF TypeOK
    <3> QED  BY <1>37, <3>2 DEF CreateDroplet, TypeOK, CloudTypeOK
  <2>3. \A label \in Working : [At(req[p], label) EXCEPT !.token = 0] \in Requests
    BY <1>2, RequestTypes
  <2>4. Unused # {} => [At(req[p], "insert_droplet") EXCEPT !.droplet = NewDroplet, !.token = 0]
                         \in Requests
    <3>1. At(req[p], "insert_droplet") \in Requests
      BY <1>2, LabelTypes
    <3>2. \A x \in Requests : \A d \in Droplets : [x EXCEPT !.droplet = d, !.token = 0] \in Requests
      BY DEF Requests
    <3> QED  BY <2>1, <3>1, <3>2
  <2>5. [req[p] EXCEPT !.tries = @ + 1] \in Requests
    BY <1>1 DEF Requests
  <2>6. req' \in [Handlers -> Requests]
    BY <1>37, <2>3, <2>4, <2>5, LabelTypes, BecomesType DEF CreateDroplet
  <2> QED  BY <1>37, <2>2, <2>6 DEF CreateDroplet, TypeOK, StoreTypeOK, CloudTypeOK, tables
<1>38. ASSUME Reply(p) PROVE TypeOK'
  BY <1>38, <1>1, RequestTypes, MoveType DEF Reply
<1>39. ASSUME Cancel(p) PROVE TypeOK'
  <2>1. Answered(req[p], "dropped") \in Requests
    BY <1>2
  <2> QED  BY <1>39, <2>1, MoveType DEF Cancel
<1>40. ASSUME NEW a \in Accounts, ReserveSlot(p, a) PROVE TypeOK'
  <2> DEFINE b == CHOOSE id \in Bots \ uuids : TRUE
  <2>1. b \in Bots
    BY <1>40 DEF ReserveSlot, TypeOK, StoreTypeOK
  <2>2. accounts' \in [Accounts -> AccountRows]
    BY <1>40, TableTypes DEF ReserveSlot, TypeOK, StoreTypeOK
  <2>3. uuids' \subseteq Bots
    BY <1>40, <2>1 DEF ReserveSlot, TypeOK, StoreTypeOK
  <2>4. [Idle EXCEPT !.pc = "create_bot", !.op = "create", !.bot = b, !.account = a] \in Requests
    BY <2>1, LabelTypes DEF Idle, Requests, Operations
  <2>5. [Idle EXCEPT !.pc = "failed", !.op = "create"] \in Requests
    BY DEF Idle, Requests, Operations
  <2>6. req' \in [Handlers -> Requests]
    BY <1>40, <2>4, <2>5, BecomesType DEF ReserveSlot
  <2> QED  BY <1>40, <2>2, <2>3, <2>6 DEF ReserveSlot, TypeOK, StoreTypeOK, CloudTypeOK
<1>41. ASSUME NEW b \in Bots, NEW op \in Operations, NEW found \in Working \cup {"failed"},
              Begin(p, op, b, found)
       PROVE  TypeOK'
  <2>1. Reading(op, b) \in Requests
    BY <1>1 DEF Reading, Idle, Requests, BotRows
  <2>2. /\ Answered(Reading(op, b), "failed") \in Requests
        /\ found \in Working => At(Reading(op, b), found) \in Requests
    BY <2>1, RequestTypes
  <2> QED  BY <1>41, <2>2, MoveType DEF Begin
<1>42. ASSUME NEW b \in Bots, BeginDestroy(p, b) \/ BeginPause(p, b)
                                \/ BeginResume(p, b) \/ BeginRedeploy(p, b)
       PROVE  TypeOK'
  BY <1>41, <1>42, LabelTypes
     DEF BeginDestroy, BeginPause, BeginResume, BeginRedeploy, Operations
<1> QED
  BY <1>10, <1>11, <1>12, <1>13, <1>14, <1>15, <1>16, <1>17, <1>18, <1>19, <1>20, <1>21,
     <1>22, <1>23, <1>24, <1>25, <1>26, <1>27, <1>28, <1>29, <1>30, <1>31, <1>32, <1>33, <1>34,
     <1>35, <1>36, <1>37, <1>38, <1>39, <1>40, <1>42
     DEF Start, Step

\* Every step of the service keeps the types.
LEMMA NextType == TypeOK /\ [Next]_vars => TypeOK'
<1> SUFFICES ASSUME TypeOK, [Next]_vars PROVE TypeOK'
  OBVIOUS
<1>1. CASE UNCHANGED vars
  BY <1>1 DEF TypeOK, StoreTypeOK, CloudTypeOK, vars, tables
<1>2. ASSUME NEW a \in Accounts, NEW tier \in TierChoices,
             CreateAccount(a, tier) \/ UpdateSubscription(a, tier)
      PROVE  TypeOK'
  <2>1. tier \in Tiers
    BY ProvisioningAssumption DEF Tiers
  <2>2. accounts' \in [Accounts -> AccountRows]
    BY <1>2, <2>1 DEF CreateAccount, UpdateSubscription, TypeOK, StoreTypeOK, AccountRows
  <2> QED  BY <1>2, <2>2 DEF CreateAccount, UpdateSubscription, TypeOK, StoreTypeOK, CloudTypeOK
<1>3. ASSUME NEW p \in Handlers, Start(p) \/ Step(p) \/ Cancel(p) PROVE TypeOK'
  BY <1>3, HandlerType
<1>4. ASSUME NEW d \in Droplets, Boot(d) \/ PowerOff(d), UNCHANGED req PROVE TypeOK'
  BY <1>4, CloudTypes DEF Boot, PowerOff, Powers, TypeOK, StoreTypeOK, CloudTypeOK, tables
<1> QED  BY <1>1, <1>2, <1>3, <1>4 DEF Next

\* The initial state has its types.
LEMMA TypeInit == Init => TypeOK
<1>1. NoBotRow \in BotRows
  BY DEF NoBotRow, BotRows, BotStatus
<1>2. Idle \in Requests
  BY DEF Idle, Requests, Operations
<1> QED  BY <1>1, <1>2 DEF Init, StoreInit, CloudInit, TypeOK, StoreTypeOK, CloudTypeOK,
                            AccountRows, Tiers, DropletRows, CloudRows, Powers

\* The tables, DigitalOcean and the requests keep their types in every reachable state.
THEOREM TypeCorrect == Spec => []TypeOK
BY TypeInit, NextType, PTL DEF Spec

----------------------------------------------------------------------------
(* The inductive invariant.                                                 *)

\* Bot ids are drawn before they are used, and a bot is inserted before any other
\* request can find it.
IdsDrawn ==
    /\ \A b \in Bots : BotExists(b) => b \in uuids
    /\ \A p \in Handlers : InFlight(p) => req[p].bot \in uuids

InsertedOnce ==
    \A p \in Handlers : req[p].pc = "create_bot" =>
        /\ ~BotExists(req[p].bot)
        /\ \A q \in Handlers \ {p} : InFlight(q) => req[q].bot # req[p].bot

\* A droplet that a bot, a request or the droplets table knows of was created, and for
\* that bot.
DropletsKnown ==
    /\ \A b \in Bots, d \in Droplets :
         bots[b].droplet = d => cloud[d].power # "none" /\ cloud[d].bot = b
    /\ \A p \in Handlers, d \in Droplets :
         InFlight(p) /\ req[p].droplet = d => cloud[d].power # "none" /\ cloud[d].bot = req[p].bot
    /\ \A d \in Droplets : DropletExists(d) => cloud[d].power # "none"

\* A spawn keeps its new droplet to itself until it links it, and by then the droplet's
\* row names the bot.
Spawned(p) == req[p].pc \in {"insert_droplet", "assign_droplet", "link_droplet"}

SpawnedIsPrivate ==
    \A p \in Handlers : Spawned(p) =>
        /\ req[p].droplet \in Droplets
        /\ \A b \in Bots : bots[b].droplet # req[p].droplet
        /\ \A q \in Handlers \ {p} : InFlight(q) => req[q].droplet # req[p].droplet

SpawnedIsAssigned ==
    \A p \in Handlers : req[p].pc = "link_droplet" =>
        /\ DropletExists(req[p].droplet)
        /\ BotExists(req[p].bot) => droplets[req[p].droplet].bot = req[p].bot

\* A request is about to mark its droplet destroyed only when it is gone.
GoneBeforeMark ==
    \A p \in Handlers :
        /\ req[p].pc \in {"destroy_droplet", "redeploy_destroy", "mark_destroyed", "redeploy_mark"}
             => req[p].droplet \in Droplets
        /\ req[p].pc \in {"mark_destroyed", "redeploy_mark"}
             => cloud[req[p].droplet].power = "gone"

\* The first config is stored before the bot is told to run it.
StoredBeforeDesired ==
    \A p \in Handlers :
        req[p].pc = "set_desired" /\ BotExists(req[p].bot) => 1 \in configs[req[p].bot]

Ownership ==
    /\ TypeOK
    /\ IdsDrawn /\ InsertedOnce /\ DropletsKnown
    /\ SpawnedIsPrivate /\ SpawnedIsAssigned /\ GoneBeforeMark /\ StoredBeforeDesired
    /\ DropletOwnership /\ MarkedDestroyedIsGone /\ DesiredConfigExists

----------------------------------------------------------------------------
(* Most steps touch none of this: they insert no bot and no droplet, link   *)
(* and assign none, create none at DigitalOcean, and leave requests with    *)
(* the bot and the droplet they have.  Tame is what they have in common.    *)

\* The labels a request only comes to with what the invariant says of them.
Guarded == {"create_bot", "set_desired", "insert_droplet", "assign_droplet", "link_droplet",
            "destroy_droplet", "redeploy_destroy", "mark_destroyed", "redeploy_mark"}

\* Request p may become r whatever happens to the tables.
Calm(p, r) ==
    r.pc \in Working =>
        /\ InFlight(p)
        /\ r.bot = req[p].bot
        /\ r.droplet \in {req[p].droplet, NoDroplet}
        /\ r.pc \notin Guarded \/ (r.pc = req[p].pc /\ r.droplet = req[p].droplet)

TameRequest(p) ==
    InFlight(p)' =>
        /\ InFlight(p)
        /\ req'[p].bot = req[p].bot
        /\ req'[p].droplet \in {req[p].droplet, NoDroplet}
        /\ \/ req'[p].pc \notin Guarded
           \/ req'[p].pc = req[p].pc /\ req'[p].droplet = req[p].droplet
           \/ /\ req'[p].pc \in {"mark_destroyed", "redeploy_mark"}
              /\ req'[p].droplet \in Droplets
              /\ cloud'[req'[p].droplet].power = "gone"
           \/ /\ req'[p].pc = "set_desired"
              /\ BotExists(req[p].bot)' => 1 \in configs'[req'[p].bot]

TameBots ==
    \A b \in Bots :
        /\ BotExists(b)' => BotExists(b)
        /\ bots'[b].droplet \in {bots[b].droplet, NoDroplet}
        /\ bots'[b].desired \in {0, bots[b].desired} \/ bots'[b].desired \in configs'[b]
        /\ configs[b] \subseteq configs'[b] \/ (~BotExists(b)' /\ bots'[b].desired = 0)

TameDroplets ==
    \A d \in Droplets :
        /\ DropletExists(d)' <=> DropletExists(d)
        /\ droplets'[d].status = "destroyed"
             => droplets[d].status = "destroyed" \/ cloud'[d].power = "gone"
        /\ \/ droplets'[d].bot = droplets[d].bot
           \/ \A b \in Bots :
                 droplets[d].bot = b => ~BotExists(b)' /\ bots'[b].droplet = NoDroplet

TameCloud ==
    \A d \in Droplets :
        /\ cloud'[d].bot = cloud[d].bot
        /\ cloud'[d].power = "none" <=> cloud[d].power = "none"
        /\ cloud[d].power = "gone" => cloud'[d].power = "gone"

Tame == /\ TameBots /\ TameDroplets /\ TameCloud
        /\ uuids' = uuids
        /\ \A p \in Handlers : TameRequest(p)

\* A tame step keeps the invariant.
LEMMA TameKeepsOwnership == Ownership /\ TypeOK' /\ Tame => Ownership'
<1> SUFFICES ASSUME Ownership, TypeOK', Tame PROVE Ownership'
  OBVIOUS
<1>1. IdsDrawn'
  BY DEF Ownership, IdsDrawn, Tame, TameBots, TameRequest
<1>a. \A p \in Handlers :
        InFlight(p)' => InFlight(p) /\ req'[p].bot = req[p].bot /\ req[p].bot \in Bots
  BY DEF Ownership, IdsDrawn, Tame, TameRequest, TypeOK, StoreTypeOK
<1>2. InsertedOnce'
  <2> SUFFICES ASSUME NEW p \in Handlers, req'[p].pc = "create_bot"
               PROVE  /\ ~BotExists(req[p].bot)'
                      /\ \A q \in Handlers \ {p} : InFlight(q)' => req'[q].bot # req'[p].bot
    BY DEF InsertedOnce
  <2>1. InFlight(p)' /\ req[p].pc = "create_bot"
    BY LabelTypes DEF Tame, TameRequest, Guarded, InFlight
  <2> QED  BY <1>a, <2>1 DEF Ownership, InsertedOnce, Tame, TameBots
<1>3. DropletsKnown'
  BY StoreAssumption
     DEF Ownership, DropletsKnown, Tame, TameBots, TameDroplets, TameCloud, TameRequest
<1>4. SpawnedIsPrivate'
  BY LabelTypes, StoreAssumption
     DEF Ownership, SpawnedIsPrivate, Spawned, Tame, TameBots, TameRequest, Guarded, InFlight
<1>5. SpawnedIsAssigned'
  <2> SUFFICES ASSUME NEW p \in Handlers, req'[p].pc = "link_droplet"
               PROVE  /\ DropletExists(req[p].droplet)'
                      /\ BotExists(req[p].bot)' => droplets'[req'[p].droplet].bot = req'[p].bot
    BY DEF SpawnedIsAssigned
  <2>1. /\ InFlight(p)' /\ req[p].pc = "link_droplet"
        /\ req'[p].droplet = req[p].droplet /\ req[p].droplet \in Droplets
    BY LabelTypes DEF Ownership, SpawnedIsPrivate, Spawned, Tame, TameRequest, Guarded, InFlight
  <2> QED  BY <1>a, <2>1 DEF Ownership, SpawnedIsAssigned, Tame, TameBots, TameDroplets
<1>6. GoneBeforeMark'
  BY LabelTypes DEF Ownership, GoneBeforeMark, Tame, TameCloud, TameRequest, Guarded, InFlight
<1>7. StoredBeforeDesired'
  <2> SUFFICES ASSUME NEW p \in Handlers, req'[p].pc = "set_desired", BotExists(req[p].bot)'
               PROVE  1 \in configs'[req'[p].bot]
    BY DEF StoredBeforeDesired
  <2>1. InFlight(p)'
    BY LabelTypes DEF InFlight
  <2>2. req[p].pc = "set_desired" \/ 1 \in configs'[req'[p].bot]
    BY <2>1 DEF Tame, TameRequest, Guarded
  <2> QED  BY <1>a, <2>1, <2>2 DEF Ownership, StoredBeforeDesired, Tame, TameBots
<1>8. DropletOwnership'
  BY StoreAssumption DEF Ownership, DropletOwnership, Tame, TameBots, TameDroplets
<1>9. MarkedDestroyedIsGone'
  BY
     DEF Ownership, MarkedDestroyedIsGone, DropletsKnown, Tame, TameDroplets, TameCloud, IsUp,
         DropletExists
<1>10. DesiredConfigExists'
  BY DEF Ownership, DesiredConfigExists, Tame, TameBots
<1> QED  BY <1>1, <1>2, <1>3, <1>4, <1>5, <1>6, <1>7, <1>8, <1>9, <1>10 DEF Ownership

----------------------------------------------------------------------------
(* The tame steps.                                                          *)

\* A handler that only goes on to an unguarded label, ends or retries is calm.
LEMMA CalmRequests ==
    ASSUME TypeOK, NEW p \in Handlers, InFlight(p)
    PROVE  /\ \A label \in Working \ Guarded : Calm(p, At(req[p], label))
           /\ \A result \in {"ok", "failed", "dropped"} : Calm(p, Answered(req[p], result))
           /\ Calm(p, Failed(req[p]))
           /\ \A giveUp : Calm(p, giveUp) => Calm(p, Retried(req[p], giveUp))
<1>1. \A label \in Working \ Guarded : Calm(p, At(req[p], label))
  BY DEF Calm, At, TypeOK, Requests, InFlight
<1>2. \A result \in {"ok", "failed", "dropped"} : Calm(p, Answered(req[p], result))
  BY LabelTypes DEF Calm, Answered, Idle
<1>3. Calm(p, Failed(req[p]))
  BY <1>1, <1>2, LabelTypes DEF Failed, Guarded
<1>4. \A giveUp : Calm(p, giveUp) => Calm(p, Retried(req[p], giveUp))
  BY DEF Retried, Calm, TypeOK, Requests, InFlight
<1> QED  BY <1>1, <1>2, <1>3, <1>4

\* A step of one calm handler leaves every request tame.
LEMMA CalmIsTame ==
    ASSUME TypeOK, NEW p \in Handlers, NEW r, Calm(p, r), Becomes(p, r)
    PROVE  \A q \in Handlers : TameRequest(q)
BY DEF TypeOK, Calm, Becomes, TameRequest, InFlight

\* What a step leaves alone is tame.
LEMMA TameBotsIfSame ==
    UNCHANGED bots /\ (\A b \in Bots : configs[b] \subseteq configs'[b]) => TameBots
BY DEF TameBots, BotExists

LEMMA TameDropletsIfSame == UNCHANGED droplets => TameDroplets
BY DEF TameDroplets, DropletExists

LEMMA TameCloudIfSame == UNCHANGED cloud => TameCloud
BY DEF TameCloud

\* An update of a bot's row is tame when it keeps the row, unlinks the droplet at most
\* and tells the bot to run a stored config at most.
LEMMA UpdateBotTame ==
    ASSUME TypeOK, NEW p \in Handlers, NEW row, NEW next, NEW error,
           UpdateBot(p, WithBot(req[p].bot, row), next, error),
           Calm(p, next), Calm(p, error),
           BotExists(req[p].bot) =>
               /\ row.status # "absent"
               /\ row.droplet \in {bots[req[p].bot].droplet, NoDroplet}
               /\ row.desired = bots[req[p].bot].desired \/ row.desired \in configs[req[p].bot]
    PROVE  Tame
<1>1. PICK o \in Outcomes(req[p].pc) :
        /\ bots' = After(o, WithBot(req[p].bot, row), bots)
        /\ Becomes(p, IF o = "done" /\ BotExists(req[p].bot) THEN next ELSE error)
        /\ UNCHANGED <<accounts, configs, droplets, uuids, cloud>>
  BY DEF UpdateBot
<1>2. CASE bots' = bots
  BY <1>1, <1>2, CalmIsTame, TameBotsIfSame, TameDropletsIfSame, TameCloudIfSame DEF Tame
<1>3. CASE BotExists(req[p].bot) /\ bots' = [bots EXCEPT ![req[p].bot] = row]
  <2>1. TameBots
    BY <1>1, <1>3 DEF TameBots, BotExists, TypeOK, StoreTypeOK
  <2> QED  BY <1>1, <2>1, CalmIsTame, TameDropletsIfSame, TameCloudIfSame DEF Tame
<1> QED  BY <1>1, <1>2, <1>3, AfterIsEither DEF WithBot

TameStep(p) ==
    \/ InsertConfig(p) \/ SetDesired(p) \/ SetProvisioning(p) \/ SetToken(p)
    \/ SetPending(p) \/ SetError(p) \/ CleanupDroplet(p) \/ MarkFailed(p)
    \/ RollbackBot(p) \/ RollbackCounter(p)
    \/ DestroyDroplet(p) \/ MarkDestroyed(p) \/ UnlinkDroplet(p) \/ DeleteBot(p) \/ ReleaseSlot(p)
    \/ RedeployDestroy(p) \/ RedeployMark(p) \/ GetLatest(p)
    \/ Shutdown(p) \/ SetPaused(p) \/ GetDroplet(p) \/ Reboot(p) \/ SetOnline(p)
    \/ Reply(p) \/ Cancel(p)

\* What the droplet of a request in flight may become: it is there or gone.
LEMMA CloudCallTame ==
    ASSUME Ownership, NEW d, NEW power \in Powers \ {"none"},
           \/ cloud' = cloud
           \/ cloud' = WithPower(d, power) /\ (d \in Droplets => IsUp(d))
           \/ cloud' = WithPower(d, "gone") /\ (d \in Droplets => cloud[d].power # "none")
    PROVE  TameCloud
BY DEF Ownership, TypeOK, CloudTypeOK, CloudRows, TameCloud, WithPower, IsUp

\* A droplet is gone when the destroy call lets the request go on to mark it.
LEMMA DestroyCallTame ==
    ASSUME Ownership, NEW p \in Handlers, req[p].pc \in {"destroy_droplet", "redeploy_destroy"},
           NEW next \in {"mark_destroyed", "redeploy_mark"}, DestroyCall(p, next)
    PROVE  Tame
<1>1. PICK o \in Outcomes(req[p].pc) :
        /\ cloud' = After(o, IF IsUp(req[p].droplet) THEN Destroyed(req[p].droplet) ELSE cloud,
                          cloud)
        /\ Becomes(p, IF o = "done" THEN At(req[p], next) ELSE Answered(req[p], "failed"))
        /\ UNCHANGED tables
  BY DEF DestroyCall
<1>2. /\ InFlight(p) /\ req[p].droplet \in Droplets
      /\ cloud[req[p].droplet].power # "none"
  BY LabelTypes DEF Ownership, GoneBeforeMark, DropletsKnown, InFlight
<1>3. TameCloud
  BY <1>1, <1>2, AfterIsEither, CloudCallTame DEF Destroyed, IsUp, Powers
<1>4. CASE o = "done"
  <2>1. cloud'[req[p].droplet].power = "gone"
    BY <1>1, <1>2, <1>4
       DEF After, IsUp, Destroyed, WithPower, Ownership, TypeOK, CloudTypeOK, CloudRows
  <2>2. TameRequest(p)
    BY <1>1, <1>2, <1>4, <2>1 DEF TameRequest, Becomes, At, Ownership, TypeOK, Requests, InFlight
  <2>3. \A q \in Handlers \ {p} : TameRequest(q)
    BY <1>1 DEF TameRequest, Becomes, InFlight, Ownership, TypeOK
  <2> QED  BY <1>1, <1>3, <2>2, <2>3, TameBotsIfSame, TameDropletsIfSame DEF Tame, tables
<1>5. CASE o # "done"
  BY <1>1, <1>2, <1>3, <1>5, CalmRequests, CalmIsTame, TameBotsIfSame, TameDropletsIfSame
     DEF Tame, tables, Ownership
<1> QED  BY <1>4, <1>5

\* Only a droplet that is gone is marked destroyed.
LEMMA MarkCallTame ==
    ASSUME Ownership, NEW p \in Handlers, req[p].pc \in {"mark_destroyed", "redeploy_mark"},
           NEW next \in Working \ Guarded, NEW error, Calm(p, error), MarkCall(p, next, error)
    PROVE  Tame
<1>1. PICK o \in Outcomes(req[p].pc) :
        /\ droplets' = After(o, MarkedDestroyed(req[p].droplet), droplets)
        /\ Becomes(p, IF o = "done" /\ DropletExists(req[p].droplet)
                      THEN At(req[p], next) ELSE error)
        /\ UNCHANGED <<accounts, bots, configs, uuids, cloud>>
  BY DEF MarkCall
<1>2. InFlight(p) /\ cloud[req[p].droplet].power = "gone"
  BY LabelTypes DEF Ownership, GoneBeforeMark, InFlight
<1>3. TameDroplets
  BY <1>1, <1>2 DEF After, MarkedDestroyed, TameDroplets, DropletExists, Ownership, TypeOK,
                    StoreTypeOK, DropletRows
<1> QED  BY <1>1, <1>2, <1>3, CalmRequests, CalmIsTame, TameBotsIfSame, TameCloudIfSame
            DEF Tame, Ownership

\* Every action listed in TameStep is tame.
LEMMA TameSteps ==
    ASSUME Ownership, NEW p \in Handlers, TameStep(p)
    PROVE  Tame
<1>1. /\ InFlight(p) =>
           /\ \A label \in Working \ Guarded : Calm(p, At(req[p], label))
           /\ \A result \in {"ok", "failed", "dropped"} : Calm(p, Answered(req[p], result))
           /\ Calm(p, Failed(req[p]))
           /\ \A giveUp : Calm(p, giveUp) => Calm(p, Retried(req[p], giveUp))
      /\ TypeOK
  BY CalmRequests DEF Ownership
<1>2. InFlight(p) => req[p].bot \in Bots
  BY DEF Ownership, IdsDrawn, TypeOK, StoreTypeOK
<1>3. \A b \in Bots : bots[b] \in BotRows
  BY <1>1 DEF TypeOK, StoreTypeOK
<1> DEFINE b == req[p].bot
<1>4. ASSUME SetProvisioning(p) PROVE Tame
  <2>1. InFlight(p)
    BY <1>4, LabelTypes DEF SetProvisioning, InFlight
  <2> DEFINE row == [bots[b] EXCEPT !.status = "provisioning"]
  <2>2. row.status # "absent" /\ row.droplet = bots[b].droplet /\ row.desired = bots[b].desired
    BY <1>2, <1>3, <2>1 DEF BotRows
  <2> HIDE DEF row
  <2> QED  BY <1>1, <1>4, <2>1, <2>2, LabelTypes, UpdateBotTame
              DEF SetProvisioning, WithStatus, Guarded, row
<1>5. ASSUME SetPending(p) PROVE Tame
  <2>1. InFlight(p)
    BY <1>5, LabelTypes DEF SetPending, InFlight
  <2> DEFINE row == [bots[b] EXCEPT !.status = "pending"]
  <2>2. row.status # "absent" /\ row.droplet = bots[b].droplet /\ row.desired = bots[b].desired
    BY <1>2, <1>3, <2>1 DEF BotRows
  <2> HIDE DEF row
  <2> QED  BY <1>1, <1>5, <2>1, <2>2, LabelTypes, UpdateBotTame
              DEF SetPending, WithStatus, Guarded, row
<1>6. ASSUME SetError(p) PROVE Tame
  <2>1. InFlight(p)
    BY <1>6, LabelTypes DEF SetError, InFlight
  <2> DEFINE row == [bots[b] EXCEPT !.status = "error"]
  <2>2. row.status # "absent" /\ row.droplet = bots[b].droplet /\ row.desired = bots[b].desired
    BY <1>2, <1>3, <2>1 DEF BotRows
  <2> HIDE DEF row
  <2> QED  BY <1>1, <1>6, <2>1, <2>2, LabelTypes, UpdateBotTame
              DEF SetError, WithStatus, Guarded, row
<1>7. ASSUME MarkFailed(p) PROVE Tame
  <2>1. InFlight(p)
    BY <1>7, LabelTypes DEF MarkFailed, InFlight
  <2> DEFINE row == [bots[b] EXCEPT !.status = "error"]
  <2>2. row.status # "absent" /\ row.droplet = bots[b].droplet /\ row.desired = bots[b].desired
    BY <1>2, <1>3, <2>1 DEF BotRows
  <2> HIDE DEF row
  <2> QED  BY <1>1, <1>7, <2>1, <2>2, LabelTypes, UpdateBotTame
              DEF MarkFailed, WithStatus, Guarded, row
<1>8. ASSUME SetPaused(p) PROVE Tame
  <2>1. InFlight(p)
    BY <1>8, LabelTypes DEF SetPaused, InFlight
  <2> DEFINE row == [bots[b] EXCEPT !.status = "paused"]
  <2>2. row.status # "absent" /\ row.droplet = bots[b].droplet /\ row.desired = bots[b].desired
    BY <1>2, <1>3, <2>1 DEF BotRows
  <2> HIDE DEF row
  <2> QED  BY <1>1, <1>8, <2>1, <2>2, LabelTypes, UpdateBotTame
              DEF SetPaused, WithStatus, Guarded, row
<1>9. ASSUME SetOnline(p) PROVE Tame
  <2>1. InFlight(p)
    BY <1>9, LabelTypes DEF SetOnline, InFlight
  <2> DEFINE row == [bots[b] EXCEPT !.status = "online"]
  <2>2. row.status # "absent" /\ row.droplet = bots[b].droplet /\ row.desired = bots[b].desired
    BY <1>2, <1>3, <2>1 DEF BotRows
  <2> HIDE DEF row
  <2> QED  BY <1>1, <1>9, <2>1, <2>2, LabelTypes, UpdateBotTame
              DEF SetOnline, WithStatus, Guarded, row
<1>10. ASSUME SetDesired(p) PROVE Tame
  <2>1. InFlight(p)
    BY <1>10, LabelTypes DEF SetDesired, InFlight
  <2> DEFINE row == [bots[b] EXCEPT !.desired = 1, !.applied = 0]
  <2>2. BotExists(b) => 1 \in configs[b]
    BY <1>10 DEF SetDesired, Ownership, StoredBeforeDesired
  <2>3. row.status = bots[b].status /\ row.droplet = bots[b].droplet /\ row.desired = 1
    BY <1>2, <1>3, <2>1 DEF BotRows
  <2> HIDE DEF row
  <2> QED  BY <1>1, <1>10, <2>1, <2>2, <2>3, LabelTypes, UpdateBotTame
              DEF SetDesired, WithConfigVersion, Guarded, row, BotExists
<1>11. ASSUME SetToken(p) PROVE Tame
  <2>1. InFlight(p)
    BY <1>11, LabelTypes DEF SetToken, InFlight
  <2> DEFINE t == CHOOSE token \in FreshTokens : TRUE
             row == [bots[b] EXCEPT !.token = t]
             next == [At(req[p], "create_droplet") EXCEPT !.token = t]
  <2>2. row.status = bots[b].status /\ row.droplet = bots[b].droplet /\ row.desired = bots[b].desired
    BY <1>2, <1>3, <2>1 DEF BotRows
  <2>3. Calm(p, next)
    BY <1>1, <2>1 DEF Calm, At, TypeOK, Requests, Guarded
  <2> HIDE DEF row
  <2> QED  BY <1>1, <1>11, <2>1, <2>2, <2>3, UpdateBotTame DEF SetToken, WithToken, row, BotExists
<1>12. ASSUME UnlinkDroplet(p) PROVE Tame
  <2>1. InFlight(p)
    BY <1>12, LabelTypes DEF UnlinkDroplet, InFlight
  <2> DEFINE row == [bots[b] EXCEPT !.droplet = NoDroplet]
  <2>2. row.status = bots[b].status /\ row.droplet = NoDroplet /\ row.desired = bots[b].desired
    BY <1>2, <1>3, <2>1 DEF BotRows
  <2> HIDE DEF row
  <2> QED  BY <1>1, <1>12, <2>1, <2>2, LabelTypes, UpdateBotTame
              DEF UnlinkDroplet, WithDroplet, Guarded, row, BotExists
<1>13. ASSUME DeleteBot(p) PROVE Tame
  <2>1. InFlight(p)
    BY <1>13, LabelTypes DEF DeleteBot, InFlight
  <2> DEFINE row == [bots[b] EXCEPT !.status = "destroyed"]
  <2>2. row.status = "destroyed" /\ row.droplet = bots[b].droplet /\ row.desired = bots[b].desired
    BY <1>2, <1>3, <2>1 DEF BotRows
  <2> HIDE DEF row
  <2> QED  BY <1>1, <1>13, <2>1, <2>2, LabelTypes, UpdateBotTame
              DEF DeleteBot, Deleted, WithStatus, Guarded, row
<1>14. ASSUME InsertConfig(p) PROVE Tame
  <2>1. InFlight(p)
    BY <1>14, LabelTypes DEF InsertConfig, InFlight
  <2>2. PICK o \in Outcomes("create_config") :
          /\ configs' = After(o, ConfigsWith(b, 1), configs)
          /\ Becomes(p, IF o = "done" /\ ConfigInsertable(b, 1)
                        THEN At(req[p], "set_desired") ELSE Failed(req[p]))
    BY <1>14 DEF InsertConfig
  <2>3. /\ \A x \in Bots : configs[x] \subseteq configs'[x]
        /\ o = "done" /\ ConfigInsertable(b, 1) => 1 \in configs'[b]
    BY <1>1, <1>2, <2>1, <2>2 DEF After, ConfigsWith, TypeOK, StoreTypeOK
  <2>4. TameRequest(p)
    <3>1. CASE o = "done" /\ ConfigInsertable(b, 1)
      <4>1. /\ req'[p].pc = "set_desired" /\ req'[p].bot = b
            /\ req'[p].droplet = req[p].droplet
        BY <1>1, <2>2, <3>1 DEF Becomes, At, TypeOK, Requests
      <4> QED  BY <2>1, <2>3, <3>1, <4>1 DEF TameRequest
    <3>2. CASE ~(o = "done" /\ ConfigInsertable(b, 1))
      BY <1>1, <2>1, <2>2, <3>2, CalmIsTame
    <3> QED  BY <3>1, <3>2
  <2>5. \A q \in Handlers \ {p} : TameRequest(q)
    BY <1>1, <2>2 DEF TameRequest, Becomes, InFlight, TypeOK
  <2> QED  BY <1>14, <2>3, <2>4, <2>5, TameBotsIfSame, TameDropletsIfSame, TameCloudIfSame
              DEF Tame, InsertConfig
<1>15. ASSUME RollbackBot(p) PROVE Tame
  <2>1. InFlight(p)
    BY <1>15, LabelTypes DEF RollbackBot, InFlight
  <2>2. PICK o \in Outcomes("hard_delete") :
          /\ bots' = After(o, HardDeleted(b), bots)
          /\ configs' = After(o, ConfigsWithout(b), configs)
          /\ droplets' = After(o, DropletsReleased(b), droplets)
          /\ Becomes(p, At(req[p], "give_back"))
    BY <1>15 DEF RollbackBot
  <2>3. UNCHANGED <<uuids, cloud>>
    BY <1>15 DEF RollbackBot
  <2>4. Calm(p, At(req[p], "give_back"))
    BY <1>1, <2>1, LabelTypes DEF Guarded
  <2>5. TameBots
    BY <1>1, <1>2, <2>1, <2>2 DEF TameBots, BotExists, After, HardDeleted, NoBotRow, ConfigsWithout,
                                  TypeOK, StoreTypeOK
  <2>6. TameDroplets
    BY <1>1, <1>2, <2>1, <2>2 DEF TameDroplets, DropletExists, BotExists, After, HardDeleted,
                                  NoBotRow, DropletsReleased, TypeOK, StoreTypeOK, DropletRows
  <2> QED  BY <1>1, <2>2, <2>3, <2>4, <2>5, <2>6, CalmIsTame, TameCloudIfSame DEF Tame
<1>16. ASSUME RollbackCounter(p) PROVE Tame
  <2>1. InFlight(p)
    BY <1>16, LabelTypes DEF RollbackCounter, InFlight
  <2>2. PICK r : Becomes(p, r) /\ Calm(p, r)
    BY <1>1, <1>16, <2>1, LabelTypes DEF RollbackCounter, Guarded
  <2> QED  BY <1>1, <1>16, <2>2, CalmIsTame, TameBotsIfSame, TameDropletsIfSame, TameCloudIfSame
              DEF RollbackCounter, Tame, tables
<1>17. ASSUME ReleaseSlot(p) PROVE Tame
  <2>1. InFlight(p)
    BY <1>17, LabelTypes DEF ReleaseSlot, InFlight
  <2>2. PICK r : Becomes(p, r) /\ Calm(p, r)
    BY <1>1, <1>17, <2>1, LabelTypes DEF ReleaseSlot, Guarded
  <2> QED  BY <1>1, <1>17, <2>2, CalmIsTame, TameBotsIfSame, TameDropletsIfSame, TameCloudIfSame
              DEF ReleaseSlot, Tame, tables
<1>18. ASSUME GetDroplet(p) PROVE Tame
  <2>1. InFlight(p)
    BY <1>18, LabelTypes DEF GetDroplet, InFlight
  <2>2. PICK r : Becomes(p, r) /\ Calm(p, r)
    BY <1>1, <1>18, <2>1, LabelTypes DEF GetDroplet, Guarded
  <2> QED  BY <1>1, <1>18, <2>2, CalmIsTame, TameBotsIfSame, TameDropletsIfSame, TameCloudIfSame
              DEF GetDroplet, Tame, tables
<1>19. ASSUME GetLatest(p) PROVE Tame
  <2>1. InFlight(p)
    BY <1>19, LabelTypes DEF GetLatest, InFlight
  <2>2. Calm(p, [At(req[p], "set_provisioning") EXCEPT !.droplet = NoDroplet])
    BY <1>1, <2>1 DEF Calm, At, TypeOK, Requests, Guarded
  <2>3. PICK r : Becomes(p, r) /\ Calm(p, r)
    BY <1>1, <1>19, <2>1, <2>2 DEF GetLatest
  <2> QED  BY <1>1, <1>19, <2>3, CalmIsTame, TameBotsIfSame, TameDropletsIfSame, TameCloudIfSame
              DEF GetLatest, Tame, tables
<1>20. ASSUME CleanupDroplet(p) PROVE Tame
  <2>1. InFlight(p)
    BY <1>20, LabelTypes DEF CleanupDroplet, InFlight
  <2>2. PICK r : Becomes(p, r) /\ Calm(p, r)
    BY <1>1, <1>20, <2>1, LabelTypes DEF CleanupDroplet, Guarded
  <2>3. req[p].droplet \in Droplets => cloud[req[p].droplet].power # "none"
    BY <2>1 DEF Ownership, DropletsKnown
  <2>4. TameCloud
    BY <1>20, <2>3, AfterIsEither, CloudCallTame DEF CleanupDroplet, Destroyed, Powers
  <2> QED  BY <1>1, <1>20, <2>2, <2>4, CalmIsTame, TameBotsIfSame, TameDropletsIfSame
              DEF CleanupDroplet, Tame, tables
<1>21. ASSUME Shutdown(p) PROVE Tame
  <2>1. InFlight(p)
    BY <1>21, LabelTypes DEF Shutdown, InFlight
  <2>2. PICK r : Becomes(p, r) /\ Calm(p, r)
    BY <1>1, <1>21, <2>1, LabelTypes DEF Shutdown, Guarded
  <2>3. req[p].droplet \in Droplets => cloud[req[p].droplet].power # "none"
    BY <2>1 DEF Ownership, DropletsKnown
  <2>4. TameCloud
    BY <1>21, <2>3, AfterIsEither, CloudCallTame DEF Shutdown, ShutDown, Powers, IsUp
  <2> QED  BY <1>1, <1>21, <2>2, <2>4, CalmIsTame, TameBotsIfSame, TameDropletsIfSame
              DEF Shutdown, Tame, tables
<1>22. ASSUME Reboot(p) PROVE Tame
  <2>1. InFlight(p)
    BY <1>22, LabelTypes DEF Reboot, InFlight
  <2>2. PICK r : Becomes(p, r) /\ Calm(p, r)
    BY <1>1, <1>22, <2>1, LabelTypes DEF Reboot, Guarded
  <2>3. req[p].droplet \in Droplets => cloud[req[p].droplet].power # "none"
    BY <2>1 DEF Ownership, DropletsKnown
  <2>4. TameCloud
    BY <1>22, <2>3, AfterIsEither, CloudCallTame DEF Reboot, Rebooted, Powers
  <2> QED  BY <1>1, <1>22, <2>2, <2>4, CalmIsTame, TameBotsIfSame, TameDropletsIfSame
              DEF Reboot, Tame, tables
<1>23. ASSUME DestroyDroplet(p) PROVE Tame
  BY <1>23, DestroyCallTame DEF DestroyDroplet
<1>24. ASSUME RedeployDestroy(p) PROVE Tame
  BY <1>24, DestroyCallTame DEF RedeployDestroy
<1>25. ASSUME MarkDestroyed(p) PROVE Tame
  <2>1. InFlight(p)
    BY <1>25, LabelTypes DEF MarkDestroyed, InFlight
  <2> QED  BY <1>1, <1>25, <2>1, LabelTypes, MarkCallTame DEF MarkDestroyed, Guarded
<1>26. ASSUME RedeployMark(p) PROVE Tame
  <2>1. InFlight(p)
    BY <1>26, LabelTypes DEF RedeployMark, InFlight
  <2> QED  BY <1>1, <1>26, <2>1, LabelTypes, MarkCallTame DEF RedeployMark, Guarded
<1>27. ASSUME Reply(p) PROVE Tame
  <2>1. Calm(p, Idle)
    BY LabelTypes DEF Calm, Idle
  <2> QED  BY <1>1, <1>27, <2>1, CalmIsTame, TameBotsIfSame, TameDropletsIfSame, TameCloudIfSame
              DEF Reply, Tame, tables
<1>28. ASSUME Cancel(p) PROVE Tame
  <2>1. Calm(p, Answered(req[p], "dropped"))
    BY <1>1, <1>28 DEF Cancel
  <2> QED  BY <1>1, <1>28, <2>1, CalmIsTame, TameBotsIfSame, TameDropletsIfSame, TameCloudIfSame
              DEF Cancel, Tame, tables
<1> QED
  BY <1>4, <1>5, <1>6, <1>7, <1>8, <1>9, <1>10, <1>11, <1>12, <1>13, <1>14, <1>15, <1>16,
     <1>17, <1>18, <1>19, <1>20, <1>21, <1>22, <1>23, <1>24, <1>25, <1>26, <1>27, <1>28
     DEF TameStep

----------------------------------------------------------------------------
(* The other steps.                                                         *)

\* A new bot's id is one that no row and no other request has.
LEMMA ReserveSlotKeeps ==
    ASSUME Ownership, TypeOK', NEW p \in Handlers, NEW a \in Accounts, ReserveSlot(p, a)
    PROVE  Ownership'
<1> DEFINE b == CHOOSE id \in Bots \ uuids : TRUE
<1>1. TypeOK /\ b \in Bots \ uuids /\ UNCHANGED <<bots, configs, droplets, cloud>>
  BY DEF ReserveSlot, Ownership, TypeOK, StoreTypeOK
<1> DEFINE new == [Idle EXCEPT !.pc = "create_bot", !.op = "create", !.bot = b, !.account = a]
           refusal == [Idle EXCEPT !.pc = "failed", !.op = "create"]
<1>0. \/ uuids' = uuids /\ Becomes(p, refusal)
      \/ uuids' = uuids \cup {b} /\ Becomes(p, new)
  BY DEF ReserveSlot
<1>r. /\ refusal.pc = "failed"
      /\ new.pc = "create_bot" /\ new.bot = b /\ new.droplet = NoDroplet
  BY DEF Idle
<1> HIDE DEF b, new, refusal
<1>2. CASE uuids' = uuids /\ Becomes(p, refusal)
  <2>1. Calm(p, refusal)
    BY <1>r, LabelTypes DEF Calm
  <2> QED  BY <1>1, <1>2, <2>1, CalmIsTame, TameBotsIfSame, TameDropletsIfSame, TameCloudIfSame,
              TameKeepsOwnership DEF Tame
<1>3. CASE uuids' = uuids \cup {b} /\ Becomes(p, new)
  <2>1. /\ uuids' = uuids \cup {b}
        /\ req'[p].pc = "create_bot" /\ req'[p].bot = b /\ req'[p].droplet = NoDroplet
        /\ \A q \in Handlers \ {p} : req'[q] = req[q]
    BY <1>3, <1>r DEF Becomes, Ownership, TypeOK
  <2>2. ~BotExists(b)
    BY <1>1 DEF Ownership, IdsDrawn
  <2>3. \A q \in Handlers \ {p} : InFlight(q)' => InFlight(q) /\ req[q].bot \in uuids
    BY <2>1 DEF InFlight, Ownership, IdsDrawn
  <2>4. IdsDrawn'
    BY <1>1, <2>1, <2>3 DEF Ownership, IdsDrawn, BotExists
  <2>5. InsertedOnce'
    BY <1>1, <2>1, <2>2, <2>3 DEF Ownership, InsertedOnce, BotExists, InFlight
  <2>6. DropletsKnown'
    BY <1>1, <2>1, <2>3, StoreAssumption DEF Ownership, DropletsKnown, DropletExists
  <2>7. SpawnedIsPrivate'
    BY <1>1, <2>1, <2>3, StoreAssumption DEF Ownership, SpawnedIsPrivate, Spawned
  <2>8. SpawnedIsAssigned' /\ GoneBeforeMark' /\ StoredBeforeDesired'
    BY <1>1, <2>1, <2>3
       DEF Ownership, SpawnedIsAssigned, GoneBeforeMark, StoredBeforeDesired, DropletExists,
           BotExists
  <2>9. DropletOwnership' /\ MarkedDestroyedIsGone' /\ DesiredConfigExists'
    BY <1>1
       DEF Ownership, DropletOwnership, MarkedDestroyedIsGone, DesiredConfigExists,
           DropletExists, IsUp
  <2> QED  BY <2>4, <2>5, <2>6, <2>7, <2>8, <2>9 DEF Ownership
<1> QED  BY <1>0, <1>2, <1>3

\* A request on an existing bot starts with the droplet of the bot's row.
LEMMA BeginKeeps ==
    ASSUME Ownership, TypeOK', NEW p \in Handlers, NEW b \in Bots, NEW op,
           NEW found \in Working \cup {"failed"},
           found \notin {"create_bot", "set_desired", "insert_droplet", "assign_droplet",
                        "link_droplet", "mark_destroyed", "redeploy_mark"},
           found \in {"destroy_droplet", "redeploy_destroy"} => bots[b].droplet # NoDroplet,
           Begin(p, op, b, found)
    PROVE  Ownership'
<1>1. TypeOK /\ UNCHANGED <<bots, configs, droplets, uuids, cloud>>
  BY DEF Begin, Ownership, tables
<1> DEFINE refusal == Answered(Reading(op, b), "failed")
           new == At(Reading(op, b), found)
<1>2. \/ Becomes(p, refusal)
      \/ found \in Working /\ BotExists(b) /\ Becomes(p, new)
  BY DEF Begin
<1>3. /\ refusal.pc = "failed"
      /\ new.pc = found /\ new.bot = b /\ new.droplet = bots[b].droplet
  BY DEF Answered, Reading, At, Idle
<1> HIDE DEF new, refusal
<1>4. CASE Becomes(p, refusal)
  <2>1. Calm(p, refusal)
    BY <1>3, LabelTypes DEF Calm
  <2> QED  BY <1>1, <1>4, <2>1, CalmIsTame, TameBotsIfSame, TameDropletsIfSame, TameCloudIfSame,
              TameKeepsOwnership DEF Tame
<1>5. CASE found \in Working /\ BotExists(b) /\ Becomes(p, new)
  <2>1. /\ req'[p].pc = found /\ req'[p].bot = b /\ req'[p].droplet = bots[b].droplet
        /\ \A q \in Handlers \ {p} : req'[q] = req[q]
        /\ b \in uuids
    BY <1>3, <1>5 DEF Becomes, Ownership, TypeOK, IdsDrawn
  <2>2. \A q \in Handlers \ {p} : InFlight(q)' <=> InFlight(q)
    BY <2>1 DEF InFlight
  <2>3. IdsDrawn'
    BY <1>1, <2>1, <2>2 DEF Ownership, IdsDrawn, BotExists
  <2>4. InsertedOnce'
    BY <1>1, <1>5, <2>1, <2>2 DEF Ownership, InsertedOnce, BotExists
  <2>5. DropletsKnown'
    BY <1>1, <2>1, <2>2 DEF Ownership, DropletsKnown, DropletExists
  <2>6. SpawnedIsPrivate'
    BY <1>1, <2>1, <2>2 DEF Ownership, SpawnedIsPrivate, Spawned
  <2>7. SpawnedIsAssigned' /\ StoredBeforeDesired'
    BY <1>1, <2>1 DEF Ownership, SpawnedIsAssigned, StoredBeforeDesired, DropletExists, BotExists
  <2>8. GoneBeforeMark'
    BY <1>1, <2>1 DEF Ownership, GoneBeforeMark, TypeOK, StoreTypeOK, BotRows
  <2>9. DropletOwnership' /\ MarkedDestroyedIsGone' /\ DesiredConfigExists'
    BY <1>1 DEF Ownership, DropletOwnership, MarkedDestroyedIsGone, DesiredConfigExists,
                DropletExists, IsUp
  <2> QED  BY <2>3, <2>4, <2>5, <2>6, <2>7, <2>8, <2>9 DEF Ownership
<1> QED  BY <1>2, <1>4, <1>5

\* The new row can only be found once it is there.
LEMMA InsertBotKeeps ==
    ASSUME Ownership, TypeOK', NEW p \in Handlers, InsertBot(p)
    PROVE  Ownership'
<1> DEFINE b == req[p].bot
<1>1. /\ TypeOK /\ req[p].pc = "create_bot" /\ InFlight(p)
      /\ UNCHANGED <<configs, droplets, uuids, cloud>>
  BY LabelTypes DEF InsertBot, Ownership, InFlight
<1>2. b \in uuids /\ b \in Bots /\ ~BotExists(b)
  BY <1>1 DEF Ownership, IdsDrawn, InsertedOnce, TypeOK, StoreTypeOK
<1>3. PICK r : Calm(p, r) /\ Becomes(p, r) /\ r.pc \notin Guarded
  <2>1. At(req[p], "create_config").pc \notin Guarded /\ Failed(req[p]).pc \notin Guarded
    BY <1>1 DEF At, Failed, Answered, Idle, Guarded, TypeOK, Requests
  <2> QED  BY <1>1, <2>1, CalmRequests, LabelTypes DEF InsertBot, Guarded
<1>4. \A q \in Handlers : TameRequest(q)
  BY <1>1, <1>3, CalmIsTame
<1>5. CASE bots' = bots
  BY <1>1, <1>4, <1>5, TameBotsIfSame, TameDropletsIfSame, TameCloudIfSame,
     TameKeepsOwnership
     DEF Tame
<1>6. CASE bots' = Inserted(b, req[p].account)
  <2>1. /\ bots'[b].status = "pending" /\ bots'[b].droplet = NoDroplet /\ bots'[b].desired = 0
        /\ \A x \in Bots \ {b} : bots'[x] = bots[x]
    BY <1>1, <1>2, <1>6 DEF Inserted, NoBotRow, TypeOK, StoreTypeOK
  <2>2. \A q \in Handlers \ {p} : req'[q] = req[q] /\ (InFlight(q) => req[q].bot # b)
    BY <1>1, <1>3 DEF Becomes, Ownership, InsertedOnce, TypeOK
  <2>3. /\ req'[p].pc \notin Guarded
        /\ InFlight(p)' => req'[p].bot = b /\ req'[p].droplet \in {req[p].droplet, NoDroplet}
    BY <1>1, <1>3, <1>4 DEF TameRequest, Becomes, TypeOK
  <2>4. \A q \in Handlers \ {p} : InFlight(q)' <=> InFlight(q)
    BY <2>2 DEF InFlight
  <2>5. IdsDrawn'
    BY <1>1, <1>2, <2>1, <2>2, <2>3, <2>4 DEF Ownership, IdsDrawn, BotExists
  <2>6. InsertedOnce'
    <3> SUFFICES ASSUME NEW q \in Handlers, req'[q].pc = "create_bot"
                 PROVE  /\ bots'[req'[q].bot].status = "absent"
                        /\ \A x \in Handlers \ {q} : InFlight(x)' => req'[x].bot # req'[q].bot
      BY DEF InsertedOnce, BotExists
    <3>1. q # p /\ req'[q] = req[q] /\ InFlight(q)
      BY <2>2, <2>3, LabelTypes DEF Guarded, InFlight
    <3>2. req[q].bot \in Bots
      BY <3>1 DEF Ownership, IdsDrawn, TypeOK, StoreTypeOK
    <3> QED  BY <1>1, <2>1, <2>2, <2>3, <2>4, <3>1, <3>2 DEF Ownership, InsertedOnce, BotExists
  <2>7. DropletsKnown'
    BY <1>1, <2>1, <2>2, <2>3, <2>4, StoreAssumption DEF Ownership, DropletsKnown, DropletExists
  <2>8. SpawnedIsPrivate'
    BY <1>1, <2>1, <2>2, <2>3, <2>4, StoreAssumption
       DEF Ownership, SpawnedIsPrivate, Spawned, Guarded
  <2>9. SpawnedIsAssigned' /\ StoredBeforeDesired'
    <3> SUFFICES ASSUME NEW q \in Handlers, req'[q].pc \in {"link_droplet", "set_desired"}
                 PROVE  /\ req'[q].pc = "link_droplet" =>
                             /\ DropletExists(req[q].droplet)'
                             /\ BotExists(req[q].bot)' => droplets'[req'[q].droplet].bot = req'[q].bot
                        /\ req'[q].pc = "set_desired" /\ BotExists(req[q].bot)'
                             => 1 \in configs'[req'[q].bot]
      BY DEF SpawnedIsAssigned, StoredBeforeDesired
    <3>1. q # p /\ req'[q] = req[q] /\ InFlight(q)
      BY <2>2, <2>3, LabelTypes DEF Guarded, InFlight
    <3>2. req[q].bot \in Bots
      BY <3>1 DEF Ownership, IdsDrawn, TypeOK, StoreTypeOK
    <3> QED  BY <1>1, <2>1, <2>2, <3>1, <3>2
             DEF Ownership, SpawnedIsAssigned, StoredBeforeDesired, DropletExists, BotExists
  <2>10. GoneBeforeMark'
    BY <1>1, <2>2, <2>3 DEF Ownership, GoneBeforeMark, Guarded
  <2>11. DropletOwnership' /\ MarkedDestroyedIsGone' /\ DesiredConfigExists'
    BY <1>1, <2>1, StoreAssumption
       DEF Ownership, DropletOwnership, MarkedDestroyedIsGone, DesiredConfigExists,
                DropletExists, IsUp
  <2> QED  BY <2>5, <2>6, <2>7, <2>8, <2>9, <2>10, <2>11 DEF Ownership
<1> QED  BY <1>5, <1>6, AfterIsEither DEF InsertBot

\* DigitalOcean's new droplet is one nobody knows of.
LEMMA CreateDropletKeeps ==
    ASSUME Ownership, TypeOK', NEW p \in Handlers, CreateDroplet(p)
    PROVE  Ownership'
<1> DEFINE d == NewDroplet
           new == [At(req[p], "insert_droplet") EXCEPT !.droplet = d, !.token = 0]
<1>1. /\ TypeOK /\ req[p].pc = "create_droplet" /\ InFlight(p)
      /\ UNCHANGED tables
  BY LabelTypes DEF CreateDroplet, Ownership, InFlight
<1>2. Unused # {} => d \in Droplets /\ cloud[d].power = "none"
  BY DEF NewDroplet, Unused
<1>3. /\ new.pc = "insert_droplet" /\ new.bot = req[p].bot /\ new.droplet = d
      /\ Calm(p, [req[p] EXCEPT !.tries = @ + 1])
      /\ Calm(p, [At(req[p], "set_error") EXCEPT !.token = 0])
      /\ Calm(p, [At(req[p], "set_pending") EXCEPT !.token = 0])
  BY <1>1 DEF Calm, At, Guarded, TypeOK, Requests
<1> HIDE DEF d, new
<1>4. \/ UNCHANGED cloud /\ \E r : Calm(p, r) /\ Becomes(p, r)
      \/ /\ Unused # {} /\ cloud' = Created(d, req[p].bot, req[p].token)
         /\ Becomes(p, new) \/ \E r : Calm(p, r) /\ Becomes(p, r)
  BY <1>3 DEF CreateDroplet, d, new
<1>5. CASE UNCHANGED cloud /\ \E r : Calm(p, r) /\ Becomes(p, r)
  BY <1>1, <1>5, CalmIsTame, TameBotsIfSame, TameDropletsIfSame, TameCloudIfSame, TameKeepsOwnership
     DEF Tame, tables
<1>6. CASE /\ Unused # {} /\ cloud' = Created(d, req[p].bot, req[p].token)
           /\ Becomes(p, new) \/ \E r : Calm(p, r) /\ Becomes(p, r)
  <2>1. /\ d \in Droplets /\ cloud[d].power = "none"
        /\ cloud'[d].power = "new" /\ cloud'[d].bot = req[p].bot
        /\ \A x \in Droplets \ {d} : cloud'[x] = cloud[x]
    BY <1>1, <1>2, <1>6 DEF Created, TypeOK, CloudTypeOK, CloudRows
  <2>2. /\ \A q \in Handlers : InFlight(q) => req[q].droplet # d
        /\ \A b \in Bots : bots[b].droplet # d
        /\ ~DropletExists(d)
    BY <2>1 DEF Ownership, DropletsKnown
  <2>3. \A q \in Handlers \ {p} : req'[q] = req[q]
    BY <1>1, <1>6 DEF Becomes, TypeOK
  <2>4. /\ InFlight(p)' => /\ req'[p].bot = req[p].bot
                           /\ req'[p].droplet \in {req[p].droplet, NoDroplet, d}
        /\ req'[p].pc \notin Guarded \/ (req'[p].pc = "insert_droplet" /\ req'[p].droplet = d)
    BY <1>1, <1>3, <1>6, LabelTypes DEF Becomes, Calm, TypeOK, InFlight, Guarded
  <2>5. \A q \in Handlers \ {p} : InFlight(q)' <=> InFlight(q)
    BY <2>3 DEF InFlight
  <2>6. IdsDrawn'
    BY <1>1, <2>3, <2>4, <2>5 DEF Ownership, IdsDrawn, BotExists, tables
  <2>7. InsertedOnce'
    BY <1>1, <2>3, <2>4, <2>5, LabelTypes
       DEF Ownership, InsertedOnce, BotExists, tables, Guarded, InFlight
  <2>8. DropletsKnown'
    BY <1>1, <2>1, <2>2, <2>3, <2>4, <2>5, StoreAssumption
       DEF Ownership, DropletsKnown, DropletExists, tables
  <2>9. SpawnedIsPrivate'
    BY <1>1, <2>1, <2>2, <2>3, <2>4, <2>5, StoreAssumption, LabelTypes
       DEF Ownership, SpawnedIsPrivate, Spawned, tables, Guarded, InFlight
  <2>10. SpawnedIsAssigned' /\ StoredBeforeDesired'
    BY <1>1, <2>3, <2>4 DEF Ownership, SpawnedIsAssigned, StoredBeforeDesired, DropletExists,
                            BotExists, tables, Guarded
  <2>11. GoneBeforeMark'
    BY <1>1, <2>1, <2>3, <2>4 DEF Ownership, GoneBeforeMark, Guarded
  <2>12. DropletOwnership' /\ DesiredConfigExists'
    BY <1>1 DEF Ownership, DropletOwnership, DesiredConfigExists, DropletExists, tables
  <2>13. MarkedDestroyedIsGone'
    BY <1>1, <2>1, <2>2 DEF Ownership, MarkedDestroyedIsGone, DropletExists, IsUp, tables
  <2> QED  BY <2>6, <2>7, <2>8, <2>9, <2>10, <2>11, <2>12, <2>13 DEF Ownership
<1> QED  BY <1>4, <1>5, <1>6

\* Inserting and assigning a droplet's row disturbs no bot: none names the droplet yet.
LEMMA DropletRowKeeps ==
    ASSUME Ownership, TypeOK', NEW p \in Handlers, InsertDroplet(p) \/ AssignDroplet(p)
    PROVE  Ownership'
<1> DEFINE d == req[p].droplet
<1>1. /\ TypeOK /\ Spawned(p) /\ InFlight(p) /\ req[p].pc # "link_droplet"
      /\ UNCHANGED <<accounts, bots, configs, uuids, cloud>>
  BY LabelTypes DEF InsertDroplet, AssignDroplet, Spawned, Ownership, InFlight
<1>2. /\ d \in Droplets
      /\ \A b \in Bots : bots[b].droplet # d
      /\ \A q \in Handlers \ {p} : InFlight(q) => req[q].droplet # d
      /\ cloud[d].power # "none" /\ req[p].bot \in Bots
  BY <1>1 DEF Ownership, SpawnedIsPrivate, DropletsKnown, IdsDrawn, TypeOK, StoreTypeOK
<1>3. /\ \A x \in Droplets \ {d} : droplets'[x] = droplets[x]
      /\ \A x \in Droplets : DropletExists(x) => DropletExists(x)'
      /\ droplets'[d].status = "destroyed" => droplets[d].status = "destroyed"
  BY <1>1, <1>2
     DEF InsertDroplet, AssignDroplet, After, DropletInserted, WithAssignment, Assignable,
                    DropletExists, TypeOK, StoreTypeOK, DropletRows
<1>4. PICK label \in {"assign_droplet", "link_droplet", "cleanup_droplet"} :
        /\ Becomes(p, At(req[p], label))
        /\ label = "link_droplet" => droplets'[d].status # "absent" /\ droplets'[d].bot = req[p].bot
  <2>1. CASE InsertDroplet(p)
    BY <2>1 DEF InsertDroplet
  <2>2. CASE AssignDroplet(p)
    <3>1. PICK o \in Outcomes("assign_droplet") :
            /\ droplets' = After(o, WithAssignment(d, req[p].bot), droplets)
            /\ Becomes(p, At(req[p], IF o = "done" /\ Assignable(d, req[p].bot)
                                     THEN "link_droplet" ELSE "cleanup_droplet"))
      BY <2>2 DEF AssignDroplet
    <3>2. CASE o = "done" /\ Assignable(d, req[p].bot)
      <4>1. droplets' = [droplets EXCEPT ![d].bot = req[p].bot]
        BY <3>1, <3>2 DEF After, WithAssignment
      <4>2. droplets'[d].status # "absent" /\ droplets'[d].bot = req[p].bot
        BY <1>1, <1>2, <3>2, <4>1 DEF Assignable, DropletExists, TypeOK, StoreTypeOK, DropletRows
      <4> QED  BY <3>1, <3>2, <4>2
    <3>3. CASE ~(o = "done" /\ Assignable(d, req[p].bot))
      BY <3>1, <3>3
    <3> QED  BY <3>2, <3>3
  <2> QED  BY <2>1, <2>2
<1>5. /\ req'[p].pc = label /\ req'[p].bot = req[p].bot /\ req'[p].droplet = d
      /\ \A q \in Handlers \ {p} : req'[q] = req[q]
  BY <1>1, <1>4 DEF Becomes, At, TypeOK, Requests
<1>6. \A q \in Handlers : InFlight(q)' <=> InFlight(q)
  BY <1>1, <1>5, LabelTypes DEF InFlight
<1> HIDE DEF d
<1>7. IdsDrawn' /\ InsertedOnce'
  BY <1>1, <1>5, <1>6 DEF Ownership, IdsDrawn, InsertedOnce, BotExists
<1>8. DropletsKnown'
  BY <1>1, <1>2, <1>3, <1>5, <1>6 DEF Ownership, DropletsKnown, DropletExists, d
<1>9. SpawnedIsPrivate'
  BY <1>1, <1>2, <1>5, <1>6 DEF Ownership, SpawnedIsPrivate, Spawned, d
<1>10. SpawnedIsAssigned'
  <2> SUFFICES ASSUME NEW q \in Handlers, req'[q].pc = "link_droplet"
               PROVE  /\ droplets'[req'[q].droplet].status # "absent"
                      /\ BotExists(req[q].bot)' => droplets'[req'[q].droplet].bot = req'[q].bot
    BY DEF SpawnedIsAssigned, DropletExists
  <2>1. CASE q = p
    BY <1>4, <1>5, <2>1
  <2>2. CASE q # p
    <3>1. /\ req'[q] = req[q] /\ InFlight(q) /\ req[q].droplet \in Droplets \ {d}
      BY <1>2, <1>5, <2>2, LabelTypes DEF InFlight, Ownership, SpawnedIsPrivate, Spawned
    <3> QED  BY <1>1, <1>3, <3>1 DEF Ownership, SpawnedIsAssigned, DropletExists, BotExists
  <2> QED  BY <2>1, <2>2
<1>11. GoneBeforeMark' /\ StoredBeforeDesired' /\ DesiredConfigExists'
  BY <1>1, <1>5 DEF Ownership, GoneBeforeMark, StoredBeforeDesired, DesiredConfigExists, BotExists
<1>12. DropletOwnership' /\ MarkedDestroyedIsGone'
  BY <1>1, <1>2, <1>3 DEF Ownership, DropletOwnership, MarkedDestroyedIsGone, DropletExists, IsUp
<1> QED  BY <1>7, <1>8, <1>9, <1>10, <1>11, <1>12 DEF Ownership

\* The link is made to a droplet whose row names the bot.
LEMMA LinkDropletKeeps ==
    ASSUME Ownership, TypeOK', NEW p \in Handlers, LinkDroplet(p)
    PROVE  Ownership'
<1> DEFINE d == req[p].droplet
           b == req[p].bot
<1>1. /\ TypeOK /\ Spawned(p) /\ InFlight(p) /\ req[p].pc = "link_droplet"
      /\ UNCHANGED <<accounts, configs, droplets, uuids, cloud>>
  BY LabelTypes DEF LinkDroplet, UpdateBot, Spawned, Ownership, InFlight
<1>2. /\ d \in Droplets /\ b \in Bots
      /\ \A q \in Handlers \ {p} : InFlight(q) => req[q].droplet # d
      /\ cloud[d].power # "none" /\ cloud[d].bot = b
      /\ DropletExists(d) /\ (BotExists(b) => droplets[d].bot = b)
  BY <1>1
     DEF Ownership, SpawnedIsPrivate, SpawnedIsAssigned, DropletsKnown, IdsDrawn, TypeOK,
         StoreTypeOK
<1>3. PICK r : Calm(p, r) /\ Becomes(p, r) /\ r.pc \notin Guarded
  <2>1. At(req[p], "cleanup_droplet").pc \notin Guarded /\ Answered(req[p], "ok").pc \notin Guarded
    BY <1>1 DEF At, Answered, Idle, Guarded, TypeOK, Requests
  <2> QED  BY <1>1, <2>1, CalmRequests, LabelTypes DEF LinkDroplet, UpdateBot, Guarded
<1>4. \A q \in Handlers : TameRequest(q)
  BY <1>1, <1>3, CalmIsTame
<1>5. CASE bots' = bots
  BY <1>1, <1>4, <1>5, TameBotsIfSame, TameDropletsIfSame, TameCloudIfSame,
     TameKeepsOwnership
     DEF Tame
<1>6. CASE BotExists(b) /\ bots' = [bots EXCEPT ![b].droplet = d]
  <2>1. /\ bots'[b].droplet = d
        /\ \A x \in Bots : bots'[x].status = bots[x].status /\ bots'[x].desired = bots[x].desired
        /\ \A x \in Bots \ {b} : bots'[x] = bots[x]
    BY <1>1, <1>2, <1>6 DEF TypeOK, StoreTypeOK, BotRows
  <2>2. /\ \A q \in Handlers \ {p} : req'[q] = req[q]
        /\ req'[p].pc \notin Guarded
        /\ InFlight(p)' => req'[p].bot = b /\ req'[p].droplet \in {d, NoDroplet}
    BY <1>1, <1>3 DEF Calm, Becomes, TypeOK, InFlight
  <2>3. \A q \in Handlers : InFlight(q)' => InFlight(q)
    BY <1>1, <2>2 DEF InFlight
  <2> HIDE DEF d, b
  <2>4. IdsDrawn'
    BY <1>1, <1>2, <2>1, <2>2, <2>3 DEF Ownership, IdsDrawn, BotExists, b
  <2>5. InsertedOnce'
    <3> SUFFICES ASSUME NEW q \in Handlers, req'[q].pc = "create_bot"
                 PROVE  /\ bots'[req'[q].bot].status = "absent"
                        /\ \A x \in Handlers \ {q} : InFlight(x)' => req'[x].bot # req'[q].bot
      BY DEF InsertedOnce, BotExists
    <3>1. q # p /\ req'[q] = req[q] /\ InFlight(q)
      BY <2>2, LabelTypes DEF Guarded, InFlight
    <3>2. req[q].bot \in Bots
      BY <3>1 DEF Ownership, IdsDrawn, TypeOK, StoreTypeOK
    <3> QED  BY <1>1, <2>1, <2>2, <2>3, <3>1, <3>2 DEF Ownership, InsertedOnce, BotExists, b
  <2>6. DropletsKnown'
    BY <1>1, <1>2, <2>1, <2>2, <2>3, StoreAssumption DEF Ownership, DropletsKnown, DropletExists
  <2>7. SpawnedIsPrivate'
    <3> SUFFICES ASSUME NEW q \in Handlers, Spawned(q)'
                 PROVE  /\ req'[q].droplet \in Droplets
                        /\ \A x \in Bots : bots'[x].droplet # req'[q].droplet
                        /\ \A x \in Handlers \ {q} : InFlight(x)' => req'[x].droplet # req'[q].droplet
      BY DEF SpawnedIsPrivate, Spawned
    <3>1. q # p /\ req'[q] = req[q] /\ InFlight(q) /\ Spawned(q)
      BY <2>2, LabelTypes DEF Guarded, InFlight, Spawned
    <3>2. req[q].droplet \in Droplets \ {d}
      BY <1>2, <3>1 DEF Ownership, SpawnedIsPrivate
    <3> QED  BY <1>1, <2>1, <2>2, <2>3, <3>1, <3>2, StoreAssumption DEF Ownership, SpawnedIsPrivate
  <2>8. SpawnedIsAssigned' /\ StoredBeforeDesired'
    <3> SUFFICES ASSUME NEW q \in Handlers, req'[q].pc \in {"link_droplet", "set_desired"}
                 PROVE  /\ req'[q].pc = "link_droplet" =>
                             /\ DropletExists(req[q].droplet)'
                             /\ BotExists(req[q].bot)' => droplets'[req'[q].droplet].bot = req'[q].bot
                        /\ req'[q].pc = "set_desired" /\ BotExists(req[q].bot)'
                             => 1 \in configs'[req'[q].bot]
      BY DEF SpawnedIsAssigned, StoredBeforeDesired
    <3>1. q # p /\ req'[q] = req[q] /\ InFlight(q)
      BY <2>2, LabelTypes DEF Guarded, InFlight
    <3>2. req[q].bot \in Bots
      BY <3>1 DEF Ownership, IdsDrawn, TypeOK, StoreTypeOK
    <3> QED  BY <1>1, <2>1, <2>2, <3>1, <3>2
             DEF Ownership, SpawnedIsAssigned, StoredBeforeDesired, DropletExists, BotExists
  <2>9. GoneBeforeMark'
    BY <1>1, <2>2 DEF Ownership, GoneBeforeMark, Guarded
  <2>10. DropletOwnership' /\ MarkedDestroyedIsGone' /\ DesiredConfigExists'
    BY <1>1, <1>2, <1>6, <2>1
       DEF Ownership, DropletOwnership, MarkedDestroyedIsGone, DesiredConfigExists, DropletExists, IsUp
  <2> QED  BY <2>4, <2>5, <2>6, <2>7, <2>8, <2>9, <2>10 DEF Ownership
<1> QED  BY <1>1, <1>5, <1>6, AfterIsEither DEF LinkDroplet, UpdateBot, WithDroplet, WithBot

----------------------------------------------------------------------------
(* The theorems.                                                            *)

\* Nothing exists initially.
LEMMA OwnershipInit == Init => Ownership
<1> SUFFICES ASSUME Init PROVE Ownership
  OBVIOUS
<1>1. TypeOK
  BY TypeInit
<1>2. /\ \A b \in Bots : /\ ~BotExists(b) /\ bots[b].droplet = NoDroplet /\ bots[b].desired = 0
      /\ \A d \in Droplets : droplets[d].status = "absent"
      /\ \A p \in Handlers : req[p].pc = "idle"
  BY DEF Init, StoreInit, BotExists, NoBotRow, Idle
<1> QED
  BY <1>1, <1>2, LabelTypes, StoreAssumption
     DEF Ownership, IdsDrawn, InsertedOnce, DropletsKnown, SpawnedIsPrivate, Spawned,
         SpawnedIsAssigned, GoneBeforeMark, StoredBeforeDesired, DropletOwnership,
         MarkedDestroyedIsGone, DesiredConfigExists, DropletExists, InFlight

\* Every step of the service keeps the invariant.
LEMMA OwnershipNext == Ownership /\ [Next]_vars => Ownership'
<1> SUFFICES ASSUME Ownership, [Next]_vars PROVE Ownership'
  OBVIOUS
<1>0. TypeOK /\ TypeOK'
  BY NextType DEF Ownership
<1>1. ASSUME UNCHANGED <<bots, configs, droplets, uuids, req>>, TameCloud PROVE Ownership'
  <2>1. \A p \in Handlers : TameRequest(p)
    BY <1>1 DEF TameRequest, InFlight
  <2> QED  BY <1>0, <1>1, <2>1, TameBotsIfSame, TameDropletsIfSame, TameKeepsOwnership DEF Tame
<1>2. CASE UNCHANGED vars
  BY <1>1, <1>2, TameCloudIfSame DEF vars, tables
<1>3. ASSUME NEW a \in Accounts, NEW tier \in TierChoices,
             CreateAccount(a, tier) \/ UpdateSubscription(a, tier)
      PROVE  Ownership'
  BY <1>1, <1>3, TameCloudIfSame DEF CreateAccount, UpdateSubscription
<1>4. ASSUME NEW d \in Droplets, Boot(d) \/ PowerOff(d), UNCHANGED req PROVE Ownership'
  BY <1>1, <1>4, CloudCallTame DEF Boot, PowerOff, Powers, IsUp, tables
<1>5. ASSUME NEW p \in Handlers, Step(p) \/ Cancel(p) PROVE Ownership'
  <2>1. CASE TameStep(p)
    BY <1>0, <2>1, TameSteps, TameKeepsOwnership
  <2>2. CASE ~TameStep(p)
    BY <1>0, <1>5, <2>2, InsertBotKeeps, CreateDropletKeeps, DropletRowKeeps, LinkDropletKeeps
       DEF Step, TameStep
  <2> QED  BY <2>1, <2>2
<1>6. ASSUME NEW p \in Handlers, Start(p) PROVE Ownership'
  <2>1. CASE \E a \in Accounts : ReserveSlot(p, a)
    BY <1>0, <2>1, ReserveSlotKeeps
  <2>2. ASSUME NEW b \in Bots, BeginDestroy(p, b) \/ BeginPause(p, b)
                                 \/ BeginResume(p, b) \/ BeginRedeploy(p, b)
        PROVE  Ownership'
    BY <1>0, <2>2, BeginKeeps, LabelTypes DEF BeginDestroy, BeginPause, BeginResume, BeginRedeploy
  <2> QED  BY <1>6, <2>1, <2>2 DEF Start
<1> QED  BY <1>2, <1>3, <1>4, <1>5, <1>6 DEF Next

\* The inductive invariant holds in every reachable state: rows, requests and droplets
\* agree on who owns what at every await of spawn_bot, destroy_bot and redeploy_bot.
THEOREM OwnershipHolds == Spec => []Ownership
BY OwnershipInit, OwnershipNext, PTL DEF Spec

\* No two bots ever share a droplet, and a bot's droplet has its row: link_droplet comes
\* after the row and its assignment, and hard_delete takes both away.
THEOREM DropletOwnershipHolds == Spec => []DropletOwnership
<1>1. Ownership => DropletOwnership
  BY DEF Ownership
<1> QED  BY <1>1, OwnershipHolds, PTL

\* A droplet marked destroyed in the database is not running at DigitalOcean.
THEOREM MarkedDestroyedIsGoneHolds == Spec => []MarkedDestroyedIsGone
<1>1. Ownership => MarkedDestroyedIsGone
  BY DEF Ownership
<1> QED  BY <1>1, OwnershipHolds, PTL

\* A bot is never told to run a config that is not stored.
THEOREM DesiredConfigExistsHolds == Spec => []DesiredConfigExists
<1>1. Ownership => DesiredConfigExists
  BY DEF Ownership
<1> QED  BY <1>1, OwnershipHolds, PTL

\* A step that takes a droplet down is one of the three calls of destroy_droplet.
LEMMA DownSteps ==
    ASSUME Ownership, [Next]_vars, NEW d \in Droplets, IsUp(d), ~IsUp(d)'
    PROVE  \E p \in Handlers : /\ req[p].droplet = d
                               /\ DestroyDroplet(p) \/ RedeployDestroy(p) \/ CleanupDroplet(p)
<1>0. cloud \in [Droplets -> CloudRows] /\ cloud' # cloud
  BY DEF Ownership, TypeOK, CloudTypeOK, IsUp
<1>1. ASSUME NEW x, NEW power \in {"active", "stopping", "off"},
             cloud' = cloud \/ cloud' = WithPower(x, power)
      PROVE  FALSE
  BY <1>0, <1>1 DEF WithPower, IsUp, CloudRows
<1>2. ASSUME NEW p \in Handlers, CleanupDroplet(p) \/ DestroyDroplet(p) \/ RedeployDestroy(p)
      PROVE  req[p].droplet = d
  <2>1. cloud' = WithPower(req[p].droplet, "gone")
    BY <1>0, <1>2, AfterIsEither
       DEF CleanupDroplet, DestroyDroplet, RedeployDestroy, DestroyCall, Destroyed
  <2> QED  BY <1>0, <2>1 DEF WithPower, IsUp
<1>3. ASSUME NEW p \in Handlers, CreateDroplet(p) PROVE FALSE
  <2>1. cloud' = Created(NewDroplet, req[p].bot, req[p].token)
    BY <1>0, <1>3 DEF CreateDroplet
  <2> QED  BY <1>0, <2>1 DEF Created, IsUp
<1>4. ASSUME NEW p \in Handlers, Shutdown(p) \/ Reboot(p) PROVE FALSE
  BY <1>1, <1>4, AfterIsEither DEF Shutdown, Reboot, ShutDown, Rebooted
<1>5. ASSUME NEW x \in Droplets, Boot(x) \/ PowerOff(x) PROVE FALSE
  BY <1>1, <1>5 DEF Boot, PowerOff
<1>6. ASSUME NEW p \in Handlers, Start(p) PROVE FALSE
  BY <1>0, <1>6 DEF Start, ReserveSlot, BeginDestroy, BeginPause, BeginResume, BeginRedeploy, Begin
<1>7. ASSUME NEW p \in Handlers, Step(p) \/ Cancel(p)
      PROVE  \/ CleanupDroplet(p) \/ DestroyDroplet(p) \/ RedeployDestroy(p)
             \/ CreateDroplet(p) \/ Shutdown(p) \/ Reboot(p)
  BY <1>0, <1>7
     DEF Step, InsertBot, InsertConfig, SetDesired, SetProvisioning, SetToken, SetPending, SetError,
         InsertDroplet, AssignDroplet, LinkDroplet, MarkFailed, RollbackBot, RollbackCounter,
         MarkDestroyed, UnlinkDroplet, DeleteBot, ReleaseSlot, RedeployMark, MarkCall, GetLatest,
         SetPaused, GetDroplet, SetOnline, Reply, Cancel, UpdateBot
<1> QED
  BY <1>0, <1>2, <1>3, <1>4, <1>5, <1>6, <1>7 DEF Next, vars, CreateAccount, UpdateSubscription

\* No request ever destroys a droplet created for another bot, however requests on
\* the two bots interleave and whichever of their calls fail.
THEOREM OnlyOwnDropletDestroyedHolds == Spec => OnlyOwnDropletDestroyed
<1> DEFINE Owned == \A d \in Droplets :
                      IsUp(d) /\ ~IsUp(d)' => \E p \in Handlers : /\ req[p].droplet = d
                                                                /\ req[p].bot = cloud[d].bot
<1>1. ASSUME Ownership, [Next]_vars PROVE Owned
  <2> SUFFICES ASSUME NEW d \in Droplets, IsUp(d), ~IsUp(d)'
               PROVE  \E p \in Handlers : req[p].droplet = d /\ req[p].bot = cloud[d].bot
    OBVIOUS
  <2>1. PICK p \in Handlers : /\ req[p].droplet = d
                              /\ DestroyDroplet(p) \/ RedeployDestroy(p) \/ CleanupDroplet(p)
    BY <1>1, DownSteps
  <2>2. InFlight(p)
    BY <2>1, LabelTypes DEF DestroyDroplet, RedeployDestroy, CleanupDroplet, InFlight
  <2>3. req[p].bot = cloud[d].bot
    BY <1>1, <2>1, <2>2 DEF Ownership, DropletsKnown
  <2> QED  BY <2>1, <2>3
<1>2. Ownership /\ [Next]_vars => [Owned]_vars
  BY <1>1
<1> QED  BY <1>2, OwnershipHolds, PTL DEF Spec, OnlyOwnDropletDestroyed
=============================================================================
