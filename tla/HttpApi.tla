------------------------------ MODULE HttpApi ------------------------------
(***************************************************************************)
(* The administrators' routes POST /bots and POST /bots/{id}/actions of    *)
(* src/server/http.rs over Provisioning: the checks a request passes       *)
(* before it reaches the service (http_auth.rs, http_parse.rs,             *)
(* RiskConfig::validate), and the HTTP status its error is answered with   *)
(* (http_errors.rs).                                                       *)
(*                                                                         *)
(* `error` is the error each request is going to return: the handlers of   *)
(* Provisioning pass the first one on, whatever cleanup follows, unless    *)
(* the cleanup's own error takes its place.                                *)
(***************************************************************************)
EXTENDS Provisioning

VARIABLE error

httpVars == <<vars, error>>

Actions == {"pause", "resume", "redeploy", "destroy"}

\* Classes of errors.  "NotFound" is RepositoryError::NotFound, "other" what is answered
\* like any other; the last two are of requests that do not reach the service.
Errors == {"none", "NotFound", "InvalidConfig", "RateLimited", "AccountLimitReached", "other",
           "unauthorized", "malformed"}

HttpInit == Init /\ error = [p \in Handlers |-> "none"]

Raises(p, e) == error' = [error EXCEPT ![p] = e]

----------------------------------------------------------------------------
(* Admission.                                                               *)

\* The admin token is set and is the one that was sent ("" for none).
IsAdminAuthorized(sent, expected) == expected # "" /\ sent = expected

Fields == {"persona", "asset_focus", "algorithm", "strictness"}
Percentages == {"max_position_size_pct", "max_daily_loss_pct", "max_drawdown_pct"}

\* RiskConfig::validate: the percentages out of 0 ..= 100 (so is NaN), and
\* max_trades_per_day when it is negative.
RiskErrors(risk) ==
    {f \in Percentages : risk[f] # "within"}
      \cup {f \in {"max_trades_per_day"} : risk[f] = "negative"}

\* The error a request is refused with before it reaches the service, or "none": of
\* create_bot with unknown words in the fields `unknown`, of bot_action with `action`.
CreateRefusal(sent, expected, unknown, risk) ==
    CASE ~IsAdminAuthorized(sent, expected) -> "unauthorized"
      [] IsAdminAuthorized(sent, expected) /\ (unknown # {} \/ RiskErrors(risk) # {}) -> "malformed"
      [] OTHER -> "none"

ActionRefusal(sent, expected, action) ==
    CASE ~IsAdminAuthorized(sent, expected) -> "unauthorized"
      [] IsAdminAuthorized(sent, expected) /\ action \notin Actions -> "InvalidConfig"
      [] OTHER -> "none"

Risks == {[f \in Percentages \cup {"max_trades_per_day"} |-> IF f = bad THEN how ELSE "within"] :
            bad \in Percentages \cup {"max_trades_per_day"},
            how \in {"negative", "above", "nan", "within"}}

SentTokens == {"", "admin", "other"}
AdminTokens == {"", "admin"}

CreateRefusals ==
    {CreateRefusal(sent, expected, unknown, risk) :
        sent \in SentTokens, expected \in AdminTokens, unknown \in SUBSET Fields, risk \in Risks}

ActionRefusals ==
    {ActionRefusal(sent, expected, action) :
        sent \in SentTokens, expected \in AdminTokens, action \in Actions \cup {"explode"}}

Refuse(p) ==
    /\ req[p].pc = "idle"
    /\ \/ \E e \in CreateRefusals \ {"none"} :
            Raises(p, e) /\ Becomes(p, [Idle EXCEPT !.pc = "failed", !.op = "create"])
       \/ \E e \in ActionRefusals \ {"none"} :
            Raises(p, e) /\ Becomes(p, [Idle EXCEPT !.pc = "failed"])
    /\ UNCHANGED <<tables, cloud>>

----------------------------------------------------------------------------
(* The errors of the service.                                               *)

\* A database call fails otherwise than by finding no row.
DatabaseErrors(label) == {e \in {"other"} : label \in Faults \cup LostReplies}

Of(e, condition) == {x \in {e} : condition}

\* create_bot refused before it has drawn an id.
ReserveErrors(a) ==
    IF accounts[a].tier = "none" THEN {"NotFound"}
    ELSE DatabaseErrors("increment") \cup Of("other", IncrementRaises)
           \cup Of("AccountLimitReached", ~UnderLimit(a) /\ ~IncrementRaises)

\* An action refused with the row it reads first.
BeginErrors(op, b) ==
    IF ~BotExists(b) THEN {"NotFound"}
    ELSE Of("other", "get_by_id" \in Faults)
           \cup Of("InvalidConfig", op = "resume" /\ (bots[b].status # "paused"
                                                        \/ bots[b].droplet = NoDroplet))

\* A call to DigitalOcean fails otherwise than by finding no droplet.
CloudErrors(label) == {e \in {"other", "RateLimited"} : label \in Faults}

BotUpdates == {"set_desired", "set_provisioning", "set_token", "link_droplet", "set_pending",
               "set_error", "unlink_droplet", "delete_bot", "set_paused", "set_online"}

\* What the call at the request's label may raise when it goes wrong.
CallErrors(r) ==
    CASE r.pc \in BotUpdates ->
             IF BotExists(r.bot) THEN DatabaseErrors(r.pc) ELSE {"NotFound"}
      [] r.pc \in {"mark_destroyed", "redeploy_mark", "assign_droplet"} ->
             IF DropletExists(r.droplet)
             THEN DatabaseErrors(r.pc) \cup Of("other", r.pc = "assign_droplet" /\ ~BotExists(r.bot))
             ELSE {"NotFound"}
      [] r.pc = "get_droplet" ->
             \* The refusal may be a status that from_do_status does not know.
             Of("InvalidConfig", Reported(r.droplet) = "New" \/ ~IsUp(r.droplet) \/ r.pc \in Faults)
               \cup CloudErrors(r.pc)
      [] r.pc \in {"destroy_droplet", "redeploy_destroy", "shutdown", "reboot"} ->
             {"other"} \cup CloudErrors(r.pc)
      [] r.pc = "get_latest" ->
             Of("InvalidConfig", configs[r.bot] = {}) \cup DatabaseErrors(r.pc)
      [] OTHER -> {"other"}

\* Where a request goes when a call of it went wrong, from a call whose error counts.
Unwinding == {"hard_delete", "cleanup_droplet", "set_error", "set_pending", "failed"}
Silent == {"cleanup_droplet", "mark_failed", "hard_delete", "give_back"}

ErrorOfStep(p) ==
    LET r == req[p]
        next == req'[p].pc
    IN  CASE next \notin Unwinding \/ r.pc \in Silent -> Raises(p, error[p])
          [] next = "set_pending" -> Raises(p, "RateLimited")
          [] next # "set_pending" /\ next \in Unwinding /\ r.pc \in {"set_pending", "set_error"} ->
                 \E e \in CallErrors(r) \cup Of(error[p], BotExists(r.bot)) : Raises(p, e)
          [] OTHER -> \E e \in CallErrors(r) : Raises(p, e)

HttpStep(p) ==
    \/ Step(p) /\ InFlight(p) /\ ErrorOfStep(p)
    \/ Reply(p) /\ Raises(p, "none")

HttpCancel(p) == Cancel(p) /\ Raises(p, "none")

HttpStart(p) ==
    \/ \E a \in Accounts :
         /\ ReserveSlot(p, a)
         /\ \E e \in IF req'[p].pc = "failed" THEN ReserveErrors(a) ELSE {"none"} : Raises(p, e)
    \/ \E b \in Bots :
         /\ BeginDestroy(p, b) \/ BeginPause(p, b) \/ BeginResume(p, b) \/ BeginRedeploy(p, b)
         /\ \E e \in IF req'[p].pc = "failed" THEN BeginErrors(req'[p].op, b) ELSE {"none"} :
              Raises(p, e)
    \/ Refuse(p)

HttpNext ==
    \/ \E p \in Handlers : HttpStart(p) \/ HttpStep(p) \/ HttpCancel(p)
    \/ /\ \/ \E a \in Accounts, tier \in TierChoices :
               CreateAccount(a, tier) \/ UpdateSubscription(a, tier)
          \/ \E d \in Droplets : (Boot(d) \/ PowerOff(d)) /\ UNCHANGED req
       /\ UNCHANGED error

HttpSpec == HttpInit /\ [][HttpNext]_httpVars

\* The runtime keeps polling a request that can go on, as in FairSpec.
FairHttpSpec == HttpSpec /\ \A p \in Handlers : WF_httpVars(HttpStep(p))

----------------------------------------------------------------------------
(* map_create_bot_error, map_bot_action_error                               *)

CreateStatus == [none |-> 201, unauthorized |-> 401, malformed |-> 400, NotFound |-> 404,
                 AccountLimitReached |-> 403, RateLimited |-> 429, InvalidConfig |-> 500,
                 other |-> 500]

ActionStatus == [none |-> 200, unauthorized |-> 401, malformed |-> 400, NotFound |-> 404,
                 AccountLimitReached |-> 500, RateLimited |-> 429, InvalidConfig |-> 400,
                 other |-> 500]

IsAnswered(p) == req[p].pc \in {"ok", "failed"}

Status(p) == IF req[p].op = "create" THEN CreateStatus[error[p]] ELSE ActionStatus[error[p]]

----------------------------------------------------------------------------

\* A 404 is true: it is only answered when there is no such account or bot, though an
\* update that finds no droplet row raises the same error.
NotFoundIsTrue ==
    [][\A p \in Handlers :
         error[p] # "NotFound" /\ error'[p] = "NotFound" =>
            IF req'[p].op = "create" THEN \E a \in Accounts : accounts[a].tier = "none"
                                     ELSE ~BotExists(req'[p].bot)]_httpVars

\* "Rate limited by DigitalOcean, please retry"
PleaseRetry(p) == IsAnswered(p) /\ Status(p) = 429

\* Request r would not be refused if it were made again: it finds its bot, in the status
\* it has to be in, and a destroy gives back a place the bot still takes.
Retriable(r) ==
    /\ BeginErrors(r.op, r.bot) \subseteq {"other"}
    /\ bots[r.bot].status # "destroyed"
    /\ r.op = "redeploy" => configs[r.bot] # {}

\* An action that is answered so can be made again, whatever it had done by then.
RetryIsAccepted ==
    [][\A p \in Handlers :
         ~PleaseRetry(p) /\ PleaseRetry(p)' /\ req'[p].op # "create"
           => Retriable(req[p])']_httpVars

\* A redeployment is never answered "bad request" after it has destroyed the droplet.
RefusedBeforeDestroying ==
    \A p \in Handlers :
        IsAnswered(p) /\ req[p].op = "redeploy" => error[p] # "InvalidConfig"
=============================================================================
