# Formal model of claw-spawn

claw-spawn is a control plane for trading bots. It keeps accounts and bots in PostgreSQL, runs
each bot on a DigitalOcean droplet of its own, and hands the bot's configuration to the agent on
that droplet. This directory holds TLA+ modules translated from its source, the TLC runs that
check them, and proofs checked by TLAPS.

Contents: [the system](#the-system), [hard behaviour](#what-is-hard-here),
[modules](#the-modules), [state and actions](#how-state-and-actions-correspond-to-the-code),
[conventions](#modelling-conventions), [runs](#the-runs),
[divergences](#divergences), [proofs](#the-proofs), [not modelled](#not-modelled), [plan](#plan), [how to run](#how-to-run).

## The system

| Component | State it keeps | Operations | Talks to |
|---|---|---|---|
| `ProvisioningService` (`src/application/provisioning.rs`) | none: only the local variables of the requests being served | `create_bot`, `destroy_bot`, `pause_bot`, `resume_bot`, `redeploy_bot`; inside, `spawn_bot`, `retry_with_backoff`, the rollback of `create_bot` | repositories, `DigitalOceanClient`, encryption |
| `BotLifecycleService` (`src/application/lifecycle.rs`) | none | `create_bot_config`, `acknowledge_config`, `get_desired_config`, `record_heartbeat`, `check_stale_bots`, listings | repositories |
| Repositories (`src/infrastructure/repository.rs`, `postgres_*_repo.rs`) | a connection pool | one SQL statement per method | PostgreSQL |
| PostgreSQL schema (`migrations/`) | `accounts`, `account_bot_counters`, `bots`, `bot_configs`, `droplets` | foreign keys, unique keys, `increment_bot_counter`, `decrement_bot_counter`, `get_next_config_version_atomic`, triggers on `accounts` | |
| `DigitalOceanClient` (`src/infrastructure/digital_ocean.rs`) | none | create, get, destroy, shutdown and reboot a droplet; `send_with_retry` | DigitalOcean's HTTP API |
| HTTP server (`src/server/`) | `AppState`: the services | account, bot and bot-action routes for clients; register, config, acknowledge and heartbeat routes for agents | both services |
| Bot agent (`scripts/openclaw-bootstrap.sh`) | token, bot id and the applied config in shell variables and files on the droplet | register, at most five attempts, then loop: heartbeat, and in a 30 second window of a 120 second clock fetch the config and acknowledge it | HTTP server |
| Embedding program (uses the crate as a library) | its own | `create_bot_config` and `check_stale_bots`, which no route calls | `BotLifecycleService` |
| Encryption, risk validation, name sanitising, quoting, parsing | none | pure functions | |

A client's request becomes one axum handler, that is one tokio task, which calls a service. The
service awaits one database statement or one HTTP call after the other. There is no lock, no
queue and no transaction over two statements; between any two awaits any other request may run,
the connection may close (the handler's future is dropped) or the process may end. What the
requests share is the database and DigitalOcean, and the bot counter is the only thing the
database checks on its own.

What makes each component correct:

* provisioning: every droplet that runs belongs to exactly one bot, whose row names it and whose
  token it holds; a failed creation leaves nothing; a destroyed bot leaves nothing; the status
  shown for a bot is true of its droplet; every request is answered;
* the bot counter: it covers every bot an account has or is creating, it grows only under the
  limit, and it loses no places for good;
* configs: the config a bot is told to run exists, versions are unique, an acknowledgement is of
  the config that was asked for;
* DigitalOcean's client: every call returns, and its result says what took effect, although a
  request may take effect after the client gave up on it;
* HTTP server: the status of an answer says what the request left behind;
* agent: it gets in with its token, ends up with the desired config and brings its bot online, and
  no bot is said to run a config that its agent has not got.

## What is hard here

The list is in `PROJECT.json` under `hazards`, each at its line. In short: compensations that
can fail half-way (`create_bot`'s rollback, the cleanup after `spawn_bot`); a lost reply of a
call that is then repeated and is not idempotent (`POST /droplets`, the counter's decrement);
rows read once at the start of a request and used at its end (`create_bot_config` writes back the
applied version, `acknowledge_config` the desired one and a status that follows from an old one);
a version number drawn under a lock that is released before the number is used; status writes that
do not look at the status; a counter kept apart from the rows it counts; requests dropped between
two awaits, by their client, by a broken connection or by the end of the process; an agent that
only repeats itself when its clock lets it; and clients that repeat or overlap requests, which
nothing in the server orders.

## The modules

| Module | What it is |
|---|---|
| `Store` | The tables, and every repository method that the services write with, as an operator that gives the table it leaves behind. Foreign keys and unique keys are part of the operators (`HardDeleted`, `ConfigsWithout` and `DropletsReleased` are one `DELETE`). The counter's stored functions and triggers. What may become of a call (`Outcomes`). |
| `DigitalOcean` | Droplets at DigitalOcean: power state, and the bot and the token in their user data. What the client's calls do, and what a droplet does by itself (`Boot`, `PowerOff`). |
| `Provisioning` | `ProvisioningService`: one action per stretch of code from one await to the next. |
| `BotQuota`, `QuotaRefinement` | What the counter of an account promises, with no bots table, no requests and no failures in it; and Provisioning mapped to it. `Disciplined` names what this depends on. |
| `HttpApi` | `POST /bots` and `POST /bots/{id}/actions` over Provisioning: what is refused before the service is reached, the error every request ends with, the HTTP status it becomes. |
| `UserText` | `shell_escape`, with the quoting rules of a POSIX shell to read back what was escaped. Its texts are not in a request's state: at the await after the conversion, the property looks at all of them. |
| `Lifecycle` | `BotLifecycleService` and the agents' routes in front of it, one action per await. |
| `ConfigRegister`, `ConfigRefinement` | What the lifecycle promises about a bot's configs, without calls, reads and failures; and Lifecycle mapped to it. |
| `BotAgent` | The bootstrap script and its loop, over Lifecycle and DigitalOcean. |
| `ControlPlane` | Provisioning, Lifecycle and BotAgent composed, over one database and one DigitalOcean. |
| `DoClient` | `send_with_retry` and the five calls over it, attempt by attempt, over a network that delays and loses messages. Provisioning takes such a call for one step; this is what that rests on. |
| `MCProvisioning`, `MCHttpApi`, `MCLifecycle`, `MCControlPlane`, `MCDoClient` | Values and symmetry for the runs. |
| `StoreProofs`, `OwnershipProofs`, `QuotaProofs`, `RequestProofs`, `HttpProofs` | Theorems about Provisioning, HttpApi and UserText and their proofs, each module on top of the one before. |
| `LifecycleProofs` | Theorems about Lifecycle and its refinement of ConfigRegister. |
| `SystemProofs` | Theorems about BotAgent and ControlPlane, on top of RequestProofs and LifecycleProofs. |
| `DoClientProofs` | Theorems about DoClient. |

Which module uses which:

    Store -- DigitalOcean -- Provisioning -- HttpApi          BotQuota <- QuotaRefinement
       |          |  \           |
       |          |   DoClient    |                            ConfigRegister <- ConfigRefinement
       +- Lifecycle -- BotAgent --+-- ControlPlane

`HttpApi` and `UserText` extend Provisioning, `BotAgent` extends Lifecycle and DigitalOcean, and `ControlPlane`
extends Provisioning and BotAgent. Both services use the repositories of one
`Store`; what one of them leaves alone is UNCHANGED in its actions.

## How state and actions correspond to the code

Provisioning and the HTTP routes over it:

* `accounts` joins `accounts` with `account_bot_counters` (the triggers keep one row each, with
  `max_count` equal to `max_bots`, so the tier stands for both). `bots`, `configs` and `droplets`
  are the tables of the same names; a row that is not there has status `"absent"`. A config is
  identified by its bot and version (`UNIQUE(bot_id, version)`), and provisioning only ever
  creates version 1. `uuids` are the bot ids already drawn.
* `req[p]` is the request that handler `p` serves: `pc` is the await it stands at, named after the
  call, and the rest its local variables. The droplet and the account in it are those read by
  `get_by_id` at the start, which is where stale reads come from.
* `create_bot` is `ReserveSlot`, `InsertBot`, `InsertConfig`, `SetDesired` and then a spawn;
  `spawn_bot` is `SetProvisioning`, `SetToken`, `CreateDroplet`, then `InsertDroplet`,
  `AssignDroplet`, `LinkDroplet`, and on errors `SetPending`, `SetError`, or `CleanupDroplet` and
  `MarkFailed`; the rollback is `RollbackBot` and `RollbackCounter`. `destroy_bot` is
  `BeginDestroy`, `DestroyDroplet`, `MarkDestroyed`, `UnlinkDroplet`, `DeleteBot`, `ReleaseSlot`;
  `redeploy_bot` is `BeginRedeploy`, `RedeployDestroy`, `RedeployMark`, `GetLatest` and a spawn;
  `pause_bot` is `BeginPause`, `Shutdown`, `SetPaused`; `resume_bot` is `BeginResume`,
  `GetDroplet`, `Reboot`, `SetOnline`.
* An error returned with `?` is `Failed`: it ends a request, and in `create_bot` it goes to the
  rollback first. Errors that are only logged do not appear in the next label.
* `HttpApi` adds `error[p]`, the error request `p` is going to end with, and gives every step of
  Provisioning the errors its call may raise (`CallErrors`): an `UPDATE` that finds no row raises
  `NotFound` (`ensure_single_row_affected`), every call to DigitalOcean that is refused may raise
`RateLimited` (`CloudErrors`), and errors of a cleanup are dropped (`Silent`) or take
  the place of the first. `Refuse` is a request stopped by the admin token, by a word
  `http_parse.rs` does not know or by `RiskConfig::validate`. `Status` is `http_errors.rs`.

Lifecycle and the agent:

* `call[c]` is the call that caller `c` makes: `pc` is the await it stands at and the rest its local
  variables, `status` and `applied` being what was read of the bot's row. The token check of every
  agent route is part of `Receive`; a failed query there is answered 401, as in the code.
* `acknowledge_config` is `FindConfig`, `CheckDesired`, `SetApplied`, `AckOnline`; `create_bot_config`
  is `BeginUpdate`, `DrawVersion`, `StoreConfig`, `Offer`; `get_desired_config` is `ReadBot`,
  `ReadConfig`; `record_heartbeat` is `Beat`; `check_stale_bots` is `BeginWatch` and a `MarkStale` for
  each bot of the list. The list is a set: the order of its rows is left open.
* `heard[b]` is `last_heartbeat_at` against the timeout: never, fresh or stale.
* `Return` takes a reply. `Drop` ends a call at any await (constant `Disconnects`).
* `agent[d]` is the script on droplet `d`: the request it makes next or waits for, the attempts of its
  registration, `config.json` on its disk, and the clock of its loop in ticks of 10 seconds. The
  droplet is the caller of its agent; other callers (`Hosts`) are tasks of the embedding program.
* Whether a request is going to be answered is settled when it is sent: a doomed one breaks off at any
  await of the server, before or after its writes (`BreakOff`). The script then goes on, or ends and
  is started again by systemd, as `set -e` and its `if`s have it (`Reactions`).
* In `ControlPlane` an agent stops with its droplet (`AgentsFollow`), keeping its disk if the droplet
  is only shut down, and the server drops the call of an agent that is gone (`Abandoned`).

`DoClient`: `call[b]` is the one call made for bot `b` with its attempt, `net` the requests that
DigitalOcean has not handled. `Send` puts one there, `Handle` carries it out or not and answers the
attempt that still waits for it, `TimeOut` gives an attempt up and leaves its request in `net`,
`Receive` is the match on the reply's status. A request that is never handled is a lost one; a
reply that nobody waits for is lost. `trouble`, chosen once for a behaviour, says what may happen.

## Modelling conventions

* A call either is `"done"`, or is `"refused"` (an error and no effect), or is `"lost"` (it took
  effect, and the caller gets an error). Which calls may be refused or lost is given per run by
  `Faults` and `LostReplies`, which name calls by label. `"refused"` also stands for a failure
  before the call, such as encryption's.
* `VariableConflict` is the database's `plpgsql.variable_conflict`. The stored function
  `increment_bot_counter` only works when it is `use_column`; PostgreSQL's default is `error`
  (run `increment`).
* Ids and tokens are drawn with `CHOOSE` among those not used: they are random and fresh in the
  code, and which one it is makes no difference.
* Data that no property tells apart is left out: names, personas, the contents of configs,
  timestamps, regions, IP addresses.
* Time is left out: back-off delays, time-outs of calls (a call that times out is `"refused"` or
  `"lost"`). The clock of the agent's loop is kept, as what it does depends on it.
* What clients do is a parameter, because the server does not restrict it: `Overlap` (a request on
  a bot while another on it is served), `ReuseDestroyed` (a request on a bot marked destroyed),
  `Cancellation` and `Disconnects` (a request is dropped at an await, by its client or because the
  server stops), `Exclusive` (pairs of operations that are not called together on one bot).
* Numbers that would grow for ever are bounded: `MaxVersion` config versions per bot in
  `Lifecycle` (`ConfigRegister` has no such bound), `MaxCalls` calls of `DoClient`, finite sets of ids.
* The definitions marked "Mutation" are variations of the action after them; no specification
  uses them. They show, for each property, a slip in the code that the property would catch.

## The runs

| Run | Bounds | Checks |
|---|---|---|
| `overlap` | `HttpApi`: 3 handlers with one request each, 2 bots, 2 droplets; overlapping requests, requests on destroyed bots, cancellations; destroys, insertions and assignments refused, creation replies lost | `TypeOK`, `DropletOwnership`, `MarkedDestroyedIsGone`, `DesiredConfigExists`, `OnlyOwnDropletDestroyed`, `NotFoundIsTrue` |
| `serial` | `HttpApi`: 1 handler serving any number of requests, 2 bots, 2 droplets; every call may be refused or lose its reply except as named below. `UserText`: every text of up to 6 characters | `NoOrphanDroplet`, `FailedCreateLeavesNothing`, `QuietBotsHaveConfig`, `DestroyedForGood`, `AgentCanAuthenticate`, `RetryIsAccepted`, `RefusedBeforeDestroying`, `EveryRequestAnswered`, `ShellReadsBack` |
| `quota` | 3 handlers with one request each, 3 bots, 1 droplet, tiers changing between free (limit 0) and basic (limit 2); cancellations, failures of the counter's calls and around them | `CounterCoversBots`, `GrowthWithinLimit`, `ImplementsQuota` |
| `faithful` | 1 handler, 2 bots, 3 droplets; the database answers except when a droplet is inserted, DigitalOcean may refuse | `CounterIsExact`, `StatusTellsDroplet`, `PausedBotIsStopped` |
| `configs` | `Lifecycle`: 3 callers, 1 bot, 3 versions; every call may be refused or lose its reply, every caller may go away; updates and acknowledgements do not overlap | `LifecycleTypeOK`, `VersionsGapless`, `OnlineRunsConfig`, `ImplementsRegister` |
| `agent` | `BotAgent`: 1 agent, 1 task of the embedding program, 3 versions; requests break off anywhere, heartbeats take 0, 10 or 20 seconds; updates, one at a time, overlap acknowledgements | `AppliedIsOnDisk`, `AppliedNotAhead`, `ConfigConverges`, `ProvisionedComesOnline` |
| `system` | `ControlPlane`: 2 handlers with one request each, 1 bot, 1 droplet and its agent, 1 task of the embedding program, 2 versions; creations, destroys and assignments refused, link replies lost; the loop of the agent has a fetch in each iteration (`Cycle` = 3) | `SystemTypeOK`, `DesiredConfigExists`, `AppliedNotAhead`, `ProvisionedComesUp` |
| `attempts` | `DoClient`: 2 calls for 1 bot, 4 droplets (one more than attempts); in one kind of behaviours everything in `Stormy` happens, in the other nothing times out | `ClientTypeOK`, `CreatedAtMost`, `OkMeansDone`, `NotFoundMeansGone`, `PowerAsAsked`, `EveryCallReturns` |
| `rollback`, `rate_limit`, `destroy_twice`, `increment` | as small as shows it | one property each, violated (see [Divergences](#divergences)) |

Why these bounds are enough to be interesting. In `overlap`, a creation and two more requests meet
on one bot, or two creations and one more, at every await; with three requests two of them can be
between their read and their use of the row while the third changes it. Two droplets let one bot
get a second droplet while the first is still referred to, and a creation whose reply was lost use
one up. In `serial`, sequences of requests on the same bots are unbounded. Ids are never reused,
so two bots and two droplets are all that are ever created in a behaviour; when they are used up
a creation is refused as by the droplet limit of a DigitalOcean account. `quota` needs more
requests than places and gets by with few droplets: three creations exceed the limit of two. In
`configs`, three callers are two updates that draw one version and a check of stale bots or a
fetch in between, or acknowledgements with it; with three versions two updates race twice. Calls on
different bots share nothing but the callers, so one bot is enough there; that an acknowledgement
of another bot's config is refused is left to the proofs, which are for any number of bots. In
`agent`, three versions let an update undo an acknowledgement and another one follow it. In
`system`, the second request is any action on the bot that was created, and an update meets the
creation itself; a redeployment finds no second droplet there, and is in `overlap` and `serial`.
`attempts` has more droplets than a creation has attempts, so that one too many would show. Texts
have one character of each kind that the conversion or the shell tell apart.

What the passing runs leave out, and why. The properties of `serial` are false when the
compensation itself fails: `hard_delete` and `cleanup_droplet` are not refused there (run
`rollback` shows what happens then, and `provisioning.rs:1004` logs "FAILED TO CLEANUP: Droplet
may be orphaned"). They are also false with lost creation replies, since `send_with_retry` posts
again: `create_droplet` is not lost there, but is in `overlap`. `decrement` is not lost in `serial`
and `quota` because the retry then decrements twice. The counter's properties need clients that
neither overlap requests on one bot nor use destroyed bots: `Disciplined` in `QuotaRefinement`
collects these conditions, and run `destroy_twice` drops one. Overlapping or cancelled requests
leave orphan droplets and locked out agents behind in this code, so what is checked of them is what
the code does guarantee: ownership. Likewise an update that overlaps an acknowledgement may undo it
or be undone by it; `configs` excludes this for the two properties it breaks, and `agent` has it, to
check what stays true (`AppliedNotAhead`, `AppliedIsOnDisk`) and that the agent makes up for it
(`ConfigConverges`). There the updates of a bot are made one at a time, `AppliedIsOnDisk` needs it. `PowerAsAsked` is about behaviours without timeouts: with them, a shutdown that
was given up on may reach DigitalOcean after the reboot that followed.

Deadlock is not checked where handlers serve one request each (`OneShot`), nor where versions or
calls are bounded: these models do stop. `serial`, `faithful` and `agent` check it.

Fairness:

* Handlers (`FairHttpSpec`), and the server's part of the agents' calls (`Serve`): weak fairness.
  tokio polls a task that can go on, every await ends (the database pool and the HTTP client give
  up with an error), and a reply frees the handler.
* `DoClient`: weak fairness of the client's own steps, the timeout included: reqwest's 30 seconds pass
  (CRIT-004). DigitalOcean handles a request or never does.
* The agent: a droplet boots, systemd starts the script and bash goes on (weak fairness). Strong
  fairness of three things the script repeats for ever: not every fetch, and not every
  acknowledgement, is a doomed one, and not every heartbeat is over outside of the 30 second window.
  Without the last, `ConfigConverges` is false, see [Divergences](#divergences).
* Nobody has to start a request, cancel one, update a config, look for stale bots or change an
  account: no fairness.

## Divergences

What the code does and a comment, a log line, a document or a test says otherwise. The first four
have a run that shows them.

* `rollback`: a failed `create_bot` whose `hard_delete` fails too leaves a live bot, but its slot is
  given back. `AUDIT_TODO.md:18` says failures "consistently trigger compensating cleanup".
* `rate_limit`: a rate limited redeploy leaves the bot `pending` for ever; the log line at
  `provisioning.rs:954` says "bot will retry".
* `destroy_twice`: `destroy_bot` does not look at the status, so a second destroy of the same bot
  gives back a slot of another, and the account exceeds its limit.
* `increment`: the ambiguous names in `increment_bot_counter` (`migrations/003`) make PostgreSQL
  refuse every call under its default setting. The tests use a mock of the repository.

The others came up while modelling, as conditions that the properties need; dropping the condition
shows them.

* A config that is offered between the check and the write of an acknowledgement is taken off offer
  again (`lifecycle.rs:124`), so the acknowledgement of an old config is not always refused as
  `tests/integration_tests.rs:838` has it (MED-004): `ImplementsRegister` fails in `configs` with
  `Exclusive = {}`.
* Two updates of a bot may write in the opposite order of their numbers (`lifecycle.rs:95`), so the desired
  version goes back, the agent fetches an older config, and an update that read the applied version
  before writes it again: the bot is said to run a config that is no longer on its disk.
  `AppliedIsOnDisk` fails in `agent` with a second host, five versions and `Exclusive = {}`.
* Two updates that draw the same version are not both carried out: one is refused by
  `UNIQUE(bot_id, version)`. `lifecycle.rs:83` (CRIT-007) calls the version generation atomic; it is,
  but the number is used in another statement.
* `check_stale_bots` marks bots of a list it read before: one that has beaten since, or was redeployed
  since, is marked Error (`lifecycle.rs:180`). An acknowledgement only brings bots online that are
  provisioning or pending, so this one stays in Error while its agent runs; hence the condition in
  `ProvisionedComesUp`.
* An acknowledgement that read the bot before it was destroyed sets it online again
  (`lifecycle.rs:136`), without a slot.
* "bot can retry registration later" (`openclaw-bootstrap.sh:270`): the loop never registers.
  `ConfigConverges` covers agents that gave up: the other routes do not need a registration.
* "every 2 minutes (every 4th iteration)" (`openclaw-bootstrap.sh:349`): an iteration takes 30 seconds
  and the time of its heartbeat. When every heartbeat takes 10 seconds, the loop can pass over the
  window in every cycle, and the config is never fetched.
* `redeploy_bot` leaves `applied_config_version_id` as the old droplet had it, so until its first
  acknowledgement the new agent is said to run a config it has not got. `AppliedIsOnDisk` is
  about a bot that keeps its droplet.
* `create_bot` for an account that does not exist is answered 404, which the responses listed at
  `http.rs:422` do not have; nor have those of the actions (`http.rs:632`) 404 and 429.
* `sanitize_bot_name` cuts a name off after trimming it, so the result may end in a space
  (`provisioning.rs:80`).

## The proofs

The theorems are about `Spec` of `Provisioning`, `LifecycleSpec`, `HttpSpec`, `AgentSpec`, `SystemSpec` of
`ControlPlane` and `ClientSpec` of `DoClient`, for any sets of accounts, bots, droplets, tokens, handlers
and callers, texts of any length, and any `Faults`, `LostReplies`, `trouble` and behaviour of clients, except as far
as a theorem names a condition. They assume `StoreAssumption` and `ProvisioningAssumption`, or
`LifecycleAssumption`, `HomesAssumption` and for the agents `AgentAssumption`, or `TextAssumption`, or
`ClientAssumption`, which say that the NULLs are not ids, that tokens are positive numbers, that the parameters
are of their kind, and, for the initial states of Lifecycle, that there are a droplet and a token for
each bot. `SystemProofs` needs all but the last two. Every safety property that a passing run checks, whether an
invariant, an action property or a refinement, is also a theorem.

Conditions are about clients and failures; the code establishes none of them, so they say where the
property ends. Every run satisfies the conditions of the theorems about its properties.

| Condition | Which theorems | Why |
|---|---|---|
| none | `TypeOK`, `DropletOwnership`, `MarkedDestroyedIsGone`, `DesiredConfigExists`, `OnlyOwnDropletDestroyed`, `NotFoundIsTrue`; `ShellReadsBack`; `LifecycleTypeOK`, `VersionsGapless`, `AppliedNotAhead`; `AgentTypeOK`; of the whole system `SystemTypeOK`, `DesiredConfigExists`, `AppliedNotAhead`, `VersionsGapless`, `DropletOwnership`, `MarkedDestroyedIsGone`, `OnlyOwnDropletDestroyed`; `ClientTypeOK`, `CreatedAtMost`, `OkMeansDone`, `NotFoundMeansGone`, `PowerAsAsked` (which speaks of behaviours without timeouts itself) | These hold whatever fails, is lost, is dropped or overlaps. |
| `"hard_delete" \notin Faults` | `FailedCreateLeavesNothing`; with `~Cancellation`, `QuietBotsHaveConfig`; both also of the whole system | The rollback is one `DELETE`; a creation that is dropped is never rolled back. |
| `OneAtATime` | `AgentCanAuthenticate` | One request at a time on a bot, none on a destroyed bot, and the rollback's `DELETE` is not refused: then a request finds its bot's row as it left it. |
| `OneAtATime` and `~Cancellation` | `RefusedBeforeDestroying`, `RetryIsAccepted` | The config that `get_latest` needs is there, because no creation was cut off before it or left its bot behind. The second needs moreover that nobody else changes the status or destroys the bot between an action and its repetition. |
| `Disciplined` | `CounterCoversBots`, `GrowthWithinLimit`, `ImplementsQuota` | `OneAtATime`, and a decrement whose reply is lost is not repeated. |
| `NothingLeaks` | `CounterIsExact` | `Disciplined`, and nothing happens that leaves a place taken for ever. |
| `Attended` | `NoOrphanDroplet`, `DestroyedForGood` | `OneAtATime`, no dropped requests, the cleanup of a droplet works, and no `POST` is repeated that had made one. |
| `PowerAnswered` | `PausedBotIsStopped` | `OneAtATime`, no dropped requests, and nothing fails between a reboot and the status online. |
| `ChangesTold` | `StatusTellsDroplet` | `OneAtATime`, no dropped requests, and the database takes what a request has to say after it destroyed a droplet. |
| `Separate` | `OnlineRunsConfig`, `ImplementsRegister` | Updates and acknowledgements of a bot are not called together. |
| `UpdatesAlone` | `AppliedIsOnDisk` | The updates of a bot are made one at a time: then the desired version never goes back. |

TLC was used to see what the conditions are worth, by leaving them out one at a time on small instances.
It finds a counterexample for every conjunct of `PowerAnswered` after `OneAtATime`, for every conjunct and
every single call of `ChangesTold` (`OneAtATime` included), for every conjunct of `Attended` after
`OneAtATime`, for every conjunct of `Disciplined` as to the counter, and for
`~Overlap` wherever it is assumed. Without `UpdatesAlone` it takes two hosts and five versions to break
`AppliedIsOnDisk`.
`ReuseDestroyed` breaks `DestroyedForGood`, but TLC found no counterexample to `AgentCanAuthenticate`,
`NoOrphanDroplet` and `PausedBotIsStopped` with it, nor to these and `DestroyedForGood` with a refused
`hard_delete`. Of the routes, `RefusedBeforeDestroying` fails without each of `~Overlap`, `~Cancellation` and
`"hard_delete" \notin Faults`, and `RetryIsAccepted` with overlapping requests; TLC found no counterexample
to the first with `ReuseDestroyed`, nor to the second with that, dropped requests or a refused
`hard_delete`. The theorems are on the stronger terms there, since their proofs rest on `SlotInv`, which
needs `OneAtATime`.

`StoreProofs` has the facts about rows and calls that both components need: the types of the rows
that repositories write, and what `Latest` is.

`OwnershipProofs` first proves `TypeCorrect`, `Spec => []TypeOK`. `TypeOK` is inductive by itself; the
lemmas give the type of every table, row and request the code may write, and each action is one
step of `HandlerType`.

It then proves `DropletOwnership`, `MarkedDestroyedIsGone`, `DesiredConfigExists` and the
action property `OnlyOwnDropletDestroyed`. None of them is inductive: `link_droplet` writes a droplet
id that was put in a local variable several awaits before, and `mark_destroyed` trusts a call made
before it. `Ownership` adds what carries them from one await to the next:

* `IdsDrawn`, `InsertedOnce`: bot ids are drawn before use, and before its row is inserted a bot is
  known to its creator only, so no other request is in the middle of something with it;
* `DropletsKnown`: what a bot's row, a request or the droplets table refers to was created at
  DigitalOcean, and for that bot; hence a new droplet is one that nothing refers to;
* `SpawnedIsPrivate`: from its creation to its link, a droplet is known to its spawn only;
* `SpawnedIsAssigned`: at `link_droplet` the droplet's row names the bot, if the bot still exists
  (a rollback may have deleted it);
* `GoneBeforeMark`: at `mark_destroyed` the droplet is gone;
* `StoredBeforeDesired`: at `set_desired` the config is stored, if the bot still exists.

Most actions disturb none of this, and the proof says so once: `Tame` is what they have in common
(they insert, link, assign and create nothing, and leave requests with their bot and droplet),
`TameKeepsOwnership` shows that a tame step keeps the invariant, and `TameSteps` that 25 actions are
tame. The other six kinds of steps (`ReserveSlot`, the four `Begin` actions, `InsertBot`,
`CreateDroplet`, inserting and assigning a droplet's row, `LinkDroplet`) have a lemma each.
`Ownership` was also checked with TLC on the constants of run `overlap`.

`LifecycleProofs` proves `LifecycleTypeOK`, `VersionsGapless` and `AppliedNotAhead` from one inductive invariant,
`IInv`. `LifecycleTypeOK` is not inductive alone, as the version a call is about has to be a number, and
`AppliedNotAhead` is not either: an acknowledgement and an update write versions back that they read
several awaits before. `Grounded` adds what makes this harmless:

* `Counted`: a bot's versions are 1 to n. A version that is drawn is at most one more than those
  stored, and if it is stored by then, the `INSERT` is refused; so two updates that draw the same
  number leave no gap. Lifecycle deletes no config, so what was stored stays so.
* `KnownTo`, of each call: the version that an acknowledgement found, and still has at
  `check_desired` and `set_applied`, is stored; the applied version that an update read at its
  start is stored or 0; from `store_config` on it is smaller than the version drawn, below which
  every version is stored, and at `offer` that version is stored itself. Whatever else happened in
  between, what is written then is a pair of stored versions with the applied one not ahead.

The step proof has a case per action; `KnownTo` only gets weaker requirements from configs that are
added, which is one lemma for all other callers. What it says of stored versions is about bots that have a
row (`Stored`), which in Lifecycle are all of them (`AllExist`); the composed system needs it like that.

Its second part proves `OnlineRunsConfig` and that Lifecycle implements `ConfigRegister`, from `CInv`, which
is `IInv` and `Coordinated`. The properties say that a config is applied only while it is on offer and that
nothing is taken back, but the writes carry what was read before. `UpToDate` says that it still is
so where it is written: the applied version that an update read, and the desired one that an
acknowledgement compared with. It is kept because of `Apart`: no update of a bot is in progress
together with an acknowledgement of it. Every step is then one of the register's or leaves its
variables alone.

`QuotaProofs` proves the counter's properties from `SlotInv`. The counter is compared with the places
that are held (`SlotHolders`): by live bots, and by requests that reserved one or have not given it
back. The danger is a step that frees a place without the counter, or a counter that goes down
twice. `SlotInv` excludes it: requests on a bot are `Alone`, know the account that the row has
(`AccountsKnown`, `Settled`), and `Fits` says at which labels the row can be absent, destroyed or
live. It follows that a request in flight always holds a place, so that places only go when a
request ends, at `give_back` or `decrement` or by what `LostReplies` and `Cancellation` allow, and that is
a step `Release` or `Forget` of `BotQuota`. `CounterCoversBots` then follows from
`BotQuota`'s own invariant, that the counter covers the holders, and `GrowthWithinLimit` as a bot becomes
live on a place that its request held before. `Exact` is the same count with equality.

`RequestProofs` proves what requests leave behind, with three invariants on top of each other.

* `CreationInv`, under no condition: a creation is on a bot of its own (`Creations`); where the rollback
  is over the row is gone, and with the row its configs (`Undone`); a bot without a config to run is
  still being created (`Told`). What needs a `hard_delete` that is not refused is conditional on it
  there, so that the invariant serves the theorems that do not. Most steps are `Mild`: they insert and
  delete no row.
* `Linked`: for each bot, `Sound` relates its row, its droplets and the one request on it. `RowTrue`: the
  droplet of the row, if up, has the row's token. `Placed`: where the request's droplet is the row's
  (`HeldLabels`), where neither is up (`DownLabels`: this is what lets `spawn_bot` replace the token) and
  where it is a new one (`NewLabels`). `Known`: a droplet of the bot that is up is the row's or the
  request's; this alone needs `Attended`. A step keeps what is said of other bots (`CloudFrame`), so
  each action is looked at for its own bot.
* `Telling`: `Halts` and `Honest` relate the row's status to the power of its droplet. A status is true
  whenever the request may end without another word (`RestLabels` or no request), and a spawn has
  overwritten `paused` before it makes a droplet.

The first part of `HttpProofs` proves what the answers of the routes tell. `NotFound` and `InvalidConfig` are raised for several
things deep in a request (`CallErrors`), so the proofs say which of them cannot be the reason.
`HttpInv` adds to `CreationInv` that the rows a request goes by are there (`RowsKnown`): the bot of a creation
until its rollback, as nobody else deletes it, and the droplet's row from its `INSERT` on, as these are
never deleted. So an `UPDATE` that finds no row is about a bot that a creation took back, and
`NotFoundIsTrue` follows for every step that raises the error. `Returning` says where a request with an
error stands: at one of the calls that clean up, or at its end. `RefusedBeforeDestroying` follows with `SlotInv`,
since `get_latest` finds the config that `Told` promises. `RetryIsAccepted` needs one thing more: a resume
leaves the row `paused` and with its droplet until it writes a status (`Resumes`), and its calls to DigitalOcean
all come before that (`LimitedIsRetriable`).
`Refuse` is the only step that `HttpApi` adds to Provisioning; `HttpSteps` says that the others are steps of
it, so the invariants of `Spec` carry over (`RefuseKeepsCreation`, `RefuseKeepsSlots`).

The second part of `HttpProofs` is about the texts. `ShellReadsBack` is about texts of any length, and what
`shell_escape` and the shell make of a text is an induction over it. The library's induction theorems
take an operator as their parameter, which the provers cannot instantiate; but that strict inclusion of finite
sets is well-founded, and that a set then has a minimal element, are statements about sets. From them come the
least number of a set of naturals (`LeastNumber`) and, as there is no least one that fails, all numbers up to n
(`UpToN`). `Iterates` shows that a recursive function is what its definition says. The property then rests on
`ReadSoFar`: before each character of the given text the shell is between single quotes and has read
exactly the text so far, whatever the characters are; a quote in the text is the one case in which it passes
through other modes, and it comes back (`ReplacementLayout`, `ShellSteps`).

The first part of `SystemProofs` puts the agents on top of this. `AppliedIsOnDisk` compares the applied version, written from
what a call read several awaits before, with the config on a droplet's disk, written from what
another call was answered. `OnDisk` orders all of them. `Ranked`: a bot's applied version is at
most the one on disk, which is at most the desired one. `Fetched`: a config on its way to the agent is
not older than the one on disk, so a fetch never takes the disk below what is applied. `Drawn`: an
update will not write an applied version newer than the one on disk, nor a desired version older than
that in the row; the second needs `OneUpdate`, since another update could have offered a newer one.
`Serves` says what the call that serves an agent's request may be and that an acknowledgement is of the
config on disk, `AtHome` that bots and droplets stay paired, and `OfHosts` that only the embedding
program updates. The agents' calls take the steps of `Lifecycle`'s, so `IInv` is kept by the lemmas of
`LifecycleProofs`, and `AppliedNotAhead` holds here under no condition too (`AgentTypeCorrect`).

The second part of `SystemProofs` is about the whole system. Requests create bots, roll them back and
destroy them while calls on the same rows are served, and either side goes by what it read before. `SystemInv`
joins what the two components rest on: `CreationInv`, and `Grounded` with `AppliedNotAhead`. The parts
of `LifecycleProofs` that assume that no bot is ever deleted do not hold here, so three things had to be found:

* `Found` keeps a new bot apart: a call is about a bot that is `Findable`, whose id is drawn and which no request
  is about to insert. So no call knows anything of a bot when `create_bot` inserts it, and the first version is
  stored and desired before a call could have read another (`InsertBotGrounded`, `InsertConfigGrounded`,
  `SetDesiredGrounded`).
* A rollback takes a bot away under the calls on it. Nothing is then demanded of what they know (`Stored`):
  their `UPDATE`s find no row, their `INSERT` violates the foreign key, and the id never comes back
  (`RollbackBotGrounded`).
* To the requests, a step of a call is a tame one (`Served`, `ServedIsTame`): it links nothing, deletes nothing
  and leaves a desired version that is stored. This is where `AppliedNotAhead` is needed on the
  provisioning side: the desired config that `DesiredConfigExists` speaks of may be written by an acknowledgement.
  To the calls, a request's step is `Orderly`: it draws new ids and takes none back.

The counter's properties and those of a bot's status do not carry over to the whole system, and are not claimed of it:
an acknowledgement that read a bot before it was destroyed sets it online without a slot (see
[Divergences](#divergences)), which is a live bot that no place counts.

`DoClientProofs` proves the five safety properties of the client from `ClientInv`. `CreatedAtMost` is not
inductive since `net` may still make droplets: `Budget` bounds the droplets made and the creations on
their way by the attempts posted, for every call's bot. `Knows` is what a reply that has not been looked at yet
says of the droplet, and `NetKnown` that what is on its way is about droplets of that bot, from this
call or an earlier one, so that a late request does not undo what a later call was told.
`Punctual`, for behaviours without timeouts, is that only the request waited for is on its way.

All of these invariants were checked with TLC on small instances before they were proved.

Only model-checked: liveness under fairness (`EveryRequestAnswered`, `EveryCallReturns`,
`ConfigConverges`, `ProvisionedComesOnline`, `ProvisionedComesUp`), and ENABLED with it, which TLAPS does not
prove; and that the conditions in the table are needed, which is a matter of counterexamples.

## Not modelled

* Routes, methods and repository queries that only read one or several rows: `get_bot`, the
  administrators' GET routes and the pages of `/accounts/{id}/bots` (one SELECT each; a walk through
  the pages may meet insertions and rollbacks, which the client has to expect), the health check,
  the OpenAPI document. Repository methods that nothing calls.
* Encryption (`crypto.rs`): a library's cipher over bytes; nothing but tests decrypts. That it fails is
  one of the failures of `InsertConfig`.
* Startup: reads the environment, connects the pool, listens, once; nothing is recovered there.
* Of the bootstrap script, what happens before the registration: packages, users, firewall, the
  customizer. It keeps no state that the loop uses, apart from what `WakeUp` stands for.
* `sanitize_bot_name`: one pass over a text, which changes nothing that a request does next.
* Trading configurations, personas and the like: data that no property tells apart.
* Encodings at the database boundary (the `INET` column, JSON columns): outside of what these
  models describe; a call they break is a refused call.

## Plan

The modules, the runs and the proofs that were planned are there: ownership first, as everything
else refers to droplets by what bots and requests say of them; then the counter and its
refinement, what requests leave behind, the answers of the routes, the configs and their refinement,
DigitalOcean's client, the agents, the texts, and the composed system last, on the invariants of its parts.

What could follow: the properties of the counter and of a bot's status in the whole system once an
acknowledgement only brings bots online that are still provisioning or pending when it writes
(`lifecycle.rs:135`); `Disciplined` and `ChangesTold` would then be conditions on clients and failures alone
there too.

## How to run

    tlc -config MCOverlap.cfg MCHttpApi.tla          # also MCSerial.cfg
    tlc -config MCQuota.cfg MCProvisioning.tla       # also MCFaithful, MCRollback, MCRateLimit,
                                                     # MCDestroyTwice and MCIncrement.cfg
    tlc -config MCConfigs.cfg MCLifecycle.tla
    tlc -config MCAgent.cfg BotAgent.tla
    tlc -config MCSystem.cfg MCControlPlane.tla
    tlc -config MCAttempts.cfg MCDoClient.tla
    tlapm StoreProofs.tla                            # then OwnershipProofs, QuotaProofs,
                                                     # RequestProofs, HttpProofs; also
                                                     # LifecycleProofs, SystemProofs, DoClientProofs
