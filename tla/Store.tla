------------------------------- MODULE Store -------------------------------
(***************************************************************************)
(* The PostgreSQL tables of the control plane and the repository methods   *)
(* that write them (src/infrastructure/repository.rs, postgres_*_repo.rs)  *)
(* under the schema and the stored functions of migrations/.               *)
(*                                                                         *)
(* Every repository method is one SQL statement on a pooled connection, so *)
(* it runs in a transaction of its own: it is atomic, and nothing spans    *)
(* two of them.  A method is given here as the table it leaves behind; the *)
(* handlers choose, with Outcomes, whether the statement took effect and   *)
(* whether its caller learns of it.                                        *)
(*                                                                         *)
(* A table is a total function on its keys; a row that is not there has    *)
(* status "absent".  A config row is identified by its bot and version,    *)
(* which UNIQUE(bot_id, version) makes a key; 0 stands for NULL.           *)
(***************************************************************************)
EXTENDS Naturals, FiniteSets

CONSTANTS
    Accounts, Bots, Droplets,     \* the ids a run may use
    Tokens,                       \* registration tokens (0 is NULL)
    NoAccount, NoBot, NoDroplet,  \* NULL
    Faults,       \* the calls that may fail without any effect
    LostReplies,  \* the calls that may take effect and still return an error
    VariableConflict  \* the database's plpgsql.variable_conflict setting

VARIABLES
    accounts,   \* accounts joined with account_bot_counters, one row each
    bots,
    configs,    \* for each bot, the versions that have a row in bot_configs
    droplets,
    uuids       \* bot ids already drawn by Uuid::new_v4

tables == <<accounts, bots, configs, droplets, uuids>>

ASSUME StoreAssumption ==
    /\ IsFiniteSet(Bots)
    /\ NoAccount \notin Accounts /\ NoBot \notin Bots /\ NoDroplet \notin Droplets
    /\ Tokens \subseteq Nat \ {0}
    /\ VariableConflict \in {"error", "use_column"}

----------------------------------------------------------------------------
(* Rows.                                                                    *)

Tiers == {"none", "free", "basic", "pro"}   \* "none": the account has no row

\* accounts.max_bots, which the triggers copy to account_bot_counters.max_count.
MaxBots == [none |-> 0, free |-> 0, basic |-> 2, pro |-> 4]

BotStatus == {"pending", "provisioning", "online", "paused", "error", "destroyed"}

AccountRows == [tier : Tiers, current_count : Nat]

BotRows == [status    : BotStatus \cup {"absent"},
            account   : Accounts \cup {NoAccount},
            droplet   : Droplets \cup {NoDroplet},
            desired   : Nat,
            applied   : Nat,
            token     : Tokens \cup {0}]

DropletRows == [status : {"absent", "new", "destroyed"}, bot : Bots \cup {NoBot}]

NoBotRow == [status |-> "absent", account |-> NoAccount, droplet |-> NoDroplet,
             desired |-> 0, applied |-> 0, token |-> 0]

StoreTypeOK ==
    /\ accounts \in [Accounts -> AccountRows]
    /\ bots \in [Bots -> BotRows]
    /\ configs \in [Bots -> SUBSET Nat]
    /\ droplets \in [Droplets -> DropletRows]
    /\ uuids \subseteq Bots

BotExists(b) == bots[b].status # "absent"

\* A bot that takes up a place of its account: it has a row, not marked destroyed.
IsLive(b) == bots[b].status \notin {"absent", "destroyed"}

Limit(a) == MaxBots[accounts[a].tier]

StoreInit ==
    /\ accounts = [a \in Accounts |-> [tier |-> "none", current_count |-> 0]]
    /\ bots = [b \in Bots |-> NoBotRow]
    /\ configs = [b \in Bots |-> {}]
    /\ droplets = [d \in Droplets |-> [status |-> "absent", bot |-> NoBot]]
    /\ uuids = {}

----------------------------------------------------------------------------
(* What can become of a call: "done"; "refused", an error and no effect;    *)
(* "lost", the effect and an error (the connection broke after the commit). *)

Outcomes(call) ==
    {"done"} \cup {o \in {"refused"} : call \in Faults}
             \cup {o \in {"lost"} : call \in LostReplies}

\* The table after a call that would leave `new` in place of `old`.
After(outcome, new, old) == IF outcome = "refused" THEN old ELSE new

----------------------------------------------------------------------------
(* bots: an UPDATE of a row that is not there changes nothing, and          *)
(* ensure_single_row_affected reports NotFound (guard BotExists).           *)

WithBot(b, row) == IF BotExists(b) THEN [bots EXCEPT ![b] = row] ELSE bots

Inserted(b, a) == [bots EXCEPT ![b] = [NoBotRow EXCEPT !.status = "pending", !.account = a]]

WithStatus(b, s) == WithBot(b, [bots[b] EXCEPT !.status = s])

\* Mutation: the UPDATE has lost its WHERE id.
DropletSetEverywhere(b, d) ==
    [x \in Bots |-> IF BotExists(x) THEN [bots[x] EXCEPT !.droplet = d] ELSE bots[x]]
WithDroplet(b, d) == WithBot(b, [bots[b] EXCEPT !.droplet = d])

WithConfigVersion(b, desired, applied) ==
    WithBot(b, [bots[b] EXCEPT !.desired = desired, !.applied = applied])

WithToken(b, t) == WithBot(b, [bots[b] EXCEPT !.token = t])

Deleted(b) == WithStatus(b, "destroyed")

\* DELETE FROM bots, with what the foreign keys add: ON DELETE CASCADE on
\* bot_configs, ON DELETE SET NULL on droplets.
HardDeleted(b) == [bots EXCEPT ![b] = NoBotRow]
ConfigsWithout(b) == [configs EXCEPT ![b] = {}]
DropletsReleased(b) ==
    [d \in Droplets |-> IF droplets[d].bot = b THEN [droplets[d] EXCEPT !.bot = NoBot]
                                                ELSE droplets[d]]

----------------------------------------------------------------------------
(* account_bot_counters and its stored functions.                           *)

\* The UPDATE of increment_bot_counter finds the row and is under the limit.
\* Mutation: off by one.
UpToLimit(a) == accounts[a].current_count <= Limit(a)
UnderLimit(a) == accounts[a].current_count < Limit(a)

\* increment_bot_counter declares output columns named like the table's.  With
\* PostgreSQL's default setting its UPDATE is refused as ambiguous when it runs.
IncrementRaises == VariableConflict = "error"

Incremented(a) ==
    IF UnderLimit(a) THEN [accounts EXCEPT ![a].current_count = @ + 1] ELSE accounts

\* GREATEST(0, current_count - 1)
\* Mutation: without GREATEST.
DecrementedBelowZero(a) == [accounts EXCEPT ![a].current_count = @ - 1]
Decremented(a) ==
    [accounts EXCEPT ![a].current_count = IF @ > 0 THEN @ - 1 ELSE 0]

----------------------------------------------------------------------------
(* bot_configs and droplets.                                                *)

\* MAX(version) of the bot's configs, 0 without any.
Latest(b) == CHOOSE v \in configs[b] \cup {0} : \A w \in configs[b] : w <= v

\* get_next_config_version_atomic.  Its advisory lock ends with the statement.
NextVersion(b) == Latest(b) + 1

\* The INSERT keeps UNIQUE(bot_id, version) and the reference to bots(id).
ConfigInsertable(b, v) == BotExists(b) /\ v \notin configs[b]
ConfigsWith(b, v) ==
    IF ConfigInsertable(b, v) THEN [configs EXCEPT ![b] = @ \cup {v}] ELSE configs

DropletExists(d) == droplets[d].status # "absent"

DropletInserted(d) == [droplets EXCEPT ![d] = [status |-> "new", bot |-> NoBot]]

\* droplets.bot_id references bots(id).
Assignable(d, b) == DropletExists(d) /\ BotExists(b)
WithAssignment(d, b) ==
    IF Assignable(d, b) THEN [droplets EXCEPT ![d].bot = b] ELSE droplets

MarkedDestroyed(d) ==
    IF DropletExists(d) THEN [droplets EXCEPT ![d].status = "destroyed"] ELSE droplets
=============================================================================
