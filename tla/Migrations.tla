----------------------------- MODULE Migrations -----------------------------
(***************************************************************************)
(* Servers opening one database, each migrating it to the version its      *)
(* binary knows (src/src/database/sqlite_store.cpp, postgresql_store.cpp). *)
(*                                                                         *)
(* Every transaction is one step; between two of them another server may   *)
(* take its own, or this one may crash.  SQLite has no lock that spans the *)
(* transactions, so a step looks at the ledger again inside its own        *)
(* transaction; PostgreSQL holds a session-wide advisory lock, the lease,  *)
(* and reads the ledger again once it has it.                              *)
(***************************************************************************)
EXTENDS Integers, Sequences, FiniteSets, SequencesExt

CONSTANT StateKeys      \* the entries of the current room state

-----------------------------------------------------------------------------
(***************************************************************************)
(* The numbered schema migrations and the plans built from them            *)
(* (src/src/database/migration.cpp, schema.cpp).                           *)
(*                                                                         *)
(* A database is abstracted to what its migrations change: which tables it *)
(* has, which columns later migrations added to them and who owns them,    *)
(* which versions its ledger records, and which entries of the current     *)
(* room state have a row in state_transitions.  The forty-odd tables of    *)
(* the first schema that no later migration mentions are one table,        *)
(* "core".                                                                 *)
(***************************************************************************)

Latest == 14
Versions == 0..Latest

Create(t) == [op |-> "create", table |-> t, column |-> ""]
Drop(t) == [op |-> "drop", table |-> t, column |-> ""]
AddColumn(t, c) == [op |-> "add", table |-> t, column |-> c]
DropColumn(t, c) == [op |-> "remove", table |-> t, column |-> c]
Backfill == [op |-> "backfill", table |-> "state_transitions", column |-> ""]
Clear == [op |-> "clear", table |-> "state_transitions", column |-> ""]

(* The first schema, in the order it is created in.                        *)
InitialTables == <<"schema_migrations", "users", "current_state", "core">>

InitialStep == [i \in DOMAIN InitialTables |-> Create(InitialTables[i])]

UpgradeCatalog ==
  << InitialStep,
     <<Create("sync_stream_watermark")>>,
     <<Create("event_stream_watermark")>>,
     <<Create("state_transitions")>>,
     <<Backfill>>,
     <<Create("account_threepids")>>,
     <<AddColumn("account_threepids", "client_secret"), AddColumn("account_threepids", "sid")>>,
     <<Create("pushers")>>,
     <<Create("notifications")>>,
     <<Create("openid_tokens")>>,
     <<AddColumn("pushers", "data_extra_json")>>,
     <<Create("login_tokens")>>,
     <<Create("appservice_txn_cursor")>>,
     <<AddColumn("users", "deactivated")>> >>

(* Mutant: the step down to version 6 forgets one of the two columns. *)
DowngradeCatalogForgetful ==
  [v \in 0..(Latest - 1) |->
     IF v = 6 THEN <<DropColumn("account_threepids", "sid")>>
     ELSE [i \in DOMAIN UpgradeCatalog[v + 1] |->
             LET s == Reverse(UpgradeCatalog[v + 1])[i]
             IN  CASE s.op = "create" -> Drop(s.table) [] s.op = "add" -> DropColumn(s.table, s.column)
                   [] OTHER -> Clear]]

(* The statements that lead down to a version.                             *)
DowngradeCatalog ==
  [v \in 0..(Latest - 1) |->
     CASE v = 13 -> <<DropColumn("users", "deactivated")>>
       [] v = 12 -> <<Drop("appservice_txn_cursor")>>
       [] v = 11 -> <<Drop("login_tokens")>>
       [] v = 10 -> <<DropColumn("pushers", "data_extra_json")>>
       [] v = 9 -> <<Drop("openid_tokens")>>
       [] v = 8 -> <<Drop("notifications")>>
       [] v = 7 -> <<Drop("pushers")>>
       [] v = 6 -> <<DropColumn("account_threepids", "sid"), DropColumn("account_threepids", "client_secret")>>
       [] v = 5 -> <<Drop("account_threepids")>>
       [] v = 4 -> <<Clear>>
       [] v = 3 -> <<Drop("state_transitions")>>
       [] v = 2 -> <<Drop("event_stream_watermark")>>
       [] v = 1 -> <<Drop("sync_stream_watermark")>>
       [] OTHER -> [i \in DOMAIN InitialTables |-> Drop(Reverse(InitialTables)[i])]]

(* A plan is the sequence of versions it passes through.                   *)
PlanBetween(current, target) ==
  CASE current > Latest \/ target > Latest -> <<>>
    [] target >= current -> [i \in 1..(target - current) |-> current + i]
    [] OTHER -> [i \in 1..(current - target) |-> current - i]

StatementsOf(current, target, v) == IF target > current THEN UpgradeCatalog[v] ELSE DowngradeCatalog[v]

PlanIsValid(current, target, plan) ==
  /\ (plan = <<>>) <=> (current = target)
  /\ \A i \in DOMAIN plan :
       /\ plan[i] = IF target > current THEN current + i ELSE current - i
       /\ StatementsOf(current, target, plan[i]) # <<>>
  /\ plan # <<>> => Last(plan) = target

-----------------------------------------------------------------------------
(* A database, and what the backend makes of a statement issued under a    *)
(* role: only an owner alters or drops a table, every other access needs   *)
(* ownership too or a grant, and the login role is a member of the others. *)

Tables(db) == DOMAIN db.tables
Version(db) == CHOOSE v \in db.ledger \union {0} : \A w \in db.ledger : w <= v

Owns(db, role, t) == t \in Tables(db) /\ role \in {db.tables[t].owner, "login"}

(* provision-roles.sql grants the runtime role, and it alone, access to    *)
(* what the other two create.                                              *)
Reaches(db, role, t) == t \in Tables(db) /\ (Owns(db, role, t) \/ role = "runtime")

Accepts(db, role, s) ==
  CASE s.op = "create" -> role # "runtime" /\ s.table \notin Tables(db)
    [] s.op = "drop" -> Owns(db, role, s.table)
    [] s.op = "add" -> Owns(db, role, s.table) /\ s.column \notin db.tables[s.table].columns
    [] s.op = "remove" -> Owns(db, role, s.table) /\ s.column \in db.tables[s.table].columns
    [] s.op = "backfill" -> Reaches(db, role, s.table) /\ Reaches(db, role, "current_state")
    [] s.op = "clear" -> Reaches(db, role, s.table)

Run(db, role, s) ==
  CASE s.op = "create" ->
         [db EXCEPT !.tables = [t \in Tables(db) \union {s.table} |->
            IF t = s.table THEN [columns |-> {}, owner |-> role] ELSE db.tables[t]]]
    [] s.op = "drop" -> [db EXCEPT !.tables = [t \in Tables(db) \ {s.table} |-> db.tables[t]],
                                   !.transitions = IF s.table = "state_transitions" THEN {} ELSE @]
    [] s.op = "add" -> [db EXCEPT !.tables[s.table].columns = @ \union {s.column}]
    [] s.op = "remove" -> [db EXCEPT !.tables[s.table].columns = @ \ {s.column}]
    [] s.op = "backfill" -> [db EXCEPT !.transitions = StateKeys]
    [] s.op = "clear" -> [db EXCEPT !.transitions = {}]

(* The statements of a step, one after the other; the first the backend    *)
(* refuses ends it.                                                        *)
Executed(db, role, statements) ==
  LET after[i \in 0..Len(statements)] ==
        IF i = 0 THEN [ok |-> TRUE, db |-> db]
        ELSE LET r == after[i - 1]
             IN  IF r.ok /\ Accepts(r.db, role, statements[i])
                 THEN [r EXCEPT !.db = Run(r.db, role, statements[i])]
                 ELSE [r EXCEPT !.ok = FALSE]
  IN  after[Len(statements)]

(* What a plan does to the schema state in memory, which follows tables    *)
(* and not columns.                                                        *)
TablesAfter(tables, current, target) ==
  LET of(op) == {s.table : s \in {r \in UNION {Range(StatementsOf(current, target, v)) :
                                              v \in Range(PlanBetween(current, target))} : r.op = op}}
  IN  (tables \union of("create")) \ of("drop")

(* The database a fresh install has at a version, said without running     *)
(* anything: everything the steps up to it create and add.                 *)
SchemaAt(v, owner) ==
  LET upTo == UNION {Range(UpgradeCatalog[w]) : w \in 1..v}
      created == {s.table : s \in {r \in upTo : r.op = "create"}}
      added(t) == {s.column : s \in {r \in upTo : r.op = "add" /\ r.table = t}}
  IN  [tables |-> [t \in created |-> [columns |-> added(t), owner |-> owner]],
       ledger |-> 1..v,
       transitions |-> IF Backfill \in upTo THEN StateKeys ELSE {}]

(* A binary that knows versions up to v accepts the schema it read.        *)
Compatible(v, version, tables) ==
  /\ version = v
  /\ TablesAfter({}, 0, v) \subseteq tables

(* Every plan between two versions is one the validator takes, and carrying*)
(* it out on the database a fresh install of the first has meets no        *)
(* refusal and leaves the database a fresh install of the second has:      *)
(* upgrades and downgrades undo one another, tables, columns and backfilled*)
(* rows (migration_plan_between, the two catalogs).                        *)
PlanReachesItsVersion(v, w) ==
  LET plan == PlanBetween(v, w)
      all == FlattenSeq([i \in DOMAIN plan |-> StatementsOf(v, w, plan[i])])
      done == Executed(SchemaAt(v, "login"), "login", all)
  IN  /\ PlanIsValid(v, w, plan)
      /\ done.ok
      /\ done.db.tables = SchemaAt(w, "login").tables
      /\ done.db.transitions = SchemaAt(w, "login").transitions
      /\ TablesAfter(Tables(SchemaAt(v, "login")), v, w) = Tables(done.db)

-----------------------------------------------------------------------------
(* Opening the database. *)

CONSTANTS Servers,
          Backend,        \* "sqlite" or "postgresql"
          Knows,          \* the version each server's binary migrates to
          Roles,          \* TRUE: database.migration_role and runtime_role are set
          StartVersions,  \* the versions the database may be found at
          Owner,          \* who owns the tables it is found with
          Nobody,
          MaxFaults,      \* transactions the backend fails
          MaxCrashes      \* servers killed

VARIABLES db,       \* the committed database
          pc,       \* where each server is in opening the store
          seen,     \* the tables it read
          version,  \* the version it read
          plan,     \* the steps it has left
          lease,    \* the session holding the advisory lock
          faults, crashes

vars == <<db, pc, seen, version, plan, lease, faults, crashes>>

Opening == {"bootstrap", "tables", "ledger", "lease", "migrate", "validate"}

TypeOK ==
  /\ pc \in [Servers -> Opening \union {"down", "up", "refused"}]
  /\ version \in [Servers -> Versions]
  /\ lease \in Servers \union {Nobody}
  /\ faults \in 0..MaxFaults /\ crashes \in 0..MaxCrashes
  /\ db.ledger \subseteq Versions

Init ==
  /\ \E v \in StartVersions : db = SchemaAt(v, Owner)
  /\ pc = [s \in Servers |-> "down"]
  /\ seen = [s \in Servers |-> {}]
  /\ version = [s \in Servers |-> 0]
  /\ plan = [s \in Servers |-> <<>>]
  /\ lease = Nobody
  /\ faults = 0 /\ crashes = 0

(* The role a server's migrations run under.                               *)
MigratesAs == IF Backend = "postgresql" /\ Roles THEN "migration" ELSE "login"
ServesAs == IF Backend = "postgresql" /\ Roles THEN "runtime" ELSE "login"

(* SQLite looks for any table, PostgreSQL for the ledger.                  *)
Initialised == IF Backend = "sqlite" THEN Tables(db) # {} ELSE "schema_migrations" \in Tables(db)

Goto(s, label) == pc' = [pc EXCEPT ![s] = label]

(* A server that gives up ends its process: its session, with the lease,   *)
(* and its memory go; a transaction it had open is rolled back.            *)
Release(s) == lease' = IF lease = s THEN Nobody ELSE lease
Ends(s, label) ==
  /\ Goto(s, label)
  /\ Release(s)
  /\ seen' = [seen EXCEPT ![s] = {}]
  /\ version' = [version EXCEPT ![s] = 0]
  /\ plan' = [plan EXCEPT ![s] = <<>>]
Refuse(s) == Ends(s, "refused")
Memory == <<seen, version, plan>>

Open(s) ==
  /\ pc[s] \in {"down", "refused"}
  /\ Goto(s, IF Initialised THEN "tables" ELSE "bootstrap")
  /\ UNCHANGED <<db, seen, version, plan, lease, faults, crashes>>

(* One transaction: the tables of the first schema that are missing, and   *)
(* its ledger row.  It runs under the login role whatever roles are set.   *)
Bootstrapped ==
  LET missing == SelectSeq(InitialTables, LAMBDA t : t \notin Tables(db))
      done == Executed(db, "login", [i \in DOMAIN missing |-> Create(missing[i])])
  IN  [done.db EXCEPT !.ledger = @ \union {1}]

(* PostgreSQL may refuse a CREATE TABLE IF NOT EXISTS that another session *)
(* is committing at the same time.                                         *)
Bootstrap(s, ok) ==
  /\ pc[s] = "bootstrap"
  /\ IF ok THEN db' = Bootstrapped /\ Goto(s, "tables") /\ UNCHANGED <<Memory, lease, faults>>
     ELSE /\ UNCHANGED db
          /\ Refuse(s)
          /\ \/ Backend = "postgresql" /\ Initialised /\ UNCHANGED faults
             \/ faults < MaxFaults /\ faults' = faults + 1
  /\ UNCHANGED crashes

(* load_schema_state reads the tables and the ledger in two queries.       *)
ReadTables(s) ==
  /\ pc[s] = "tables"
  /\ seen' = [seen EXCEPT ![s] = Tables(db)]
  /\ Goto(s, "ledger")
  /\ UNCHANGED <<db, version, plan, lease, faults, crashes>>

StartMigrating(s) ==
  IF Backend = "postgresql" THEN Goto(s, "lease") /\ UNCHANGED plan
  ELSE /\ plan' = [plan EXCEPT ![s] = PlanBetween(Version(db), Knows[s])]
       /\ Goto(s, "migrate")

ReadLedger(s) ==
  /\ pc[s] = "ledger"
  /\ version' = [version EXCEPT ![s] = Version(db)]
  /\ IF Version(db) < Knows[s] THEN StartMigrating(s) ELSE Goto(s, "validate") /\ UNCHANGED plan
  /\ UNCHANGED <<db, seen, lease, faults, crashes>>

(* PostgreSQL waits for the lease and plans from what it reads under it.   *)
(* The migration role must reach the ledger to read it.                    *)
TakeLease(s) ==
  /\ pc[s] = "lease" /\ lease = Nobody
  /\ IF Reaches(db, MigratesAs, "schema_migrations") /\ Version(db) <= Knows[s]
     THEN /\ lease' = s
          /\ seen' = [seen EXCEPT ![s] = Tables(db)]
          /\ version' = [version EXCEPT ![s] = Version(db)]
          /\ plan' = [plan EXCEPT ![s] = PlanBetween(Version(db), Knows[s])]
          /\ Goto(s, "migrate")
     ELSE Refuse(s)
  /\ UNCHANGED <<db, faults, crashes>>

(* SQLite looks again, inside the transaction of the step.                 *)
AlreadyApplied(step) == Backend = "sqlite" /\ step \in db.ledger

(* Mutant: the statements of a step that fails are not rolled back. *)
MigrateStepPiecemeal(s, ok) ==
  /\ pc[s] = "migrate" /\ plan[s] # <<>>
  /\ LET step == Head(plan[s])
         done == Executed(db, MigratesAs, UpgradeCatalog[step])
     IN  IF ok /\ (AlreadyApplied(step) \/ done.ok)
         THEN /\ db' = IF AlreadyApplied(step) THEN db ELSE [done.db EXCEPT !.ledger = @ \union {step}]
              /\ plan' = [plan EXCEPT ![s] = Tail(@)]
              /\ UNCHANGED <<pc, seen, version, lease, faults>>
         ELSE /\ db' = done.db
              /\ faults' = IF ok THEN faults ELSE faults + 1
              /\ faults' <= MaxFaults
              /\ Refuse(s)
  /\ UNCHANGED crashes

(* One step and its ledger row, or nothing of either.                      *)
MigrateStep(s, ok) ==
  /\ pc[s] = "migrate" /\ plan[s] # <<>>
  /\ LET step == Head(plan[s])
         done == Executed(db, MigratesAs, UpgradeCatalog[step])
     IN  \/ /\ ok /\ AlreadyApplied(step)
            /\ plan' = [plan EXCEPT ![s] = Tail(@)]
            /\ UNCHANGED <<db, pc, seen, version, lease, faults>>
         \/ /\ ok /\ ~AlreadyApplied(step)
            /\ IF done.ok /\ Reaches(done.db, MigratesAs, "schema_migrations")
               THEN /\ db' = [done.db EXCEPT !.ledger = @ \union {step}]
                    /\ plan' = [plan EXCEPT ![s] = Tail(@)]
                    /\ UNCHANGED <<pc, seen, version, lease, faults>>
               ELSE Refuse(s) /\ UNCHANGED <<db, faults>>
         \/ /\ ~ok /\ faults < MaxFaults
            /\ faults' = faults + 1
            /\ Refuse(s) /\ UNCHANGED db
  /\ UNCHANGED crashes

(* The schema state in memory follows the plan, not the database.          *)
Migrated(s) ==
  /\ pc[s] = "migrate" /\ plan[s] = <<>>
  /\ seen' = [seen EXCEPT ![s] = TablesAfter(@, version[s], Knows[s])]
  /\ version' = [version EXCEPT ![s] = Knows[s]]
  /\ Release(s)
  /\ Goto(s, "validate")
  /\ UNCHANGED <<db, plan, faults, crashes>>

Validate(s) ==
  /\ pc[s] = "validate"
  /\ IF /\ \A t \in Tables(db) : Reaches(db, ServesAs, t)
        /\ Compatible(Knows[s], version[s], seen[s])
     THEN Goto(s, "up") /\ UNCHANGED <<Memory, lease>>
     ELSE Refuse(s)
  /\ UNCHANGED <<db, faults, crashes>>

Crash(s) ==
  /\ pc[s] \in Opening \union {"up"} /\ crashes < MaxCrashes
  /\ crashes' = crashes + 1
  /\ Ends(s, "down")
  /\ UNCHANGED <<db, faults>>

Advance(s) ==
  \/ Open(s) \/ Bootstrap(s, TRUE) \/ ReadTables(s) \/ ReadLedger(s)
  \/ TakeLease(s) \/ MigrateStep(s, TRUE) \/ Migrated(s) \/ Validate(s)

Next == \E s \in Servers : Advance(s) \/ Bootstrap(s, FALSE) \/ MigrateStep(s, FALSE) \/ Crash(s)

Spec == Init /\ [][Next]_vars
FairSpec == Spec /\ \A s \in Servers : WF_vars(Advance(s))

-----------------------------------------------------------------------------
(* Whatever is interrupted, the committed database is exactly the one a    *)
(* fresh install of the version its ledger ends with has, and no version   *)
(* is missing from that ledger: every step commits whole, with its row,    *)
(* and once (sqlite_store.cpp apply_pending_migrations, postgresql_store   *)
(* execute_transaction).                                                   *)
SchemaIsItsLedgers ==
  /\ db.ledger = 1..Version(db)
  /\ LET expected == SchemaAt(Version(db), "login")
     IN  /\ Tables(db) = Tables(expected)
         /\ \A t \in Tables(db) : db.tables[t].columns = expected.tables[t].columns
         /\ db.transitions = expected.transitions

(* A server that serves does so on the schema its binary was written for,  *)
(* or on one a newer server has migrated further under it.                 *)
ServesItsSchema ==
  \A s \in Servers : pc[s] = "up" => version[s] = Knows[s] /\ Version(db) >= Knows[s]

(* Servers opening the same database at once, killed and failed on the     *)
(* way, all come up in the end: nothing an interrupted migration leaves    *)
(* needs an operator (the comments "M-10" of both backends).               *)
AllComeUp == <>[](\A s \in Servers : pc[s] = "up")

(* A first start that meets no fault and no rival is not refused           *)
(* (packaging/postgresql/provision-roles.sql: "a fresh install, where the  *)
(* migration role owns what it creates from the start").                   *)
FreshInstallsStart ==
  (Cardinality(Servers) = 1 /\ faults = 0) => \A s \in Servers : pc[s] # "refused"

=============================================================================
