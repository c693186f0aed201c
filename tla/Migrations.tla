----------------------------- MODULE Migrations -----------------------------
(***************************************************************************)
(* The migrate mutation of the system API (engine-system-api): an advisory  *)
(* lock, and in it a REPEATABLE READ transaction that validates the         *)
(* submitted migrations against the executed ones and executes the rest.    *)
(* In debug mode also forceMigrate, migrationDelete and migrationModify,    *)
(* the last two without the lock.                                           *)
(***************************************************************************)
EXTENDS Naturals, Sequences, FiniteSets, SequencesExt

CONSTANTS
  Calls,      \* calls of migrate
  NoCall,
  Inputs,     \* the lists of migrations a call may submit
  Debug,      \* the resolvers of debug mode are there
  MaxAlters   \* bound: deletions, modifications, calls of forceMigrate

Migration == UNION {ToSet(input) : input \in Inputs}
Versions == {m.version : m \in Migration}

ASSUME MigrationsAssumption ==
  /\ IsFiniteSet(Versions) /\ NoCall \notin Calls /\ Debug \in BOOLEAN /\ MaxAlters \in Nat
  /\ Inputs \subseteq Seq(Migration)
  /\ \A m \in Migration : m.version \in Nat \ {0} /\ m.type \in {"schema", "content"}

VARIABLES
  rows,     \* schema_migration, committed: the migration and the id of each version
  ddl,      \* history: the migrations the stages went through, in order
  lock,     \* who holds the advisory lock
  pc,       \* each call: "waiting" for the lock, "executing", "unlocking" or "ended"
  snapshot, \* the rows its transaction sees
  todo,     \* what it has to execute
  done,     \* what it executed
  outcome,  \* what it will answer
  alters    \* history: migrations deleted or modified, and calls of forceMigrate

migrationVars == <<rows, ddl, lock, pc, snapshot, todo, done, outcome, alters>>

IsTable(table) ==
  /\ DOMAIN table \subseteq Versions /\ table \in [DOMAIN table -> [migration : Migration, id : Nat]]
  /\ \A v \in DOMAIN table : table[v].migration.version = v
NoRows == [v \in {} |-> 0]

MigrationsTypeOK ==
  /\ IsTable(rows) /\ ddl \in Seq([migration : Migration, by : Calls]) /\ lock \in Calls \cup {NoCall}
  /\ pc \in [Calls -> {"waiting", "executing", "unlocking", "ended"}]
  /\ \A c \in Calls : IsTable(snapshot[c])
  /\ todo \in [Calls -> SUBSET [place : Nat, migration : Migration]] /\ done \in [Calls -> Seq(Migration)]
  /\ outcome \in [Calls -> {"ok", "failed"}] /\ alters \in 0..MaxAlters
  /\ \A c \in Calls : lock = c <=> pc[c] \in {"executing", "unlocking"}

MigrationsInit ==
  /\ rows = NoRows /\ ddl = <<>> /\ lock = NoCall
  /\ pc = [c \in Calls |-> "waiting"]
  /\ snapshot = [c \in Calls |-> NoRows] /\ todo = [c \in Calls |-> {}] /\ done = [c \in Calls |-> <<>>]
  /\ outcome = [c \in Calls |-> "failed"] /\ alters = 0
-----------------------------------------------------------------------------
(* The latest of a set of versions, 0 (the empty string) when there is none. *)
Latest(versions) == IF versions = {} THEN 0 ELSE CHOOSE v \in versions : \A w \in versions : w <= v

(* The version of the schema built from rows: content migrations do not count. *)
SchemaVersions(table) == {v \in DOMAIN table : table[v].migration.type = "schema"}

(* Mutant: forceMigrate for everybody. *)
MustFollowForced(force, m) == FALSE

(* MustFollowLatestMigrationError *)
MustFollow(force, m) == m.version < Latest(SchemaVersions(rows)) /\ ~force

(* The version is executed: the same migration is skipped, another is an error. *)
Executed(m) == m.version \in DOMAIN rows
Skipped(m) == Executed(m) /\ (m.type = "content" \/ rows[m.version].migration = m)

(* validateMigrations: what is wrong with the submitted list is found before any of it is     *)
(* executed.                                                                                   *)
Valid(list, force) ==
  \A i \in DOMAIN list : Skipped(list[i]) \/ (~Executed(list[i]) /\ ~MustFollow(force, list[i]))

(* What is left of it, at its place. A migration without modifications is not executed. *)
ToExecute(list) ==
  {[place |-> i, migration |-> list[i]] : i \in {j \in DOMAIN list : ~Skipped(list[j]) /\ ~list[j].empty}}

(* pg_advisory_lock, BEGIN, the query for stages that fixes what the transaction sees, and     *)
(* the validation, which reads nothing else. A schema the validator refuses is a choice.        *)
TakeLock(c) ==
  /\ pc[c] = "waiting" /\ lock = NoCall /\ lock' = c
  /\ \/ \E list \in Inputs, force \in BOOLEAN :
          /\ force => Debug /\ alters < MaxAlters
          /\ Valid(list, force) /\ pc' = [pc EXCEPT ![c] = "executing"]
          /\ snapshot' = [snapshot EXCEPT ![c] = rows]
          /\ alters' = IF force THEN alters + 1 ELSE alters
          /\ todo' = [todo EXCEPT ![c] = ToExecute(list)]
     \/ pc' = [pc EXCEPT ![c] = "unlocking"] /\ UNCHANGED <<snapshot, todo, alters>>
  /\ UNCHANGED <<rows, ddl, done, outcome>>

(* The order of execution: a stable sort by version. *)
Before(e, f) ==
  \/ e.migration.version < f.migration.version
  \/ e.migration.version = f.migration.version /\ e.place < f.place

(* SQL of a modification, or the queries of a content migration, then SaveMigrationCommand.   *)
Execute(c) ==
  /\ pc[c] = "executing"
  /\ \E e \in todo[c] :
       /\ \A f \in todo[c] \ {e} : Before(e, f)
       /\ done' = [done EXCEPT ![c] = Append(@, e.migration)] /\ todo' = [todo EXCEPT ![c] = @ \ {e}]
  /\ UNCHANGED <<rows, ddl, lock, pc, snapshot, outcome, alters>>

(* max(id) + 1 as the transaction sees it. *)
NextId(table) == Latest({table[v].id : v \in DOMAIN table}) + 1

(* The rows inserted, each with an id of its own. *)
Saved(c) ==
  LET news == done[c]
  IN  [v \in {news[i].version : i \in DOMAIN news} |->
        LET i == CHOOSE j \in DOMAIN news : news[j].version = v
        IN  [migration |-> news[i], id |-> NextId(snapshot[c]) + i - 1]]

(* version and id are unique, in this transaction and against those committed meanwhile. *)
Unique(c) ==
  /\ Cardinality(DOMAIN Saved(c)) = Len(done[c])
  /\ DOMAIN Saved(c) \cap DOMAIN rows = {}
  /\ {Saved(c)[v].id : v \in DOMAIN Saved(c)} \cap {rows[v].id : v \in DOMAIN rows} = {}

Publishes(c) ==
  /\ rows' = [v \in DOMAIN rows \cup DOMAIN Saved(c) |-> IF v \in DOMAIN rows THEN rows[v] ELSE Saved(c)[v]]
  /\ ddl' = ddl \o [i \in DOMAIN done[c] |-> [migration |-> done[c][i], by |-> c]]

(* COMMIT *)
Commit(c) ==
  /\ pc[c] = "executing" /\ todo[c] = {} /\ Unique(c) /\ Publishes(c)
  /\ pc' = [pc EXCEPT ![c] = "unlocking"] /\ outcome' = [outcome EXCEPT ![c] = "ok"]
  /\ UNCHANGED <<lock, snapshot, todo, done, alters>>

(* Mutant: no rollback() when a content migration was not successful. *)
FailCommits(c) ==
  /\ pc[c] = "executing" /\ Unique(c) /\ Publishes(c)
  /\ pc' = [pc EXCEPT ![c] = "unlocking"] /\ outcome' = [outcome EXCEPT ![c] = "failed"]
  /\ UNCHANGED <<lock, snapshot, todo, done, alters>>

(* A query fails, or a mutation of a content migration is not ok: rollback(). *)
Fail(c) ==
  /\ pc[c] = "executing" /\ (todo[c] # {} \/ ~Unique(c))
  /\ pc' = [pc EXCEPT ![c] = "unlocking"] /\ outcome' = [outcome EXCEPT ![c] = "failed"]
  /\ UNCHANGED <<rows, ddl, lock, snapshot, todo, done, alters>>

(* What only the call itself uses is gone when it ends. *)
Ends(c) ==
  /\ pc' = [pc EXCEPT ![c] = "ended"] /\ snapshot' = [snapshot EXCEPT ![c] = NoRows]
  /\ todo' = [todo EXCEPT ![c] = {}] /\ done' = [done EXCEPT ![c] = <<>>]
  /\ UNCHANGED <<rows, ddl, outcome, alters>>

(* pg_advisory_unlock, in finally. *)
Unlock(c) == pc[c] = "unlocking" /\ Ends(c) /\ lock' = NoCall

(* The connection or the process is lost: the server rolls back and releases the lock. *)
Lose(c) == pc[c] # "ended" /\ Ends(c) /\ lock' = IF lock = c THEN NoCall ELSE lock

(* migrationDelete, and migrationModify: the version too may be another, if no row has it. The *)
(* row keeps its id and its type.                                                              *)
Alter ==
  /\ Debug /\ alters < MaxAlters /\ alters' = alters + 1
  /\ \E v \in DOMAIN rows :
       \/ rows' = [w \in DOMAIN rows \ {v} |-> rows[w]]
       \/ \E m \in Migration :
            /\ m.version = v \/ m.version \notin DOMAIN rows
            /\ m.type = rows[v].migration.type /\ m # rows[v].migration
            /\ rows' = [w \in (DOMAIN rows \ {v}) \cup {m.version} |->
                          IF w = m.version THEN [rows[v] EXCEPT !.migration = m] ELSE rows[w]]
  /\ UNCHANGED <<ddl, lock, pc, snapshot, todo, done, outcome>>

MigrateStep(c) == TakeLock(c) \/ Execute(c) \/ Commit(c) \/ Fail(c) \/ Unlock(c)
MigrationsNext == (\E c \in Calls : MigrateStep(c) \/ Lose(c)) \/ Alter
-----------------------------------------------------------------------------
(* The executed schema migrations, in the order of their versions, are what the stages went   *)
(* through, in that order, as long as nobody forces or alters: the schema that                *)
(* SchemaVersionBuilder builds from the rows is the schema of the database                    *)
(* (ProjectMigrator.ts:143, :43).                                                              *)
ReplayMatches ==
  alters = 0 =>
    LET executed == {i \in DOMAIN ddl : ddl[i].migration.type = "schema"}
    IN  /\ \A i, j \in executed : i < j => ddl[i].migration.version < ddl[j].migration.version
        /\ {ddl[i].migration : i \in executed} = {rows[v].migration : v \in SchemaVersions(rows)}

(* A call that fails leaves nothing behind: what the stages went through is of calls that     *)
(* answer ok (MigrateMutationResolver.ts:55, Transaction.ts:169).                             *)
FailedLeavesNothing == \A i \in DOMAIN ddl : outcome[ddl[i].by] = "ok"
=============================================================================
