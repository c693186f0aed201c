--------------------------- MODULE SchemaCacheProofs ---------------------------
(* Theorems about SchemaCache and Migrations, for every set of calls, readers, *)
(* stages and submitted migrations.                                            *)
EXTENDS SchemaCache, TLAPS, FiniteSetTheorems, SequenceTheorems

(* A finite set of natural numbers that is not empty has a greatest element: otherwise take   *)
(* one of the smallest cardinality and remove an element.                                      *)
LEMMA GreatestExists ==
  ASSUME NEW S \in SUBSET Nat, IsFiniteSet(S), S # {}
  PROVE  \E m \in S : \A w \in S : w <= m
<1> DEFINE Great(R) == \E m \in R : \A w \in R : w <= m
           Sizes == {n \in Nat : \E R \in SUBSET S : R # {} /\ Cardinality(R) = n /\ ~Great(R)}
<1>1. \A R \in SUBSET S : IsFiniteSet(R) /\ Cardinality(R) \in Nat
  BY FS_Subset, FS_CardinalityType
<1>2. SUFFICES ASSUME ~Great(S) PROVE FALSE
  OBVIOUS
<1>3. Cardinality(S) \in Sizes
  BY <1>1, <1>2
<1>4. PICK n \in Sizes : \A k \in Sizes : ~(<<k, n>> \in OpToRel(<, Nat))
  <2>1. Sizes \subseteq Nat /\ Sizes # {}
    BY <1>3
  <2> HIDE DEF Sizes
  <2> QED BY <2>1, WFMin, NatLessThanWellFounded
<1>5. \A k \in Sizes : ~(k < n)
  BY <1>4 DEF OpToRel
<1>6. PICK R \in SUBSET S : R # {} /\ Cardinality(R) = n /\ ~Great(R)
  OBVIOUS
<1>7. PICK x \in R : TRUE
  BY <1>6
<1> DEFINE rest == R \ {x}
<1>8. Cardinality(rest) < n /\ Cardinality(rest) \in Nat
  BY <1>1, <1>6, <1>7, FS_RemoveElement
<1>9. CASE rest = {}
  BY <1>6, <1>7, <1>9
<1>10. CASE rest # {}
  <2>1. Great(rest)
    BY <1>5, <1>8, <1>10
  <2>2. PICK y \in rest : \A w \in rest : w <= y
    BY <2>1
  <2>3. CASE x <= y
    BY <1>6, <2>2, <2>3
  <2>4. CASE ~(x <= y)
    BY <1>6, <1>7, <2>2, <2>4
  <2> QED BY <2>3, <2>4
<1> QED BY <1>9, <1>10

(* What Latest promises. *)
LEMMA LatestIsGreatest ==
  ASSUME NEW S \in SUBSET Nat, IsFiniteSet(S)
  PROVE  /\ Latest(S) \in Nat
         /\ \A w \in S : w <= Latest(S)
         /\ S # {} => Latest(S) \in S
<1>1. CASE S = {}
  BY <1>1 DEF Latest
<1>2. CASE S # {}
  BY <1>2, GreatestExists DEF Latest
<1> QED BY <1>1, <1>2
-----------------------------------------------------------------------------
(* What a call has executed and has still to execute. *)
Pending(c) == {e.migration : e \in todo[c]} \cup ToSet(done[c])

(* What a call did before it commits is its own. *)
Unpublished == \A c \in Calls : pc[c] \in {"waiting", "executing"} => \A i \in DOMAIN ddl : ddl[i].by # c
NotStarted == \A c \in Calls : pc[c] = "waiting" => done[c] = <<>>

(* While a call holds the lock, its schema migrations come after all that are executed. *)
Ahead ==
  alters = 0 =>
    \A c \in Calls : pc[c] = "executing" =>
      \A m \in Pending(c) : m.type = "schema" => \A v \in SchemaVersions(rows) : v < m.version

MigrationsInv ==
  /\ MigrationsTypeOK
  /\ Unpublished
  /\ NotStarted
  /\ FailedLeavesNothing
  /\ Ahead

LEMMA VersionsAreNumbers ==
  /\ Versions \subseteq Nat \ {0} /\ IsFiniteSet(Versions)
  /\ \A m \in Migration : m.version \in Versions
BY MigrationsAssumption DEF MigrationsAssumption, Versions

LEMMA TableVersions ==
  ASSUME NEW table, IsTable(table)
  PROVE  /\ SchemaVersions(table) \subseteq DOMAIN table
         /\ SchemaVersions(table) \in SUBSET Nat /\ IsFiniteSet(SchemaVersions(table))
         /\ DOMAIN table \in SUBSET Nat /\ IsFiniteSet(DOMAIN table)
         /\ SchemaVersions(table) \subseteq Versions
BY VersionsAreNumbers, FS_Subset DEF SchemaVersions, IsTable

LEMMA IdsAreNumbers ==
  ASSUME NEW table, IsTable(table)
  PROVE  NextId(table) \in Nat /\ NextId(table) >= 1
<1> DEFINE ids == {table[v].id : v \in DOMAIN table}
           id == [v \in DOMAIN table |-> table[v].id]
<1>1. ids \in SUBSET Nat
  BY DEF IsTable
<1>2. id \in Surjection(DOMAIN table, ids)
  BY DEF Surjection
<1>3. IsFiniteSet(DOMAIN table)
  BY TableVersions
<1>4. IsFiniteSet(ids)
  BY <1>2, <1>3, FS_Surjection
<1>5. Latest(ids) \in Nat
  <2> HIDE DEF ids
  <2> QED BY <1>1, <1>4, LatestIsGreatest
<1> QED BY <1>5 DEF NextId

(* The elements of sequences that grow. *)
LEMMA AppendSet ==
  ASSUME NEW S, NEW s \in Seq(S), NEW e \in S
  PROVE  Append(s, e) \in Seq(S) /\ ToSet(Append(s, e)) = ToSet(s) \cup {e}
<1>1. DOMAIN Append(s, e) = 1 .. Len(s) + 1 /\ DOMAIN s = 1 .. Len(s) /\ Len(s) \in Nat
  OBVIOUS
<1>2. Append(s, e)[Len(s) + 1] = e /\ \A i \in 1 .. Len(s) : Append(s, e)[i] = s[i]
  OBVIOUS
<1>3. ToSet(Append(s, e)) \subseteq ToSet(s) \cup {e}
  BY <1>1, <1>2 DEF ToSet
<1>4. e \in ToSet(Append(s, e))
  BY <1>1, <1>2 DEF ToSet
<1>5. ToSet(s) \subseteq ToSet(Append(s, e))
  BY <1>1, <1>2 DEF ToSet
<1> QED BY <1>3, <1>4, <1>5

(* The rows of a call are those of what it executed. *)
LEMMA SavedIsTable ==
  ASSUME MigrationsTypeOK, NEW c \in Calls
  PROVE  /\ IsTable(Saved(c))
         /\ \A v \in DOMAIN Saved(c) : Saved(c)[v].migration \in ToSet(done[c])
<1> DEFINE news == done[c]
           At(v) == CHOOSE j \in DOMAIN news : news[j].version = v
<1>1. news \in Seq(Migration) /\ IsTable(snapshot[c])
  BY DEF MigrationsTypeOK
<1>2. DOMAIN Saved(c) = {news[i].version : i \in DOMAIN news}
  BY DEF Saved
<1>3. ASSUME NEW v \in DOMAIN Saved(c)
      PROVE  /\ v \in Versions /\ Saved(c)[v].migration \in Migration /\ Saved(c)[v].migration.version = v
             /\ Saved(c)[v] \in [migration : Migration, id : Nat] /\ Saved(c)[v].migration \in ToSet(news)
  <2>1. At(v) \in DOMAIN news /\ news[At(v)].version = v
    BY <1>2, <1>3
  <2>2. Saved(c)[v] = [migration |-> news[At(v)], id |-> NextId(snapshot[c]) + At(v) - 1]
    BY <1>2, <1>3 DEF Saved
  <2> HIDE DEF At
  <2>3. At(v) \in Nat /\ news[At(v)] \in Migration /\ At(v) >= 1
    BY <1>1, <2>1
  <2>4. NextId(snapshot[c]) + At(v) - 1 \in Nat
    BY <1>1, <2>3, IdsAreNumbers
  <2> QED BY <2>1, <2>2, <2>3, <2>4, VersionsAreNumbers DEF ToSet
<1>4. Saved(c) \in [DOMAIN Saved(c) -> [migration : Migration, id : Nat]]
  BY <1>3 DEF Saved
<1> QED BY <1>3, <1>4 DEF IsTable
-----------------------------------------------------------------------------
LEMMA ConcatElements ==
  ASSUME NEW S, NEW s \in Seq(S), NEW r \in Seq(S)
  PROVE  /\ s \o r \in Seq(S)
         /\ \A i \in DOMAIN (s \o r) : (\E j \in DOMAIN s : (s \o r)[i] = s[j]) \/ (\E j \in DOMAIN r : (s \o r)[i] = r[j])
<1>1. s \o r \in Seq(S)
  OBVIOUS
<1>2. Len(s) \in Nat /\ Len(r) \in Nat /\ DOMAIN s = 1 .. Len(s) /\ DOMAIN r = 1 .. Len(r)
  OBVIOUS
<1>3. DOMAIN (s \o r) = 1 .. Len(s) + Len(r)
  OBVIOUS
<1>4. ASSUME NEW i \in 1 .. Len(s) + Len(r)
      PROVE  (\E j \in DOMAIN s : (s \o r)[i] = s[j]) \/ (\E j \in DOMAIN r : (s \o r)[i] = r[j])
  <2>1. CASE i <= Len(s)
    <3>1. i \in DOMAIN s /\ (s \o r)[i] = s[i]
      BY <1>2, <2>1
    <3> QED BY <3>1
  <2>2. CASE i > Len(s)
    <3>1. i - Len(s) \in DOMAIN r /\ (s \o r)[i] = r[i - Len(s)]
      BY <1>2, <2>2
    <3> QED BY <3>1
  <2> QED BY <1>2, <2>1, <2>2
<1> QED BY <1>1, <1>3, <1>4

(* What Publishes does to the rows and to the stages. *)
LEMMA PublishedRows ==
  ASSUME MigrationsTypeOK, NEW c \in Calls, Publishes(c)
  PROVE  /\ IsTable(rows')
         /\ DOMAIN rows' = DOMAIN rows \cup DOMAIN Saved(c)
         /\ \A v \in DOMAIN rows : rows'[v] = rows[v]
         /\ \A v \in DOMAIN rows' \ DOMAIN rows : rows'[v].migration \in ToSet(done[c]) /\ rows'[v].migration.version = v
<1>1. IsTable(rows) /\ IsTable(Saved(c)) /\ \A v \in DOMAIN Saved(c) : Saved(c)[v].migration \in ToSet(done[c])
  BY SavedIsTable DEF MigrationsTypeOK
<1>2. rows' = [v \in DOMAIN rows \cup DOMAIN Saved(c) |-> IF v \in DOMAIN rows THEN rows[v] ELSE Saved(c)[v]]
  BY DEF Publishes
<1> QED BY <1>1, <1>2 DEF IsTable

LEMMA PublishedDdl ==
  ASSUME MigrationsTypeOK, NEW c \in Calls, Publishes(c)
  PROVE  /\ ddl' \in Seq([migration : Migration, by : Calls])
         /\ \A i \in DOMAIN ddl' : ddl'[i].by = c \/ \E j \in DOMAIN ddl : ddl'[i] = ddl[j]
<1> DEFINE T == [migration : Migration, by : Calls]
           news == [i \in DOMAIN done[c] |-> [migration |-> done[c][i], by |-> c]]
<1>1. done[c] \in Seq(Migration) /\ ddl \in Seq(T)
  BY DEF MigrationsTypeOK
<1>2. news \in Seq(T) /\ \A i \in DOMAIN news : news[i].by = c
  <2>1. Len(done[c]) \in Nat /\ DOMAIN done[c] = 1 .. Len(done[c]) /\ \A i \in 1 .. Len(done[c]) : done[c][i] \in Migration
    BY <1>1
  <2>2. news \in [1 .. Len(done[c]) -> T]
    BY <2>1
  <2>3. \A n \in Nat : [1 .. n -> T] \subseteq Seq(T)
    BY SeqDef
  <2> QED BY <2>1, <2>2, <2>3
<1>3. ddl' = ddl \o news
  BY DEF Publishes
<1> HIDE DEF news, T
<1> QED
  <2>1. ddl' \in Seq(T)
    BY <1>1, <1>2, <1>3, ConcatElements
  <2>2. \A i \in DOMAIN ddl' : (\E j \in DOMAIN ddl : ddl'[i] = ddl[j]) \/ (\E j \in DOMAIN news : ddl'[i] = news[j])
    BY <1>1, <1>2, <1>3, ConcatElements
  <2> QED BY <1>2, <2>1, <2>2 DEF T

LEMMA NoRowsIsTable == IsTable(NoRows)
BY DEF NoRows, IsTable

LEMMA MigrationsInvInit ==
  ASSUME MigrationsInit
  PROVE  MigrationsInv
<1>1. MigrationsTypeOK
  BY NoRowsIsTable, MigrationsAssumption DEF MigrationsInit, MigrationsTypeOK, MigrationsAssumption
<1>2. Unpublished /\ NotStarted /\ FailedLeavesNothing /\ Ahead
  BY DEF MigrationsInit, Unpublished, NotStarted, FailedLeavesNothing, Ahead
<1> QED BY <1>1, <1>2 DEF MigrationsInv
-----------------------------------------------------------------------------
LEMMA TakeLockKeeps ==
  ASSUME MigrationsInv, NEW c \in Calls, TakeLock(c)
  PROVE  MigrationsInv'
<1> USE DEF MigrationsInv
<1>1. \/ \E list \in Inputs, force \in BOOLEAN :
           /\ force => Debug /\ alters < MaxAlters
           /\ Valid(list, force) /\ pc' = [pc EXCEPT ![c] = "executing"]
           /\ snapshot' = [snapshot EXCEPT ![c] = rows]
           /\ alters' = IF force THEN alters + 1 ELSE alters
           /\ todo' = [todo EXCEPT ![c] = ToExecute(list)]
      \/ pc' = [pc EXCEPT ![c] = "unlocking"] /\ UNCHANGED <<snapshot, todo, alters>>
  BY DEF TakeLock
<1>2. /\ pc[c] = "waiting" /\ lock = NoCall /\ lock' = c
      /\ rows' = rows /\ ddl' = ddl /\ done' = done /\ outcome' = outcome
  BY DEF TakeLock
<1>3. ASSUME NEW list \in Inputs
      PROVE  /\ ToExecute(list) \subseteq [place : Nat, migration : Migration]
             /\ \A e \in ToExecute(list) : \E i \in DOMAIN list : e.migration = list[i] /\ ~Skipped(list[i])
  <2>1. list \in Seq(Migration)
    BY MigrationsAssumption DEF MigrationsAssumption
  <2>2. \A i \in DOMAIN list : list[i] \in Migration /\ i \in Nat
    BY <2>1
  <2> QED BY <2>2 DEF ToExecute
<1>4. MigrationsTypeOK'
  <2>1. /\ IsTable(rows)' /\ ddl' \in Seq([migration : Migration, by : Calls]) /\ lock' \in Calls \cup {NoCall}
        /\ done' \in [Calls -> Seq(Migration)] /\ outcome' \in [Calls -> {"ok", "failed"}]
    BY <1>2 DEF MigrationsTypeOK, IsTable
  <2>2. /\ pc' \in [Calls -> {"waiting", "executing", "unlocking", "ended"}]
        /\ todo' \in [Calls -> SUBSET [place : Nat, migration : Migration]]
        /\ alters' \in 0..MaxAlters
    <3>1. CASE pc' = [pc EXCEPT ![c] = "unlocking"] /\ UNCHANGED <<snapshot, todo, alters>>
      BY <3>1 DEF MigrationsTypeOK
    <3>2. ASSUME NEW list \in Inputs, NEW force \in BOOLEAN, force => Debug /\ alters < MaxAlters,
                 pc' = [pc EXCEPT ![c] = "executing"],
                 alters' = IF force THEN alters + 1 ELSE alters, todo' = [todo EXCEPT ![c] = ToExecute(list)]
          PROVE  /\ pc' \in [Calls -> {"waiting", "executing", "unlocking", "ended"}]
                 /\ todo' \in [Calls -> SUBSET [place : Nat, migration : Migration]]
                 /\ alters' \in 0..MaxAlters
      <4>1. alters' \in 0..MaxAlters
        <5>1. alters \in 0..MaxAlters /\ MaxAlters \in Nat
          BY MigrationsAssumption DEF MigrationsTypeOK, MigrationsAssumption
        <5>2. CASE force
          BY <3>2, <5>1, <5>2
        <5>3. CASE ~force
          BY <3>2, <5>1, <5>3
        <5> QED BY <5>2, <5>3
      <4>2. pc' \in [Calls -> {"waiting", "executing", "unlocking", "ended"}]
        BY <3>2 DEF MigrationsTypeOK
      <4>3. todo' \in [Calls -> SUBSET [place : Nat, migration : Migration]]
        BY <1>3, <3>2 DEF MigrationsTypeOK
      <4> QED BY <4>1, <4>2, <4>3
    <3> QED BY <1>1, <3>1, <3>2
  <2>3. \A d \in Calls : IsTable(snapshot'[d])
    <3>1. CASE snapshot' = [snapshot EXCEPT ![c] = rows]
      <4> TAKE d \in Calls
      <4>1. snapshot'[d] = rows \/ snapshot'[d] = snapshot[d]
        BY <3>1
      <4> QED BY <4>1 DEF MigrationsTypeOK
    <3>2. CASE snapshot' = snapshot
      BY <3>2 DEF MigrationsTypeOK
    <3> QED BY <1>1, <3>1, <3>2
  <2>4. \A d \in Calls : lock' = d <=> pc'[d] \in {"executing", "unlocking"}
    BY <1>1, <1>2, MigrationsAssumption DEF MigrationsTypeOK, MigrationsAssumption
  <2> QED BY <2>1, <2>2, <2>3, <2>4 DEF MigrationsTypeOK, IsTable
<1>5. Unpublished' /\ NotStarted' /\ FailedLeavesNothing'
  BY <1>1, <1>2 DEF Unpublished, NotStarted, FailedLeavesNothing, MigrationsTypeOK
<1>6. Ahead'
  <2> SUFFICES ASSUME alters' = 0, NEW d \in Calls, pc'[d] = "executing", NEW m \in Pending(d)', m.type = "schema",
                      NEW v \in SchemaVersions(rows)'
               PROVE  v < m.version
    BY DEF Ahead
  <2>1. v \in SchemaVersions(rows) /\ alters = 0
    BY <1>1, <1>2, MigrationsAssumption DEF SchemaVersions, MigrationsTypeOK, MigrationsAssumption
  <2>2. d = c
    BY <1>1, <1>2, MigrationsAssumption DEF MigrationsTypeOK, MigrationsAssumption
  <2>3. PICK list \in Inputs, force \in BOOLEAN :
          /\ Valid(list, force) /\ alters' = (IF force THEN alters + 1 ELSE alters)
          /\ todo' = [todo EXCEPT ![c] = ToExecute(list)]
    BY <1>1, <2>2, <1>2 DEF MigrationsTypeOK
  <2>4. ~force
    BY <2>1, <2>3
  <2>5. done'[c] = <<>> /\ todo'[c] = ToExecute(list)
    BY <1>2, <2>3 DEF NotStarted, MigrationsTypeOK
  <2>6. PICK i \in DOMAIN list : m = list[i] /\ ~Skipped(list[i])
    BY <1>3, <2>2, <2>5 DEF Pending, ToSet
  <2>7. ~Executed(m) /\ ~MustFollow(force, m)
    BY <2>3, <2>6 DEF Valid
  <2>8. m \in Migration
    BY <2>6, MigrationsAssumption DEF MigrationsAssumption
  <2>9. m.version \in Nat /\ m.version # v /\ ~(m.version < Latest(SchemaVersions(rows)))
    <3>1. m.version \in Nat
      BY <2>8, VersionsAreNumbers
    <3>2. m.version # v
      BY <2>1, <2>7 DEF Executed, SchemaVersions
    <3> QED BY <2>4, <2>7, <3>1, <3>2 DEF MustFollow
  <2>10. v \in Nat /\ Latest(SchemaVersions(rows)) \in Nat /\ v <= Latest(SchemaVersions(rows))
    BY <2>1, TableVersions, LatestIsGreatest DEF MigrationsTypeOK
  <2> QED BY <2>9, <2>10
<1> QED BY <1>4, <1>5, <1>6

LEMMA DdlCallers ==
  ASSUME MigrationsTypeOK
  PROVE  \A i \in DOMAIN ddl : ddl[i].by \in Calls
<1>1. ddl \in Seq([migration : Migration, by : Calls])
  BY DEF MigrationsTypeOK
<1>2. \A i \in DOMAIN ddl : ddl[i] \in [migration : Migration, by : Calls]
  BY <1>1, LenProperties, ElementOfSeq
<1> QED BY <1>2

LEMMA ExecuteKeeps ==
  ASSUME MigrationsInv, NEW c \in Calls, Execute(c)
  PROVE  MigrationsInv'
<1> USE DEF MigrationsInv
<1>1. PICK e \in todo[c] :
        done' = [done EXCEPT ![c] = Append(@, e.migration)] /\ todo' = [todo EXCEPT ![c] = @ \ {e}]
  BY DEF Execute
<1>2. /\ pc[c] = "executing" /\ lock' = lock /\ pc' = pc /\ alters' = alters
      /\ rows' = rows /\ ddl' = ddl /\ outcome' = outcome /\ snapshot' = snapshot
  BY DEF Execute
<1>3. /\ todo[c] \subseteq [place : Nat, migration : Migration] /\ done[c] \in Seq(Migration)
      /\ e.migration \in Migration
  BY DEF MigrationsTypeOK
<1>4. /\ todo'[c] = todo[c] \ {e} /\ done'[c] = Append(done[c], e.migration)
      /\ \A d \in Calls \ {c} : todo'[d] = todo[d] /\ done'[d] = done[d]
  BY <1>1 DEF MigrationsTypeOK
<1>5. done'[c] \in Seq(Migration) /\ ToSet(done'[c]) = ToSet(done[c]) \cup {e.migration}
  BY <1>3, <1>4, AppendSet
<1>6. MigrationsTypeOK'
  <2>1. todo' \in [Calls -> SUBSET [place : Nat, migration : Migration]] /\ done' \in [Calls -> Seq(Migration)]
    BY <1>1, <1>3, <1>5 DEF MigrationsTypeOK
  <2> QED BY <1>2, <2>1 DEF MigrationsTypeOK, IsTable
<1>7. Unpublished' /\ NotStarted' /\ FailedLeavesNothing'
  BY <1>2, <1>4 DEF Unpublished, NotStarted, FailedLeavesNothing
<1>8. ASSUME NEW d \in Calls PROVE Pending(d)' \subseteq Pending(d)
  <2>1. CASE d = c
    BY <1>3, <1>4, <1>5, <2>1 DEF Pending
  <2>2. CASE d # c
    BY <1>4, <2>2 DEF Pending
  <2> QED BY <2>1, <2>2
<1>9. Ahead'
  BY <1>2, <1>8 DEF Ahead, SchemaVersions
<1> QED BY <1>6, <1>7, <1>9

LEMMA CommitKeeps ==
  ASSUME MigrationsInv, NEW c \in Calls, Commit(c)
  PROVE  MigrationsInv'
<1> USE DEF MigrationsInv
<1>1. /\ pc[c] = "executing" /\ Publishes(c) /\ pc' = [pc EXCEPT ![c] = "unlocking"]
      /\ outcome' = [outcome EXCEPT ![c] = "ok"]
      /\ lock' = lock /\ snapshot' = snapshot /\ todo' = todo /\ done' = done /\ alters' = alters
  BY DEF Commit
<1>2. MigrationsTypeOK'
  <2>1. IsTable(rows') /\ ddl' \in Seq([migration : Migration, by : Calls])
    BY <1>1, PublishedRows, PublishedDdl
  <2>2. /\ pc' \in [Calls -> {"waiting", "executing", "unlocking", "ended"}]
        /\ outcome' \in [Calls -> {"ok", "failed"}]
        /\ \A d \in Calls : lock' = d <=> pc'[d] \in {"executing", "unlocking"}
    BY <1>1 DEF MigrationsTypeOK
  <2> QED BY <1>1, <2>1, <2>2 DEF MigrationsTypeOK, IsTable
<1>3. \A i \in DOMAIN ddl' : ddl'[i].by = c \/ \E j \in DOMAIN ddl : ddl'[i] = ddl[j]
  BY <1>1, PublishedDdl
<1>4. Unpublished'
  BY <1>1, <1>3 DEF Unpublished, MigrationsTypeOK
<1>5. FailedLeavesNothing'
  <2> SUFFICES ASSUME NEW i \in DOMAIN ddl' PROVE outcome'[ddl'[i].by] = "ok"
    BY DEF FailedLeavesNothing
  <2>1. CASE ddl'[i].by = c
    BY <1>1, <2>1 DEF MigrationsTypeOK
  <2>2. ASSUME NEW j \in DOMAIN ddl, ddl'[i] = ddl[j] PROVE outcome'[ddl'[i].by] = "ok"
    <3>1. ddl[j].by \in Calls /\ outcome[ddl[j].by] = "ok"
      BY DdlCallers DEF FailedLeavesNothing
    <3> QED BY <1>1, <2>2, <3>1 DEF MigrationsTypeOK
  <2> QED BY <1>3, <2>1, <2>2
<1>6. NotStarted' /\ Ahead'
  BY <1>1 DEF NotStarted, Ahead, MigrationsTypeOK
<1> QED BY <1>2, <1>4, <1>5, <1>6

LEMMA FailKeeps ==
  ASSUME MigrationsInv, NEW c \in Calls, Fail(c)
  PROVE  MigrationsInv'
<1> USE DEF MigrationsInv
<1>1. /\ pc[c] = "executing" /\ pc' = [pc EXCEPT ![c] = "unlocking"]
      /\ outcome' = [outcome EXCEPT ![c] = "failed"] /\ rows' = rows /\ ddl' = ddl
      /\ lock' = lock /\ snapshot' = snapshot /\ todo' = todo /\ done' = done /\ alters' = alters
  BY DEF Fail
<1>2. MigrationsTypeOK'
  <2>1. /\ pc' \in [Calls -> {"waiting", "executing", "unlocking", "ended"}]
        /\ outcome' \in [Calls -> {"ok", "failed"}]
        /\ \A d \in Calls : lock' = d <=> pc'[d] \in {"executing", "unlocking"}
    BY <1>1 DEF MigrationsTypeOK
  <2> QED BY <1>1, <2>1 DEF MigrationsTypeOK, IsTable
<1>3. FailedLeavesNothing'
  <2> SUFFICES ASSUME NEW i \in DOMAIN ddl PROVE outcome'[ddl[i].by] = "ok"
    BY <1>1 DEF FailedLeavesNothing
  <2>1. ddl[i].by \in Calls /\ outcome[ddl[i].by] = "ok" /\ ddl[i].by # c
    BY <1>1, DdlCallers DEF FailedLeavesNothing, Unpublished
  <2> QED BY <1>1, <2>1 DEF MigrationsTypeOK
<1>4. Unpublished' /\ NotStarted' /\ Ahead'
  BY <1>1 DEF Unpublished, NotStarted, Ahead, MigrationsTypeOK, Pending, SchemaVersions
<1> QED BY <1>2, <1>3, <1>4

(* A call that ends, by itself or with its connection. *)
LEMMA EndsKeeps ==
  ASSUME MigrationsInv, NEW c \in Calls, Ends(c), lock' = IF lock = c THEN NoCall ELSE lock
  PROVE  MigrationsInv'
<1> USE DEF MigrationsInv
<1>1. /\ pc' = [pc EXCEPT ![c] = "ended"] /\ snapshot' = [snapshot EXCEPT ![c] = NoRows]
      /\ todo' = [todo EXCEPT ![c] = {}] /\ done' = [done EXCEPT ![c] = <<>>]
      /\ rows' = rows /\ ddl' = ddl /\ outcome' = outcome /\ alters' = alters
  BY DEF Ends
<1>2. MigrationsTypeOK'
  <2>1. /\ pc' \in [Calls -> {"waiting", "executing", "unlocking", "ended"}]
        /\ todo' \in [Calls -> SUBSET [place : Nat, migration : Migration]] /\ done' \in [Calls -> Seq(Migration)]
        /\ lock' \in Calls \cup {NoCall}
    BY <1>1 DEF MigrationsTypeOK
  <2>2. \A d \in Calls : lock' = d <=> pc'[d] \in {"executing", "unlocking"}
    BY <1>1, MigrationsAssumption DEF MigrationsTypeOK, MigrationsAssumption
  <2>3. \A d \in Calls : IsTable(snapshot'[d])
    <3> TAKE d \in Calls
    <3>1. CASE d = c
      <4>1. snapshot'[d] = NoRows \/ snapshot'[d] = snapshot[d]
        BY <1>1
      <4> QED BY <4>1, NoRowsIsTable DEF MigrationsTypeOK
    <3>2. CASE d # c
      BY <1>1, <3>2 DEF MigrationsTypeOK
    <3> QED BY <3>1, <3>2
  <2> QED BY <1>1, <2>1, <2>2, <2>3 DEF MigrationsTypeOK, IsTable
<1>3. Unpublished' /\ NotStarted' /\ FailedLeavesNothing' /\ Ahead'
  BY <1>1 DEF Unpublished, NotStarted, FailedLeavesNothing, Ahead, MigrationsTypeOK, Pending, SchemaVersions
<1> QED BY <1>2, <1>3

LEMMA AlterKeeps ==
  ASSUME MigrationsInv, Alter
  PROVE  MigrationsInv'
<1> USE DEF MigrationsInv
<1>1. /\ alters < MaxAlters /\ alters' = alters + 1 /\ lock' = lock /\ pc' = pc /\ ddl' = ddl
      /\ snapshot' = snapshot /\ todo' = todo /\ done' = done /\ outcome' = outcome
  BY DEF Alter
<1>2. alters' \in 0..MaxAlters /\ alters' # 0
  BY <1>1, MigrationsAssumption DEF MigrationsTypeOK, MigrationsAssumption
<1>3. IsTable(rows')
  <2>1. IsTable(rows)
    BY DEF MigrationsTypeOK
  <2>2. PICK v \in DOMAIN rows :
          \/ rows' = [w \in DOMAIN rows \ {v} |-> rows[w]]
          \/ \E m \in Migration :
               rows' = [w \in (DOMAIN rows \ {v}) \cup {m.version} |->
                         IF w = m.version THEN [rows[v] EXCEPT !.migration = m] ELSE rows[w]]
    BY DEF Alter
  <2>3. CASE rows' = [w \in DOMAIN rows \ {v} |-> rows[w]]
    BY <2>1, <2>3 DEF IsTable
  <2>4. ASSUME NEW m \in Migration,
               rows' = [w \in (DOMAIN rows \ {v}) \cup {m.version} |->
                         IF w = m.version THEN [rows[v] EXCEPT !.migration = m] ELSE rows[w]]
        PROVE  IsTable(rows')
    <3> DEFINE moved == [rows[v] EXCEPT !.migration = m]
    <3>1. moved \in [migration : Migration, id : Nat] /\ moved.migration = m
      BY <2>1 DEF IsTable
    <3>2. m.version \in Versions
      BY DEF Versions
    <3> HIDE DEF moved
    <3>3. /\ DOMAIN rows' = (DOMAIN rows \ {v}) \cup {m.version}
          /\ \A w \in DOMAIN rows' : rows'[w] = IF w = m.version THEN moved ELSE rows[w]
      BY <2>4 DEF moved
    <3>4. rows' = [w \in DOMAIN rows' |-> rows'[w]]
      BY <2>4
    <3> QED BY <2>1, <3>1, <3>2, <3>3, <3>4 DEF IsTable
  <2> QED BY <2>2, <2>3, <2>4
<1>4. MigrationsTypeOK'
  BY <1>1, <1>2, <1>3 DEF MigrationsTypeOK, IsTable
<1>5. Unpublished' /\ NotStarted' /\ FailedLeavesNothing' /\ Ahead'
  BY <1>1, <1>2 DEF Unpublished, NotStarted, FailedLeavesNothing, Ahead
<1> QED BY <1>4, <1>5

LEMMA MigrationsInvNext ==
  ASSUME MigrationsInv, MigrationsNext
  PROVE  MigrationsInv'
<1>1. (\E c \in Calls : MigrateStep(c) \/ Lose(c)) \/ Alter
  BY DEF MigrationsNext
<1>2. ASSUME NEW c \in Calls, MigrateStep(c) PROVE MigrationsInv'
  <2>1. TakeLock(c) \/ Execute(c) \/ Commit(c) \/ Fail(c) \/ Unlock(c)
    BY <1>2 DEF MigrateStep
  <2>2. ASSUME Unlock(c) PROVE MigrationsInv'
    <3>1. lock = c
      BY <2>2 DEF Unlock, MigrationsInv, MigrationsTypeOK
    <3>2. Ends(c) /\ lock' = IF lock = c THEN NoCall ELSE lock
      BY <2>2, <3>1 DEF Unlock
    <3> QED BY <3>2, EndsKeeps
  <2> QED BY <2>1, <2>2, TakeLockKeeps, ExecuteKeeps, CommitKeeps, FailKeeps
<1>3. ASSUME NEW c \in Calls, Lose(c) PROVE MigrationsInv'
  BY <1>3, EndsKeeps DEF Lose
<1> QED BY <1>1, <1>2, <1>3, AlterKeeps

LEMMA MigrationsInvStutter ==
  ASSUME MigrationsInv, UNCHANGED migrationVars
  PROVE  MigrationsInv'
<1>1. MigrationsTypeOK'
  BY DEF MigrationsInv, MigrationsTypeOK, IsTable, migrationVars
<1>2. Unpublished' /\ NotStarted' /\ FailedLeavesNothing' /\ Ahead'
  BY DEF MigrationsInv, Unpublished, NotStarted, FailedLeavesNothing, Ahead, Pending, SchemaVersions, migrationVars
<1> QED BY <1>1, <1>2 DEF MigrationsInv

(* While nobody forces or alters, versions are only added, and after the others. *)
LEMMA RowsGrow ==
  ASSUME MigrationsInv, MigrationsNext, alters' = 0
  PROVE  /\ SchemaVersions(rows) \subseteq SchemaVersions(rows)'
         /\ \A v \in SchemaVersions(rows)' \ SchemaVersions(rows) : \A w \in SchemaVersions(rows) : w < v
<1>1. CASE rows' = rows
  BY <1>1 DEF SchemaVersions
<1>2. CASE rows' # rows
  <2>1. ~Alter
    <3>1. alters \in Nat
      BY MigrationsAssumption DEF MigrationsInv, MigrationsTypeOK, MigrationsAssumption
    <3> QED BY <3>1 DEF Alter
  <2>2. PICK c \in Calls : Commit(c)
    BY <1>2, <2>1 DEF MigrationsNext, MigrateStep, TakeLock, Execute, Fail, Unlock, Lose, Ends
  <2>3. pc[c] = "executing" /\ Publishes(c) /\ alters = 0
    BY <2>2 DEF Commit
  <2>4. /\ DOMAIN rows \subseteq DOMAIN rows'
        /\ \A v \in DOMAIN rows : rows'[v] = rows[v]
        /\ \A v \in DOMAIN rows' \ DOMAIN rows : rows'[v].migration \in ToSet(done[c]) /\ rows'[v].migration.version = v
    BY <2>3, PublishedRows DEF MigrationsInv
  <2>5. SchemaVersions(rows) \subseteq SchemaVersions(rows)'
    BY <2>4 DEF SchemaVersions
  <2>6. ASSUME NEW v \in SchemaVersions(rows)' \ SchemaVersions(rows), NEW w \in SchemaVersions(rows)
        PROVE  w < v
    <3>1. v \in DOMAIN rows' \ DOMAIN rows /\ rows'[v].migration.type = "schema"
      BY <2>4, <2>6 DEF SchemaVersions
    <3>2. rows'[v].migration \in Pending(c) /\ rows'[v].migration.version = v
      BY <2>4, <3>1 DEF Pending
    <3> QED BY <2>3, <3>1, <3>2 DEF MigrationsInv, Ahead
  <2> QED BY <2>5, <2>6
<1> QED BY <1>1, <1>2
-----------------------------------------------------------------------------
(* A cached schema is a beginning of the executed migrations. *)
Beginning(schema) ==
  /\ schema \ Nothing \subseteq SchemaVersions(rows)
  /\ \A v \in SchemaVersions(rows), w \in schema : v <= w => v \in schema

(* What a call remembers, by its state. *)
Remembered ==
  \A r \in Readers :
    /\ reader[r] = "none" => prev[r] = Nothing /\ floor[r] = {}
    /\ reader[r] # "answered" => seen[r] = {}
    /\ ~new[r] => seen[r] = {}

(* Unless rows changed behind them, the cached schema, those the calls remember and those they *)
(* are about to build are beginnings.                                                          *)
Coherent ==
  ~doubtful =>
    /\ Beginning(base)
    /\ \A r \in Readers :
         /\ Beginning(prev[r]) /\ floor[r] \subseteq SchemaVersions(rows)
         /\ reader[r] = "answered" => Beginning(Built(r)) /\ floor[r] \subseteq Built(r)

(* Unless the base went back, it holds what the calls remember, and each cached schema of a    *)
(* stage holds it.                                                                             *)
Steady ==
  ~regressed =>
    /\ \A r \in Readers : prev[r] \ Nothing \subseteq base
    /\ \A s \in Stages : stages[s] # Nothing => base \ Nothing \subseteq stages[s]

CacheInv == CacheTypeOK /\ Remembered /\ Coherent /\ Steady

LEMMA NothingBegins ==
  ASSUME MigrationsInv
  PROVE  Beginning(Nothing) /\ Nothing \notin Schemas
<1>1. SchemaVersions(rows) \subseteq Versions
  BY TableVersions DEF MigrationsInv, MigrationsTypeOK
<1>2. \A v \in SchemaVersions(rows) : v \in Nat /\ v # 0
  BY <1>1, VersionsAreNumbers
<1>3. 0 \notin Versions
  BY VersionsAreNumbers
<1> QED BY <1>2, <1>3 DEF Beginning, Nothing, Schemas

LEMMA CacheInvInit ==
  ASSUME SchemaInit
  PROVE  CacheInv
<1>1. MigrationsInv
  BY MigrationsInvInit DEF SchemaInit
<1>2. CacheTypeOK
  BY DEF SchemaInit, CacheInit, CacheTypeOK, Schemas, NoStages
<1>3. Remembered
  BY DEF SchemaInit, CacheInit, Remembered
<1>4. Coherent
  BY <1>1, NothingBegins DEF SchemaInit, CacheInit, Coherent
<1>5. Steady
  BY DEF SchemaInit, CacheInit, Steady, NoStages
<1> QED BY <1>2, <1>3, <1>4, <1>5 DEF CacheInv
-----------------------------------------------------------------------------
LEMMA AskKeeps ==
  ASSUME MigrationsInv, CacheInv, NEW r \in Readers, Ask(r), UNCHANGED migrationVars
  PROVE  CacheInv'
<1> USE DEF CacheInv
<1>1. PICK s \in Stages \cup {NoStage} : stage' = [stage EXCEPT ![r] = s]
  BY DEF Ask
<1>2. /\ reader[r] = "none" /\ reader' = [reader EXCEPT ![r] = "asking"]
      /\ prev' = [prev EXCEPT ![r] = base] /\ floor' = [floor EXCEPT ![r] = SchemaVersions(rows)]
      /\ base' = base /\ stages' = stages /\ seen' = seen /\ new' = new
      /\ doubtful' = doubtful /\ regressed' = regressed /\ rows' = rows
  BY DEF Ask, migrationVars
<1>3. SchemaVersions(rows) \in Schemas /\ SchemaVersions(rows)' = SchemaVersions(rows)
  BY <1>2, TableVersions DEF MigrationsInv, MigrationsTypeOK, Schemas, SchemaVersions
<1>4. CacheTypeOK'
  BY <1>1, <1>2, <1>3 DEF CacheTypeOK
<1>5. Remembered'
  BY <1>2 DEF Remembered, CacheTypeOK
<1>6. Coherent'
  <2> SUFFICES ASSUME ~doubtful PROVE Coherent'
    BY <1>2 DEF Coherent
  <2>1. \A q \in Readers :
          prev'[q] = (IF q = r THEN base ELSE prev[q]) /\ floor'[q] = (IF q = r THEN SchemaVersions(rows) ELSE floor[q])
    BY <1>2 DEF CacheTypeOK
  <2>2. \A S : Beginning(S)' <=> Beginning(S)
    BY <1>3 DEF Beginning
  <2>3. Beginning(base)'
    BY <1>2, <2>2 DEF Coherent, Beginning
  <2>4. ASSUME NEW q \in Readers
        PROVE  /\ Beginning(prev[q])' /\ floor'[q] \subseteq SchemaVersions(rows)'
               /\ reader'[q] = "answered" => Beginning(Built(q))' /\ floor'[q] \subseteq Built(q)'
    <3>1. CASE q = r
      BY <1>2, <1>3, <2>1, <3>1 DEF Coherent, CacheTypeOK, Beginning
    <3>2. CASE q # r
      <4>1. Built(q)' = Built(q) /\ reader'[q] = reader[q] /\ prev'[q] = prev[q] /\ floor'[q] = floor[q]
        BY <1>2, <2>1, <3>2 DEF Built, CacheTypeOK
      <4>2. /\ Beginning(prev[q]) /\ floor[q] \subseteq SchemaVersions(rows)
            /\ reader[q] = "answered" => Beginning(Built(q)) /\ floor[q] \subseteq Built(q)
        BY DEF Coherent
      <4> QED BY <1>3, <4>1, <4>2 DEF Beginning
    <3> QED BY <3>1, <3>2
  <2> QED BY <2>3, <2>4 DEF Coherent
<1>7. Steady'
  BY <1>2 DEF Steady, CacheTypeOK
<1> QED BY <1>4, <1>5, <1>6, <1>7

(* A beginning, and what the server has after its latest version, is all there is. *)
LEMMA BuildsAll ==
  ASSUME MigrationsInv, NEW S \in Schemas \cup {Nothing}, Beginning(S)
  PROVE  (S \ Nothing) \cup ({v \in DOMAIN rows : v > Latest(S)} \cap SchemaVersions(rows)) = SchemaVersions(rows)
<1>1. /\ SchemaVersions(rows) \subseteq DOMAIN rows /\ SchemaVersions(rows) \in SUBSET Nat
      /\ \A v \in SchemaVersions(rows) : v # 0
  BY TableVersions, VersionsAreNumbers DEF MigrationsInv, MigrationsTypeOK
<1>2. S \in SUBSET Nat /\ IsFiniteSet(S)
  <2>1. CASE S = Nothing
    <3>1. IsFiniteSet({0})
      BY FS_Singleton, Zenon
    <3> QED BY <2>1, <3>1 DEF Nothing
  <2>2. CASE S \in Schemas
    BY <2>2, VersionsAreNumbers, FS_Subset DEF Schemas
  <2> QED BY <2>1, <2>2
<1>3. Latest(S) \in Nat /\ (S # {} => Latest(S) \in S) /\ (S = {} => Latest(S) = 0)
  BY <1>2, LatestIsGreatest DEF Latest
<1>4. ASSUME NEW v \in SchemaVersions(rows), ~(v > Latest(S))
      PROVE  v \in S \ Nothing
  BY <1>1, <1>3, <1>4 DEF Beginning, Nothing
<1>5. S \ Nothing \subseteq SchemaVersions(rows)
  BY DEF Beginning
<1> QED BY <1>1, <1>4, <1>5

LEMMA AnswerKeeps ==
  ASSUME MigrationsInv, CacheInv, NEW r \in Readers, Answer(r), UNCHANGED migrationVars
  PROVE  CacheInv'
<1> USE DEF CacheInv
<1> DEFINE after == {v \in DOMAIN rows : v > Latest(prev[r])}
<1>1. /\ reader[r] = "asking" /\ reader' = [reader EXCEPT ![r] = "answered"]
      /\ seen' = [seen EXCEPT ![r] = after \cap SchemaVersions(rows)] /\ new' = [new EXCEPT ![r] = after # {}]
      /\ base' = base /\ stages' = stages /\ stage' = stage /\ prev' = prev /\ floor' = floor
      /\ doubtful' = doubtful /\ regressed' = regressed /\ rows' = rows
  BY DEF Answer, CachedVersion, migrationVars
<1> HIDE DEF after
<1>2. SchemaVersions(rows) \in Schemas /\ SchemaVersions(rows)' = SchemaVersions(rows)
  BY <1>1, TableVersions DEF MigrationsInv, MigrationsTypeOK, Schemas, SchemaVersions
<1>3. CacheTypeOK'
  <2>1. after \cap SchemaVersions(rows) \in Schemas /\ (after # {}) \in BOOLEAN
    BY <1>2 DEF Schemas
  <2>2. seen' \in [Readers -> Schemas] /\ new' \in [Readers -> BOOLEAN]
    BY <1>1, <2>1 DEF CacheTypeOK
  <2> QED BY <1>1, <2>2 DEF CacheTypeOK
<1>4. Remembered'
  <2> SUFFICES ASSUME NEW q \in Readers
               PROVE  /\ reader'[q] = "none" => prev'[q] = Nothing /\ floor'[q] = {}
                      /\ reader'[q] # "answered" => seen'[q] = {}
                      /\ ~new'[q] => seen'[q] = {}
    BY DEF Remembered
  <2>1. CASE q = r
    BY <1>1, <2>1 DEF CacheTypeOK
  <2>2. CASE q # r
    BY <1>1, <2>2 DEF Remembered, CacheTypeOK
  <2> QED BY <2>1, <2>2
<1>5. Coherent'
  <2> SUFFICES ASSUME ~doubtful PROVE Coherent'
    BY <1>1 DEF Coherent
  <2>1. Beginning(base)'
    BY <1>1, <1>2 DEF Coherent, Beginning
  <2>2. ASSUME NEW q \in Readers
        PROVE  /\ Beginning(prev[q])' /\ floor'[q] \subseteq SchemaVersions(rows)'
               /\ reader'[q] = "answered" => Beginning(Built(q))' /\ floor'[q] \subseteq Built(q)'
    <3>1. Beginning(prev[q]) /\ floor[q] \subseteq SchemaVersions(rows)
      BY DEF Coherent
    <3>2. Beginning(prev[q])' /\ floor'[q] \subseteq SchemaVersions(rows)'
      BY <1>1, <1>2, <3>1 DEF Beginning
    <3>3. CASE q = r
      <4>1. prev[r] \in Schemas \cup {Nothing} /\ seen'[r] = after \cap SchemaVersions(rows)
        BY <1>1 DEF CacheTypeOK
      <4>2. Built(q)' = SchemaVersions(rows)
        BY <1>1, <3>1, <3>3, <4>1, BuildsAll DEF Built, after
      <4> QED BY <1>2, <3>2, <4>2 DEF Beginning
    <3>4. CASE q # r
      <4>1. Built(q)' = Built(q) /\ reader'[q] = reader[q]
        BY <1>1, <3>4 DEF Built, CacheTypeOK
      <4> QED BY <1>1, <1>2, <3>2, <4>1 DEF Coherent, Beginning
    <3> QED BY <3>3, <3>4
  <2> QED BY <2>1, <2>2 DEF Coherent
<1>6. Steady'
  BY <1>1 DEF Steady
<1> QED BY <1>3, <1>4, <1>5, <1>6

(* What a call that ends returns, and leaves in the cache. *)
LEMMA FinishReturns ==
  ASSUME MigrationsInv, CacheInv, NEW r \in Readers, Finish(r)
  PROVE  /\ stage[r] = NoStage => Result(r) = Built(r)
         /\ Built(r) \in Schemas /\ Result(r) \in Schemas
         /\ ~doubtful => floor[r] \subseteq Built(r)
         /\ ~regressed' => /\ Built(r) \subseteq Result(r)
                           /\ base \ Nothing \subseteq Built(r)
                           /\ \A s \in Stages : stages'[s] # Nothing => Built(r) \subseteq stages'[s]
<1> USE DEF CacheInv
<1>1. /\ reader[r] = "answered" /\ base' = Built(r) /\ regressed' = (regressed \/ ~(base \ Nothing \subseteq Built(r)))
      /\ stages' = [s \in Stages |-> IF s = stage[r] THEN Result(r) ELSE Kept(r)[s]]
  BY DEF Finish
<1>2. Built(r) \in Schemas
  BY DEF Built, CacheTypeOK, Schemas
<1>3. stage[r] \in Stages \cup {NoStage} /\ Kept(r) \in [Stages -> Schemas \cup {Nothing}]
  BY DEF CacheTypeOK, Kept, NoStages
<1>4. Result(r) \in Schemas
  BY <1>2, <1>3 DEF Result
<1>5. ~doubtful => floor[r] \subseteq Built(r)
  BY <1>1 DEF Coherent
<1>6. ASSUME ~regressed'
      PROVE  /\ Built(r) \subseteq Result(r) /\ base \ Nothing \subseteq Built(r)
             /\ \A s \in Stages : stages'[s] # Nothing => Built(r) \subseteq stages'[s]
  <2>1. ~regressed /\ base \ Nothing \subseteq Built(r)
    BY <1>1, <1>6
  <2>2. ASSUME NEW s \in Stages, Kept(r)[s] # Nothing PROVE Built(r) \subseteq Kept(r)[s]
    <3>1. Same(r) /\ Kept(r) = stages
      BY <2>2 DEF Kept, NoStages
    <3>2. Built(r) = prev[r] \ Nothing
      BY <3>1 DEF Same, Built, Remembered
    <3>3. prev[r] \ Nothing \subseteq base /\ base \ Nothing \subseteq stages[s]
      BY <2>1, <2>2, <3>1 DEF Steady
    <3> QED BY <3>1, <3>2, <3>3
  <2>3. Built(r) \subseteq Result(r)
    BY <1>3, <2>2 DEF Result
  <2> QED BY <1>1, <2>1, <2>2, <2>3
<1> QED BY <1>2, <1>4, <1>5, <1>6 DEF Result

LEMMA FinishKeeps ==
  ASSUME MigrationsInv, CacheInv, NEW r \in Readers, Finish(r), UNCHANGED migrationVars
  PROVE  CacheInv'
<1> USE DEF CacheInv
<1>1. /\ reader[r] = "answered" /\ reader' = [reader EXCEPT ![r] = "none"] /\ base' = Built(r)
      /\ stages' = [s \in Stages |-> IF s = stage[r] THEN Result(r) ELSE Kept(r)[s]]
      /\ regressed' = (regressed \/ ~(base \ Nothing \subseteq Built(r)))
      /\ stage' = [stage EXCEPT ![r] = NoStage] /\ prev' = [prev EXCEPT ![r] = Nothing]
      /\ seen' = [seen EXCEPT ![r] = {}] /\ new' = [new EXCEPT ![r] = FALSE] /\ floor' = [floor EXCEPT ![r] = {}]
      /\ doubtful' = doubtful /\ rows' = rows
  BY DEF Finish, migrationVars
<1>2. Built(r) \in Schemas /\ Result(r) \in Schemas
  BY FinishReturns
<1>3. CacheTypeOK'
  <2>1. Kept(r) \in [Stages -> Schemas \cup {Nothing}]
    BY DEF CacheTypeOK, Kept, NoStages
  <2>2. stages' \in [Stages -> Schemas \cup {Nothing}] /\ base' \in Schemas \cup {Nothing} /\ regressed' \in BOOLEAN
    BY <1>1, <1>2, <2>1 DEF CacheTypeOK
  <2>3. /\ reader' \in [Readers -> {"none", "asking", "answered"}] /\ stage' \in [Readers -> Stages \cup {NoStage}]
        /\ prev' \in [Readers -> Schemas \cup {Nothing}]
    BY <1>1 DEF CacheTypeOK
  <2>4. seen' \in [Readers -> Schemas] /\ new' \in [Readers -> BOOLEAN] /\ floor' \in [Readers -> Schemas]
    BY <1>1 DEF CacheTypeOK, Schemas
  <2> QED BY <1>1, <2>2, <2>3, <2>4 DEF CacheTypeOK
<1>4. Remembered'
  BY <1>1 DEF Remembered, CacheTypeOK
<1>5. Coherent'
  <2> SUFFICES ASSUME ~doubtful PROVE Coherent'
    BY <1>1 DEF Coherent
  <2>1. SchemaVersions(rows)' = SchemaVersions(rows)
    BY <1>1 DEF SchemaVersions
  <2>2. Beginning(base)'
    BY <1>1, <2>1 DEF Coherent, Beginning
  <2>3. ASSUME NEW q \in Readers
        PROVE  /\ Beginning(prev[q])' /\ floor'[q] \subseteq SchemaVersions(rows)'
               /\ reader'[q] = "answered" => Beginning(Built(q))' /\ floor'[q] \subseteq Built(q)'
    <3>1. CASE q = r
      <4>1. prev'[q] = Nothing /\ floor'[q] = {} /\ reader'[q] = "none"
        BY <1>1, <3>1 DEF CacheTypeOK
      <4> QED BY <2>1, <4>1, NothingBegins DEF Beginning
    <3>2. CASE q # r
      <4>1. Built(q)' = Built(q) /\ reader'[q] = reader[q] /\ prev'[q] = prev[q] /\ floor'[q] = floor[q]
        BY <1>1, <3>2 DEF Built, CacheTypeOK
      <4> QED BY <2>1, <4>1 DEF Coherent, Beginning
    <3> QED BY <3>1, <3>2
  <2> QED BY <2>2, <2>3 DEF Coherent
<1>6. Steady'
  <2> SUFFICES ASSUME ~regressed' PROVE Steady'
    BY DEF Steady
  <2>1. ~regressed /\ base \ Nothing \subseteq base' /\ \A s \in Stages : stages'[s] # Nothing => base' \subseteq stages'[s]
    BY <1>1, FinishReturns
  <2>2. \A q \in Readers : prev'[q] \ Nothing \subseteq base'
    BY <1>1, <2>1 DEF Steady, CacheTypeOK
  <2> QED BY <2>1, <2>2 DEF Steady
<1> QED BY <1>3, <1>4, <1>5, <1>6

LEMMA ClearKeeps ==
  ASSUME MigrationsInv, CacheInv, Clear, UNCHANGED migrationVars
  PROVE  CacheInv'
<1> USE DEF CacheInv
<1> DEFINE inFlight == \E r \in Readers : reader[r] # "none"
<1>1. /\ base' = Nothing /\ stages' = NoStages
      /\ doubtful' = (doubtful /\ inFlight) /\ regressed' = inFlight
      /\ reader' = reader /\ stage' = stage /\ prev' = prev /\ seen' = seen /\ new' = new /\ floor' = floor
      /\ rows' = rows
  BY DEF Clear, migrationVars
<1>2. inFlight \in BOOLEAN
  OBVIOUS
<1>3. CacheTypeOK'
  BY <1>1, <1>2 DEF CacheTypeOK, NoStages
<1>4. Remembered'
  BY <1>1 DEF Remembered
<1>5. SchemaVersions(rows)' = SchemaVersions(rows) /\ \A q \in Readers : Built(q)' = Built(q)
  BY <1>1 DEF SchemaVersions, Built
<1>6. Beginning(Nothing)'
  BY <1>5, NothingBegins DEF Beginning
<1>7. ASSUME ~inFlight PROVE \A q \in Readers : prev[q] = Nothing /\ floor[q] = {} /\ reader[q] = "none"
  BY <1>7 DEF Remembered
<1>8. Coherent'
  <2>1. CASE inFlight
    <3>1. doubtful' = doubtful
      BY <1>1, <2>1 DEF CacheTypeOK
    <3> QED BY <1>1, <1>5, <1>6, <3>1 DEF Coherent, Beginning
  <2>2. CASE ~inFlight
    <3>1. \A q \in Readers : prev'[q] = Nothing /\ floor'[q] = {} /\ reader'[q] = "none"
      BY <1>1, <1>7, <2>2
    <3>2. \A q \in Readers : Beginning(prev[q])'
      BY <1>6, <3>1 DEF Beginning
    <3>3. Beginning(base)'
      BY <1>1, <1>6 DEF Beginning
    <3> QED BY <3>1, <3>2, <3>3 DEF Coherent
  <2> QED BY <2>1, <2>2
<1>9. Steady'
  <2>1. CASE inFlight
    BY <1>1, <2>1 DEF Steady
  <2>2. CASE ~inFlight
    BY <1>1, <1>7, <2>2 DEF Steady, NoStages
  <2> QED BY <2>1, <2>2
<1> QED BY <1>3, <1>4, <1>8, <1>9

(* Migrations beside the cache: what was a beginning remains one. *)
LEMMA MigrationsKeepCache ==
  ASSUME MigrationsInv, CacheInv, MigrationsNext, doubtful' = (doubtful \/ (rows' # rows /\ alters' > 0)),
         UNCHANGED <<base, stages, reader, stage, prev, seen, new, floor, regressed>>
  PROVE  CacheInv'
<1> USE DEF CacheInv
<1>1. MigrationsInv'
  BY MigrationsInvNext
<1>2. CacheTypeOK' /\ Remembered' /\ Steady'
  <2>1. CacheTypeOK'
    BY DEF CacheTypeOK
  <2>2. Remembered' /\ Steady'
    BY DEF Remembered, Steady
  <2> QED BY <2>1, <2>2
<1>3. Coherent'
  <2> SUFFICES ASSUME ~doubtful' PROVE Coherent'
    BY DEF Coherent
  <2>1. ~doubtful /\ (rows' = rows \/ alters' = 0)
    <3>1. alters' \in Nat
      BY <1>1, MigrationsAssumption DEF MigrationsInv, MigrationsTypeOK, MigrationsAssumption
    <3>2. ~(doubtful \/ (rows' # rows /\ alters' > 0))
      <4> DEFINE D == doubtful \/ (rows' # rows /\ alters' > 0)
      <4>1. D \in BOOLEAN /\ doubtful' = D
        OBVIOUS
      <4> HIDE DEF D
      <4>2. ~D
        BY <4>1
      <4> QED BY <4>2 DEF D
    <3> QED BY <3>1, <3>2
  <2>2. /\ SchemaVersions(rows) \subseteq SchemaVersions(rows)'
        /\ \A v \in SchemaVersions(rows)' \ SchemaVersions(rows) : \A w \in SchemaVersions(rows) : w < v
    BY <2>1, RowsGrow DEF SchemaVersions
  <2>3. /\ SchemaVersions(rows) \subseteq Nat
        /\ SchemaVersions(rows)' \subseteq Nat \ {0}
    BY <1>1, TableVersions, VersionsAreNumbers DEF MigrationsInv, MigrationsTypeOK
  <2>4. ASSUME NEW S, Beginning(S)
        PROVE  /\ S \ Nothing \subseteq SchemaVersions(rows)'
               /\ \A v \in SchemaVersions(rows)', w \in S : v <= w => v \in S
    <3>1. S \ Nothing \subseteq SchemaVersions(rows)'
      BY <2>2, <2>4 DEF Beginning
    <3>2. ASSUME NEW v \in SchemaVersions(rows)', NEW w \in S, v <= w PROVE v \in S
      <4>1. CASE v \in SchemaVersions(rows)
        BY <2>4, <3>2, <4>1 DEF Beginning
      <4>2. CASE v \notin SchemaVersions(rows)
        <5>1. w = 0 \/ w \in SchemaVersions(rows)
          BY <2>4 DEF Beginning, Nothing
        <5> QED BY <2>2, <2>3, <3>2, <4>2, <5>1
      <4> QED BY <4>1, <4>2
    <3> QED BY <3>1, <3>2
  <2>5. \A q \in Readers : Built(q)' = Built(q)
    BY DEF Built
  <2>6. Beginning(base)'
    BY <2>1, <2>4 DEF Coherent, Beginning
  <2>7. ASSUME NEW q \in Readers
        PROVE  /\ Beginning(prev[q])' /\ floor'[q] \subseteq SchemaVersions(rows)'
               /\ reader'[q] = "answered" => Beginning(Built(q))' /\ floor'[q] \subseteq Built(q)'
    <3>1. Beginning(prev[q])' /\ floor'[q] \subseteq SchemaVersions(rows)'
      BY <2>1, <2>2, <2>4 DEF Coherent, Beginning
    <3>2. ASSUME reader[q] = "answered" PROVE Beginning(Built(q))' /\ floor'[q] \subseteq Built(q)'
      <4>1. Beginning(Built(q)) /\ floor[q] \subseteq Built(q)
        BY <2>1, <3>2 DEF Coherent
      <4> QED BY <2>4, <2>5, <4>1 DEF Beginning
    <3> QED BY <3>1, <3>2
  <2> QED BY <2>6, <2>7 DEF Coherent
<1> QED BY <1>2, <1>3
-----------------------------------------------------------------------------
SchemaInv == MigrationsInv /\ CacheInv

LEMMA SchemaInvNext ==
  ASSUME SchemaInv, [SchemaNext]_schemaVars
  PROVE  SchemaInv'
<1> USE DEF SchemaInv
<1>1. ASSUME MigrationsNext, doubtful' = (doubtful \/ (rows' # rows /\ alters' > 0)),
             UNCHANGED <<base, stages, reader, stage, prev, seen, new, floor, regressed>>
      PROVE  SchemaInv'
  BY <1>1, MigrationsInvNext, MigrationsKeepCache
<1>2. ASSUME (\E r \in Readers : Reads(r)) \/ Clear, UNCHANGED migrationVars
      PROVE  SchemaInv'
  BY <1>2, MigrationsInvStutter, AskKeeps, AnswerKeeps, FinishKeeps, ClearKeeps DEF Reads
<1>3. ASSUME UNCHANGED schemaVars PROVE SchemaInv'
  <2>1. MigrationsInv'
    BY <1>3, MigrationsInvStutter DEF schemaVars, migrationVars
  <2>2. /\ base' = base /\ stages' = stages /\ reader' = reader /\ stage' = stage /\ prev' = prev /\ seen' = seen
        /\ new' = new /\ floor' = floor /\ doubtful' = doubtful /\ regressed' = regressed /\ rows' = rows
    BY <1>3 DEF schemaVars, migrationVars, cacheVars
  <2>3. CacheTypeOK' /\ Remembered' /\ Steady'
    <3>1. CacheTypeOK'
      BY <2>2 DEF CacheInv, CacheTypeOK
    <3>2. Remembered' /\ Steady'
      BY <2>2 DEF CacheInv, Remembered, Steady
    <3> QED BY <3>1, <3>2
  <2>4. Coherent'
    BY <2>2 DEF CacheInv, Coherent, Beginning, Built, SchemaVersions
  <2> QED BY <2>1, <2>3, <2>4 DEF CacheInv
<1> QED BY <1>1, <1>2, <1>3 DEF SchemaNext

LEMMA SchemaInvCorrect == SchemaSpec => []SchemaInv
<1>1. SchemaInit => SchemaInv
  BY MigrationsInvInit, CacheInvInit DEF SchemaInit, SchemaInv
<1>2. SchemaInv /\ [SchemaNext]_schemaVars => SchemaInv'
  BY SchemaInvNext
<1> QED BY <1>1, <1>2, PTL DEF SchemaSpec

(* The advisory lock is of one call, and the variables keep their types. *)
THEOREM SchemaTypeCorrect == SchemaSpec => [](MigrationsTypeOK /\ CacheTypeOK)
<1>1. SchemaInv => MigrationsTypeOK /\ CacheTypeOK
  BY DEF SchemaInv, MigrationsInv, CacheInv
<1> QED BY <1>1, SchemaInvCorrect, PTL

(* A call of migrate that fails leaves nothing behind (MigrateMutationResolver.ts:55). *)
THEOREM FailedLeavesNothingCorrect == SchemaSpec => []FailedLeavesNothing
<1>1. SchemaInv => FailedLeavesNothing
  BY DEF SchemaInv, MigrationsInv
<1> QED BY <1>1, SchemaInvCorrect, PTL

(* getSchema returns no less than what was committed when it was called                      *)
(* (ContentSchemaResolver.ts:17-22).                                                          *)
THEOREM BaseFreshCorrect == SchemaSpec => BaseFresh
<1>1. SchemaInv =>
        [\A r \in Readers : Finish(r) /\ stage[r] = NoStage /\ ~doubtful => floor[r] \subseteq Result(r)]_schemaVars
  <2> SUFFICES ASSUME SchemaInv, NEW r \in Readers, Finish(r), stage[r] = NoStage, ~doubtful
               PROVE  floor[r] \subseteq Result(r)
    OBVIOUS
  <2> QED BY FinishReturns DEF SchemaInv
<1> QED BY <1>1, SchemaInvCorrect, PTL DEF BaseFresh

(* With a stage too, as long as the base never went back (ContentSchemaResolver.ts:20-26). *)
THEOREM StageFreshCorrect == SchemaSpec => StageFresh
<1>1. SchemaInv =>
        [\A r \in Readers : Finish(r) /\ ~doubtful /\ ~regressed' => floor[r] \subseteq Result(r)]_schemaVars
  <2> SUFFICES ASSUME SchemaInv, NEW r \in Readers, Finish(r), ~doubtful, ~regressed'
               PROVE  floor[r] \subseteq Result(r)
    OBVIOUS
  <2> QED BY FinishReturns DEF SchemaInv
<1> QED BY <1>1, SchemaInvCorrect, PTL DEF StageFresh
-----------------------------------------------------------------------------
(* What a call has executed is in the order of the versions, and what it has still to execute *)
(* does not go before it.                                                                      *)
Sorted ==
  \A c \in Calls :
    /\ \A i, j \in DOMAIN done[c] : i < j => done[c][i].version <= done[c][j].version
    /\ \A i \in DOMAIN done[c] : \A e \in todo[c] : done[c][i].version <= e.migration.version

LEMMA ExecuteSorts ==
  ASSUME MigrationsTypeOK, Sorted, NEW c \in Calls, Execute(c)
  PROVE  Sorted'
<1>1. PICK e \in todo[c] :
        /\ \A f \in todo[c] \ {e} : Before(e, f)
        /\ done' = [done EXCEPT ![c] = Append(@, e.migration)] /\ todo' = [todo EXCEPT ![c] = @ \ {e}]
  BY DEF Execute
<1>2. /\ todo[c] \subseteq [place : Nat, migration : Migration] /\ done[c] \in Seq(Migration)
      /\ e.migration \in Migration
  BY DEF MigrationsTypeOK
<1>3. /\ todo'[c] = todo[c] \ {e} /\ done'[c] = Append(done[c], e.migration)
      /\ \A d \in Calls \ {c} : todo'[d] = todo[d] /\ done'[d] = done[d]
  BY <1>1 DEF MigrationsTypeOK
<1> DEFINE n == Len(done[c])
<1>4. /\ n \in Nat /\ DOMAIN done[c] = 1 .. n /\ DOMAIN done'[c] = 1 .. n + 1
      /\ \A i \in 1 .. n : done'[c][i] = done[c][i] /\ done[c][i] \in Migration
      /\ done'[c][n + 1] = e.migration
  BY <1>2, <1>3
<1>5. \A m \in Migration : m.version \in Nat
  BY VersionsAreNumbers
<1>6. \A f \in todo[c] : f.migration.version \in Nat /\ e.migration.version <= f.migration.version
  BY <1>1, <1>2, <1>5 DEF Before
<1>7. \A i, j \in 1 .. n + 1 : i < j => done'[c][i].version <= done'[c][j].version
  <2> SUFFICES ASSUME NEW i \in 1 .. n + 1, NEW j \in 1 .. n + 1, i < j
               PROVE  done'[c][i].version <= done'[c][j].version
    OBVIOUS
  <2>1. i \in 1 .. n /\ (j \in 1 .. n \/ j = n + 1)
    BY <1>4
  <2> QED BY <1>1, <1>4, <2>1 DEF Sorted
<1>8. \A i \in 1 .. n + 1 : \A f \in todo'[c] : done'[c][i].version <= f.migration.version
  <2> SUFFICES ASSUME NEW i \in 1 .. n + 1, NEW f \in todo'[c]
               PROVE  done'[c][i].version <= f.migration.version
    OBVIOUS
  <2>1. f \in todo[c] /\ (i \in 1 .. n \/ i = n + 1)
    BY <1>3, <1>4
  <2> QED BY <1>4, <1>6, <2>1 DEF Sorted
<1>9. \A d \in Calls \ {c} : todo'[d] = todo[d] /\ done'[d] = done[d]
  BY <1>3
<1> HIDE DEF n
<1> QED BY <1>4, <1>7, <1>8, <1>9 DEF Sorted

LEMMA SortedStep ==
  ASSUME MigrationsTypeOK, NotStarted, Sorted, MigrationsNext
  PROVE  Sorted'
<1>1. ASSUME NEW c \in Calls, TakeLock(c) PROVE Sorted'
  <2>1. done[c] = <<>> /\ done' = done /\ \A d \in Calls \ {c} : todo'[d] = todo[d]
    BY <1>1 DEF TakeLock, NotStarted, MigrationsTypeOK
  <2> QED BY <2>1 DEF Sorted
<1>2. ASSUME NEW c \in Calls, Ends(c) PROVE Sorted'
  <2>1. done'[c] = <<>> /\ \A d \in Calls \ {c} : todo'[d] = todo[d] /\ done'[d] = done[d]
    BY <1>2 DEF Ends, MigrationsTypeOK
  <2> QED BY <2>1 DEF Sorted
<1>3. ASSUME UNCHANGED <<todo, done>> PROVE Sorted'
  BY <1>3 DEF Sorted
<1>4. ASSUME NEW c \in Calls, Commit(c) \/ Fail(c) PROVE Sorted'
  BY <1>3, <1>4 DEF Commit, Fail
<1>5. ASSUME Alter PROVE Sorted'
  BY <1>3, <1>5 DEF Alter
<1> QED BY <1>1, <1>2, <1>4, <1>5, ExecuteSorts DEF MigrationsNext, MigrateStep, Unlock, Lose

(* As many rows as executed migrations: no version twice. *)
LEMMA UniqueVersions ==
  ASSUME MigrationsTypeOK, NEW c \in Calls, Unique(c),
         NEW i \in DOMAIN done[c], NEW j \in DOMAIN done[c], done[c][i].version = done[c][j].version
  PROVE  i = j
<1> DEFINE news == done[c]
           version == [k \in DOMAIN news |-> news[k].version]
<1>1. news \in Seq(Migration) /\ Len(news) \in Nat /\ DOMAIN news = 1 .. Len(news)
  BY DEF MigrationsTypeOK
<1>2. DOMAIN Saved(c) = {news[k].version : k \in DOMAIN news}
  BY DEF Saved
<1>3. version \in Surjection(DOMAIN news, DOMAIN Saved(c))
  BY <1>2 DEF Surjection
<1>4. IsFiniteSet(DOMAIN news) /\ Cardinality(DOMAIN news) = Len(news)
  BY <1>1, FS_Interval
<1>5. Cardinality(DOMAIN Saved(c)) = Len(news)
  BY DEF Unique
<1>6. version[i] = version[j]
  OBVIOUS
<1> HIDE DEF version
<1>7. version \in Injection(DOMAIN news, DOMAIN Saved(c))
  BY <1>3, <1>4, <1>5, FS_Surjection
<1> QED BY <1>6, <1>7 DEF Injection, IsInjective

(* What Publishes appends to what the stages went through. *)
LEMMA PublishedOrder ==
  ASSUME MigrationsTypeOK, NEW c \in Calls, Publishes(c)
  PROVE  /\ Len(ddl) \in Nat /\ DOMAIN ddl = 1 .. Len(ddl)
         /\ Len(done[c]) \in Nat /\ DOMAIN done[c] = 1 .. Len(done[c])
         /\ DOMAIN ddl' = 1 .. Len(ddl) + Len(done[c])
         /\ \A i \in 1 .. Len(ddl) : ddl'[i] = ddl[i]
         /\ \A i \in 1 .. Len(done[c]) : ddl'[Len(ddl) + i].migration = done[c][i]
<1> DEFINE T == [migration : Migration, by : Calls]
           news == [i \in DOMAIN done[c] |-> [migration |-> done[c][i], by |-> c]]
<1>1. /\ ddl \in Seq([migration : Migration, by : Calls]) /\ done[c] \in Seq(Migration)
      /\ Len(ddl) \in Nat /\ DOMAIN ddl = 1 .. Len(ddl)
      /\ Len(done[c]) \in Nat /\ DOMAIN done[c] = 1 .. Len(done[c])
  BY DEF MigrationsTypeOK
<1>2. news \in Seq(T) /\ Len(news) = Len(done[c])
  <2>1. \A i \in 1 .. Len(done[c]) : done[c][i] \in Migration
    BY <1>1
  <2>2. news \in [1 .. Len(done[c]) -> T]
    BY <1>1, <2>1
  <2>3. \A n \in Nat : [1 .. n -> T] \subseteq Seq(T)
    BY SeqDef
  <2>4. news \in Seq(T)
    BY <1>1, <2>2, <2>3
  <2>5. DOMAIN news = 1 .. Len(done[c])
    BY <1>1
  <2> HIDE DEF news, T
  <2>6. Len(news) \in Nat /\ DOMAIN news = 1 .. Len(news)
    BY <2>4
  <2> QED BY <1>1, <2>4, <2>5, <2>6
<1>3. \A i \in 1 .. Len(done[c]) : news[i].migration = done[c][i]
  BY <1>1
<1>4. ddl' = ddl \o news
  BY DEF Publishes
<1> HIDE DEF news, T
<1>5. ddl \in Seq(T) /\ Len(ddl) \in Nat /\ Len(news) \in Nat
  BY <1>1, <1>2 DEF T
<1>6. /\ ddl' \in Seq(T) /\ Len(ddl') = Len(ddl) + Len(news)
      /\ \A j \in 1 .. Len(ddl) + Len(news) :
           ddl'[j] = IF j <= Len(ddl) THEN ddl[j] ELSE news[j - Len(ddl)]
  BY <1>2, <1>4, <1>5, ConcatProperties
<1>7. DOMAIN ddl' = 1 .. Len(ddl) + Len(news)
  BY <1>6
<1>8. \A i \in 1 .. Len(ddl) : ddl'[i] = ddl[i]
  BY <1>5, <1>6
<1>9. ASSUME NEW i \in 1 .. Len(done[c]) PROVE ddl'[Len(ddl) + i] = news[i]
  <2>1. /\ Len(ddl) + i \in 1 .. Len(ddl) + Len(news) /\ ~(Len(ddl) + i <= Len(ddl))
        /\ (Len(ddl) + i) - Len(ddl) = i
    BY <1>2, <1>5
  <2> QED BY <1>6, <2>1
<1> QED BY <1>1, <1>2, <1>3, <1>7, <1>8, <1>9

(* The schema migrations of the rows after a COMMIT: those before it, and what was executed. *)
SchemaMigrations(table) == {table[v].migration : v \in SchemaVersions(table)}

LEMMA PublishedSchema ==
  ASSUME MigrationsTypeOK, NEW c \in Calls, Publishes(c), Unique(c)
  PROVE  SchemaMigrations(rows') =
           SchemaMigrations(rows) \cup {m \in ToSet(done[c]) : m.type = "schema"}
<1>1. /\ DOMAIN rows' = DOMAIN rows \cup DOMAIN Saved(c)
      /\ \A v \in DOMAIN rows : rows'[v] = rows[v]
      /\ \A v \in DOMAIN rows' \ DOMAIN rows :
           rows'[v].migration \in ToSet(done[c]) /\ rows'[v].migration.version = v
  BY PublishedRows
<1>2. DOMAIN Saved(c) \cap DOMAIN rows = {}
  BY DEF Unique
<1>3. ToSet(done[c]) = {done[c][i] : i \in DOMAIN done[c]}
  BY DEF ToSet
<1>4. SchemaMigrations(rows') \subseteq
        SchemaMigrations(rows) \cup {m \in ToSet(done[c]) : m.type = "schema"}
  BY <1>1 DEF SchemaMigrations, SchemaVersions
<1>5. SchemaMigrations(rows) \subseteq SchemaMigrations(rows')
  BY <1>1 DEF SchemaMigrations, SchemaVersions
<1>6. ASSUME NEW i \in DOMAIN done[c], done[c][i].type = "schema"
      PROVE  done[c][i] \in SchemaMigrations(rows')
  <2> DEFINE v == done[c][i].version
  <2>1. v \in DOMAIN Saved(c)
    BY DEF Saved
  <2>2. v \in DOMAIN rows' \ DOMAIN rows
    BY <1>1, <1>2, <2>1
  <2>3. PICK j \in DOMAIN done[c] : rows'[v].migration = done[c][j] /\ done[c][j].version = v
    BY <1>1, <1>3, <2>2
  <2>4. rows'[v].migration = done[c][i]
    BY <2>3, UniqueVersions
  <2> QED BY <1>6, <2>2, <2>4 DEF SchemaMigrations, SchemaVersions
<1> QED BY <1>3, <1>4, <1>5, <1>6

LEMMA CommitReplays ==
  ASSUME MigrationsInv, Sorted, ReplayMatches, NEW c \in Calls, Commit(c)
  PROVE  ReplayMatches'
<1>1. /\ pc[c] = "executing" /\ Publishes(c) /\ Unique(c) /\ alters' = alters
  BY DEF Commit
<1>2. MigrationsTypeOK
  BY DEF MigrationsInv
<1> DEFINE n == Len(ddl)
           k == Len(done[c])
           In(d) == {i \in DOMAIN d : d[i].migration.type = "schema"}
<1>3. /\ n \in Nat /\ DOMAIN ddl = 1 .. n /\ k \in Nat /\ DOMAIN done[c] = 1 .. k
      /\ DOMAIN ddl' = 1 .. n + k
      /\ \A i \in 1 .. n : ddl'[i] = ddl[i]
      /\ \A i \in 1 .. k : ddl'[n + i].migration = done[c][i]
  BY <1>1, <1>2, PublishedOrder
<1>4. SchemaMigrations(rows') =
        SchemaMigrations(rows) \cup {m \in ToSet(done[c]) : m.type = "schema"}
  BY <1>1, <1>2, PublishedSchema
<1>5. SUFFICES ASSUME alters = 0
               PROVE  /\ \A i, j \in In(ddl') : i < j =>
                           ddl'[i].migration.version < ddl'[j].migration.version
                      /\ {ddl'[i].migration : i \in In(ddl')} = SchemaMigrations(rows')
  BY <1>1 DEF ReplayMatches, SchemaMigrations
<1>6. /\ \A i, j \in In(ddl) : i < j => ddl[i].migration.version < ddl[j].migration.version
      /\ {ddl[i].migration : i \in In(ddl)} = SchemaMigrations(rows)
  BY <1>5 DEF ReplayMatches, SchemaMigrations
<1> HIDE DEF n, k
<1>7. \A i \in 1 .. k : done[c][i] \in Migration /\ done[c][i].version \in Nat
  <2>1. done[c] \in Seq(Migration)
    BY <1>2 DEF MigrationsTypeOK
  <2>2. \A i \in 1 .. k : done[c][i] \in Migration
    BY <1>3, <2>1
  <2> QED BY <2>2, VersionsAreNumbers
<1>8. \A i \in 1 .. k : done[c][i].type = "schema" =>
        \A m \in SchemaMigrations(rows) : m.version < done[c][i].version
  <2>1. \A i \in 1 .. k : done[c][i] \in Pending(c)
    BY <1>3 DEF Pending, ToSet
  <2>2. \A m \in SchemaMigrations(rows) : m.version \in SchemaVersions(rows)
    BY <1>2 DEF SchemaMigrations, SchemaVersions, MigrationsTypeOK, IsTable
  <2> QED BY <1>1, <1>5, <2>1, <2>2 DEF MigrationsInv, Ahead
<1>9. \A i, j \in 1 .. k : i < j => done[c][i].version < done[c][j].version
  <2> SUFFICES ASSUME NEW i \in 1 .. k, NEW j \in 1 .. k, i < j
               PROVE  done[c][i].version < done[c][j].version
    OBVIOUS
  <2>1. done[c][i].version <= done[c][j].version
    BY <1>3 DEF Sorted
  <2>2. done[c][i].version # done[c][j].version
    BY <1>1, <1>2, <1>3, UniqueVersions
  <2> QED BY <1>7, <2>1, <2>2
<1>10. ASSUME NEW i \in In(ddl')
       PROVE  \/ i \in In(ddl) /\ ddl'[i] = ddl[i]
              \/ \E a \in 1 .. k : i = n + a /\ ddl'[i].migration = done[c][a]
  <2>1. CASE i \in 1 .. n
    BY <1>3, <2>1
  <2>2. CASE i \notin 1 .. n
    <3>1. i - n \in 1 .. k /\ i = n + (i - n)
      BY <1>3, <2>2
    <3> QED BY <1>3, <3>1
  <2> QED BY <2>1, <2>2
<1>11. ASSUME NEW i \in In(ddl'), NEW j \in In(ddl'), i < j
       PROVE  ddl'[i].migration.version < ddl'[j].migration.version
  <2>1. CASE i \in In(ddl) /\ ddl'[i] = ddl[i]
    <3>1. CASE j \in In(ddl) /\ ddl'[j] = ddl[j]
      BY <1>6, <1>11, <2>1, <3>1
    <3>2. ASSUME NEW b \in 1 .. k, j = n + b, ddl'[j].migration = done[c][b]
          PROVE  ddl'[i].migration.version < ddl'[j].migration.version
      BY <1>6, <1>8, <2>1, <3>2
    <3> QED BY <1>10, <3>1, <3>2
  <2>2. ASSUME NEW a \in 1 .. k, i = n + a, ddl'[i].migration = done[c][a]
        PROVE  ddl'[i].migration.version < ddl'[j].migration.version
    <3>1. CASE j \in In(ddl)
      BY <1>3, <1>11, <2>2, <3>1
    <3>2. ASSUME NEW b \in 1 .. k, j = n + b, ddl'[j].migration = done[c][b]
          PROVE  ddl'[i].migration.version < ddl'[j].migration.version
      BY <1>3, <1>9, <1>11, <2>2, <3>2
    <3> QED BY <1>10, <3>1, <3>2
  <2> QED BY <1>10, <2>1, <2>2
<1>12. {ddl'[i].migration : i \in In(ddl')} = SchemaMigrations(rows')
  <2>1. ASSUME NEW i \in In(ddl') PROVE ddl'[i].migration \in SchemaMigrations(rows')
    <3>1. CASE i \in In(ddl) /\ ddl'[i] = ddl[i]
      BY <1>4, <1>6, <3>1
    <3>2. ASSUME NEW a \in 1 .. k, ddl'[i].migration = done[c][a]
          PROVE  ddl'[i].migration \in SchemaMigrations(rows')
      BY <1>3, <1>4, <3>2 DEF ToSet
    <3> QED BY <1>10, <3>1, <3>2
  <2>2. ASSUME NEW m \in SchemaMigrations(rows)
        PROVE  m \in {ddl'[i].migration : i \in In(ddl')}
    <3>1. PICK i \in In(ddl) : m = ddl[i].migration
      BY <1>6
    <3> QED BY <1>3, <3>1
  <2>3. ASSUME NEW m \in ToSet(done[c]), m.type = "schema"
        PROVE  m \in {ddl'[i].migration : i \in In(ddl')}
    <3>1. PICK a \in 1 .. k : m = done[c][a]
      BY <1>3 DEF ToSet
    <3>2. n + a \in 1 .. n + k /\ ddl'[n + a].migration = m
      BY <1>3, <3>1
    <3> QED BY <1>3, <2>3, <3>2
  <2> QED BY <1>4, <2>1, <2>2, <2>3
<1> QED BY <1>11, <1>12

LEMMA ReplayKept ==
  ASSUME ReplayMatches, rows' = rows, ddl' = ddl, alters' = 0 => alters = 0
  PROVE  ReplayMatches'
<1> SUFFICES ASSUME alters' = 0
             PROVE  LET executed == {i \in DOMAIN ddl : ddl[i].migration.type = "schema"}
                    IN  /\ \A i, j \in executed : i < j => ddl[i].migration.version < ddl[j].migration.version
                        /\ {ddl[i].migration : i \in executed} = {rows[v].migration : v \in SchemaVersions(rows)}
  BY DEF ReplayMatches, SchemaVersions
<1>1. alters = 0
  OBVIOUS
<1> QED BY <1>1 DEF ReplayMatches

LEMMA ReplayStep ==
  ASSUME MigrationsInv, Sorted, ReplayMatches, MigrationsNext
  PROVE  ReplayMatches'
<1>1. ASSUME rows' = rows, ddl' = ddl, alters' = 0 => alters = 0 PROVE ReplayMatches'
  BY <1>1, ReplayKept
<1>2. alters \in Nat
  BY MigrationsAssumption DEF MigrationsInv, MigrationsTypeOK, MigrationsAssumption
<1>3. ASSUME NEW c \in Calls, TakeLock(c) PROVE ReplayMatches'
  <2>1. rows' = rows /\ ddl' = ddl /\ (alters' = alters \/ alters' = alters + 1)
    BY <1>3 DEF TakeLock
  <2> QED BY <1>1, <1>2, <2>1
<1>4. ASSUME NEW c \in Calls, Execute(c) \/ Fail(c) \/ Unlock(c) \/ Lose(c) PROVE ReplayMatches'
  BY <1>1, <1>4 DEF Execute, Fail, Unlock, Lose, Ends
<1>5. ASSUME Alter PROVE ReplayMatches'
  BY <1>2, <1>5 DEF Alter, ReplayMatches
<1> QED BY <1>3, <1>4, <1>5, CommitReplays DEF MigrationsNext, MigrateStep

(* The executed schema migrations, in the order of their versions, are what the stages went   *)
(* through, in that order (ProjectMigrator.ts:43, :143).                                      *)
THEOREM ReplayMatchesCorrect == SchemaSpec => []ReplayMatches
<1> DEFINE Inv == Sorted /\ ReplayMatches
<1>1. SchemaInit => Inv
  <2>1. SchemaInit => Sorted
    BY DEF SchemaInit, MigrationsInit, Sorted
  <2>2. SchemaInit => ReplayMatches
    BY DEF SchemaInit, MigrationsInit, ReplayMatches, NoRows, SchemaVersions
  <2> QED BY <2>1, <2>2
<1>2. SchemaInv /\ Inv /\ [SchemaNext]_schemaVars => Inv'
  <2> SUFFICES ASSUME SchemaInv, Inv, [SchemaNext]_schemaVars PROVE Inv'
    OBVIOUS
  <2>1. ASSUME MigrationsNext PROVE Inv'
    <3>1. MigrationsInv /\ MigrationsTypeOK /\ NotStarted
      BY DEF SchemaInv, MigrationsInv
    <3>2. Sorted'
      BY <2>1, <3>1, SortedStep
    <3>3. ReplayMatches'
      BY <2>1, <3>1, ReplayStep
    <3> QED BY <3>2, <3>3
  <2>2. ASSUME UNCHANGED migrationVars PROVE Inv'
    <3>1. rows' = rows /\ ddl' = ddl /\ todo' = todo /\ done' = done /\ alters' = alters
      BY <2>2 DEF migrationVars
    <3>2. Sorted'
      BY <3>1 DEF Sorted
    <3>3. ReplayMatches'
      BY <3>1, ReplayKept
    <3> QED BY <3>2, <3>3
  <2>3. MigrationsNext \/ UNCHANGED migrationVars
    BY DEF SchemaNext, schemaVars
  <2> HIDE DEF Inv
  <2> QED BY <2>1, <2>2, <2>3
<1> HIDE DEF Inv
<1>3. SchemaSpec => []Inv
  BY <1>1, <1>2, SchemaInvCorrect, PTL DEF SchemaSpec
<1>4. Inv => ReplayMatches
  BY DEF Inv
<1> QED BY <1>3, <1>4, PTL
=============================================================================
