-------------------------- MODULE EventQueueProofs --------------------------
(* The queue's types, for every number of events, workers and targets; and, as long as no *)
(* batch outlives its acknowledge timeout, that workers do not share events and that the  *)
(* attempts of an event are bounded.                                                      *)
EXTENDS EventQueue, TLAPS

LEMMA TypeInit == Init => TypeOK
BY QueueAssumption DEF QueueAssumption, Init, TypeOK, Steps, Pending, Resolved

(* The environment's steps leave the workers alone. *)
LEMMA TypeEnvironment ==
  ASSUME TypeOK,
         \/ \E e \in Events : Create(e) \/ AckTimeout(e) \/ BackoffOver(e)
         \/ \E t \in Targets : ChangeSchema(t)
  PROVE  TypeOK'
<1> USE DEF TypeOK, Steps, Pending, Resolved, worker, rows
<1>1. ASSUME NEW e \in Events, Create(e) PROVE TypeOK'
  <2>1. \A w \in Workers : pc'[w] = IF pc[w] = "asleep" THEN "idle" ELSE pc[w]
    BY <1>1 DEF Create
  <2>2. pc' \in [Workers -> Steps]
    BY <1>1, <2>1 DEF Create
  <2>3. \A w \in Workers : pc'[w] \in Empty => batch[w] = {}
    BY <2>1 DEF Empty
  <2>4. \A w \in Workers : pc'[w] \in {"more", "handle", "persist"} => target[w] \in view[w]
    BY <2>1
  <2> QED BY <1>1, <2>2, <2>3, <2>4 DEF Create
<1>2. ASSUME NEW e \in Events, AckTimeout(e) PROVE TypeOK'
  BY <1>2 DEF AckTimeout
<1>3. ASSUME NEW e \in Events, BackoffOver(e) PROVE TypeOK'
  BY <1>3 DEF BackoffOver
<1>4. ASSUME NEW t \in Targets, ChangeSchema(t) PROVE TypeOK'
  BY <1>4, QueueAssumption DEF ChangeSchema, QueueAssumption
<1> QED BY <1>1, <1>2, <1>3, <1>4

(* fetchInternal writes rows and a worker's copies of their types. *)
LEMMA TakeTypes ==
  ASSUME TypeOK, NEW w \in Workers, NEW S, Take(w, S)
  PROVE  /\ state' \in [Events -> Pending \cup Resolved \cup {"none"}]
         /\ visible' \subseteq Events
         /\ batch' \in [Workers -> SUBSET Events]
         /\ snap' \in [Workers -> [Events -> Nat]]
         /\ \A v \in Workers : v # w => batch'[v] = batch[v]
<1>1. S \subseteq Events
  BY DEF Take, Eligible
<1>2. [e \in Events |-> IF e \in S THEN retries[e] ELSE snap[w][e]] \in [Events -> Nat]
  BY DEF TypeOK
<1> QED BY <1>1, <1>2 DEF Take, TypeOK, Pending

(* persistProcessed writes rows of their types. *)
LEMMA PersistTypes ==
  ASSUME TypeOK, NEW w \in Workers, NEW ok, NEW limit, PersistResults(w, ok, limit)
  PROVE  /\ state' \in [Events -> Pending \cup Resolved \cup {"none"}]
         /\ retries' \in [Events -> Nat]
         /\ visible' \subseteq Events
<1> DEFINE failed == batch[w] \ ok
<1>1. ASSUME NEW e \in Events
      PROVE  (CASE e \in ok -> retries[e] + 1
                [] e \in failed -> snap[w][e] + 1
                [] OTHER -> retries[e]) \in Nat
  <2>1. retries[e] \in Nat /\ snap[w][e] \in Nat
    BY DEF TypeOK
  <2> QED BY <2>1
<1>2. retries' \in [Events -> Nat]
  BY <1>1 DEF PersistResults
<1>3. ASSUME NEW e \in Events
      PROVE  (CASE e \in ok -> "succeed"
                [] e \in failed -> IF snap[w][e] < limit THEN "retrying" ELSE "failed"
                [] OTHER -> state[e]) \in Pending \cup Resolved \cup {"none"}
  <2>1. state[e] \in Pending \cup Resolved \cup {"none"}
    BY DEF TypeOK
  <2> QED BY <2>1 DEF Pending, Resolved
<1>4. state' \in [Events -> Pending \cup Resolved \cup {"none"}]
  BY <1>3 DEF PersistResults
<1> QED BY <1>2, <1>4 DEF PersistResults, TypeOK

(* The steps by which a dispatcher goes to sleep and wakes. *)
LEMMA Resting ==
  ASSUME TypeOK, NEW w \in Workers,
         FetchNothing(w) \/ Backoff(w) \/ Sleep(w) \/ Wake(w)
  PROVE  /\ pc[w] \in Empty
         /\ \E step \in {"backoff", "idle", "drowsy", "asleep"} : Moves(w, step)
BY DEF FetchNothing, Backoff, Sleep, Wake, Empty

LEMMA TypeWorker ==
  ASSUME TypeOK, NEW w \in Workers,
         Work(w) \/ Wake(w) \/ HandleThrows(w) \/ PersistThrows(w) \/ Crash(w)
  PROVE  TypeOK'
<1> USE QueueAssumption DEF QueueAssumption
<1>1. CASE ReadSchema(w)
  BY <1>1 DEF ReadSchema, TypeOK, rows, Steps, Empty
<1>2. CASE FetchPrimary(w)
  <2>1. PICK e \in Eligible :
          /\ Take(w, {e}) /\ target' = [target EXCEPT ![w] = TargetOf[e]]
          /\ pc' = [pc EXCEPT ![w] = IF TargetOf[e] \in view[w] THEN "more" ELSE "unknown"]
    BY <1>2 DEF FetchPrimary
  <2>2. e \in Events /\ TargetOf[e] \in Targets
    BY DEF Eligible
  <2>3. pc' \in [Workers -> Steps] /\ target' \in [Workers -> Targets \cup {NoTarget}]
    BY <2>1, <2>2 DEF TypeOK, Steps
  <2>4. /\ UNCHANGED <<retries, known, view, succeeded, sentTo, faults, schemaChanges>>
        /\ \A v \in Workers : v # w => pc'[v] = pc[v] /\ target'[v] = target[v]
        /\ pc'[w] = IF TargetOf[e] \in view[w] THEN "more" ELSE "unknown"
        /\ target'[w] = TargetOf[e]
    BY <2>1 DEF TypeOK, Take
  <2>5. \A v \in Workers : pc'[v] \in Empty => batch'[v] = {}
    BY <2>1, <2>4, TakeTypes DEF TypeOK, Empty
  <2>6. \A v \in Workers : pc'[v] \in {"more", "handle", "persist"} => target'[v] \in view'[v]
    BY <2>4 DEF TypeOK
  <2> QED BY <2>1, <2>3, <2>4, <2>5, <2>6, TakeTypes DEF TypeOK
<1>3. CASE FetchNothing(w) \/ Backoff(w) \/ Sleep(w) \/ Wake(w)
  <2>1. pc[w] \in Empty
    BY <1>3, Resting
  <2>2. PICK step \in {"backoff", "idle", "drowsy", "asleep"} : Moves(w, step)
    BY <1>3, Resting
  <2> QED BY <2>1, <2>2 DEF Moves, TypeOK, rows, Steps, Empty
<1>4. CASE MarkUnknown(w)
  <2> DEFINE failing == batch[w] \cup {e \in Eligible : TargetOf[e] = target[w]}
  <2>1. /\ state' = [e \in Events |-> IF e \in failing THEN "failed" ELSE state[e]]
        /\ retries' = [e \in Events |-> IF e \in failing THEN retries[e] + 1 ELSE retries[e]]
    BY <1>4 DEF MarkUnknown
  <2>2. state' \in [Events -> Pending \cup Resolved \cup {"none"}]
    BY <2>1 DEF TypeOK, Resolved
  <2>3. retries' \in [Events -> Nat]
    BY <2>1 DEF TypeOK
  <2> QED BY <1>4, <2>2, <2>3 DEF MarkUnknown, TypeOK, Steps, Empty
<1>5. CASE FetchMore(w)
  <2>1. PICK S \in SUBSET Eligible : Take(w, S)
    BY <1>5 DEF FetchMore
  <2> QED BY <1>5, <2>1, TakeTypes DEF FetchMore, TypeOK, Take, Steps, Empty
<1>6. CASE Handle(w)
  <2>1. PICK ok \in SUBSET batch[w] : succeeded' = [succeeded EXCEPT ![w] = ok]
    BY <1>6 DEF Handle
  <2>2. succeeded' \in [Workers -> SUBSET Events]
    BY <2>1 DEF TypeOK
  <2>3. sentTo' \in [Events -> SUBSET Targets]
    <3>1. target[w] \in Targets
      BY <1>6 DEF Handle, TypeOK
    <3> QED BY <1>6, <3>1 DEF Handle, TypeOK
  <2> QED BY <1>6, <2>2, <2>3 DEF Handle, TypeOK, rows, Steps, Empty
<1>7. CASE Persist(w)
  BY <1>7, PersistTypes DEF Persist, Leave, TypeOK, Steps, Empty
<1>8. CASE PersistFailed(w)
  BY <1>8, PersistTypes DEF PersistFailed, Leave, TypeOK, Steps, Empty
<1>9. CASE HandleThrows(w)
  BY <1>9 DEF HandleThrows, TypeOK, rows, Steps, Empty
<1>10. CASE PersistThrows(w)
  BY <1>10 DEF PersistThrows, TypeOK, rows, Steps, Empty
<1>11. CASE Crash(w)
  BY <1>11 DEF Crash, Leave, TypeOK, rows, Steps, Empty
<1> QED BY <1>1, <1>2, <1>3, <1>4, <1>5, <1>6, <1>7, <1>8, <1>9, <1>10, <1>11 DEF Work

LEMMA TypeStep == TypeOK /\ [Next]_vars => TypeOK'
<1> SUFFICES ASSUME TypeOK, [Next]_vars PROVE TypeOK'
  OBVIOUS
<1>1. CASE UNCHANGED vars
  BY <1>1 DEF vars, TypeOK
<1> QED BY <1>1, TypeEnvironment, TypeWorker DEF Next

(* Every row, worker's copy and history variable keeps its type; past fetchBatch's check *)
(* a worker's target is one of the schema it has read.                                   *)
THEOREM QueueTypeCorrect == Spec => []TypeOK
BY TypeInit, TypeStep, PTL DEF Spec
-----------------------------------------------------------------------------
(* The inductive invariant. CopiesFresh and AttemptsBounded need OneHandler: only the one *)
(* worker that holds a row may change its num_retries.                                    *)
Reported ==
  \A w \in Workers :
    /\ succeeded[w] \subseteq batch[w]
    /\ pc[w] \notin {"persist", "persistFailed"} => succeeded[w] = {}
Fresh    == \A e \in Events : state[e] = "none" => retries[e] = 0
Safe     == TypeOK /\ OneHandler /\ CopiesFresh /\ AttemptsBounded /\ Reported /\ Fresh

LEMMA LimitsNat == Limits \subseteq Nat /\ DefaultMaxAttempts \in Limits
BY QueueAssumption DEF QueueAssumption, Limits

LEMMA SafeInit == Init => Safe
<1> SUFFICES ASSUME Init PROVE Safe
  OBVIOUS
<1>1. OneHandler /\ CopiesFresh /\ Reported /\ Fresh
  BY DEF Init, OneHandler, CopiesFresh, Reported, Fresh, Held
<1>2. AttemptsBounded
  <2>1. \A e \in Events : retries[e] = 0
    BY DEF Init
  <2>2. DefaultMaxAttempts \in Nat /\ 0 <= DefaultMaxAttempts + 1 /\ 0 <= DefaultMaxAttempts
    BY QueueAssumption DEF QueueAssumption
  <2> QED BY <2>1, <2>2, LimitsNat DEF AttemptsBounded
<1> QED BY <1>1, <1>2, TypeInit DEF Safe

(* A row that is taken was nobody's, and becomes the worker's with a fresh copy. *)
LEMMA TakeSafe ==
  ASSUME Safe, NEW w \in Workers, NEW S, Take(w, S)
  PROVE  OneHandler' /\ CopiesFresh' /\ AttemptsBounded' /\ Fresh'
<1>1. /\ \A e \in S : e \in Events /\ state[e] \in Pending /\ e \in visible
      /\ \A e \in Events : state'[e] = IF e \in S THEN "processing" ELSE state[e]
      /\ visible' = visible \ S
      /\ \A v \in Workers : batch'[v] = IF v = w THEN batch[v] \cup S ELSE batch[v]
      /\ \A v \in Workers : \A e \in Events :
           snap'[v][e] = IF v = w /\ e \in S THEN retries[e] ELSE snap[v][e]
      /\ UNCHANGED <<retries, succeeded>>
  BY DEF Take, Eligible, Safe, TypeOK
<1>2. \A v \in Workers : batch[v] \cap S = {} /\ batch[v] \subseteq Events
  BY <1>1 DEF Safe, OneHandler, Held, TypeOK
<1>3. OneHandler'
  <2>1. \A u, v \in Workers : u # v => batch'[u] \cap batch'[v] = {}
    BY <1>1, <1>2 DEF Safe, OneHandler
  <2>2. ASSUME NEW v \in Workers, NEW e \in batch'[v]
        PROVE  state'[e] = "processing" /\ e \notin visible'
    BY <1>1, <1>2 DEF Safe, OneHandler, Held
  <2> QED BY <2>1, <2>2 DEF OneHandler, Held
<1>4. CopiesFresh'
  <2>1. ASSUME NEW v \in Workers, NEW e \in batch'[v] PROVE snap'[v][e] = retries'[e]
    <3>1. e \in Events /\ (e \in batch[v] \/ (v = w /\ e \in S)) /\ ~(e \in batch[v] /\ e \in S)
      BY <1>1, <1>2
    <3> QED BY <3>1, <1>1 DEF Safe, CopiesFresh
  <2> QED BY <2>1 DEF CopiesFresh
<1>5. AttemptsBounded'
  BY <1>1 DEF Safe, AttemptsBounded, Limits, Pending
<1> QED BY <1>1, <1>3, <1>4, <1>5 DEF Safe, Fresh, Pending

(* The results of a batch change its own rows only, which its worker then lets go; a row *)
(* that is to be retried is below a limit.                                               *)
LEMMA PersistSafe ==
  ASSUME Safe, NEW w \in Workers, NEW ok \in SUBSET batch[w], NEW limit \in Limits,
         PersistResults(w, ok, limit), Leave(w)
  PROVE  OneHandler' /\ CopiesFresh' /\ AttemptsBounded' /\ Fresh'
<1>1. batch[w] \subseteq Events /\ limit \in Nat
  BY LimitsNat DEF Safe, TypeOK
<1>2. /\ \A v \in Workers : batch'[v] = IF v = w THEN {} ELSE batch[v]
      /\ \A v \in Workers : succeeded'[v] = IF v = w THEN {} ELSE succeeded[v]
      /\ \A v \in Workers : v # w => snap'[v] = snap[v]
  BY DEF Leave, Safe, TypeOK
<1>3. \A e \in Events \ batch[w] : state'[e] = state[e] /\ retries'[e] = retries[e]
  BY DEF PersistResults
<1>4. ASSUME NEW e \in batch[w]
      PROVE  /\ state'[e] \in {"succeed", "failed", "retrying"}
             /\ retries'[e] = retries[e] + 1
             /\ state'[e] = "retrying" => retries[e] < limit
  <2>1. e \in Events /\ snap[w][e] = retries[e]
    BY <1>1 DEF Safe, CopiesFresh
  <2> QED BY <2>1 DEF PersistResults
<1>5. visible' \subseteq visible
  BY DEF PersistResults
<1>6. OneHandler'
  <2>1. \A u, v \in Workers : u # v => batch'[u] \cap batch'[v] = {}
    BY <1>2 DEF Safe, OneHandler
  <2>2. ASSUME NEW v \in Workers, NEW e \in Events, e \in batch'[v]
        PROVE  state'[e] = "processing" /\ e \notin visible'
    <3>1. v # w /\ e \in batch[v] /\ e \notin batch[w]
      BY <1>2, <2>2 DEF Safe, OneHandler
    <3> QED BY <3>1, <1>3, <1>5 DEF Safe, OneHandler, Held
  <2> QED BY <2>1, <2>2 DEF OneHandler, Held
<1>7. CopiesFresh'
  <2>1. ASSUME NEW v \in Workers, NEW e \in batch'[v] PROVE snap'[v][e] = retries'[e]
    <3>1. v # w /\ e \in batch[v] /\ e \notin batch[w] /\ e \in Events
      BY <1>2 DEF Safe, OneHandler, TypeOK
    <3> QED BY <3>1, <1>2, <1>3 DEF Safe, CopiesFresh
  <2> QED BY <2>1 DEF CopiesFresh
<1>8. AttemptsBounded'
  <2>1. ASSUME NEW e \in Events
        PROVE  /\ \E l \in Limits : retries'[e] <= l + 1
               /\ state'[e] \in Pending => \E l \in Limits : retries'[e] <= l
    <3>1. retries[e] \in Nat
      BY DEF Safe, TypeOK
    <3>2. CASE e \notin batch[w]
      BY <3>2, <1>3 DEF Safe, AttemptsBounded
    <3>3. CASE e \in batch[w]
      <4>1. state[e] \in Pending
        BY <3>3 DEF Safe, OneHandler, Held, Pending
      <4>2. PICK l \in Limits : retries[e] <= l
        BY <4>1 DEF Safe, AttemptsBounded
      <4>3. retries'[e] = retries[e] + 1 /\ l \in Nat
        BY <3>3, <1>4, <4>2, LimitsNat
      <4>4. retries'[e] <= l + 1
        BY <3>1, <4>2, <4>3
      <4>5. ASSUME state'[e] \in Pending PROVE retries'[e] <= limit
        <5>1. retries[e] < limit
          BY <4>5, <3>3, <1>4 DEF Pending
        <5> QED BY <5>1, <3>1, <4>3, <1>1
      <4> QED BY <4>4, <4>5
    <3> QED BY <3>2, <3>3
  <2>2. Limits' = Limits
    BY DEF Limits
  <2> QED BY <2>1, <2>2 DEF AttemptsBounded
<1>9. Fresh'
  BY <1>3, <1>4 DEF Safe, Fresh
<1> QED BY <1>6, <1>7, <1>8, <1>9

(* What is failed for its unknown target is nobody else's. *)
LEMMA MarkUnknownSafe ==
  ASSUME Safe, NEW w \in Workers, MarkUnknown(w)
  PROVE  OneHandler' /\ CopiesFresh' /\ AttemptsBounded' /\ Fresh'
<1> DEFINE failing == batch[w] \cup {e \in Eligible : TargetOf[e] = target[w]}
<1>1. /\ \A e \in Events : state'[e] = IF e \in failing THEN "failed" ELSE state[e]
      /\ \A e \in Events : retries'[e] = IF e \in failing THEN retries[e] + 1 ELSE retries[e]
      /\ \A v \in Workers : batch'[v] = IF v = w THEN {} ELSE batch[v]
      /\ UNCHANGED <<visible, snap>>
  BY DEF MarkUnknown, Safe, TypeOK
<1>2. \A v \in Workers : v # w => batch[v] \cap failing = {} /\ batch[v] \subseteq Events
  BY DEF Safe, OneHandler, Held, TypeOK, Eligible
<1>3. \A e \in Events : e \in failing => state[e] \in Pending
  BY DEF Safe, OneHandler, Held, Eligible, Pending
<1> HIDE DEF failing
<1>4. OneHandler'
  <2>1. \A u, v \in Workers : u # v => batch'[u] \cap batch'[v] = {}
    BY <1>1 DEF Safe, OneHandler
  <2>2. ASSUME NEW v \in Workers, NEW e \in Events, e \in batch'[v]
        PROVE  state'[e] = "processing" /\ e \notin visible'
    BY <1>1, <1>2, <2>2 DEF Safe, OneHandler, Held
  <2> QED BY <2>1, <2>2 DEF OneHandler, Held
<1>5. CopiesFresh'
  BY <1>1, <1>2 DEF Safe, CopiesFresh
<1>6. AttemptsBounded'
  <2>1. ASSUME NEW e \in Events
        PROVE  /\ \E l \in Limits : retries'[e] <= l + 1
               /\ state'[e] \in Pending => \E l \in Limits : retries'[e] <= l
    <3>1. retries[e] \in Nat
      BY DEF Safe, TypeOK
    <3>2. CASE e \notin failing
      BY <3>2, <1>1 DEF Safe, AttemptsBounded
    <3>3. CASE e \in failing
      <4>1. PICK l \in Limits : retries[e] <= l
        BY <3>3, <1>3 DEF Safe, AttemptsBounded
      <4>2. retries'[e] = retries[e] + 1 /\ l \in Nat
        BY <3>3, <1>1, <4>1, LimitsNat
      <4>3. retries'[e] <= l + 1
        BY <3>1, <4>1, <4>2
      <4>4. state'[e] \notin Pending
        BY <3>3, <1>1 DEF Pending
      <4> QED BY <4>3, <4>4
    <3> QED BY <3>2, <3>3
  <2>2. Limits' = Limits
    BY DEF Limits
  <2> QED BY <2>1, <2>2 DEF AttemptsBounded
<1>7. Fresh'
  BY <1>1 DEF Safe, Fresh
<1> QED BY <1>4, <1>5, <1>6, <1>7

LEMMA SafeEnvironment ==
  ASSUME ~LateWorkers, Safe,
         \/ \E e \in Events : Create(e) \/ AckTimeout(e) \/ BackoffOver(e)
         \/ \E t \in Targets : ChangeSchema(t)
  PROVE  OneHandler' /\ CopiesFresh' /\ AttemptsBounded' /\ Reported' /\ Fresh'
<1>1. ASSUME NEW e \in Events, Create(e)
      PROVE OneHandler' /\ CopiesFresh' /\ AttemptsBounded' /\ Reported' /\ Fresh'
  <2>1. /\ \A f \in Events : state'[f] = IF f = e THEN "created" ELSE state[f]
        /\ visible' = visible \cup {e} /\ UNCHANGED <<retries, batch, snap, succeeded>>
        /\ state[e] = "none"
    BY <1>1 DEF Create, Safe, TypeOK
  <2>2. \A v \in Workers : e \notin batch[v] /\ batch[v] \subseteq Events
    BY <2>1 DEF Safe, OneHandler, Held, TypeOK
  <2>3. OneHandler'
    BY <2>1, <2>2 DEF Safe, OneHandler, Held
  <2>4. AttemptsBounded'
    <3>1. retries[e] = 0 /\ DefaultMaxAttempts \in Limits /\ DefaultMaxAttempts \in Nat
      BY <2>1, LimitsNat DEF Safe, Fresh
    <3>2. retries[e] <= DefaultMaxAttempts
      BY <3>1
    <3> QED BY <2>1, <3>1, <3>2 DEF Safe, AttemptsBounded, Limits
  <2>5. Reported'
    <3>1. \A v \in Workers : pc'[v] = IF pc[v] = "asleep" THEN "idle" ELSE pc[v]
      BY <1>1 DEF Create
    <3>2. succeeded' = succeeded /\ batch' = batch /\ \A v \in Workers : succeeded[v] \subseteq batch[v]
      BY <2>1 DEF Safe, Reported
    <3> QED BY <3>1, <3>2 DEF Safe, Reported
  <2>6. CopiesFresh' /\ Fresh'
    BY <2>1 DEF Safe, CopiesFresh, Fresh
  <2> QED BY <2>3, <2>4, <2>5, <2>6
<1>2. ASSUME NEW e \in Events, AckTimeout(e) \/ BackoffOver(e)
      PROVE OneHandler' /\ CopiesFresh' /\ AttemptsBounded' /\ Reported' /\ Fresh'
  <2>1. visible' = visible \cup {e} /\ UNCHANGED <<state, retries, batch, snap, succeeded, pc>>
    BY <1>2 DEF AckTimeout, BackoffOver, worker
  <2>2. ~Held(e)
    BY <1>2 DEF AckTimeout, BackoffOver, Safe, OneHandler
  <2>3. OneHandler'
    BY <2>1, <2>2 DEF Safe, OneHandler, Held
  <2> QED BY <2>1, <2>3 DEF Safe, CopiesFresh, AttemptsBounded, Limits, Reported, Fresh
<1>3. ASSUME NEW t \in Targets, ChangeSchema(t)
      PROVE OneHandler' /\ CopiesFresh' /\ AttemptsBounded' /\ Reported' /\ Fresh'
  BY <1>3 DEF ChangeSchema, rows, worker, Safe, OneHandler, Held, CopiesFresh, AttemptsBounded, Limits, Reported, Fresh
<1> QED BY <1>1, <1>2, <1>3

LEMMA SafeWorker ==
  ASSUME Safe, NEW w \in Workers,
         Work(w) \/ Wake(w) \/ HandleThrows(w) \/ PersistThrows(w) \/ Crash(w)
  PROVE  OneHandler' /\ CopiesFresh' /\ AttemptsBounded' /\ Fresh'
<1>1. CASE \/ ReadSchema(w) \/ FetchNothing(w) \/ Backoff(w) \/ Sleep(w) \/ Wake(w)
           \/ HandleThrows(w) \/ PersistThrows(w)
  <2>1. UNCHANGED <<rows, batch, snap>>
    BY <1>1 DEF ReadSchema, FetchNothing, Backoff, Sleep, Wake, Moves, HandleThrows, PersistThrows
  <2> QED BY <2>1 DEF rows, Safe, OneHandler, Held, CopiesFresh, AttemptsBounded, Limits, Fresh
<1>2. CASE FetchPrimary(w)
  BY <1>2, TakeSafe DEF FetchPrimary
<1>3. CASE FetchMore(w)
  BY <1>3, TakeSafe DEF FetchMore
<1>4. CASE MarkUnknown(w)
  BY <1>4, MarkUnknownSafe
<1>5. CASE Handle(w)
  <2>1. UNCHANGED <<rows, batch, snap>>
    BY <1>5 DEF Handle
  <2> QED BY <2>1 DEF rows, Safe, OneHandler, Held, CopiesFresh, AttemptsBounded, Limits, Fresh
<1>6. CASE Persist(w)
  <2>1. MaxAttempts[target[w]] \in Limits
    BY <1>6 DEF Persist, Safe, TypeOK, Limits
  <2>2. succeeded[w] \in SUBSET batch[w]
    BY DEF Safe, Reported
  <2> QED BY <1>6, <2>1, <2>2, PersistSafe DEF Persist
<1>7. CASE PersistFailed(w)
  BY <1>7, PersistSafe, LimitsNat DEF PersistFailed
<1>8. CASE Crash(w)
  <2>1. /\ UNCHANGED rows
        /\ \A v \in Workers : batch'[v] \subseteq batch[v] /\ (v # w => snap'[v] = snap[v])
        /\ batch'[w] = {}
        /\ \A v \in Workers : v # w => batch'[v] = batch[v]
    BY <1>8 DEF Crash, Leave, Safe, TypeOK
  <2> QED BY <2>1 DEF rows, Safe, OneHandler, Held, CopiesFresh, AttemptsBounded, Limits, Fresh
<1> QED BY <1>1, <1>2, <1>3, <1>4, <1>5, <1>6, <1>7, <1>8 DEF Work

(* A worker has results only of its batch, and none before its handler is done. *)
LEMMA ReportedWorker ==
  ASSUME Safe, NEW w \in Workers,
         Work(w) \/ Wake(w) \/ HandleThrows(w) \/ PersistThrows(w) \/ Crash(w)
  PROVE  Reported'
<1> USE DEF Safe, Reported, TypeOK
<1>1. CASE FetchNothing(w) \/ Backoff(w) \/ Sleep(w) \/ Wake(w)
  <2>1. PICK step \in {"backoff", "idle", "drowsy", "asleep"} : Moves(w, step)
    BY <1>1, Resting
  <2>2. pc[w] \in Empty
    BY <1>1, Resting
  <2> QED BY <2>1, <2>2 DEF Moves, Empty
<1>7. CASE ReadSchema(w) \/ HandleThrows(w) \/ PersistThrows(w)
  BY <1>7 DEF ReadSchema, HandleThrows, PersistThrows
<1>2. CASE FetchPrimary(w)
  BY <1>2 DEF FetchPrimary, Take
<1>3. CASE FetchMore(w)
  BY <1>3 DEF FetchMore, Take
<1>4. CASE MarkUnknown(w)
  BY <1>4 DEF MarkUnknown
<1>5. CASE Handle(w)
  BY <1>5 DEF Handle
<1>6. CASE Persist(w) \/ PersistFailed(w) \/ Crash(w)
  BY <1>6 DEF Persist, PersistFailed, Crash, Leave
<1> QED BY <1>1, <1>2, <1>3, <1>4, <1>5, <1>6, <1>7 DEF Work

LEMMA SafeStep == ASSUME ~LateWorkers PROVE Safe /\ [Next]_vars => Safe'
<1> SUFFICES ASSUME Safe, [Next]_vars PROVE Safe'
  OBVIOUS
<1>1. TypeOK'
  BY TypeStep DEF Safe
<1>2. CASE UNCHANGED vars
  BY <1>1, <1>2 DEF vars, Safe, OneHandler, Held, CopiesFresh, AttemptsBounded, Limits, Reported, Fresh
<1> QED BY <1>1, <1>2, SafeEnvironment, SafeWorker, ReportedWorker DEF Next, Safe

LEMMA SafeCorrect == ASSUME ~LateWorkers PROVE Spec => []Safe
BY SafeInit, SafeStep, PTL DEF Spec

(* Two workers never handle the same event, and an event that is handled is not offered *)
(* to another: whatever the batch sizes, crashes and failed transactions.               *)
THEOREM OneHandlerCorrect == ASSUME ~LateWorkers PROVE Spec => []OneHandler
<1>1. Safe => OneHandler
  BY DEF Safe
<1> QED BY <1>1, SafeCorrect, PTL

(* No update of num_retries is lost: a worker's copy is that of the row. *)
THEOREM CopiesFreshCorrect == ASSUME ~LateWorkers PROVE Spec => []CopiesFresh
<1>1. Safe => CopiesFresh
  BY DEF Safe
<1> QED BY <1>1, SafeCorrect, PTL

(* No event is attempted more often than the laxest limit allows. *)
THEOREM AttemptsBoundedCorrect == ASSUME ~LateWorkers PROVE Spec => []AttemptsBounded
<1>1. Safe => AttemptsBounded
  BY DEF Safe
<1> QED BY <1>1, SafeCorrect, PTL
-----------------------------------------------------------------------------
(* A step records attempts and resolves pending events only. *)
Forward == \A e \in Events : /\ state[e] \in Resolved => state'[e] = state[e]
                             /\ retries'[e] >= retries[e]

LEMMA ForwardPersist ==
  ASSUME Safe, NEW w \in Workers, NEW ok \in SUBSET batch[w], NEW limit,
         PersistResults(w, ok, limit)
  PROVE  Forward
<1> SUFFICES ASSUME NEW e \in Events
             PROVE  /\ state[e] \in Resolved => state'[e] = state[e]
                    /\ retries'[e] >= retries[e]
  BY DEF Forward
<1>1. retries[e] \in Nat
  BY DEF Safe, TypeOK
<1>2. CASE e \notin batch[w]
  BY <1>1, <1>2 DEF PersistResults
<1>3. CASE e \in batch[w]
  <2>1. snap[w][e] = retries[e] /\ state[e] \notin Resolved
    BY <1>3 DEF Safe, CopiesFresh, OneHandler, Held, Resolved
  <2>2. retries'[e] = retries[e] + 1
    BY <1>3, <2>1 DEF PersistResults
  <2> QED BY <1>1, <2>1, <2>2
<1> QED BY <1>2, <1>3

LEMMA ForwardStep == Safe /\ Next => Forward
<1> SUFFICES ASSUME Safe, Next PROVE Forward
  OBVIOUS
<1>n. \A e \in Events : retries[e] \in Nat /\ retries[e] >= retries[e]
  BY DEF Safe, TypeOK
<1>u. ASSUME UNCHANGED <<state, retries>> PROVE Forward
  BY <1>u, <1>n DEF Forward
<1>1. ASSUME NEW e \in Events, Create(e) PROVE Forward
  <2>1. /\ \A f \in Events : f # e => state'[f] = state[f]
        /\ state[e] = "none" /\ retries' = retries
    BY <1>1 DEF Create, Safe, TypeOK
  <2> QED BY <2>1, <1>n DEF Forward, Resolved
<1>2. ASSUME NEW w \in Workers, NEW S, Take(w, S) PROVE Forward
  <2>1. /\ \A f \in Events : f \notin S => state'[f] = state[f]
        /\ \A f \in S : state[f] \notin Resolved
        /\ retries' = retries
    BY <1>2 DEF Take, Eligible, Pending, Resolved
  <2> QED BY <2>1, <1>n DEF Forward
<1>3. ASSUME NEW w \in Workers, MarkUnknown(w) PROVE Forward
  <2> DEFINE failing == batch[w] \cup {e \in Eligible : TargetOf[e] = target[w]}
  <2>1. /\ \A e \in Events : state'[e] = IF e \in failing THEN "failed" ELSE state[e]
        /\ \A e \in Events : retries'[e] = IF e \in failing THEN retries[e] + 1 ELSE retries[e]
    BY <1>3 DEF MarkUnknown
  <2>2. \A e \in Events : e \in failing => state[e] \notin Resolved
    BY DEF Safe, OneHandler, Held, Eligible, Pending, Resolved
  <2> HIDE DEF failing
  <2>3. \A e \in Events : retries'[e] >= retries[e]
    BY <2>1, <1>n
  <2> QED BY <2>1, <2>2, <2>3 DEF Forward
<1>4. ASSUME NEW w \in Workers, Persist(w) \/ PersistFailed(w) PROVE Forward
  <2>1. CASE Persist(w)
    <3>1. succeeded[w] \in SUBSET batch[w]
      BY DEF Safe, Reported
    <3> QED BY <2>1, <3>1, ForwardPersist DEF Persist
  <2>2. CASE PersistFailed(w)
    BY <2>2, ForwardPersist DEF PersistFailed
  <2> QED BY <1>4, <2>1, <2>2
<1>5. CASE \E e \in Events : Create(e) \/ AckTimeout(e) \/ BackoffOver(e)
  BY <1>5, <1>1, <1>u DEF AckTimeout, BackoffOver
<1>6. CASE \E t \in Targets : ChangeSchema(t)
  BY <1>6, <1>u DEF ChangeSchema, rows
<1>7. ASSUME NEW w \in Workers, Work(w) \/ Wake(w) \/ HandleThrows(w) \/ PersistThrows(w) \/ Crash(w)
      PROVE  Forward
  <2>1. CASE FetchPrimary(w) \/ FetchMore(w)
    BY <2>1, <1>2 DEF FetchPrimary, FetchMore
  <2>2. CASE MarkUnknown(w) \/ Persist(w) \/ PersistFailed(w)
    BY <2>2, <1>3, <1>4
  <2>3. CASE \/ ReadSchema(w) \/ FetchNothing(w) \/ Backoff(w) \/ Sleep(w) \/ Wake(w) \/ Handle(w)
             \/ HandleThrows(w) \/ PersistThrows(w) \/ Crash(w)
    BY <2>3, <1>u DEF ReadSchema, FetchNothing, Backoff, Sleep, Wake, Moves, Handle, HandleThrows, PersistThrows, Crash, rows
  <2> QED BY <1>7, <2>1, <2>2, <2>3 DEF Work
<1> QED BY <1>5, <1>6, <1>7 DEF Next

(* No interleaving makes a resolved event pending again or forgets an attempt. *)
THEOREM ProgressesCorrect == ASSUME ~LateWorkers PROVE Spec => Progresses
<1>1. Safe /\ [Next]_vars =>
        [\A e \in Events : /\ state[e] \in Resolved => state'[e] = state[e]
                           /\ retries'[e] >= retries[e]]_vars
  BY ForwardStep DEF Forward
<1> QED BY <1>1, SafeCorrect, PTL DEF Spec, Progresses
=============================================================================
