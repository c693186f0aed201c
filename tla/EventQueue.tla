----------------------------- MODULE EventQueue -----------------------------
(***************************************************************************)
(* The queue of action events of one project: the rows of actions_event,   *)
(* the workers that take batches from it (engine-actions EventsRepository, *)
(* EventDispatcher) and the project's schema, which names the targets.  A  *)
(* worker is a ProjectDispatcher of any engine instance, which loops and   *)
(* sleeps, or a caller of the processBatch mutation.  Every SQL statement  *)
(* that commits on its own, and the transaction of persistProcessed, is    *)
(* one action.                                                             *)
(***************************************************************************)
EXTENDS Naturals, FiniteSets

CONSTANTS
  Events, Workers, Targets, NoTarget,
  Dispatchers,        \* the workers that are a ProjectDispatcher
  TargetOf,           \* actions_event.target of each event
  BatchSize,          \* target.batchSize
  MaxAttempts,        \* target.maxAttempts
  DefaultMaxAttempts, \* DEFAULT_MAX_ATTEMPTS
  LateWorkers,        \* may a batch take longer than ACK_TIMEOUT_MS?
  MaxFaults,          \* bound: crashes of workers and failed persist transactions
  MaxSchemaChanges    \* bound: migrations that add or remove a target

ASSUME QueueAssumption ==
  /\ NoTarget \notin Targets /\ Dispatchers \subseteq Workers
  /\ TargetOf \in [Events -> Targets]
  /\ BatchSize \in [Targets -> Nat \ {0}]
  /\ MaxAttempts \in [Targets -> Nat] /\ DefaultMaxAttempts \in Nat
  /\ LateWorkers \in BOOLEAN
  /\ MaxFaults \in Nat /\ MaxSchemaChanges \in Nat

VARIABLES
  state,     \* state of each row; "none" before it is inserted
  visible,   \* the rows whose visible_at has passed
  retries,   \* num_retries
  known,     \* the targets of the current schema
  pc,        \* where each worker is in processBatch
  view,      \* the schema each worker has read
  target,    \* the target of its batch
  batch,     \* the rows it has taken
  snap,      \* num_retries of those rows when it took them
  succeeded, \* the rows its handler reported as ok
  sentTo,    \* history: the targets each event was sent to
  faults, schemaChanges

rows    == <<state, visible, retries>>
worker  == <<pc, view, target, batch, snap, succeeded>>
vars    == <<state, visible, retries, known, pc, view, target, batch, snap, succeeded,
             sentTo, faults, schemaChanges>>

Pending  == {"created", "retrying", "processing"}
Resolved == {"succeed", "failed"}
Steps    == {"idle", "fetch", "unknown", "more", "handle", "persist", "persistFailed",
             "backoff", "drowsy", "asleep"}
(* The worker has taken no row. *)
Empty    == {"idle", "fetch", "backoff", "drowsy", "asleep"}

(* Mutant: the specification without its visible_at condition. *)
EligibleAnyTime == {e \in Events : state[e] \in Pending}

(* eventsToProcessSpecification *)
Eligible == {e \in Events : state[e] \in Pending /\ e \in visible}

(* The types of the variables; a worker holds rows only in the middle of a batch, and past *)
(* fetchBatch's check of the target (EventsRepository.ts:29) its schema has the target.    *)
TypeOK ==
  /\ state \in [Events -> Pending \cup Resolved \cup {"none"}]
  /\ visible \subseteq Events /\ known \subseteq Targets
  /\ retries \in [Events -> Nat]
  /\ pc \in [Workers -> Steps]
  /\ view \in [Workers -> SUBSET Targets]
  /\ target \in [Workers -> Targets \cup {NoTarget}]
  /\ batch \in [Workers -> SUBSET Events] /\ succeeded \in [Workers -> SUBSET Events]
  /\ snap \in [Workers -> [Events -> Nat]]
  /\ sentTo \in [Events -> SUBSET Targets]
  /\ \A w \in Workers : pc[w] \in Empty => batch[w] = {}
  /\ \A w \in Workers : pc[w] \in {"more", "handle", "persist"} => target[w] \in view[w]
  /\ faults \in 0 .. MaxFaults /\ schemaChanges \in 0 .. MaxSchemaChanges

Init ==
  /\ state = [e \in Events |-> "none"] /\ visible = {}
  /\ retries = [e \in Events |-> 0]
  /\ known \in {S \in SUBSET Targets : MaxSchemaChanges > 0 \/ S = Targets}
  /\ pc = [w \in Workers |-> "idle"] /\ view = [w \in Workers |-> {}]
  /\ target = [w \in Workers |-> NoTarget]
  /\ batch = [w \in Workers |-> {}] /\ succeeded = [w \in Workers |-> {}]
  /\ snap = [w \in Workers |-> [e \in Events |-> 0]]
  /\ sentTo = [e \in Events |-> {}]
  /\ faults = 0 /\ schemaChanges = 0
-----------------------------------------------------------------------------
(* A content transaction commits an event of a trigger in the current schema. Its         *)
(* notification wakes the dispatchers that sleep; to the others it means nothing.         *)
Create(e) ==
  /\ state[e] = "none" /\ TargetOf[e] \in known
  /\ state' = [state EXCEPT ![e] = "created"]
  /\ visible' = visible \cup {e}
  /\ pc' = [w \in Workers |-> IF pc[w] = "asleep" THEN "idle" ELSE pc[w]]
  /\ UNCHANGED <<retries, known, view, target, batch, snap, succeeded, sentTo, faults, schemaChanges>>

(* A migration adds or removes a target. *)
ChangeSchema(t) ==
  /\ schemaChanges < MaxSchemaChanges
  /\ schemaChanges' = schemaChanges + 1
  /\ known' = IF t \in known THEN known \ {t} ELSE known \cup {t}
  /\ UNCHANGED <<rows, worker, sentTo, faults>>

(* A held event: some live worker has its row. *)
Held(e) == \E w \in Workers : e \in batch[w]

(* visible_at of a taken event passes: ACK_TIMEOUT_MS after it was taken. *)
AckTimeout(e) ==
  /\ state[e] = "processing" /\ e \notin visible
  /\ LateWorkers \/ ~Held(e)
  /\ visible' = visible \cup {e}
  /\ UNCHANGED <<state, retries, known, worker, sentTo, faults, schemaChanges>>

(* visible_at of an event to be retried passes. *)
BackoffOver(e) ==
  /\ state[e] = "retrying" /\ e \notin visible
  /\ visible' = visible \cup {e}
  /\ UNCHANGED <<state, retries, known, worker, sentTo, faults, schemaChanges>>
-----------------------------------------------------------------------------
(* processBatch: getSchema *)
ReadSchema(w) ==
  /\ pc[w] = "idle"
  /\ pc' = [pc EXCEPT ![w] = "fetch"]
  /\ view' = [view EXCEPT ![w] = known]
  /\ UNCHANGED <<rows, known, target, batch, snap, succeeded, sentTo, faults, schemaChanges>>

(* Mutant: visible_at is not moved. *)
TakeKeepsVisible(w, S) ==
  /\ S \subseteq Eligible
  /\ state' = [e \in Events |-> IF e \in S THEN "processing" ELSE state[e]]
  /\ batch' = [batch EXCEPT ![w] = @ \cup S]
  /\ snap' = [snap EXCEPT ![w] = [e \in Events |-> IF e \in S THEN retries[e] ELSE @[e]]]
  /\ UNCHANGED <<visible, retries, known, view, succeeded, sentTo, faults, schemaChanges>>

(* fetchInternal: one UPDATE takes the rows S for w. Rows locked by another statement are *)
(* skipped, and order and limit only choose among the eligible ones, so S is any set.     *)
Take(w, S) ==
  /\ S \subseteq Eligible
  /\ state' = [e \in Events |-> IF e \in S THEN "processing" ELSE state[e]]
  /\ visible' = visible \ S
  /\ batch' = [batch EXCEPT ![w] = @ \cup S]
  /\ snap' = [snap EXCEPT ![w] = [e \in Events |-> IF e \in S THEN retries[e] ELSE @[e]]]
  /\ UNCHANGED <<retries, known, view, succeeded, sentTo, faults, schemaChanges>>

(* fetchBatch: the primary event, and what its target makes of it. *)
FetchPrimary(w) ==
  /\ pc[w] = "fetch"
  /\ \E e \in Eligible :
       /\ Take(w, {e})
       /\ target' = [target EXCEPT ![w] = TargetOf[e]]
       /\ pc' = [pc EXCEPT ![w] = IF TargetOf[e] \in view[w] THEN "more" ELSE "unknown"]

Moves(w, step) ==
  /\ pc' = [pc EXCEPT ![w] = step]
  /\ UNCHANGED <<rows, known, view, target, batch, snap, succeeded, sentTo, faults, schemaChanges>>

(* The first fetchInternal finds nothing. *)
FetchNothing(w) ==
  /\ pc[w] = "fetch" /\ Eligible = {}
  /\ Moves(w, "backoff")

(* Mutant: rows that are being processed are not asked for. *)
BackoffIgnoresTaken(w) ==
  /\ pc[w] = "backoff"
  /\ Moves(w, IF w \in Dispatchers /\ \A e \in Events : state[e] \notin {"created", "retrying"}
              THEN "drowsy" ELSE "idle")

(* fetchBackOff, another query: with a row still to be processed the dispatcher looks     *)
(* again by itself, at once or by its timer; without one it will sleep until it is woken. *)
Backoff(w) ==
  /\ pc[w] = "backoff"
  /\ Moves(w, IF w \in Dispatchers /\ \A e \in Events : state[e] \notin Pending
              THEN "drowsy" ELSE "idle")

(* The dispatcher falls asleep; only from now on a notification can wake it. *)
Sleep(w) == pc[w] = "drowsy" /\ Moves(w, "asleep")

(* A late notification, or one of an event somebody else has processed. *)
Wake(w) == pc[w] = "asleep" /\ Moves(w, "idle")

(* Mutant: fetchBatch goes on after markFailedOnUnknownTarget. *)
MarkUnknownGoesOn(w) ==
  /\ pc[w] = "unknown"
  /\ state' = [e \in Events |-> IF e \in batch[w] THEN "failed" ELSE state[e]]
  /\ retries' = [e \in Events |-> IF e \in batch[w] THEN retries[e] + 1 ELSE retries[e]]
  /\ pc' = [pc EXCEPT ![w] = "more"]
  /\ UNCHANGED <<visible, known, view, target, batch, snap, succeeded, sentTo, faults, schemaChanges>>

(* markFailedOnUnknownTarget, then fetchBatch again with the same schema. *)
MarkUnknown(w) ==
  /\ pc[w] = "unknown"
  /\ LET failing == batch[w] \cup {e \in Eligible : TargetOf[e] = target[w]} IN
       /\ state' = [e \in Events |-> IF e \in failing THEN "failed" ELSE state[e]]
       /\ retries' = [e \in Events |-> IF e \in failing THEN retries[e] + 1 ELSE retries[e]]
  /\ pc' = [pc EXCEPT ![w] = "fetch"]
  /\ batch' = [batch EXCEPT ![w] = {}] /\ target' = [target EXCEPT ![w] = NoTarget]
  /\ UNCHANGED <<visible, known, view, snap, succeeded, sentTo, faults, schemaChanges>>

(* fetchBatch: up to batchSize - 1 more rows, of whatever target. *)
FetchMore(w) ==
  /\ pc[w] = "more"
  /\ \E S \in SUBSET Eligible :
       /\ Cardinality(S) < BatchSize[target[w]]
       /\ Take(w, S)
  /\ pc' = [pc EXCEPT ![w] = "handle"]
  /\ UNCHANGED target

(* WebhookTargetHandler.handle: the batch is sent to its target. Nothing reported as ok *)
(* stands for a failed request, an error status, an invalid response; all of it for an  *)
(* ok status without failures; a part of it for a list of failures.                     *)
Handle(w) ==
  /\ pc[w] = "handle"
  /\ sentTo' = [e \in Events |-> IF e \in batch[w] THEN sentTo[e] \cup {target[w]} ELSE sentTo[e]]
  /\ \E ok \in SUBSET batch[w] : succeeded' = [succeeded EXCEPT ![w] = ok]
  /\ pc' = [pc EXCEPT ![w] = "persist"]
  /\ UNCHANGED <<rows, known, view, target, batch, snap, faults, schemaChanges>>

(* resolveHandler, fetchVariables or handle throws. *)
HandleThrows(w) ==
  /\ pc[w] = "handle" /\ faults < MaxFaults /\ faults' = faults + 1
  /\ pc' = [pc EXCEPT ![w] = "persistFailed"]
  /\ UNCHANGED <<rows, known, view, target, batch, snap, succeeded, sentTo, schemaChanges>>

Leave(w) ==
  /\ pc' = [pc EXCEPT ![w] = "idle"]
  /\ batch' = [batch EXCEPT ![w] = {}] /\ succeeded' = [succeeded EXCEPT ![w] = {}]
  /\ target' = [target EXCEPT ![w] = NoTarget]
  /\ snap' = [snap EXCEPT ![w] = [e \in Events |-> 0]]

(* Mutant: one attempt too many. *)
PersistResultsOneMore(w, ok, limit) ==
  LET failed == batch[w] \ ok
      again  == {e \in failed : snap[w][e] <= limit} IN
  /\ state' = [e \in Events |->
       CASE e \in ok -> "succeed" [] e \in again -> "retrying"
         [] e \in failed \ again -> "failed" [] OTHER -> state[e]]
  /\ retries' = [e \in Events |->
       CASE e \in ok -> retries[e] + 1 [] e \in failed -> snap[w][e] + 1 [] OTHER -> retries[e]]
  /\ visible' = visible \ again

(* persistProcessed: markSucceed counts on in the row, markFailed writes what the worker *)
(* knows of it; both find the row by its id alone.                                       *)
PersistResults(w, ok, limit) ==
  LET failed == batch[w] \ ok IN
  /\ state' = [e \in Events |->
       CASE e \in ok -> "succeed"
         [] e \in failed -> IF snap[w][e] < limit THEN "retrying" ELSE "failed"
         [] OTHER -> state[e]]
  /\ retries' = [e \in Events |->
       CASE e \in ok -> retries[e] + 1
         [] e \in failed -> snap[w][e] + 1
         [] OTHER -> retries[e]]
  /\ visible' = visible \ {e \in failed : snap[w][e] < limit}

Persist(w) ==
  /\ pc[w] = "persist"
  /\ PersistResults(w, succeeded[w], MaxAttempts[target[w]])
  /\ Leave(w)
  /\ UNCHANGED <<known, view, sentTo, faults, schemaChanges>>

(* The transaction fails (serialization, connection): everything is rolled back and   *)
(* processBatch goes on to report all events as failed.                               *)
PersistThrows(w) ==
  /\ pc[w] = "persist" /\ faults < MaxFaults /\ faults' = faults + 1
  /\ pc' = [pc EXCEPT ![w] = "persistFailed"]
  /\ UNCHANGED <<rows, known, view, target, batch, snap, succeeded, sentTo, schemaChanges>>

(* 'Internal error' of every event, without the target and its maxAttempts. *)
PersistFailed(w) ==
  /\ pc[w] = "persistFailed"
  /\ PersistResults(w, {}, DefaultMaxAttempts)
  /\ Leave(w)
  /\ UNCHANGED <<known, view, sentTo, faults, schemaChanges>>

(* The worker's process dies, or processBatch throws; a dispatcher is restarted then. *)
Crash(w) ==
  /\ pc[w] # "idle" /\ faults < MaxFaults /\ faults' = faults + 1
  /\ Leave(w)
  /\ UNCHANGED <<rows, known, view, sentTo, schemaChanges>>
-----------------------------------------------------------------------------
Work(w) ==
  \/ ReadSchema(w) \/ FetchPrimary(w) \/ FetchNothing(w) \/ Backoff(w) \/ Sleep(w)
  \/ MarkUnknown(w) \/ FetchMore(w) \/ Handle(w) \/ Persist(w) \/ PersistFailed(w)

Next ==
  \/ \E e \in Events : Create(e) \/ AckTimeout(e) \/ BackoffOver(e)
  \/ \E t \in Targets : ChangeSchema(t)
  \/ \E w \in Workers : Work(w) \/ Wake(w) \/ HandleThrows(w) \/ PersistThrows(w) \/ Crash(w)

Spec == Init /\ [][Next]_vars

(* Time passes, and a worker that is in the middle of something goes on. A dispatcher also *)
(* begins again, unless it sleeps: nothing wakes it but a notification. Nobody has to call *)
(* the processBatch mutation again.                                                       *)
Fairness ==
  /\ \A w \in Workers : WF_vars((w \in Dispatchers \/ pc[w] # "idle") /\ Work(w))
  /\ \A e \in Events : WF_vars(AckTimeout(e)) /\ WF_vars(BackoffOver(e))

FairSpec == Spec /\ Fairness
-----------------------------------------------------------------------------
(* As long as no batch outlives its acknowledge timeout, an event is in the hands of one *)
(* worker at a time, and only while its row says so (fetchInternal's UPDATE with SKIP    *)
(* LOCKED is all that keeps workers apart).                                              *)
OneHandler ==
  /\ \A v, w \in Workers : v # w => batch[v] \cap batch[w] = {}
  /\ \A e \in Events : Held(e) => state[e] = "processing" /\ e \notin visible

(* The worker's copy of num_retries, from which markFailed writes the next one, is that  *)
(* of the row.                                                                           *)
CopiesFresh == \A w \in Workers : \A e \in batch[w] : snap[w][e] = retries[e]

(* No interleaving of workers, crashes and failed transactions makes an event that is   *)
(* resolved pending again, or forgets attempts that were recorded.                       *)
Progresses ==
  [][\A e \in Events : /\ state[e] \in Resolved => state'[e] = state[e]
                       /\ retries'[e] >= retries[e]]_vars

Limits == {MaxAttempts[t] : t \in Targets} \cup {DefaultMaxAttempts}

(* An event is retried at most maxAttempts times, of the laxest limit that may apply to *)
(* it (its own target's, another target's it was batched with, the default).             *)
AttemptsBounded ==
  \A e \in Events :
    /\ \E l \in Limits : retries[e] <= l + 1
    /\ state[e] \in Pending => \E l \in Limits : retries[e] <= l

(* A dispatcher that does not sleep, and is not about to. *)
Awake(w) == pc[w] \notin {"drowsy", "asleep"}

(* As long as a dispatcher is awake, crashes, failed transactions, timeouts and other     *)
(* workers that stop never lose an event: it is resolved in the end, by a finite number   *)
(* of attempts, and the dispatcher does not fall asleep over it. An event that comes when *)
(* every dispatcher is about to fall asleep has no such guarantee, its notification being *)
(* lost: it waits for the next one.                                                       *)
EventsResolved ==
  \A e \in Events :
    state[e] \in Pending /\ (\E w \in Dispatchers : Awake(w)) ~> state[e] \in Resolved

(* Violated. fetchInternal has a parameter to take the rows of one target only           *)
(* (EventsRepository.ts:52, 61): an event is sent to the target it names.                *)
SentToOwnTarget == \A e \in Events : sentTo[e] \subseteq {TargetOf[e]}
=============================================================================
