------------------------- MODULE ProjectDispatcher -------------------------
(***************************************************************************)
(* The loop of one ProjectDispatcher (engine-actions): it processes batches *)
(* until the queue is empty, then sleeps until a NOTIFY of its Listener     *)
(* (database, utils/listen.ts), the next visible_at, or end(). The loop's   *)
(* queries and the UNLISTEN of end() share one connection and its mutex.    *)
(* A step between a query and its answer belongs to the environment: what   *)
(* the loop does on an answer is atomic up to its next query or its sleep.  *)
(***************************************************************************)
EXTENDS Naturals, Sequences, SequencesExt, FiniteSets

CONSTANTS
  Events,
  MaxRetries,  \* bound: attempts of an event that are to be retried
  MaxFaults,   \* bound: queries that fail on a healthy connection
  MayLose,     \* may the connection be lost?
  MayEnd       \* may end() be called?

ASSUME DispatcherAssumption ==
  MaxRetries \in Nat /\ MaxFaults \in Nat /\ MayLose \in BOOLEAN /\ MayEnd \in BOOLEAN

VARIABLES
  state,        \* of each event: its row, as far as the loop can tell
  retries,      \* how often it was delayed
  pc,           \* where the loop is
  conn,         \* commands at the connection's mutex, the first one is sent
  served,       \* the first command is executed, its answer on the way
  taken,        \* the event the last fetch returned
  backoff,      \* the answer of fetchBackOff: "zero", "later" or "never"
  listening,    \* the server has a LISTEN of the connection
  inbox,        \* notifications on the way
  deaf,         \* Listener's aborted
  listenerOpen, \* Listener's promise is not settled, its handlers are installed
  pendingError, aborted,
  ended,        \* end() is settled: 'Worker terminated'
  lost,         \* the connection is lost
  faults

loop     == <<pc, conn, served, taken, backoff>>
listener == <<inbox, deaf, listenerOpen, pendingError>>
vars     == <<state, retries, loop, listening, listener, aborted, ended, lost, faults>>

Querying == {"fetch", "backoff", "persist"}
Stopped  == {"closed", "failed", "rejected"}
EventsIn(s) == {e \in Events : state[e] = s}

(* The types; and the loop has one command at the connection exactly while it waits for *)
(* one: nothing wakes it up, or starts a second round, in the middle of a batch.         *)
TypeOK ==
  /\ state \in [Events -> {"none", "ready", "delayed", "taken", "resolved"}]
  /\ retries \in [Events -> 0 .. MaxRetries]
  /\ pc \in {"starting", "handle", "wait", "stopping"} \cup Querying \cup Stopped
  /\ conn \in Seq({"loop", "end", "catch"}) /\ served \in BOOLEAN
  /\ taken \in SUBSET Events /\ backoff \in {"zero", "later", "never"}
  /\ listening \in BOOLEAN /\ inbox \in Nat
  /\ {deaf, listenerOpen, pendingError, aborted, ended, lost} \subseteq BOOLEAN
  /\ faults \in 0 .. MaxFaults
  /\ Cardinality({i \in DOMAIN conn : conn[i] = "loop"}) = IF pc \in Querying THEN 1 ELSE 0

Init ==
  /\ state \in [Events -> {"none", "ready"}] /\ retries = [e \in Events |-> 0]
  /\ pc = "starting" /\ conn = <<>> /\ served = FALSE /\ taken = {} /\ backoff = "never"
  /\ listening = FALSE /\ inbox = 0 /\ deaf = FALSE /\ listenerOpen = FALSE
  /\ pendingError = FALSE /\ aborted = FALSE /\ ended = FALSE /\ lost = FALSE /\ faults = 0
-----------------------------------------------------------------------------
(* A transaction with a trigger's event and its pg_notify commits. *)
Create(e) ==
  /\ state[e] = "none" /\ state' = [state EXCEPT ![e] = "ready"]
  /\ inbox' = IF listening /\ ~lost THEN inbox + 1 ELSE inbox
  /\ UNCHANGED <<retries, loop, listening, deaf, listenerOpen, pendingError, aborted, ended, lost, faults>>

(* visible_at of an event to be retried passes; nobody is notified. *)
BackoffOver(e) ==
  /\ state[e] = "delayed" /\ state' = [state EXCEPT ![e] = "ready"]
  /\ UNCHANGED <<retries, loop, listening, listener, aborted, ended, lost, faults>>

LoseConnection ==
  /\ MayLose /\ ~lost /\ pc \notin Stopped /\ lost' = TRUE /\ listening' = FALSE
  /\ UNCHANGED <<state, retries, loop, listener, aborted, ended, faults>>
-----------------------------------------------------------------------------
(* What the loop does next, given the commands rest that wait at the mutex. *)
Query(step, rest) == pc' = step /\ conn' = Append(rest, "loop")

(* The head of the loop. *)
NextRound(rest) ==
  IF aborted THEN pc' = "closed" /\ conn' = rest ELSE Query("fetch", rest)

(* The catch block awaits listener.end(). *)
CatchError(rest) ==
  pc' = "stopping" /\ conn' = Append(rest, "catch") /\ deaf' = TRUE

(* LISTEN, then run() is resolved and the loop starts. *)
Start ==
  /\ pc = "starting" /\ ~lost
  /\ listening' = TRUE /\ listenerOpen' = TRUE
  /\ NextRound(conn)
  /\ UNCHANGED <<state, retries, served, taken, backoff, inbox, deaf, pendingError, aborted, ended, lost, faults>>

StartFails ==
  /\ pc = "starting" /\ lost
  /\ pc' = "rejected"
  /\ UNCHANGED <<state, retries, conn, served, taken, backoff, listening, listener, aborted, ended, lost, faults>>

(* The server executes the first command. *)
Sent(command) == conn # <<>> /\ Head(conn) = command /\ ~served /\ ~lost

ExecuteFetch ==
  /\ Sent("loop") /\ pc = "fetch" /\ served' = TRUE
  /\ \/ /\ EventsIn("ready") = {} /\ taken' = {} /\ UNCHANGED state
     \/ \E e \in EventsIn("ready") : taken' = {e} /\ state' = [state EXCEPT ![e] = "taken"]
  /\ UNCHANGED <<retries, pc, conn, backoff, listening, listener, aborted, ended, lost, faults>>

(* Mutant: only events that can be taken now count. *)
ExecuteBackoffEligibleOnly ==
  /\ Sent("loop") /\ pc = "backoff" /\ served' = TRUE
  /\ backoff' = IF EventsIn("ready") # {} THEN "zero" ELSE "never"
  /\ UNCHANGED <<state, retries, pc, conn, taken, listening, listener, aborted, ended, lost, faults>>

(* fetchBackOff: the smallest visible_at of the events that are not resolved. *)
ExecuteBackoff ==
  /\ Sent("loop") /\ pc = "backoff" /\ served' = TRUE
  /\ backoff' = IF EventsIn("ready") # {} THEN "zero"
                ELSE IF EventsIn("delayed") # {} THEN "later" ELSE "never"
  /\ UNCHANGED <<state, retries, pc, conn, taken, listening, listener, aborted, ended, lost, faults>>

ExecutePersist ==
  /\ Sent("loop") /\ pc = "persist" /\ served' = TRUE
  /\ \E e \in taken :
       \/ state' = [state EXCEPT ![e] = "resolved"] /\ UNCHANGED retries
       \/ /\ retries[e] < MaxRetries
          /\ state' = [state EXCEPT ![e] = "delayed"]
          /\ retries' = [retries EXCEPT ![e] = @ + 1]
  /\ UNCHANGED <<pc, conn, taken, backoff, listening, listener, aborted, ended, lost, faults>>

ExecuteUnlisten ==
  /\ (Sent("end") \/ Sent("catch")) /\ served' = TRUE /\ listening' = FALSE
  /\ UNCHANGED <<state, retries, pc, conn, taken, backoff, listener, aborted, ended, lost, faults>>
-----------------------------------------------------------------------------
(* The answer to the first command arrives. *)
Answered(command) == conn # <<>> /\ Head(conn) = command /\ served

(* processBatch has fetched. *)
Fetched ==
  /\ Answered("loop") /\ pc = "fetch" /\ served' = FALSE
  /\ IF taken = {} THEN Query("backoff", Tail(conn)) ELSE pc' = "handle" /\ conn' = Tail(conn)
  /\ UNCHANGED <<state, retries, taken, backoff, listening, listener, aborted, ended, lost, faults>>

(* The handler is done, or has thrown. *)
Handled ==
  /\ pc = "handle" /\ Query("persist", conn)
  /\ UNCHANGED <<state, retries, served, taken, backoff, listening, listener, aborted, ended, lost, faults>>

(* processBatch returns: pendingError, another round, or the sleep. *)
BatchDone ==
  /\ Answered("loop") /\ pc \in {"backoff", "persist"} /\ served' = FALSE
  /\ LET rest == Tail(conn) IN
       \/ pendingError /\ CatchError(rest)
       \/ ~pendingError /\ (pc = "persist" \/ backoff = "zero") /\ NextRound(rest) /\ UNCHANGED deaf
       \/ /\ ~pendingError /\ pc = "backoff" /\ backoff # "zero"
          /\ pc' = "wait" /\ conn' = rest /\ UNCHANGED deaf
  /\ taken' = {}
  /\ UNCHANGED <<state, retries, backoff, listening, inbox, listenerOpen, pendingError, aborted, ended, lost, faults>>

(* A query of the loop fails: processBatch throws. *)
BatchThrows ==
  /\ conn # <<>> /\ Head(conn) = "loop"
  /\ \/ lost /\ UNCHANGED faults
     \/ ~lost /\ ~served /\ faults < MaxFaults /\ faults' = faults + 1
  /\ CatchError(Tail(conn)) /\ served' = FALSE /\ taken' = {}
  /\ UNCHANGED <<state, retries, backoff, listening, inbox, listenerOpen, pendingError, aborted, ended, lost>>

(* Mutant: a failed UNLISTEN is not caught. *)
UnlistenedOnlyIfServed(command) ==
  /\ conn # <<>> /\ Head(conn) = command /\ served
  /\ served' = FALSE /\ listenerOpen' = FALSE

(* UNLISTEN is over, its failure ignored: the promise of the Listener is resolved, its  *)
(* onClose resolves the sleep of the loop, if it sleeps and the promise was not settled. *)
Unlistened(command) ==
  /\ conn # <<>> /\ Head(conn) = command /\ (served \/ lost)
  /\ served' = FALSE /\ listenerOpen' = FALSE
EndDone ==
  /\ Unlistened("end") /\ ended' = TRUE
  /\ IF pc = "wait" /\ listenerOpen THEN NextRound(Tail(conn)) ELSE conn' = Tail(conn) /\ UNCHANGED pc
  /\ UNCHANGED <<state, retries, taken, backoff, listening, inbox, deaf, pendingError, aborted, lost, faults>>

(* The catch block goes on to onError, the scope is over. *)
CatchDone ==
  /\ Unlistened("catch")
  /\ pc' = "failed" /\ conn' = Tail(conn)
  /\ UNCHANGED <<state, retries, taken, backoff, listening, inbox, deaf, pendingError, aborted, ended, lost, faults>>
-----------------------------------------------------------------------------
(* The sleep is resolved by its timer ... *)
TimerFires ==
  /\ pc = "wait" /\ backoff = "later" /\ NextRound(conn)
  /\ UNCHANGED <<state, retries, served, taken, backoff, listening, listener, aborted, ended, lost, faults>>

(* ... or a notification; a notification that finds no sleep is gone. *)
Notified ==
  /\ inbox > 0 /\ inbox' = inbox - 1
  /\ IF pc = "wait" /\ listenerOpen /\ ~deaf THEN NextRound(conn) ELSE UNCHANGED <<pc, conn>>
  /\ UNCHANGED <<state, retries, served, taken, backoff, listening, deaf, listenerOpen, pendingError, aborted, ended, lost, faults>>

(* Mutant: the error is stored, the sleep is not rejected. *)
NoticeLostQuietly ==
  /\ lost /\ listenerOpen
  /\ listenerOpen' = FALSE /\ pendingError' = TRUE
  /\ UNCHANGED <<state, retries, pc, conn, deaf, served, taken, backoff, listening, inbox, aborted, ended, lost, faults>>

(* An end or error event of the connection, or a failed health check. *)
NoticeLost ==
  /\ lost /\ listenerOpen
  /\ listenerOpen' = FALSE /\ pendingError' = TRUE
  /\ IF pc = "wait" THEN CatchError(conn) ELSE UNCHANGED <<pc, conn, deaf>>
  /\ UNCHANGED <<state, retries, served, taken, backoff, listening, inbox, aborted, ended, lost, faults>>

(* end() of the running dispatcher. *)
End ==
  /\ MayEnd /\ ~aborted /\ pc \notin Stopped \cup {"starting"}
  /\ aborted' = TRUE /\ deaf' = TRUE /\ conn' = Append(conn, "end")
  /\ UNCHANGED <<state, retries, pc, served, taken, backoff, listening, inbox, listenerOpen, pendingError, ended, lost, faults>>
-----------------------------------------------------------------------------
Execute == ExecuteFetch \/ ExecuteBackoff \/ ExecutePersist \/ ExecuteUnlisten
Answer  == Fetched \/ BatchDone \/ EndDone \/ CatchDone

Next ==
  \/ \E e \in Events : Create(e) \/ BackoffOver(e)
  \/ Start \/ StartFails \/ Execute \/ Answer \/ BatchThrows \/ Handled
  \/ TimerFires \/ Notified \/ NoticeLost \/ LoseConnection \/ End

Spec == Init /\ [][Next]_vars

(* The server and the process go on, timers fire, a lost connection is noticed by the *)
(* health check at the latest. Not: new events, end(), failures.                      *)
Fairness ==
  /\ WF_vars(Start \/ StartFails) /\ WF_vars(Execute) /\ WF_vars(Answer \/ (lost /\ BatchThrows))
  /\ WF_vars(Handled) /\ WF_vars(TimerFires) /\ WF_vars(Notified) /\ WF_vars(NoticeLost)
  /\ \A e \in Events : WF_vars(BackoffOver(e))

FairSpec == Spec /\ Fairness
-----------------------------------------------------------------------------
(* An event that was put off is looked at again although nobody is notified when its    *)
(* visible_at passes (ProjectDispatcher.ts:91-94): it never sleeps past the backoff.    *)
Retried ==
  \A e \in Events : state[e] = "delayed" ~> state[e] \in {"taken", "resolved"} \/ aborted \/ pc \in Stopped

(* A connection that is lost while the dispatcher runs makes it stop, for its supervisor *)
(* to restart it, wherever the loop is (rejectPending, pendingError, a failing query).   *)
ErrorSurfaces == lost /\ ~aborted ~> pc \in Stopped

(* An UNLISTEN of end() is not left at the connection when the loop has gone on: it is  *)
(* answered, and end() is settled.                                                       *)
EndSettles == aborted ~> ended
=============================================================================
