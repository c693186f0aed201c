---------------------------- MODULE Transactions ----------------------------
(***************************************************************************)
(* A transaction of an AcquiredConnection (database): executeTransaction,   *)
(* nested transactions as savepoints, concurrent calls on one handle, each  *)
(* handle with its own Mutex. The PostgreSQL server is modelled by what it  *)
(* does with BEGIN, SAVEPOINT, RELEASE, ROLLBACK and COMMIT.                *)
(***************************************************************************)
EXTENDS Naturals, Sequences, SequencesExt

CONSTANTS
  Root,        \* the transaction
  Savepoints,  \* the nested transactions callbacks may open
  Stmts,       \* the queries callbacks may issue, each once
  NoNode

Nodes == Savepoints \cup {Root}
Closings == {"commit", "rollback", "rollbackSelf"}

ASSUME TransactionsAssumption ==
  /\ Root \notin Savepoints /\ NoNode \notin Nodes
  /\ Nodes \cap Stmts = {} /\ (Nodes \cup Stmts) \cap Closings = {}

VARIABLES
  node,      \* each transaction(): "none", "waiting", "active", "closing", "throwing", "resolved", "rejected"
  parent,    \* the handle transaction() was called on
  within,    \* the nested transactions around and including it
  closed,    \* isClosed of its state
  self,      \* history: its callback called rollback()
  queue,     \* the mutex of each handle: the holder and those that wait
  stmt,      \* each query: "none", "waiting", "ok" or "failed"
  issuer,    \* the handle it was called on
  server,    \* the session: open, aborted, the log of effects, where each savepoint begins
  broken,    \* the connection is lost
  unknown,   \* history: it was lost while COMMIT was carried out
  durable    \* the committed effects

vars == <<node, parent, within, closed, self, queue, stmt, issuer, server, broken, unknown, durable>>

Settled(n) == node[n] \in {"resolved", "rejected"}

(* The types. *)
TypeOK ==
  /\ node \in [Nodes -> {"none", "waiting", "active", "closing", "throwing", "resolved", "rejected"}]
  /\ parent \in [Nodes -> Nodes \cup {NoNode}] /\ within \in [Nodes -> SUBSET Savepoints]
  /\ closed \in [Nodes -> BOOLEAN] /\ self \in [Nodes -> BOOLEAN]
  /\ queue \in [Nodes -> Seq(Stmts \cup Savepoints \cup Closings)]
  /\ stmt \in [Stmts -> {"none", "waiting", "ok", "failed"}] /\ issuer \in [Stmts -> Nodes \cup {NoNode}]
  /\ server \in [open : BOOLEAN, aborted : BOOLEAN, log : Seq(Stmts), mark : [Nodes -> Nat]]
  /\ broken \in BOOLEAN /\ unknown \in BOOLEAN /\ durable \subseteq Stmts

NotOpen == [open |-> FALSE, aborted |-> FALSE, log |-> <<>>, mark |-> [n \in Nodes |-> 0]]

(* transaction() of the connection is called. *)
Init ==
  /\ node = [n \in Nodes |-> IF n = Root THEN "waiting" ELSE "none"]
  /\ parent = [n \in Nodes |-> NoNode] /\ within = [n \in Nodes |-> {}]
  /\ closed = [n \in Nodes |-> FALSE] /\ self = [n \in Nodes |-> FALSE]
  /\ queue = [n \in Nodes |-> <<>>]
  /\ stmt = [s \in Stmts |-> "none"] /\ issuer = [s \in Stmts |-> NoNode]
  /\ server = NotOpen /\ broken = FALSE /\ unknown = FALSE /\ durable = {}
-----------------------------------------------------------------------------
Locks(n, item) == [queue EXCEPT ![n] = Append(@, item)]

(* BEGIN *)
Begin ==
  /\ node[Root] = "waiting"
  /\ IF broken THEN node' = [node EXCEPT ![Root] = "rejected"] /\ UNCHANGED server
     ELSE node' = [node EXCEPT ![Root] = "active"] /\ server' = [NotOpen EXCEPT !.open = TRUE]
  /\ UNCHANGED <<parent, within, closed, self, queue, stmt, issuer, broken, unknown, durable>>

(* The callback runs, and does not await a rollback it asked for. Callbacks await their calls. *)
Usable(n) == node[n] = "active" /\ "rollbackSelf" \notin ToSet(queue[n])

(* Queries, and nested transactions, that were not used yet are alike: the next one. *)
NextStmt(s) == stmt[s] = "none" /\ s = CHOOSE x \in Stmts : stmt[x] = "none"
NextSavepoint(c) == node[c] = "none" /\ c = CHOOSE x \in Savepoints : node[x] = "none"

(* query(): isClosed is asked before the mutex is waited for. *)
Issue(n, s) ==
  /\ Usable(n) /\ NextStmt(s) /\ issuer' = [issuer EXCEPT ![s] = n]
  /\ IF closed[n]
     THEN stmt' = [stmt EXCEPT ![s] = "failed"] /\ UNCHANGED queue
     ELSE stmt' = [stmt EXCEPT ![s] = "waiting"] /\ queue' = Locks(n, s)
  /\ UNCHANGED <<node, parent, within, closed, self, server, broken, unknown, durable>>

(* Mutant: the mutex does not know who holds it. *)
IssueOuterWaits(n, s) ==
  /\ node[n] = "active" /\ n # Root /\ NextStmt(s)
  /\ issuer' = [issuer EXCEPT ![s] = n]
  /\ stmt' = [stmt EXCEPT ![s] = "waiting"] /\ queue' = Locks(parent[n], s)
  /\ UNCHANGED <<node, parent, within, closed, self, server, broken, unknown, durable>>

(* A query on the outer handle, whose mutex this callback holds: MutexDeadlockError. *)
IssueOuter(n, s) ==
  /\ node[n] = "active" /\ n # Root /\ NextStmt(s)
  /\ issuer' = [issuer EXCEPT ![s] = n] /\ stmt' = [stmt EXCEPT ![s] = "failed"]
  /\ UNCHANGED <<node, parent, within, closed, self, queue, server, broken, unknown, durable>>

(* transaction() on the handle of n. *)
Open(n, c) ==
  /\ Usable(n) /\ NextSavepoint(c)
  /\ node' = [node EXCEPT ![c] = "waiting"] /\ parent' = [parent EXCEPT ![c] = n]
  /\ within' = [within EXCEPT ![c] = within[n] \cup {c}] /\ queue' = Locks(n, c)
  /\ UNCHANGED <<closed, self, stmt, issuer, server, broken, unknown, durable>>

(* Mutant: the mutex lets everybody pass. *)
TurnAny(n, item) == item \in ToSet(queue[n])

(* The head of the queue holds the mutex; it gives it back to the next. *)
Turn(n, item) == queue[n] # <<>> /\ Head(queue[n]) = item
Passes(n) == [queue EXCEPT ![n] = Tail(@)]

(* The handles around n are asked, when the query passes through them, if they are closed. *)
OuterClosed(n) == \E a \in (within[n] \ {n}) \cup ({Root} \ {n}) : closed[a]

(* The mutex is held: the query is carried out. *)
Execute(n, s) ==
  /\ Turn(n, s) /\ queue' = Passes(n)
  /\ \/ /\ ~broken /\ ~server.aborted /\ ~OuterClosed(n) /\ stmt' = [stmt EXCEPT ![s] = "ok"]
        /\ server' = [server EXCEPT !.log = Append(@, s)]
     \/ /\ stmt' = [stmt EXCEPT ![s] = "failed"]
        /\ server' = [server EXCEPT !.aborted = @ \/ (server.open /\ ~OuterClosed(n))]
  /\ UNCHANGED <<node, parent, within, closed, self, issuer, broken, unknown, durable>>

(* The mutex of the outer handle is held: SAVEPOINT. *)
Enter(n, c) ==
  LET can == server.open /\ ~server.aborted /\ ~broken /\ ~closed[n] /\ ~OuterClosed(n)
  IN  /\ Turn(n, c) /\ node[c] = "waiting"
      /\ \/ /\ can /\ node' = [node EXCEPT ![c] = "active"]
            /\ server' = [server EXCEPT !.mark[c] = Len(server.log)] /\ UNCHANGED queue
         \/ /\ ~can /\ node' = [node EXCEPT ![c] = "rejected"]
            /\ queue' = Passes(n) /\ UNCHANGED server
      /\ UNCHANGED <<parent, within, closed, self, stmt, issuer, broken, unknown, durable>>

(* The calls the callback made are over. *)
Awaited(n) == queue[n] = <<>> /\ \A s \in Stmts : issuer[s] = n => stmt[s] # "waiting"

(* rollback() called by the callback. *)
RollbackSelf(n) ==
  /\ node[n] = "active" /\ ~closed[n] /\ ~self[n] /\ Awaited(n)
  /\ self' = [self EXCEPT ![n] = TRUE] /\ queue' = Locks(n, "rollbackSelf")
  /\ UNCHANGED <<node, parent, within, closed, stmt, issuer, server, broken, unknown, durable>>

(* transaction() of n settles and gives the mutex of the outer handle back. *)
Leaves(n, queues) ==
  /\ node' = [node EXCEPT ![n] = IF node[n] = "throwing" THEN "rejected" ELSE "resolved"]
  /\ queue' = IF n = Root THEN queues ELSE [queues EXCEPT ![parent[n]] = Tail(@)]

(* Mutant: a callback that throws is committed too. *)
AfterCallbackCommits(n, ok) == "commit"

(* executeTransaction closes what is not closed. *)
AfterCallback(n, ok) == IF ok THEN "commit" ELSE "rollback"

(* The callback resolves or throws. *)
Callback(n, ok) ==
  /\ node[n] = "active" /\ Awaited(n)
  /\ node' = [node EXCEPT ![n] = IF ok THEN "closing" ELSE "throwing"]
  /\ queue' = IF closed[n] THEN queue ELSE Locks(n, AfterCallback(n, ok))
  /\ UNCHANGED <<parent, within, closed, self, stmt, issuer, server, broken, unknown, durable>>

(* It is closed, by the callback itself: transaction() settles. *)
LeavesClosed(n) ==
  /\ node[n] \in {"closing", "throwing"} /\ closed[n] /\ self[n] /\ queue[n] = <<>>
  /\ Leaves(n, queue)
  /\ UNCHANGED <<parent, within, closed, self, stmt, issuer, server, broken, unknown, durable>>

Close(n) == closed' = [closed EXCEPT ![n] = TRUE]

(* Mutant: ROLLBACK TO the outermost savepoint. *)
RolledBackAll(n) == IF n = Root THEN NotOpen ELSE [server EXCEPT !.aborted = FALSE, !.log = <<>>]

(* ROLLBACK TO leaves the savepoint on the server, ROLLBACK ends the transaction. *)
RolledBack(n) ==
  IF n = Root THEN NotOpen
  ELSE [server EXCEPT !.aborted = FALSE, !.log = SubSeq(server.log, 1, server.mark[n])]

Rollback(n, command) ==
  /\ Turn(n, command) /\ command \in {"rollback", "rollbackSelf"}
  /\ IF broken THEN UNCHANGED <<closed, server>> ELSE Close(n) /\ server' = RolledBack(n)
  /\ IF command = "rollback" THEN Leaves(n, Passes(n))
     ELSE queue' = Passes(n) /\ UNCHANGED node
  /\ UNCHANGED <<parent, within, self, stmt, issuer, broken, unknown, durable>>

(* commit() fails: it is not closed, so rollback() follows. *)
CommitFails(n) ==
  /\ node' = [node EXCEPT ![n] = "throwing"]
  /\ queue' = [Passes(n) EXCEPT ![n] = Append(@, "rollback")]
  /\ UNCHANGED closed

(* RELEASE of a savepoint; it fails in an aborted transaction. *)
Release(n) ==
  /\ Turn(n, "commit") /\ n # Root
  /\ IF broken \/ server.aborted THEN CommitFails(n) ELSE Close(n) /\ Leaves(n, Passes(n))
  /\ UNCHANGED <<parent, within, self, stmt, issuer, server, broken, unknown, durable>>

(* COMMIT: an aborted transaction is rolled back, and no error is reported. *)
Commit ==
  /\ Turn(Root, "commit") /\ ~broken /\ server' = NotOpen
  /\ Close(Root) /\ Leaves(Root, Passes(Root))
  /\ durable' = IF server.aborted THEN durable ELSE durable \cup ToSet(server.log)
  /\ UNCHANGED <<parent, within, self, stmt, issuer, broken, unknown>>

(* COMMIT is refused by a deferred constraint, or the connection is lost before its answer. *)
CommitRefused ==
  /\ Turn(Root, "commit") /\ CommitFails(Root) /\ server' = NotOpen
  /\ \/ (broken \/ ~server.aborted) /\ UNCHANGED <<broken, unknown, durable>>
     \/ /\ ~broken /\ ~server.aborted /\ broken' = TRUE /\ unknown' = TRUE
        /\ durable' = durable \cup ToSet(server.log)
  /\ UNCHANGED <<parent, within, self, stmt, issuer>>

(* The connection is lost: the server rolls back. *)
Break ==
  /\ ~broken /\ broken' = TRUE /\ server' = NotOpen
  /\ UNCHANGED <<node, parent, within, closed, self, queue, stmt, issuer, unknown, durable>>

Carries ==
  \/ Begin \/ Commit \/ CommitRefused
  \/ \E n \in Nodes, s \in Stmts : Execute(n, s)
  \/ \E n \in Nodes, c \in Savepoints : Enter(n, c)
  \/ \E n \in Nodes : Release(n) \/ LeavesClosed(n) \/ \E command \in Closings : Rollback(n, command)

Next ==
  \/ Carries \/ Break
  \/ \E n \in Nodes, s \in Stmts : Issue(n, s) \/ IssueOuter(n, s)
  \/ \E n \in Nodes, c \in Savepoints : Open(n, c)
  \/ \E n \in Nodes : RollbackSelf(n) \/ \E ok \in BOOLEAN : Callback(n, ok)

Spec == Init /\ [][Next]_vars

(* The server answers, callbacks settle once what they await is over. *)
Fairness == WF_vars(Carries) /\ \A n \in Nodes : WF_vars(\E ok \in BOOLEAN : Callback(n, ok))
FairSpec == Spec /\ Fairness
-----------------------------------------------------------------------------
(* What should remain: queries that succeeded and were issued in savepoints that resolved     *)
(* without having rolled back.                                                                *)
Kept == {s \in Stmts : stmt[s] = "ok" /\ \A n \in within[issuer[s]] : node[n] = "resolved" /\ ~self[n]}

(* A transaction that rejects leaves nothing, unless the answer to COMMIT was lost            *)
(* (Transaction.ts:169-185).                                                                  *)
RejectedLeavesNothing == node[Root] = "rejected" /\ ~unknown => durable = {}

(* A transaction that resolves, and swallowed no error of its own queries, leaves what its    *)
(* savepoints kept, all of it: a savepoint undoes its own queries only, whatever runs beside   *)
(* it. (A callback that catches the error of a query commits an aborted transaction.)         *)
ResolvedLeavesAll ==
  node[Root] = "resolved" /\ ~self[Root] /\ (\A s \in Stmts : issuer[s] = Root => stmt[s] # "failed") =>
    durable = Kept

(* No other query is carried out between the SAVEPOINT and the end of a nested transaction    *)
(* (AcquiredConnection.ts:27-34, Mutex.ts): its rollback undoes nothing else.                 *)
SavepointsExclusive ==
  \A n \in Savepoints : node[n] \in {"active", "closing", "throwing"} /\ ~closed[n] /\ server.open =>
    \A i \in server.mark[n] + 1 .. Len(server.log) : n \in within[issuer[server.log[i]]]

(* transaction() settles, whatever callbacks call on whatever handle (Mutex.ts:35-37).        *)
Settles == \A n \in Nodes : node[n] = "waiting" ~> Settled(n)
=============================================================================
