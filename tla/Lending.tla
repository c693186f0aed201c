------------------------------ MODULE Lending ------------------------------
(***************************************************************************)
(* What a connection pool promises its borrowers, without saying how       *)
(* connections are opened, kept or thrown away: a borrower asks, waits in  *)
(* arrival order, is lent a connection nobody else has, and gives it back. *)
(* At most MaxConnections are out at once, and after closing none goes out.*)
(***************************************************************************)
EXTENDS Naturals, Sequences, FiniteSets

CONSTANTS Conns, Borrowers, MaxConnections, NoConn

VARIABLES waiting,  \* the borrowers waiting, in arrival order
          lent,     \* the connection each borrower has, or NoConn
          closed    \* no connection is lent any more

lendVars == <<waiting, lent, closed>>

Lent == {b \in Borrowers : lent[b] # NoConn}
IsWaiting(b) == \E k \in DOMAIN waiting : waiting[k] = b

(* c may be lent next to the borrowers in `others': it is nobody's. *)
Lendable(c, others) ==
  /\ ~closed
  /\ \A b \in others : lent[b] # c
  /\ Cardinality(others) < MaxConnections

Init == waiting = <<>> /\ lent = [b \in Borrowers |-> NoConn] /\ closed = FALSE

(* A borrower that comes when nobody waits may be served at once. *)
BorrowNow(b, c) ==
  /\ b \notin Lent /\ waiting = <<>>
  /\ Lendable(c, Lent)
  /\ lent' = [lent EXCEPT ![b] = c]
  /\ UNCHANGED <<waiting, closed>>

Ask(b) ==
  /\ ~closed /\ b \notin Lent /\ ~IsWaiting(b)
  /\ waiting' = Append(waiting, b)
  /\ UNCHANGED <<lent, closed>>

(* Only the borrower that has waited longest is served. *)
LendToFirst(c) ==
  /\ waiting # <<>> /\ Lendable(c, Lent)
  /\ lent' = [lent EXCEPT ![Head(waiting)] = c]
  /\ waiting' = Tail(waiting)
  /\ UNCHANGED closed

(* Any waiting borrower may be turned away: it timed out, or connecting failed. *)
TurnAway(k) ==
  /\ waiting' = SubSeq(waiting, 1, k - 1) \o SubSeq(waiting, k + 1, Len(waiting))
  /\ UNCHANGED <<lent, closed>>

GiveBack(b) ==
  /\ b \in Lent
  /\ lent' = [lent EXCEPT ![b] = NoConn]
  /\ UNCHANGED <<waiting, closed>>

(* The returned connection goes straight to the first in the queue. *)
PassOn(b) ==
  /\ b \in Lent /\ waiting # <<>>
  /\ Lendable(lent[b], Lent \ {b})
  /\ lent' = [lent EXCEPT ![b] = NoConn, ![Head(waiting)] = lent[b]]
  /\ waiting' = Tail(waiting)
  /\ UNCHANGED closed

Close ==
  /\ closed' = TRUE /\ waiting' = <<>>
  /\ UNCHANGED lent

Next ==
  \/ \E b \in Borrowers :
        \/ Ask(b) \/ GiveBack(b) \/ PassOn(b)
        \/ \E c \in Conns : BorrowNow(b, c)
  \/ \E c \in Conns : LendToFirst(c)
  \/ \E k \in DOMAIN waiting : TurnAway(k)
  \/ Close

Spec == Init /\ [][Next]_lendVars
=============================================================================
