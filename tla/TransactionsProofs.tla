-------------------------- MODULE TransactionsProofs --------------------------
(* Theorems about Transactions for every set of savepoints and queries. The  *)
(* argument is the tree of the nested transactions: those that are entered    *)
(* are one path of it, each holding the mutex of the one around it, so that   *)
(* only the innermost can be served. From that follows which queries the log  *)
(* of the server holds, so what COMMIT makes durable.                         *)
EXTENDS Transactions, TLAPS, SequenceTheorems

Items == Stmts \cup Savepoints \cup Closings

(* Its SAVEPOINT was carried out, and transaction() did not settle. *)
Entered(n) == n \in Savepoints /\ node[n] \in {"active", "closing", "throwing"}

(* Whose turn it is at n is an entered transaction. *)
Held(n) == queue[n] # <<>> /\ Entered(Head(queue[n]))

(* A queue that did not change, or gave the mutex to the next. *)
Shrinks(q, p) == q = p \/ (p # <<>> /\ q = Tail(p))

(* What a queue may hold, by the state of its transaction. *)
Queues ==
  \A n \in Nodes :
    /\ node[n] \in {"none", "waiting", "resolved", "rejected"} => queue[n] = <<>>
    /\ node[n] = "closing" => queue[n] \in {<<>>, <<"commit">>}
    /\ node[n] = "throwing" => queue[n] \in {<<>>, <<"rollback">>}
    /\ node[n] = "active" => "commit" \notin ToSet(queue[n]) /\ "rollback" \notin ToSet(queue[n])

(* Who waits in it was called on n. *)
Callers ==
  \A n \in Nodes :
    /\ \A s \in Stmts \cap ToSet(queue[n]) : issuer[s] = n /\ stmt[s] # "none"
    /\ \A c \in Savepoints \cap ToSet(queue[n]) : parent[c] = n /\ node[c] # "none"

Tree ==
  /\ within[Root] = {}
  /\ \A c \in Savepoints : node[c] # "none" =>
       parent[c] \in Nodes /\ node[parent[c]] # "none" /\ within[c] = within[parent[c]] \cup {c}
  /\ \A s \in Stmts : stmt[s] # "none" => issuer[s] \in Nodes /\ node[issuer[s]] # "none"

(* The path. *)
Upwards == \A x \in Savepoints : Entered(x) => \A y \in within[x] : Entered(y)
Holder == \A x \in Savepoints : Entered(x) => queue[parent[x]] # <<>> /\ Head(queue[parent[x]]) = x
Path ==
  \A x \in Savepoints : Entered(x) =>
    \A n \in (within[x] \cup {Root}) \ {x} : queue[n] # <<>> /\ Head(queue[n]) \in within[x]
Chain == \A x, y \in Savepoints : Entered(x) /\ Entered(y) => x \in within[y] \/ y \in within[x]

Nested == Upwards /\ Holder /\ Path /\ Chain

(* The log between the marks of the savepoints. *)
Logged == \A i \in 1 .. Len(server.log) : server.log[i] \in Stmts /\ stmt[server.log[i]] # "none"
Marks ==
  \A x \in Savepoints : Entered(x) =>
    /\ server.mark[x] <= Len(server.log)
    /\ \A y \in within[x] : server.mark[y] <= server.mark[x]
    /\ \A i \in server.mark[x] + 1 .. Len(server.log) : x \in within[issuer[server.log[i]]]

(* What is committed was committed by COMMIT. *)
Committed == durable # {} => unknown \/ node[Root] = "resolved"

TransactionsInv ==
  /\ TypeOK
  /\ Queues
  /\ Callers
  /\ Tree
  /\ Nested
  /\ Logged
  /\ Marks
  /\ Committed
-----------------------------------------------------------------------------
LEMMA Distinct ==
  /\ Root \in Nodes /\ Root \notin Savepoints /\ Savepoints \subseteq Nodes
  /\ \A s \in Stmts : s \notin Nodes /\ s \in Items /\ s \notin Closings
  /\ \A c \in Savepoints : c \in Items /\ c \notin Closings
  /\ \A x \in Closings : x \in Items
BY TransactionsAssumption DEF TransactionsAssumption, Nodes, Items

LEMMA AppendFacts ==
  ASSUME NEW S, NEW s \in Seq(S), NEW e \in S
  PROVE  /\ Append(s, e) \in Seq(S) /\ Append(s, e) # <<>>
         /\ ToSet(Append(s, e)) = ToSet(s) \cup {e}
         /\ s # <<>> => Head(Append(s, e)) = Head(s)
<1>1. DOMAIN Append(s, e) = 1 .. Len(s) + 1 /\ DOMAIN s = 1 .. Len(s) /\ Len(s) \in Nat
  OBVIOUS
<1>2. Append(s, e)[Len(s) + 1] = e /\ \A i \in 1 .. Len(s) : Append(s, e)[i] = s[i]
  OBVIOUS
<1>3. ToSet(Append(s, e)) \subseteq ToSet(s) \cup {e}
  BY <1>1, <1>2 DEF ToSet
<1>4. e \in ToSet(Append(s, e))
  BY <1>1, <1>2 DEF ToSet
<1>5. ToSet(s) \subseteq ToSet(Append(s, e))
  BY <1>1, <1>2 DEF ToSet
<1>6. Append(s, e) \in Seq(S) /\ Append(s, e) # <<>>
  BY <1>1
<1>7. s # <<>> => Head(Append(s, e)) = Head(s)
  OBVIOUS
<1> QED BY <1>3, <1>4, <1>5, <1>6, <1>7

LEMMA TailFacts ==
  ASSUME NEW S, NEW s \in Seq(S), s # <<>>
  PROVE  /\ Tail(s) \in Seq(S) /\ ToSet(Tail(s)) \subseteq ToSet(s)
         /\ Head(s) \in ToSet(s) /\ Head(s) \in S
<1>1. Tail(s) \in Seq(S) /\ ToSet(Tail(s)) \subseteq ToSet(s)
  BY DEF ToSet
<1>2. Head(s) = s[1] /\ 1 \in DOMAIN s /\ s[1] \in S
  OBVIOUS
<1> QED BY <1>1, <1>2 DEF ToSet

LEMMA SingleFacts ==
  ASSUME NEW e
  PROVE  /\ ToSet(<<e>>) = {e} /\ Head(<<e>>) = e /\ Tail(<<e>>) = <<>> /\ <<e>> # <<>>
         /\ ToSet(<<>>) = {} /\ Append(<<>>, e) = <<e>>
<1>1. ToSet(<<e>>) = {e}
  BY DEF ToSet
<1>2. ToSet(<<>>) = {}
  BY DEF ToSet
<1> QED BY <1>1, <1>2
-----------------------------------------------------------------------------
(* Who has a turn, and what follows for the transaction. *)
LEMMA TurnOfCommand ==
  ASSUME TransactionsInv, NEW n \in Nodes, NEW command \in Closings, Turn(n, command)
  PROVE  /\ command = "commit" => node[n] = "closing" /\ queue[n] = <<"commit">>
         /\ command = "rollback" => node[n] = "throwing" /\ queue[n] = <<"rollback">>
         /\ command = "rollbackSelf" => node[n] = "active"
         /\ ~Held(n)
<1>1. queue[n] \in Seq(Items) /\ queue[n] # <<>> /\ Head(queue[n]) = command
  BY DEF TransactionsInv, TypeOK, Turn, Items
<1>2. command \in ToSet(queue[n])
  BY <1>1, TailFacts
<1>3. node[n] \in {"none", "waiting", "active", "closing", "throwing", "resolved", "rejected"}
  BY DEF TransactionsInv, TypeOK
<1>4. node[n] \in {"active", "closing", "throwing"}
  BY <1>1, <1>3 DEF TransactionsInv, Queues
<1>5. CASE node[n] = "active"
  BY <1>1, <1>2, <1>5, Distinct DEF TransactionsInv, Queues, Held, Entered, Closings
<1>6. CASE node[n] = "closing"
  BY <1>1, <1>6, SingleFacts, Distinct DEF TransactionsInv, Queues, Held, Entered, Closings
<1>7. CASE node[n] = "throwing"
  BY <1>1, <1>7, SingleFacts, Distinct DEF TransactionsInv, Queues, Held, Entered, Closings
<1> QED BY <1>4, <1>5, <1>6, <1>7

LEMMA TurnOfCall ==
  ASSUME TransactionsInv, NEW n \in Nodes, NEW item \in Stmts \cup Savepoints, Turn(n, item)
  PROVE  /\ node[n] = "active" /\ queue[n] # <<>> /\ item \in ToSet(queue[n])
         /\ item \in Stmts => issuer[item] = n /\ stmt[item] # "none" /\ ~Held(n)
         /\ item \in Savepoints => parent[item] = n /\ node[item] # "none"
<1>1. queue[n] \in Seq(Items) /\ queue[n] # <<>> /\ Head(queue[n]) = item
  BY DEF TransactionsInv, TypeOK, Turn, Items
<1>2. item \in ToSet(queue[n])
  BY <1>1, TailFacts
<1>3. node[n] = "active"
  <2>1. node[n] \in {"none", "waiting", "active", "closing", "throwing", "resolved", "rejected"}
    BY DEF TransactionsInv, TypeOK
  <2>2. item \notin Closings
    BY Distinct
  <2> QED BY <1>1, <2>1, <2>2, SingleFacts DEF TransactionsInv, Queues, Closings
<1>4. item \in Stmts => issuer[item] = n /\ stmt[item] # "none" /\ ~Held(n)
  BY <1>1, <1>2, Distinct DEF TransactionsInv, Callers, Held, Entered
<1>5. item \in Savepoints => parent[item] = n /\ node[item] # "none"
  BY <1>2 DEF TransactionsInv, Callers
<1> QED BY <1>1, <1>2, <1>3, <1>4, <1>5

(* Where no entered transaction has its turn the path ends: all that are entered are around it. *)
LEMMA Innermost ==
  ASSUME TransactionsInv, NEW n \in Nodes, n = Root \/ Entered(n), ~Held(n), NEW x \in Savepoints, Entered(x)
  PROVE  n # Root /\ x \in within[n]
<1>1. \A m \in (within[x] \cup {Root}) \ {x} : Held(m)
  BY DEF TransactionsInv, Nested, Path, Upwards, Held
<1>2. n # Root
  BY <1>1, Distinct
<1>3. x \in within[n] \/ n \in within[x]
  BY <1>2 DEF TransactionsInv, Nested, Chain, Entered
<1>4. CASE n \in within[x] /\ n # x
  BY <1>1, <1>4
<1>5. CASE n = x
  BY <1>5 DEF TransactionsInv, Tree, Entered
<1> QED BY <1>2, <1>3, <1>4, <1>5
-----------------------------------------------------------------------------
(* The path stays when the same transactions are entered and keep their turns. *)
LEMMA NestedStays ==
  ASSUME TransactionsInv,
         \A x \in Savepoints : Entered(x)' <=> Entered(x),
         \A x \in Savepoints : Entered(x) => within'[x] = within[x] /\ parent'[x] = parent[x],
         \A m \in Nodes : Held(m) => queue'[m] # <<>> /\ Head(queue'[m]) = Head(queue[m])
  PROVE  Nested'
<1>1. Upwards'
  BY DEF TransactionsInv, Nested, Upwards, TypeOK, Entered
<1>2. Chain'
  BY DEF TransactionsInv, Nested, Chain
<1>3. Holder'
  <2> SUFFICES ASSUME NEW x \in Savepoints, Entered(x)
               PROVE  queue'[parent'[x]] # <<>> /\ Head(queue'[parent'[x]]) = x
    BY DEF Holder
  <2>1. parent[x] \in Nodes /\ Held(parent[x]) /\ Head(queue[parent[x]]) = x
    BY DEF TransactionsInv, Nested, Holder, Tree, Held, Entered
  <2> QED BY <2>1
<1>4. Path'
  <2> SUFFICES ASSUME NEW x \in Savepoints, Entered(x), NEW m \in (within[x] \cup {Root}) \ {x}
               PROVE  queue'[m] # <<>> /\ Head(queue'[m]) \in within[x]
    BY DEF Path
  <2>1. m \in Nodes /\ Held(m) /\ Head(queue[m]) \in within[x]
    <3>1. within[x] \subseteq Nodes
      BY Distinct DEF TransactionsInv, TypeOK
    <3>2. queue[m] # <<>> /\ Head(queue[m]) \in within[x]
      BY DEF TransactionsInv, Nested, Path
    <3>3. Entered(Head(queue[m]))
      BY <3>2 DEF TransactionsInv, Nested, Upwards
    <3> QED BY <3>1, <3>2, <3>3, Distinct DEF Held
  <2> QED BY <2>1
<1> QED BY <1>1, <1>2, <1>3, <1>4 DEF Nested

(* It grows at its end. *)
LEMMA NestedEnter ==
  ASSUME TransactionsInv, NEW n \in Nodes, NEW c \in Savepoints, Turn(n, c), node[c] = "waiting",
         node' = [node EXCEPT ![c] = "active"], queue' = queue, parent' = parent, within' = within
  PROVE  Nested'
<1>1. /\ node[n] = "active" /\ parent[c] = n /\ within[c] = within[n] \cup {c} /\ queue[n] # <<>> /\ Head(queue[n]) = c
      /\ n \in Savepoints \cup {Root} /\ within[Root] = {}
  BY TurnOfCall DEF TransactionsInv, Tree, Turn, Nodes
<1>2. \A x \in Savepoints : Entered(x)' <=> Entered(x) \/ x = c
  BY DEF TransactionsInv, TypeOK, Entered, Nodes
<1>3. ~Entered(c) /\ ~Held(n) /\ (n = Root \/ Entered(n))
  BY <1>1 DEF Held, Entered
<1>4. \A x \in Savepoints : Entered(x) => n # Root /\ x \in within[n]
  BY <1>3, Innermost
<1>5. \A y \in within[n] : Entered(y)
  BY <1>1, <1>3 DEF TransactionsInv, Nested, Upwards, Entered
<1>6. Upwards'
  <2>1. \A y \in within[c] : y \in Savepoints /\ (Entered(y) \/ y = c)
    BY <1>1, <1>5 DEF Entered
  <2>2. ASSUME NEW x \in Savepoints, Entered(x), NEW y \in within[x] PROVE y \in Savepoints /\ Entered(y)
    BY <2>2 DEF TransactionsInv, Nested, Upwards, Entered
  <2> QED BY <1>2, <2>1, <2>2 DEF Upwards
<1>7. Holder'
  BY <1>1, <1>2 DEF TransactionsInv, Nested, Holder
<1>8. Path'
  <2> SUFFICES ASSUME NEW x \in Savepoints, Entered(x)', NEW m \in (within[x] \cup {Root}) \ {x}
               PROVE  queue[m] # <<>> /\ Head(queue[m]) \in within[x]
    BY DEF Path
  <2>1. CASE x # c
    BY <1>2, <2>1 DEF TransactionsInv, Nested, Path
  <2>2. CASE x = c /\ m = n
    BY <1>1, <2>2
  <2>3. CASE x = c /\ m # n
    <3>1. n # Root /\ Entered(n) /\ m \in (within[n] \cup {Root}) \ {n}
      BY <1>1, <1>3, <2>3
    <3>2. queue[m] # <<>> /\ Head(queue[m]) \in within[n]
      BY <3>1 DEF TransactionsInv, Nested, Path, Entered
    <3> QED BY <1>1, <2>3, <3>2
  <2> QED BY <2>1, <2>2, <2>3
<1>9. Chain'
  BY <1>1, <1>2, <1>4 DEF TransactionsInv, Nested, Chain
<1> QED BY <1>6, <1>7, <1>8, <1>9 DEF Nested

(* It loses its end. *)
LEMMA NestedLeave ==
  ASSUME TransactionsInv, NEW n \in Savepoints, Entered(n), ~Held(n),
         \A x \in Savepoints : Entered(x)' <=> Entered(x) /\ x # n,
         parent' = parent, within' = within,
         \A m \in Nodes : m # n /\ m # parent[n] => queue'[m] = queue[m]
  PROVE  Nested'
<1>1. \A x \in Savepoints : Entered(x) => x \in within[n]
  BY Innermost DEF Nodes
<1>2. ASSUME NEW x \in Savepoints, Entered(x), x # n PROVE n \notin within[x]
  BY <1>2 DEF TransactionsInv, Nested, Path, Upwards, Held
<1>3. Upwards'
  BY <1>2 DEF TransactionsInv, Nested, Upwards, TypeOK, Entered
<1>4. Holder'
  <2> SUFFICES ASSUME NEW x \in Savepoints, Entered(x), x # n
               PROVE  queue'[parent[x]] # <<>> /\ Head(queue'[parent[x]]) = x
    BY DEF Holder
  <2>1. parent[x] \in Nodes /\ queue[parent[x]] # <<>> /\ Head(queue[parent[x]]) = x
    BY DEF TransactionsInv, Nested, Holder, Tree, Entered
  <2>2. parent[x] # parent[n]
    BY <2>1 DEF TransactionsInv, Nested, Holder
  <2>3. parent[x] # n
    BY <2>1 DEF Held
  <2> QED BY <2>1, <2>2, <2>3
<1>5. Path'
  <2> SUFFICES ASSUME NEW x \in Savepoints, Entered(x), x # n, NEW m \in (within[x] \cup {Root}) \ {x}
               PROVE  queue'[m] # <<>> /\ Head(queue'[m]) \in within[x]
    BY DEF Path
  <2>1. queue[m] # <<>> /\ Head(queue[m]) \in within[x]
    BY DEF TransactionsInv, Nested, Path
  <2>2. m # n /\ m # parent[n]
    <3>1. m # n
      BY <1>2, Distinct
    <3>2. Head(queue[parent[n]]) = n
      BY DEF TransactionsInv, Nested, Holder
    <3> QED BY <1>2, <2>1, <3>1, <3>2
  <2>3. m \in Nodes
    BY Distinct DEF TransactionsInv, TypeOK
  <2> QED BY <2>1, <2>2, <2>3
<1>6. Chain'
  BY DEF TransactionsInv, Nested, Chain
<1> QED BY <1>3, <1>4, <1>5, <1>6 DEF Nested
-----------------------------------------------------------------------------
(* The queues when a call is added to one, and when one gives the mutex to the next. *)
LEMMA LocksFacts ==
  ASSUME TypeOK, NEW n \in Nodes, NEW item \in Items, queue' = Locks(n, item)
  PROVE  /\ queue' \in [Nodes -> Seq(Items)]
         /\ queue'[n] = Append(queue[n], item) /\ queue'[n] # <<>> /\ ToSet(queue'[n]) = ToSet(queue[n]) \cup {item}
         /\ \A m \in Nodes \ {n} : queue'[m] = queue[m]
         /\ \A m \in Nodes : queue[m] # <<>> => queue'[m] # <<>> /\ Head(queue'[m]) = Head(queue[m])
<1>1. queue \in [Nodes -> Seq(Items)] /\ queue' = [queue EXCEPT ![n] = Append(@, item)]
  BY DEF TypeOK, Locks, Items
<1>2. /\ Append(queue[n], item) \in Seq(Items) /\ Append(queue[n], item) # <<>>
      /\ ToSet(Append(queue[n], item)) = ToSet(queue[n]) \cup {item}
      /\ queue[n] # <<>> => Head(Append(queue[n], item)) = Head(queue[n])
  BY <1>1, AppendFacts
<1>3. queue'[n] = Append(queue[n], item) /\ \A m \in Nodes \ {n} : queue'[m] = queue[m]
  BY <1>1
<1>4. queue' \in [Nodes -> Seq(Items)]
  BY <1>1, <1>2
<1> QED BY <1>2, <1>3, <1>4

LEMMA PassesFacts ==
  ASSUME TypeOK, NEW n \in Nodes, queue[n] # <<>>
  PROVE  /\ Passes(n) \in [Nodes -> Seq(Items)]
         /\ Passes(n)[n] = Tail(queue[n]) /\ ToSet(Passes(n)[n]) \subseteq ToSet(queue[n])
         /\ \A m \in Nodes \ {n} : Passes(n)[m] = queue[m]
<1>1. queue \in [Nodes -> Seq(Items)] /\ Passes(n) = [queue EXCEPT ![n] = Tail(@)]
  BY DEF TypeOK, Passes, Items
<1>2. Tail(queue[n]) \in Seq(Items) /\ ToSet(Tail(queue[n])) \subseteq ToSet(queue[n])
  BY <1>1, TailFacts
<1> QED BY <1>1, <1>2

(* transaction() of n settles: its queue is empty, and the one around it passes on. *)
LEMMA LeavesFacts ==
  ASSUME TransactionsInv, NEW n \in Nodes, node[n] \in {"closing", "throwing"}, NEW queues,
         \/ queues = queue /\ queue[n] = <<>>
         \/ queues = Passes(n) /\ \E command \in Closings : queue[n] = <<command>>,
         Leaves(n, queues)
  PROVE  /\ node' = [node EXCEPT ![n] = IF node[n] = "throwing" THEN "rejected" ELSE "resolved"]
         /\ queue' \in [Nodes -> Seq(Items)] /\ queue'[n] = <<>> /\ ~Held(n)
         /\ n # Root => Entered(n) /\ parent[n] \in Nodes /\ parent[n] # n /\ node[parent[n]] = "active"
         /\ \A m \in Nodes : m # n /\ (n # Root => m # parent[n]) => queue'[m] = queue[m]
         /\ n # Root => ToSet(queue'[parent[n]]) \subseteq ToSet(queue[parent[n]])
         /\ \A m \in Nodes : Shrinks(queue'[m], queue[m])
<1>1. /\ node' = [node EXCEPT ![n] = IF node[n] = "throwing" THEN "rejected" ELSE "resolved"]
      /\ queue' = IF n = Root THEN queues ELSE [queues EXCEPT ![parent[n]] = Tail(@)]
  BY DEF Leaves
<1>2. queue \in [Nodes -> Seq(Items)]
  BY DEF TransactionsInv, TypeOK, Items
<1>3. /\ queues \in [Nodes -> Seq(Items)] /\ queues[n] = <<>>
      /\ \A m \in Nodes \ {n} : queues[m] = queue[m]
  BY <1>2, PassesFacts, SingleFacts DEF TransactionsInv
<1>4. ~Held(n)
  BY SingleFacts, Distinct DEF Held, Entered
<1>5. \A m \in Nodes : Shrinks(queues[m], queue[m])
  BY <1>3, SingleFacts DEF Shrinks
<1>6. CASE n = Root
  BY <1>1, <1>3, <1>4, <1>5, <1>6
<1>7. CASE n # Root
  <2> DEFINE p == parent[n]
  <2>1. Entered(n) /\ p \in Nodes /\ queue[p] # <<>> /\ Head(queue[p]) = n
    BY <1>7 DEF TransactionsInv, Nested, Holder, Tree, Entered, Nodes
  <2>2. p # n
    BY <1>4, <2>1 DEF Held
  <2>3. node[p] = "active"
    <3>1. Turn(p, n)
      BY <2>1 DEF Turn
    <3> QED BY <2>1, <3>1, TurnOfCall DEF Entered
  <2>4. queues[p] = queue[p] /\ Tail(queue[p]) \in Seq(Items) /\ ToSet(Tail(queue[p])) \subseteq ToSet(queue[p])
    BY <1>2, <1>3, <2>1, <2>2, TailFacts
  <2> HIDE DEF p
  <2>5. queue' = [queues EXCEPT ![p] = Tail(queues[p])]
    BY <1>1, <1>7 DEF p
  <2>6. queue' \in [Nodes -> Seq(Items)] /\ queue'[p] = Tail(queue[p]) /\ \A m \in Nodes \ {p} : queue'[m] = queues[m]
    BY <1>3, <2>1, <2>4, <2>5
  <2>7. \A m \in Nodes : Shrinks(queue'[m], queue[m])
    BY <1>5, <2>1, <2>6 DEF Shrinks
  <2> QED BY <1>1, <1>3, <1>4, <2>1, <2>2, <2>3, <2>4, <2>6, <2>7 DEF p
<1> QED BY <1>6, <1>7
-----------------------------------------------------------------------------
(* Steps that call nothing. *)
LEMMA CallsStay ==
  ASSUME TransactionsInv, UNCHANGED <<parent, within, issuer>>,
         \A n \in Nodes : node'[n] = "none" <=> node[n] = "none",
         \A s \in Stmts : stmt'[s] = "none" <=> stmt[s] = "none",
         \A n \in Nodes : ToSet(queue'[n]) \subseteq ToSet(queue[n]) \cup Closings
  PROVE  Callers' /\ Tree'
<1>1. Callers'
  <2> SUFFICES ASSUME NEW n \in Nodes
               PROVE  /\ \A s \in Stmts \cap ToSet(queue'[n]) : issuer[s] = n /\ stmt'[s] # "none"
                      /\ \A c \in Savepoints \cap ToSet(queue'[n]) : parent[c] = n /\ node'[c] # "none"
    BY DEF Callers
  <2>1. \A s \in Stmts \cap ToSet(queue'[n]) : s \in ToSet(queue[n])
    BY Distinct
  <2>2. \A c \in Savepoints \cap ToSet(queue'[n]) : c \in ToSet(queue[n]) /\ c \in Nodes
    BY Distinct
  <2> QED BY <2>1, <2>2 DEF TransactionsInv, Callers
<1>2. Tree'
  BY Distinct DEF TransactionsInv, Tree
<1> QED BY <1>1, <1>2

(* Steps that leave the log as it is, or end the transaction of the server. *)
LEMMA LogStays ==
  ASSUME TransactionsInv,
         \A x \in Savepoints : Entered(x)' => Entered(x),
         \A n \in Nodes : node[n] # "none" => within'[n] = within[n],
         \A s \in Stmts : stmt[s] # "none" => issuer'[s] = issuer[s] /\ stmt'[s] # "none",
         (server'.log = server.log /\ server'.mark = server.mark) \/ server' = NotOpen
  PROVE  Logged' /\ Marks'
<1>1. CASE server' = NotOpen
  <2>1. server'.log = <<>> /\ Len(server'.log) = 0 /\ \A n \in Nodes : server'.mark[n] = 0
    BY <1>1 DEF NotOpen
  <2>2. Logged'
    BY <2>1 DEF Logged
  <2>3. Marks'
    <3> SUFFICES ASSUME NEW x \in Savepoints, Entered(x)
                 PROVE  /\ server'.mark[x] <= Len(server'.log)
                        /\ \A y \in within'[x] : server'.mark[y] <= server'.mark[x]
                        /\ \A i \in server'.mark[x] + 1 .. Len(server'.log) : x \in within'[issuer'[server'.log[i]]]
      BY DEF Marks
    <3>1. x \in Nodes /\ within'[x] \subseteq Nodes
      BY Distinct DEF TransactionsInv, TypeOK, Entered
    <3> QED BY <2>1, <3>1
  <2> QED BY <2>2, <2>3
<1>2. CASE server'.log = server.log /\ server'.mark = server.mark
  <2>1. Logged'
    BY <1>2 DEF TransactionsInv, Logged
  <2>2. Marks'
    <3> SUFFICES ASSUME NEW x \in Savepoints, Entered(x)
                 PROVE  /\ server.mark[x] <= Len(server.log)
                        /\ \A y \in within'[x] : server.mark[y] <= server.mark[x]
                        /\ \A i \in server.mark[x] + 1 .. Len(server.log) : x \in within'[issuer'[server.log[i]]]
      BY <1>2 DEF Marks
    <3>1. /\ server.mark[x] <= Len(server.log)
          /\ \A y \in within[x] : server.mark[y] <= server.mark[x]
          /\ \A i \in server.mark[x] + 1 .. Len(server.log) : x \in within[issuer[server.log[i]]]
      BY DEF TransactionsInv, Marks
    <3>2. within'[x] = within[x] /\ server.mark[x] \in Nat /\ Len(server.log) \in Nat
      BY Distinct DEF Entered, TransactionsInv, TypeOK
    <3>3. ASSUME NEW i \in server.mark[x] + 1 .. Len(server.log)
          PROVE  within'[issuer'[server.log[i]]] = within[issuer[server.log[i]]]
      <4>1. i \in 1 .. Len(server.log)
        BY <3>2
      <4>2. server.log[i] \in Stmts /\ stmt[server.log[i]] # "none"
        BY <4>1 DEF TransactionsInv, Logged
      <4> QED BY <4>2 DEF TransactionsInv, Tree
    <3> QED BY <3>1, <3>2, <3>3
  <2> QED BY <2>1, <2>2
<1> QED BY <1>1, <1>2
-----------------------------------------------------------------------------
LEMMA ServerType ==
  ASSUME TypeOK
  PROVE  /\ NotOpen \in [open : BOOLEAN, aborted : BOOLEAN, log : Seq(Stmts), mark : [Nodes -> Nat]]
         /\ server.log \in Seq(Stmts) /\ Len(server.log) \in Nat /\ server.mark \in [Nodes -> Nat]
<1>1. <<>> \in Seq(Stmts)
  OBVIOUS
<1>2. [n \in Nodes |-> 0] \in [Nodes -> Nat]
  OBVIOUS
<1> QED BY <1>1, <1>2 DEF TypeOK, NotOpen

LEMMA BeginKeeps ==
  ASSUME TransactionsInv, Begin
  PROVE  TransactionsInv'
<1>1. /\ node[Root] = "waiting"
      /\ \/ node' = [node EXCEPT ![Root] = "rejected"] /\ server' = server
         \/ node' = [node EXCEPT ![Root] = "active"] /\ server' = [NotOpen EXCEPT !.open = TRUE]
      /\ parent' = parent /\ within' = within /\ closed' = closed /\ self' = self /\ queue' = queue /\ stmt' = stmt
      /\ issuer' = issuer /\ broken' = broken /\ unknown' = unknown /\ durable' = durable
  BY DEF Begin
<1>2. \A n \in Nodes : n # Root => node'[n] = node[n]
  BY <1>1 DEF TransactionsInv, TypeOK
<1>3. node'[Root] \in {"rejected", "active"} /\ queue[Root] = <<>>
  BY <1>1, Distinct DEF TransactionsInv, TypeOK, Queues
<1>4. [NotOpen EXCEPT !.open = TRUE] \in [open : BOOLEAN, aborted : BOOLEAN, log : Seq(Stmts), mark : [Nodes -> Nat]]
  BY ServerType DEF TransactionsInv
<1>5. TypeOK'
  <2>1. node' \in [Nodes -> {"none", "waiting", "active", "closing", "throwing", "resolved", "rejected"}]
    BY <1>1 DEF TransactionsInv, TypeOK
  <2>2. server' \in [open : BOOLEAN, aborted : BOOLEAN, log : Seq(Stmts), mark : [Nodes -> Nat]]
    BY <1>1, <1>4 DEF TransactionsInv, TypeOK
  <2> QED BY <1>1, <2>1, <2>2 DEF TransactionsInv, TypeOK
<1>6. \A x \in Savepoints : ~Entered(x)
  BY <1>3, Distinct DEF TransactionsInv, Nested, Path
<1>7. \A x \in Savepoints : ~Entered(x)'
  BY <1>2, <1>6, Distinct DEF Entered
<1>8. Queues'
  <2> SUFFICES ASSUME NEW n \in Nodes
               PROVE  /\ node'[n] \in {"none", "waiting", "resolved", "rejected"} => queue[n] = <<>>
                      /\ node'[n] = "closing" => queue[n] \in {<<>>, <<"commit">>}
                      /\ node'[n] = "throwing" => queue[n] \in {<<>>, <<"rollback">>}
                      /\ node'[n] = "active" => "commit" \notin ToSet(queue[n]) /\ "rollback" \notin ToSet(queue[n])
    BY <1>1 DEF Queues
  <2>1. CASE n = Root
    BY <1>3, <2>1, SingleFacts
  <2>2. CASE n # Root
    BY <1>2, <2>2 DEF TransactionsInv, Queues
  <2> QED BY <2>1, <2>2
<1>9. Callers' /\ Tree'
  <2>1. \A n \in Nodes : node'[n] = "none" <=> node[n] = "none"
    BY <1>1, <1>2, <1>3
  <2> QED BY <1>1, <2>1, CallsStay
<1>10. Nested'
  BY <1>7 DEF Nested, Upwards, Holder, Path, Chain
<1>11. Logged' /\ Marks'
  <2>1. server'.log = server.log \/ server'.log = <<>>
    BY <1>1, <1>4 DEF NotOpen
  <2> QED BY <1>1, <1>7, <2>1 DEF TransactionsInv, Logged, Marks
<1>12. Committed'
  BY <1>1 DEF TransactionsInv, Committed
<1> QED BY <1>5, <1>8, <1>9, <1>10, <1>11, <1>12 DEF TransactionsInv

(* Queries called on a handle, whether they wait or fail at once. *)
LEMMA CalledKeeps ==
  ASSUME TransactionsInv, NEW n \in Nodes, NEW s \in Stmts, node[n] = "active", stmt[s] = "none",
         issuer' = [issuer EXCEPT ![s] = n],
         \/ stmt' = [stmt EXCEPT ![s] = "failed"] /\ queue' = queue
         \/ stmt' = [stmt EXCEPT ![s] = "waiting"] /\ queue' = Locks(n, s),
         UNCHANGED <<node, parent, within, closed, self, server, broken, unknown, durable>>
  PROVE  TransactionsInv'
<1>1. /\ stmt'[s] # "none" /\ issuer'[s] = n
      /\ \A r \in Stmts \ {s} : stmt'[r] = stmt[r] /\ issuer'[r] = issuer[r]
  BY DEF TransactionsInv, TypeOK
<1>2. /\ queue' \in [Nodes -> Seq(Items)] /\ ToSet(queue'[n]) \subseteq ToSet(queue[n]) \cup {s}
      /\ \A m \in Nodes \ {n} : queue'[m] = queue[m]
      /\ \A m \in Nodes : queue[m] # <<>> => queue'[m] # <<>> /\ Head(queue'[m]) = Head(queue[m])
  <2>1. CASE queue' = queue
    BY <2>1 DEF TransactionsInv, TypeOK, Items
  <2>2. CASE queue' = Locks(n, s)
    BY <2>2, LocksFacts, Distinct DEF TransactionsInv
  <2> QED BY <2>1, <2>2
<1>3. TypeOK'
  <2>1. stmt' \in [Stmts -> {"none", "waiting", "ok", "failed"}] /\ issuer' \in [Stmts -> Nodes \cup {NoNode}]
    BY DEF TransactionsInv, TypeOK
  <2> QED BY <1>2, <2>1 DEF TransactionsInv, TypeOK, Items
<1>4. Queues'
  <2>1. s \notin Closings
    BY Distinct
  <2>2. ASSUME NEW m \in Nodes, m # n
        PROVE  /\ node[m] \in {"none", "waiting", "resolved", "rejected"} => queue'[m] = <<>>
               /\ node[m] = "closing" => queue'[m] \in {<<>>, <<"commit">>}
               /\ node[m] = "throwing" => queue'[m] \in {<<>>, <<"rollback">>}
               /\ node[m] = "active" => "commit" \notin ToSet(queue'[m]) /\ "rollback" \notin ToSet(queue'[m])
    BY <1>2, <2>2 DEF TransactionsInv, Queues
  <2>3. "commit" \notin ToSet(queue'[n]) /\ "rollback" \notin ToSet(queue'[n])
    BY <1>2, <2>1 DEF TransactionsInv, Queues, Closings
  <2> QED BY <2>2, <2>3 DEF Queues
<1>5. Callers'
  <2> SUFFICES ASSUME NEW m \in Nodes
               PROVE  /\ \A r \in Stmts \cap ToSet(queue'[m]) : issuer'[r] = m /\ stmt'[r] # "none"
                      /\ \A c \in Savepoints \cap ToSet(queue'[m]) : parent[c] = m /\ node[c] # "none"
    BY DEF Callers
  <2>1. /\ \A r \in Stmts \cap ToSet(queue[m]) : issuer[r] = m /\ stmt[r] # "none" /\ r # s
        /\ \A c \in Savepoints \cap ToSet(queue[m]) : parent[c] = m /\ node[c] # "none"
    BY DEF TransactionsInv, Callers
  <2>2. CASE m = n
    BY <1>1, <1>2, <2>1, <2>2, Distinct
  <2>3. CASE m # n
    BY <1>1, <1>2, <2>1, <2>3
  <2> QED BY <2>2, <2>3
<1>6. Tree'
  BY <1>1 DEF TransactionsInv, Tree
<1>7. Nested'
  BY <1>2, NestedStays DEF Entered, Held
<1>8. Logged' /\ Marks'
  BY <1>1, LogStays DEF Entered
<1>9. Committed'
  BY DEF TransactionsInv, Committed
<1> QED BY <1>3, <1>4, <1>5, <1>6, <1>7, <1>8, <1>9 DEF TransactionsInv

LEMMA OpenKeeps ==
  ASSUME TransactionsInv, NEW n \in Nodes, NEW c \in Savepoints, Open(n, c)
  PROVE  TransactionsInv'
<1>1. /\ node[n] = "active" /\ node[c] = "none"
      /\ node' = [node EXCEPT ![c] = "waiting"] /\ parent' = [parent EXCEPT ![c] = n]
      /\ within' = [within EXCEPT ![c] = within[n] \cup {c}] /\ queue' = Locks(n, c)
      /\ closed' = closed /\ self' = self /\ stmt' = stmt /\ issuer' = issuer /\ server' = server
      /\ broken' = broken /\ unknown' = unknown /\ durable' = durable
  BY DEF Open, Usable, NextSavepoint
<1>2. /\ c \in Nodes /\ c # Root /\ c # n
      /\ node'[c] = "waiting" /\ parent'[c] = n /\ within'[c] = within[n] \cup {c}
      /\ \A m \in Nodes \ {c} : node'[m] = node[m] /\ parent'[m] = parent[m] /\ within'[m] = within[m]
  BY <1>1, Distinct DEF TransactionsInv, TypeOK
<1>3. /\ queue' \in [Nodes -> Seq(Items)] /\ ToSet(queue'[n]) = ToSet(queue[n]) \cup {c}
      /\ \A m \in Nodes \ {n} : queue'[m] = queue[m]
      /\ \A m \in Nodes : queue[m] # <<>> => queue'[m] # <<>> /\ Head(queue'[m]) = Head(queue[m])
  BY <1>1, LocksFacts, Distinct DEF TransactionsInv
<1>4. TypeOK'
  <2>1. /\ node' \in [Nodes -> {"none", "waiting", "active", "closing", "throwing", "resolved", "rejected"}]
        /\ parent' \in [Nodes -> Nodes \cup {NoNode}] /\ within' \in [Nodes -> SUBSET Savepoints]
    BY <1>1 DEF TransactionsInv, TypeOK
  <2> QED BY <1>1, <1>3, <2>1 DEF TransactionsInv, TypeOK, Items
<1>5. Queues'
  <2> SUFFICES ASSUME NEW m \in Nodes
               PROVE  /\ node'[m] \in {"none", "waiting", "resolved", "rejected"} => queue'[m] = <<>>
                      /\ node'[m] = "closing" => queue'[m] \in {<<>>, <<"commit">>}
                      /\ node'[m] = "throwing" => queue'[m] \in {<<>>, <<"rollback">>}
                      /\ node'[m] = "active" => "commit" \notin ToSet(queue'[m]) /\ "rollback" \notin ToSet(queue'[m])
    BY DEF Queues
  <2>1. CASE m = n
    <3>1. "commit" # c /\ "rollback" # c
      BY Distinct DEF Closings
    <3> QED BY <1>1, <1>2, <1>3, <2>1, <3>1 DEF TransactionsInv, Queues
  <2>2. CASE m = c
    BY <1>1, <1>2, <1>3, <2>2 DEF TransactionsInv, Queues
  <2>3. CASE m # n /\ m # c
    BY <1>2, <1>3, <2>3 DEF TransactionsInv, Queues
  <2> QED BY <2>1, <2>2, <2>3
<1>6. Callers'
  <2> SUFFICES ASSUME NEW m \in Nodes
               PROVE  /\ \A s \in Stmts \cap ToSet(queue'[m]) : issuer[s] = m /\ stmt[s] # "none"
                      /\ \A d \in Savepoints \cap ToSet(queue'[m]) : parent'[d] = m /\ node'[d] # "none"
    BY <1>1 DEF Callers
  <2>1. /\ \A s \in Stmts \cap ToSet(queue[m]) : issuer[s] = m /\ stmt[s] # "none"
        /\ \A d \in Savepoints \cap ToSet(queue[m]) : parent[d] = m /\ node[d] # "none"
    BY DEF TransactionsInv, Callers
  <2>2. \A d \in Savepoints \cap ToSet(queue[m]) : parent'[d] = m /\ node'[d] # "none"
    BY <1>1, <1>2, <2>1, Distinct
  <2>3. CASE m = n
    BY <1>2, <1>3, <2>1, <2>2, <2>3, Distinct
  <2>4. CASE m # n
    BY <1>3, <2>1, <2>2, <2>4
  <2> QED BY <2>3, <2>4
<1>7. Tree'
  <2>1. within'[Root] = {}
    BY <1>2, Distinct DEF TransactionsInv, Tree
  <2>2. ASSUME NEW d \in Savepoints, node'[d] # "none"
        PROVE  parent'[d] \in Nodes /\ node'[parent'[d]] # "none" /\ within'[d] = within'[parent'[d]] \cup {d}
    <3>1. CASE d = c
      BY <1>1, <1>2, <3>1
    <3>2. CASE d # c
      <4>1. d \in Nodes /\ node[d] # "none" /\ parent'[d] = parent[d]
        BY <1>2, <2>2, <3>2, Distinct
      <4>2. parent[d] \in Nodes /\ node[parent[d]] # "none" /\ within[d] = within[parent[d]] \cup {d}
        BY <4>1 DEF TransactionsInv, Tree
      <4>3. parent[d] # c
        BY <1>1, <4>2
      <4> QED BY <1>2, <3>2, <4>1, <4>2, <4>3
    <3> QED BY <3>1, <3>2
  <2>3. \A s \in Stmts : stmt'[s] # "none" => issuer'[s] \in Nodes /\ node'[issuer'[s]] # "none"
    BY <1>1, <1>2 DEF TransactionsInv, Tree
  <2> QED BY <2>1, <2>2, <2>3 DEF Tree
<1>8. \A x \in Savepoints : Entered(x)' <=> Entered(x)
  BY <1>1, <1>2, Distinct DEF Entered
<1>9. Nested'
  <2>1. \A x \in Savepoints : Entered(x) => within'[x] = within[x] /\ parent'[x] = parent[x]
    BY <1>1, <1>2, Distinct DEF Entered
  <2> QED BY <1>3, <1>8, <2>1, NestedStays DEF Held
<1>10. Logged' /\ Marks'
  BY <1>1, <1>2, <1>8, LogStays
<1>11. Committed'
  BY <1>1, <1>2, Distinct DEF TransactionsInv, Committed
<1> QED BY <1>4, <1>5, <1>6, <1>7, <1>9, <1>10, <1>11 DEF TransactionsInv

LEMMA ExecuteKeeps ==
  ASSUME TransactionsInv, NEW n \in Nodes, NEW s \in Stmts, Execute(n, s)
  PROVE  TransactionsInv'
<1>1. /\ Turn(n, s) /\ queue' = Passes(n)
      /\ \/ stmt' = [stmt EXCEPT ![s] = "ok"] /\ server' = [server EXCEPT !.log = Append(@, s)]
         \/ /\ stmt' = [stmt EXCEPT ![s] = "failed"]
            /\ server' = [server EXCEPT !.aborted = @ \/ (server.open /\ ~OuterClosed(n))]
      /\ node' = node /\ parent' = parent /\ within' = within /\ closed' = closed /\ self' = self
      /\ issuer' = issuer /\ broken' = broken /\ unknown' = unknown /\ durable' = durable
  BY DEF Execute
<1>2. node[n] = "active" /\ queue[n] # <<>> /\ issuer[s] = n /\ stmt[s] # "none" /\ ~Held(n)
  BY <1>1, TurnOfCall
<1>3. /\ queue' \in [Nodes -> Seq(Items)] /\ ToSet(queue'[n]) \subseteq ToSet(queue[n])
      /\ \A m \in Nodes \ {n} : queue'[m] = queue[m]
  BY <1>1, <1>2, PassesFacts DEF TransactionsInv
<1>4. stmt'[s] \in {"ok", "failed"} /\ \A r \in Stmts \ {s} : stmt'[r] = stmt[r]
  BY <1>1 DEF TransactionsInv, TypeOK
<1>5. /\ server.log \in Seq(Stmts) /\ Len(server.log) \in Nat /\ Append(server.log, s) \in Seq(Stmts)
      /\ Len(Append(server.log, s)) = Len(server.log) + 1 /\ Append(server.log, s)[Len(server.log) + 1] = s
      /\ \A i \in 1 .. Len(server.log) : Append(server.log, s)[i] = server.log[i]
  <2>1. server.log \in Seq(Stmts)
    BY ServerType DEF TransactionsInv
  <2> QED BY <2>1
<1>6. /\ server' \in [open : BOOLEAN, aborted : BOOLEAN, log : Seq(Stmts), mark : [Nodes -> Nat]]
      /\ server'.mark = server.mark /\ server'.open = server.open
      /\ server'.log = server.log \/ (server'.log = Append(server.log, s) /\ stmt'[s] = "ok")
  <2> DEFINE aborts == server.aborted \/ (server.open /\ ~OuterClosed(n))
  <2>1. aborts \in BOOLEAN
    BY DEF TransactionsInv, TypeOK
  <2>2. \/ server' = [server EXCEPT !.log = Append(server.log, s)] /\ stmt' = [stmt EXCEPT ![s] = "ok"]
        \/ server' = [server EXCEPT !.aborted = aborts]
    BY <1>1
  <2> HIDE DEF aborts
  <2> QED BY <1>5, <2>1, <2>2 DEF TransactionsInv, TypeOK
<1>7. TypeOK'
  <2>1. stmt' \in [Stmts -> {"none", "waiting", "ok", "failed"}]
    BY <1>1 DEF TransactionsInv, TypeOK
  <2> QED BY <1>1, <1>3, <1>6, <2>1 DEF TransactionsInv, TypeOK, Items
<1>8. Queues'
  BY <1>1, <1>2, <1>3 DEF TransactionsInv, Queues
<1>9. Callers' /\ Tree'
  BY <1>1, <1>2, <1>3, <1>4, CallsStay
<1>10. Nested'
  BY <1>1, <1>2, <1>3, NestedStays DEF Entered, Held
<1>11. Logged'
  <2>1. \A i \in 1 .. Len(server.log) : server.log[i] \in Stmts /\ stmt'[server.log[i]] # "none"
    BY <1>4 DEF TransactionsInv, Logged
  <2>2. CASE server'.log = server.log
    BY <2>1, <2>2 DEF Logged
  <2>3. CASE server'.log = Append(server.log, s)
    <3>1. ASSUME NEW i \in 1 .. Len(server.log) + 1
          PROVE  server'.log[i] \in Stmts /\ stmt'[server'.log[i]] # "none"
      <4>1. CASE i = Len(server.log) + 1
        BY <1>4, <1>5, <2>3, <4>1
      <4>2. CASE i # Len(server.log) + 1
        <5>1. i \in 1 .. Len(server.log)
          BY <1>5, <4>2
        <5> QED BY <1>5, <2>1, <2>3, <5>1
      <4> QED BY <4>1, <4>2
    <3> QED BY <1>5, <2>3, <3>1 DEF Logged
  <2> QED BY <1>6, <2>2, <2>3
<1>12. Marks'
  <2> SUFFICES ASSUME NEW x \in Savepoints, Entered(x)
               PROVE  /\ server.mark[x] <= Len(server'.log)
                      /\ \A y \in within[x] : server.mark[y] <= server.mark[x]
                      /\ \A i \in server.mark[x] + 1 .. Len(server'.log) : x \in within[issuer[server'.log[i]]]
    BY <1>1, <1>6 DEF Marks, Entered
  <2>1. /\ server.mark[x] <= Len(server.log)
        /\ \A y \in within[x] : server.mark[y] <= server.mark[x]
        /\ \A i \in server.mark[x] + 1 .. Len(server.log) : x \in within[issuer[server.log[i]]]
    BY DEF TransactionsInv, Marks
  <2>2. x \in within[n]
    BY <1>2, Innermost DEF Entered, Nodes
  <2>3. server.mark[x] \in Nat
    BY ServerType, Distinct DEF TransactionsInv
  <2>4. CASE server'.log = server.log
    BY <2>1, <2>4
  <2>5. CASE server'.log = Append(server.log, s)
    <3>1. server.mark[x] <= Len(server'.log)
      BY <1>5, <2>1, <2>3, <2>5
    <3>2. ASSUME NEW i \in server.mark[x] + 1 .. Len(server'.log) PROVE x \in within[issuer[server'.log[i]]]
      <4>1. CASE i = Len(server.log) + 1
        BY <1>2, <1>5, <2>2, <2>5, <4>1
      <4>2. CASE i # Len(server.log) + 1
        <5>1. i \in server.mark[x] + 1 .. Len(server.log) /\ i \in 1 .. Len(server.log)
          BY <1>5, <2>3, <2>5, <4>2
        <5>2. server'.log[i] = server.log[i]
          BY <1>5, <2>5, <5>1
        <5> QED BY <2>1, <5>1, <5>2
      <4> QED BY <4>1, <4>2
    <3> QED BY <2>1, <3>1, <3>2
  <2> QED BY <1>6, <2>4, <2>5
<1>13. Committed'
  BY <1>1 DEF TransactionsInv, Committed
<1> QED BY <1>7, <1>8, <1>9, <1>10, <1>11, <1>12, <1>13 DEF TransactionsInv

LEMMA EnterKeeps ==
  ASSUME TransactionsInv, NEW n \in Nodes, NEW c \in Savepoints, Enter(n, c)
  PROVE  TransactionsInv'
<1>1. /\ Turn(n, c) /\ node[c] = "waiting"
      /\ parent' = parent /\ within' = within /\ closed' = closed /\ self' = self /\ stmt' = stmt
      /\ issuer' = issuer /\ broken' = broken /\ unknown' = unknown /\ durable' = durable
      /\ \/ /\ node' = [node EXCEPT ![c] = "active"] /\ queue' = queue
            /\ server' = [server EXCEPT !.mark[c] = Len(server.log)]
         \/ node' = [node EXCEPT ![c] = "rejected"] /\ queue' = Passes(n) /\ server' = server
  BY DEF Enter
<1>2. node[n] = "active" /\ queue[n] # <<>> /\ parent[c] = n /\ c \in Nodes /\ c # Root /\ c # n
      /\ Head(queue[n]) = c /\ queue[c] = <<>>
  BY <1>1, TurnOfCall, Distinct DEF Turn, TransactionsInv, Queues
<1>3. ~Held(n) /\ ~Entered(c)
  BY <1>1, <1>2 DEF Held, Entered
<1>4. node'[c] \in {"active", "rejected"} /\ \A m \in Nodes \ {c} : node'[m] = node[m]
  BY <1>1, <1>2 DEF TransactionsInv, TypeOK
<1>5. /\ queue' \in [Nodes -> Seq(Items)] /\ ToSet(queue'[n]) \subseteq ToSet(queue[n])
      /\ \A m \in Nodes \ {n} : queue'[m] = queue[m]
  BY <1>1, <1>2, PassesFacts DEF TransactionsInv, TypeOK, Items
<1>6. server.log \in Seq(Stmts) /\ Len(server.log) \in Nat /\ server.mark \in [Nodes -> Nat]
  BY ServerType DEF TransactionsInv
<1>7. CASE node' = [node EXCEPT ![c] = "rejected"] /\ queue' = Passes(n) /\ server' = server
  <2>1. TypeOK'
    <3>1. node' \in [Nodes -> {"none", "waiting", "active", "closing", "throwing", "resolved", "rejected"}]
      BY <1>7 DEF TransactionsInv, TypeOK
    <3> QED BY <1>1, <1>5, <1>7, <3>1 DEF TransactionsInv, TypeOK, Items
  <2>2. node'[c] = "rejected"
    BY <1>2, <1>7 DEF TransactionsInv, TypeOK
  <2>3. Queues'
    <3> SUFFICES ASSUME NEW m \in Nodes
                 PROVE  /\ node'[m] \in {"none", "waiting", "resolved", "rejected"} => queue'[m] = <<>>
                        /\ node'[m] = "closing" => queue'[m] \in {<<>>, <<"commit">>}
                        /\ node'[m] = "throwing" => queue'[m] \in {<<>>, <<"rollback">>}
                        /\ node'[m] = "active" => "commit" \notin ToSet(queue'[m]) /\ "rollback" \notin ToSet(queue'[m])
      BY DEF Queues
    <3>1. CASE m = c
      BY <1>2, <1>5, <2>2, <3>1
    <3>2. CASE m = n
      BY <1>2, <1>4, <1>5, <3>2 DEF TransactionsInv, Queues
    <3>3. CASE m # c /\ m # n
      BY <1>4, <1>5, <3>3 DEF TransactionsInv, Queues
    <3> QED BY <3>1, <3>2, <3>3
  <2>4. \A m \in Nodes : node'[m] = "none" <=> node[m] = "none"
    BY <1>1, <1>4
  <2>5. \A x \in Savepoints : Entered(x)' <=> Entered(x)
    BY <1>3, <1>4, <2>2, Distinct DEF Entered
  <2>6. Callers' /\ Tree'
    BY <1>1, <1>5, <2>4, CallsStay
  <2>7. Nested'
    BY <1>1, <1>3, <1>5, <2>5, NestedStays DEF Held
  <2>8. Logged' /\ Marks'
    BY <1>1, <1>7, <2>5, LogStays
  <2>9. Committed'
    BY <1>1, <1>2, <1>4, Distinct DEF TransactionsInv, Committed
  <2> QED BY <2>1, <2>3, <2>6, <2>7, <2>8, <2>9 DEF TransactionsInv
<1>8. CASE /\ node' = [node EXCEPT ![c] = "active"] /\ queue' = queue
           /\ server' = [server EXCEPT !.mark[c] = Len(server.log)]
  <2> DEFINE marks == [server.mark EXCEPT ![c] = Len(server.log)]
  <2>1. /\ marks \in [Nodes -> Nat] /\ marks[c] = Len(server.log)
        /\ \A m \in Nodes \ {c} : marks[m] = server.mark[m]
    BY <1>2, <1>6
  <2>2. server' = [server EXCEPT !.mark = marks]
    BY <1>8 DEF TransactionsInv, TypeOK
  <2> HIDE DEF marks
  <2>3. /\ server' \in [open : BOOLEAN, aborted : BOOLEAN, log : Seq(Stmts), mark : [Nodes -> Nat]]
        /\ server'.log = server.log /\ server'.open = server.open /\ server'.mark = marks
    BY <2>1, <2>2 DEF TransactionsInv, TypeOK
  <2>4. TypeOK'
    <3>1. node' \in [Nodes -> {"none", "waiting", "active", "closing", "throwing", "resolved", "rejected"}]
      BY <1>8 DEF TransactionsInv, TypeOK
    <3> QED BY <1>1, <1>8, <2>3, <3>1 DEF TransactionsInv, TypeOK
  <2>5. node'[c] = "active"
    BY <1>2, <1>8 DEF TransactionsInv, TypeOK
  <2>6. Queues'
    <3>1. "commit" \notin ToSet(queue[c]) /\ "rollback" \notin ToSet(queue[c])
      BY <1>2, SingleFacts
    <3> QED BY <1>4, <1>8, <2>5, <3>1 DEF TransactionsInv, Queues
  <2>7. \A m \in Nodes : node'[m] = "none" <=> node[m] = "none"
    BY <1>1, <1>4
  <2>8. Callers' /\ Tree'
    BY <1>1, <1>5, <2>7, CallsStay
  <2>9. Nested'
    BY <1>1, <1>8, NestedEnter
  <2>10. Logged'
    BY <1>1, <2>3 DEF TransactionsInv, Logged
  <2>11. \A x \in Savepoints : Entered(x)' <=> Entered(x) \/ x = c
    BY <1>4, <2>5, Distinct DEF Entered
  <2>12. Marks'
    <3> SUFFICES ASSUME NEW x \in Savepoints, Entered(x)'
                 PROVE  /\ marks[x] <= Len(server.log)
                        /\ \A y \in within[x] : marks[y] <= marks[x]
                        /\ \A i \in marks[x] + 1 .. Len(server.log) : x \in within[issuer[server.log[i]]]
      BY <1>1, <2>3 DEF Marks
    <3>1. \A y \in Savepoints : Entered(y) =>
            /\ server.mark[y] <= Len(server.log)
            /\ \A z \in within[y] : server.mark[z] <= server.mark[y]
            /\ \A i \in server.mark[y] + 1 .. Len(server.log) : y \in within[issuer[server.log[i]]]
      BY DEF TransactionsInv, Marks
    <3>2. \A y \in Savepoints : y \in Nodes
      BY Distinct
    <3>3. CASE x = c
      <4>1. within[c] = within[n] \cup {c} /\ within[n] \subseteq Savepoints
        BY <1>1, <1>2 DEF TransactionsInv, Tree, TypeOK
      <4>2. \A y \in within[n] : Entered(y) /\ y # c
        <5>1. CASE n = Root
          BY <5>1 DEF TransactionsInv, Tree
        <5>2. CASE n # Root
          <6>1. Entered(n) /\ n \in Savepoints
            BY <1>2, <5>2 DEF Entered, Nodes
          <6> QED BY <1>3, <6>1 DEF TransactionsInv, Nested, Upwards
        <5> QED BY <5>1, <5>2
      <4>3. \A y \in within[c] : marks[y] <= marks[x]
        BY <1>6, <2>1, <3>1, <3>2, <3>3, <4>1, <4>2
      <4> QED BY <1>6, <2>1, <3>3, <4>3
    <3>4. CASE x # c
      <4>1. Entered(x) /\ marks[x] = server.mark[x]
        BY <2>1, <2>11, <3>2, <3>4
      <4>2. \A y \in within[x] : y \in Savepoints /\ y # c
        BY <1>3, <4>1 DEF TransactionsInv, Nested, Upwards, Entered
      <4> QED BY <2>1, <3>1, <3>2, <4>1, <4>2
    <3> QED BY <3>3, <3>4
  <2>13. Committed'
    BY <1>1, <1>2, <1>4, Distinct DEF TransactionsInv, Committed
  <2> QED BY <2>4, <2>6, <2>8, <2>9, <2>10, <2>12, <2>13 DEF TransactionsInv
<1> QED BY <1>1, <1>7, <1>8

LEMMA RollbackSelfKeeps ==
  ASSUME TransactionsInv, NEW n \in Nodes, RollbackSelf(n)
  PROVE  TransactionsInv'
<1>1. /\ node[n] = "active" /\ self' = [self EXCEPT ![n] = TRUE] /\ queue' = Locks(n, "rollbackSelf")
      /\ node' = node /\ parent' = parent /\ within' = within /\ closed' = closed /\ stmt' = stmt /\ issuer' = issuer
      /\ server' = server /\ broken' = broken /\ unknown' = unknown /\ durable' = durable
  BY DEF RollbackSelf
<1>2. "rollbackSelf" \in Items /\ "rollbackSelf" \in Closings
  BY DEF Items, Closings
<1>3. /\ queue' \in [Nodes -> Seq(Items)] /\ ToSet(queue'[n]) = ToSet(queue[n]) \cup {"rollbackSelf"}
      /\ \A m \in Nodes \ {n} : queue'[m] = queue[m]
      /\ \A m \in Nodes : queue[m] # <<>> => queue'[m] # <<>> /\ Head(queue'[m]) = Head(queue[m])
  BY <1>1, <1>2, LocksFacts DEF TransactionsInv
<1>4. TypeOK'
  <2>1. self' \in [Nodes -> BOOLEAN]
    BY <1>1 DEF TransactionsInv, TypeOK
  <2> QED BY <1>1, <1>3, <2>1 DEF TransactionsInv, TypeOK, Items
<1>5. Queues'
  BY <1>1, <1>3 DEF TransactionsInv, Queues
<1>6. Callers' /\ Tree'
  BY <1>1, <1>2, <1>3, CallsStay
<1>7. Nested'
  BY <1>1, <1>3, NestedStays DEF Entered, Held
<1>8. Logged' /\ Marks'
  BY <1>1, LogStays DEF Entered
<1>9. Committed'
  BY <1>1 DEF TransactionsInv, Committed
<1> QED BY <1>4, <1>5, <1>6, <1>7, <1>8, <1>9 DEF TransactionsInv

LEMMA CallbackKeeps ==
  ASSUME TransactionsInv, NEW n \in Nodes, NEW ok \in BOOLEAN, Callback(n, ok)
  PROVE  TransactionsInv'
<1> DEFINE command == AfterCallback(n, ok)
<1>1. /\ node[n] = "active" /\ queue[n] = <<>>
      /\ node' = [node EXCEPT ![n] = IF ok THEN "closing" ELSE "throwing"]
      /\ queue' = queue \/ queue' = Locks(n, command)
      /\ parent' = parent /\ within' = within /\ closed' = closed /\ self' = self /\ stmt' = stmt /\ issuer' = issuer
      /\ server' = server /\ broken' = broken /\ unknown' = unknown /\ durable' = durable
  BY DEF Callback, Awaited
<1>2. /\ command \in Items /\ command \in Closings /\ (ok => command = "commit") /\ (~ok => command = "rollback")
  BY DEF Items, Closings, AfterCallback
<1> HIDE DEF command
<1>3. /\ queue' \in [Nodes -> Seq(Items)] /\ queue'[n] \in {<<>>, <<command>>}
      /\ ToSet(queue'[n]) \subseteq ToSet(queue[n]) \cup {command}
      /\ \A m \in Nodes \ {n} : queue'[m] = queue[m]
  <2>1. CASE queue' = queue
    BY <1>1, <2>1 DEF TransactionsInv, TypeOK, Items
  <2>2. CASE queue' = Locks(n, command)
    <3>1. /\ queue' \in [Nodes -> Seq(Items)] /\ queue'[n] = Append(queue[n], command)
          /\ ToSet(queue'[n]) = ToSet(queue[n]) \cup {command}
          /\ \A m \in Nodes \ {n} : queue'[m] = queue[m]
      BY <1>2, <2>2, LocksFacts DEF TransactionsInv
    <3>2. Append(<<>>, command) = <<command>>
      BY SingleFacts
    <3> QED BY <1>1, <3>1, <3>2
  <2> QED BY <1>1, <2>1, <2>2
<1>4. /\ ok => node'[n] = "closing"
      /\ ~ok => node'[n] = "throwing"
      /\ \A m \in Nodes \ {n} : node'[m] = node[m]
  BY <1>1 DEF TransactionsInv, TypeOK
<1>5. TypeOK'
  <2>1. node' \in [Nodes -> {"none", "waiting", "active", "closing", "throwing", "resolved", "rejected"}]
    BY <1>1 DEF TransactionsInv, TypeOK
  <2> QED BY <1>1, <1>3, <2>1 DEF TransactionsInv, TypeOK, Items
<1>6. Queues'
  BY <1>2, <1>3, <1>4 DEF TransactionsInv, Queues
<1>7. \A m \in Nodes : node'[m] = "none" <=> node[m] = "none"
  BY <1>1, <1>4
<1>8. \A x \in Savepoints : Entered(x)' <=> Entered(x)
  BY <1>1, <1>4, Distinct DEF Entered
<1>9. Callers' /\ Tree'
  BY <1>1, <1>2, <1>3, <1>7, CallsStay
<1>10. Nested'
  BY <1>1, <1>3, <1>8, NestedStays DEF Held
<1>11. Logged' /\ Marks'
  BY <1>1, <1>8, LogStays
<1>12. Committed'
  BY <1>1, <1>4 DEF TransactionsInv, Committed
<1> QED BY <1>5, <1>6, <1>9, <1>10, <1>11, <1>12 DEF TransactionsInv
-----------------------------------------------------------------------------
(* What settling does to the calls and to the path. *)
LEMMA LeavesKeeps ==
  ASSUME TransactionsInv, NEW n \in Nodes, node[n] \in {"closing", "throwing"}, NEW queues,
         \/ queues = queue /\ queue[n] = <<>>
         \/ queues = Passes(n) /\ \E command \in Closings : queue[n] = <<command>>,
         Leaves(n, queues), UNCHANGED <<parent, within, stmt, issuer>>
  PROVE  /\ node' \in [Nodes -> {"none", "waiting", "active", "closing", "throwing", "resolved", "rejected"}]
         /\ queue' \in [Nodes -> Seq(Stmts \cup Savepoints \cup Closings)]
         /\ Queues' /\ Callers' /\ Tree' /\ Nested'
         /\ \A x \in Savepoints : Entered(x)' <=> Entered(x) /\ x # n
         /\ \A m \in Nodes \ {n} : node'[m] = node[m]
<1>1. /\ node' = [node EXCEPT ![n] = IF node[n] = "throwing" THEN "rejected" ELSE "resolved"]
      /\ queue' \in [Nodes -> Seq(Items)] /\ queue'[n] = <<>> /\ ~Held(n)
      /\ n # Root => Entered(n) /\ parent[n] \in Nodes /\ parent[n] # n /\ node[parent[n]] = "active"
      /\ \A m \in Nodes : m # n /\ (n # Root => m # parent[n]) => queue'[m] = queue[m]
      /\ n # Root => ToSet(queue'[parent[n]]) \subseteq ToSet(queue[parent[n]])
  BY LeavesFacts
<1>2. node' \in [Nodes -> {"none", "waiting", "active", "closing", "throwing", "resolved", "rejected"}]
  BY <1>1 DEF TransactionsInv, TypeOK
<1>3. node'[n] \in {"resolved", "rejected"} /\ \A m \in Nodes \ {n} : node'[m] = node[m]
  BY <1>1 DEF TransactionsInv, TypeOK
<1>4. \A x \in Savepoints : Entered(x)' <=> Entered(x) /\ x # n
  BY <1>3, Distinct DEF Entered
<1>5. Queues'
  <2> SUFFICES ASSUME NEW m \in Nodes
               PROVE  /\ node'[m] \in {"none", "waiting", "resolved", "rejected"} => queue'[m] = <<>>
                      /\ node'[m] = "closing" => queue'[m] \in {<<>>, <<"commit">>}
                      /\ node'[m] = "throwing" => queue'[m] \in {<<>>, <<"rollback">>}
                      /\ node'[m] = "active" => "commit" \notin ToSet(queue'[m]) /\ "rollback" \notin ToSet(queue'[m])
    BY DEF Queues
  <2>1. CASE m = n
    BY <1>1, <1>3, <2>1
  <2>2. CASE m # n /\ n # Root /\ m = parent[n]
    BY <1>1, <1>3, <2>2 DEF TransactionsInv, Queues
  <2>3. CASE m # n /\ ~(n # Root /\ m = parent[n])
    BY <1>1, <1>3, <2>3 DEF TransactionsInv, Queues
  <2> QED BY <2>1, <2>2, <2>3
<1>6. Callers' /\ Tree'
  <2>1. \A m \in Nodes : node'[m] = "none" <=> node[m] = "none"
    BY <1>3
  <2>2. \A m \in Nodes : ToSet(queue'[m]) \subseteq ToSet(queue[m]) \cup Closings
    BY <1>1, SingleFacts
  <2> QED BY <2>1, <2>2, CallsStay
<1>7. Nested'
  <2>1. CASE n = Root
    <3>1. \A m \in Nodes : Held(m) => queue'[m] # <<>> /\ Head(queue'[m]) = Head(queue[m])
      BY <1>1, <2>1 DEF Held
    <3>2. \A x \in Savepoints : Entered(x)' <=> Entered(x)
      BY <1>4, <2>1, Distinct
    <3> QED BY <3>1, <3>2, NestedStays
  <2>2. CASE n # Root
    <3>1. n \in Savepoints
      BY <2>2 DEF Nodes
    <3> QED BY <1>1, <1>4, <2>2, <3>1, NestedLeave
  <2> QED BY <2>1, <2>2
<1> QED BY <1>1, <1>2, <1>3, <1>4, <1>5, <1>6, <1>7 DEF Items

(* ROLLBACK TO of the innermost transaction: the log is cut at its mark. *)
LEMMA RolledBackKeeps ==
  ASSUME TransactionsInv, NEW n \in Nodes, n = Root \/ Entered(n), ~Held(n), server' = RolledBack(n),
         \A x \in Savepoints : Entered(x)' => Entered(x), UNCHANGED <<within, stmt, issuer>>
  PROVE  /\ server' \in [open : BOOLEAN, aborted : BOOLEAN, log : Seq(Stmts), mark : [Nodes -> Nat]]
         /\ Logged' /\ Marks'
<1>1. CASE n = Root
  BY <1>1, ServerType, LogStays DEF RolledBack, TransactionsInv
<1>2. CASE n # Root
  <2> DEFINE cut == SubSeq(server.log, 1, server.mark[n])
  <2>1. server' = [server EXCEPT !.aborted = FALSE, !.log = cut]
    BY <1>2 DEF RolledBack
  <2>2. /\ server.log \in Seq(Stmts) /\ Len(server.log) \in Nat /\ server.mark \in [Nodes -> Nat]
        /\ n \in Savepoints /\ server.mark[n] \in Nat /\ server.mark[n] <= Len(server.log)
    BY <1>2, ServerType DEF TransactionsInv, Marks, Nodes
  <2>3. cut \in Seq(Stmts) /\ Len(cut) = server.mark[n] /\ \A i \in 1 .. server.mark[n] : cut[i] = server.log[i]
    BY <2>2
  <2> HIDE DEF cut
  <2>4. /\ server' \in [open : BOOLEAN, aborted : BOOLEAN, log : Seq(Stmts), mark : [Nodes -> Nat]]
        /\ server'.log = cut /\ server'.mark = server.mark
    BY <2>1, <2>3 DEF TransactionsInv, TypeOK
  <2>5. Logged'
    <3>1. \A i \in 1 .. server.mark[n] : i \in 1 .. Len(server.log)
      BY <2>2
    <3> QED BY <2>3, <2>4, <3>1 DEF TransactionsInv, Logged
  <2>6. Marks'
    <3> SUFFICES ASSUME NEW x \in Savepoints, Entered(x)
                 PROVE  /\ server.mark[x] <= Len(cut)
                        /\ \A y \in within[x] : server.mark[y] <= server.mark[x]
                        /\ \A i \in server.mark[x] + 1 .. Len(cut) : x \in within[issuer[cut[i]]]
      BY <2>4 DEF Marks
    <3>1. /\ \A y \in within[x] : server.mark[y] <= server.mark[x]
          /\ \A i \in server.mark[x] + 1 .. Len(server.log) : x \in within[issuer[server.log[i]]]
      BY DEF TransactionsInv, Marks
    <3>2. x \in within[n]
      BY Innermost
    <3>3. server.mark[x] <= server.mark[n] /\ server.mark[x] \in Nat
      BY <1>2, <2>2, <3>2, Distinct DEF TransactionsInv, Marks
    <3>4. ASSUME NEW i \in server.mark[x] + 1 .. Len(cut) PROVE x \in within[issuer[cut[i]]]
      <4>1. i \in server.mark[x] + 1 .. Len(server.log) /\ i \in 1 .. server.mark[n]
        BY <2>2, <2>3, <3>3
      <4> QED BY <2>3, <3>1, <4>1
    <3> QED BY <2>3, <3>1, <3>3, <3>4
  <2> QED BY <2>4, <2>5, <2>6
<1> QED BY <1>1, <1>2

LEMMA LeavesClosedKeeps ==
  ASSUME TransactionsInv, NEW n \in Nodes, LeavesClosed(n)
  PROVE  TransactionsInv'
<1>1. /\ node[n] \in {"closing", "throwing"} /\ queue[n] = <<>> /\ Leaves(n, queue)
      /\ parent' = parent /\ within' = within /\ closed' = closed /\ self' = self /\ stmt' = stmt /\ issuer' = issuer
      /\ server' = server /\ broken' = broken /\ unknown' = unknown /\ durable' = durable
  BY DEF LeavesClosed
<1>2. /\ node' \in [Nodes -> {"none", "waiting", "active", "closing", "throwing", "resolved", "rejected"}]
      /\ queue' \in [Nodes -> Seq(Stmts \cup Savepoints \cup Closings)]
      /\ Queues' /\ Callers' /\ Tree' /\ Nested'
      /\ \A x \in Savepoints : Entered(x)' <=> Entered(x) /\ x # n
      /\ \A m \in Nodes \ {n} : node'[m] = node[m]
  BY <1>1, LeavesKeeps
<1>3. TypeOK'
  BY <1>1, <1>2 DEF TransactionsInv, TypeOK
<1>4. Logged' /\ Marks'
  BY <1>1, <1>2, LogStays
<1>5. Committed'
  BY <1>1, <1>2, Distinct DEF TransactionsInv, Committed
<1> QED BY <1>2, <1>3, <1>4, <1>5 DEF TransactionsInv

LEMMA RollbackKeeps ==
  ASSUME TransactionsInv, NEW n \in Nodes, NEW command \in Closings, Rollback(n, command)
  PROVE  TransactionsInv'
<1>1. /\ Turn(n, command) /\ command \in {"rollback", "rollbackSelf"}
      /\ \/ closed' = closed /\ server' = server
         \/ closed' = [closed EXCEPT ![n] = TRUE] /\ server' = RolledBack(n)
      /\ command = "rollback" => Leaves(n, Passes(n))
      /\ command # "rollback" => queue' = Passes(n) /\ node' = node
      /\ parent' = parent /\ within' = within /\ self' = self /\ stmt' = stmt /\ issuer' = issuer
      /\ broken' = broken /\ unknown' = unknown /\ durable' = durable
  BY DEF Rollback, Close
<1>2. /\ command = "rollback" => node[n] = "throwing" /\ queue[n] = <<"rollback">>
      /\ command = "rollbackSelf" => node[n] = "active"
      /\ ~Held(n) /\ queue[n] # <<>>
  BY <1>1, TurnOfCommand DEF Turn
<1>3. /\ node' \in [Nodes -> {"none", "waiting", "active", "closing", "throwing", "resolved", "rejected"}]
      /\ queue' \in [Nodes -> Seq(Stmts \cup Savepoints \cup Closings)]
      /\ Queues' /\ Callers' /\ Tree' /\ Nested'
      /\ \A x \in Savepoints : Entered(x)' => Entered(x)
      /\ \A m \in Nodes \ {n} : node'[m] = node[m]
  <2>1. CASE command = "rollback"
    <3>1. \E c \in Closings : queue[n] = <<c>>
      BY <1>2, <2>1
    <3> QED BY <1>1, <1>2, <2>1, <3>1, LeavesKeeps
  <2>2. CASE command = "rollbackSelf"
    <3>1. queue' = Passes(n) /\ node' = node /\ node[n] = "active"
      BY <1>1, <1>2, <2>2
    <3>2. /\ queue' \in [Nodes -> Seq(Items)] /\ ToSet(queue'[n]) \subseteq ToSet(queue[n])
          /\ \A m \in Nodes \ {n} : queue'[m] = queue[m]
      BY <1>2, <3>1, PassesFacts DEF TransactionsInv
    <3>3. Queues'
      BY <3>1, <3>2 DEF TransactionsInv, Queues
    <3>4. Callers' /\ Tree'
      BY <1>1, <3>1, <3>2, CallsStay
    <3>5. Nested'
      BY <1>1, <1>2, <3>1, <3>2, NestedStays DEF Entered, Held
    <3> QED BY <3>1, <3>2, <3>3, <3>4, <3>5 DEF Entered, Items, TransactionsInv, TypeOK
  <2> QED BY <1>1, <2>1, <2>2
<1>4. n = Root \/ Entered(n)
  BY <1>1, <1>2 DEF Entered, Nodes
<1>5. /\ server' \in [open : BOOLEAN, aborted : BOOLEAN, log : Seq(Stmts), mark : [Nodes -> Nat]]
      /\ Logged' /\ Marks'
  <2>1. CASE server' = server
    BY <1>1, <1>3, <2>1, LogStays DEF TransactionsInv, TypeOK
  <2>2. CASE server' = RolledBack(n)
    BY <1>1, <1>2, <1>3, <1>4, <2>2, RolledBackKeeps
  <2> QED BY <1>1, <2>1, <2>2
<1>6. closed' \in [Nodes -> BOOLEAN]
  BY <1>1 DEF TransactionsInv, TypeOK
<1>7. TypeOK'
  BY <1>1, <1>3, <1>5, <1>6 DEF TransactionsInv, TypeOK
<1>8. Committed'
  <2>1. node[Root] = "resolved" => n # Root
    BY <1>1, <1>2
  <2> QED BY <1>1, <1>3, <2>1, Distinct DEF TransactionsInv, Committed
<1> QED BY <1>3, <1>5, <1>7, <1>8 DEF TransactionsInv

LEMMA CommitFailsKeeps ==
  ASSUME TransactionsInv, NEW n \in Nodes, Turn(n, "commit"), CommitFails(n), UNCHANGED <<parent, within, stmt, issuer>>
  PROVE  /\ node' \in [Nodes -> {"none", "waiting", "active", "closing", "throwing", "resolved", "rejected"}]
         /\ queue' \in [Nodes -> Seq(Stmts \cup Savepoints \cup Closings)]
         /\ Queues' /\ Callers' /\ Tree' /\ Nested'
         /\ \A x \in Savepoints : Entered(x)' <=> Entered(x)
         /\ \A m \in Nodes \ {n} : node'[m] = node[m]
         /\ node[n] = "closing"
<1>1. node' = [node EXCEPT ![n] = "throwing"] /\ queue' = [Passes(n) EXCEPT ![n] = Append(@, "rollback")]
  BY DEF CommitFails
<1>2. node[n] = "closing" /\ queue[n] = <<"commit">> /\ ~Held(n)
  BY TurnOfCommand DEF Closings
<1>3. /\ Passes(n) \in [Nodes -> Seq(Items)] /\ Passes(n)[n] = <<>>
      /\ \A m \in Nodes \ {n} : Passes(n)[m] = queue[m]
  BY <1>2, PassesFacts, SingleFacts DEF TransactionsInv
<1>4. "rollback" \in Items /\ Append(<<>>, "rollback") = <<"rollback">> /\ ToSet(<<"rollback">>) = {"rollback"}
  BY SingleFacts DEF Items, Closings
<1>5. <<"rollback">> \in Seq(Items)
  BY <1>4
<1>6. /\ queue' \in [Nodes -> Seq(Items)] /\ queue'[n] = <<"rollback">>
      /\ \A m \in Nodes \ {n} : queue'[m] = queue[m]
  BY <1>1, <1>3, <1>4, <1>5
<1>7. node'[n] = "throwing" /\ \A m \in Nodes \ {n} : node'[m] = node[m]
  BY <1>1 DEF TransactionsInv, TypeOK
<1>8. node' \in [Nodes -> {"none", "waiting", "active", "closing", "throwing", "resolved", "rejected"}]
  BY <1>1 DEF TransactionsInv, TypeOK
<1>9. \A x \in Savepoints : Entered(x)' <=> Entered(x)
  BY <1>2, <1>7, Distinct DEF Entered
<1>10. Queues'
  BY <1>6, <1>7 DEF TransactionsInv, Queues
<1>11. Callers' /\ Tree'
  <2>1. \A m \in Nodes : node'[m] = "none" <=> node[m] = "none"
    BY <1>2, <1>7
  <2>2. \A m \in Nodes : ToSet(queue'[m]) \subseteq ToSet(queue[m]) \cup Closings
    BY <1>4, <1>6 DEF Closings
  <2> QED BY <2>1, <2>2, CallsStay
<1>12. Nested'
  BY <1>2, <1>6, <1>9, NestedStays DEF Held
<1> QED BY <1>2, <1>6, <1>7, <1>8, <1>9, <1>10, <1>11, <1>12 DEF Items

LEMMA ReleaseKeeps ==
  ASSUME TransactionsInv, NEW n \in Nodes, Release(n)
  PROVE  TransactionsInv'
<1>1. /\ Turn(n, "commit") /\ n # Root
      /\ \/ CommitFails(n) /\ closed' = closed
         \/ Leaves(n, Passes(n)) /\ closed' = [closed EXCEPT ![n] = TRUE]
      /\ parent' = parent /\ within' = within /\ self' = self /\ stmt' = stmt /\ issuer' = issuer /\ server' = server
      /\ broken' = broken /\ unknown' = unknown /\ durable' = durable
  BY DEF Release, CommitFails, Close
<1>2. node[n] = "closing" /\ queue[n] = <<"commit">> /\ "commit" \in Closings
  BY <1>1, TurnOfCommand DEF Closings
<1>3. /\ node' \in [Nodes -> {"none", "waiting", "active", "closing", "throwing", "resolved", "rejected"}]
      /\ queue' \in [Nodes -> Seq(Stmts \cup Savepoints \cup Closings)]
      /\ Queues' /\ Callers' /\ Tree' /\ Nested'
      /\ \A x \in Savepoints : Entered(x)' => Entered(x)
      /\ \A m \in Nodes \ {n} : node'[m] = node[m]
  BY <1>1, <1>2, LeavesKeeps, CommitFailsKeeps
<1>4. closed' \in [Nodes -> BOOLEAN]
  BY <1>1 DEF TransactionsInv, TypeOK
<1>5. TypeOK'
  BY <1>1, <1>3, <1>4 DEF TransactionsInv, TypeOK
<1>6. Logged' /\ Marks'
  BY <1>1, <1>3, LogStays
<1>7. Committed'
  BY <1>1, <1>3, Distinct DEF TransactionsInv, Committed
<1> QED BY <1>3, <1>5, <1>6, <1>7 DEF TransactionsInv

(* Only here effects become durable. *)
LEMMA LogIsOfStmts ==
  ASSUME TypeOK
  PROVE  ToSet(server.log) \subseteq Stmts
<1>1. server.log \in Seq(Stmts)
  BY ServerType
<1>2. \A i \in DOMAIN server.log : server.log[i] \in Stmts
  BY <1>1, LenProperties, ElementOfSeq
<1> QED BY <1>2 DEF ToSet

LEMMA CommitKeeps ==
  ASSUME TransactionsInv, Commit
  PROVE  TransactionsInv'
<1>1. /\ Turn(Root, "commit") /\ server' = NotOpen /\ closed' = [closed EXCEPT ![Root] = TRUE]
      /\ Leaves(Root, Passes(Root)) /\ durable' = IF server.aborted THEN durable ELSE durable \cup ToSet(server.log)
      /\ parent' = parent /\ within' = within /\ self' = self /\ stmt' = stmt /\ issuer' = issuer
      /\ broken' = broken /\ unknown' = unknown
  BY DEF Commit, Close
<1>2. node[Root] = "closing" /\ queue[Root] = <<"commit">> /\ "commit" \in Closings /\ Root \in Nodes
  BY <1>1, TurnOfCommand, Distinct DEF Closings
<1>3. /\ node' \in [Nodes -> {"none", "waiting", "active", "closing", "throwing", "resolved", "rejected"}]
      /\ queue' \in [Nodes -> Seq(Stmts \cup Savepoints \cup Closings)]
      /\ Queues' /\ Callers' /\ Tree' /\ Nested'
      /\ \A x \in Savepoints : Entered(x)' => Entered(x)
  BY <1>1, <1>2, LeavesKeeps
<1>4. closed' \in [Nodes -> BOOLEAN] /\ durable' \subseteq Stmts
  BY <1>1, LogIsOfStmts DEF TransactionsInv, TypeOK
<1>5. TypeOK'
  BY <1>1, <1>3, <1>4, ServerType DEF TransactionsInv, TypeOK
<1>6. Logged' /\ Marks'
  BY <1>1, <1>3, LogStays
<1>7. Committed'
  <2>1. node'[Root] = "resolved"
    BY <1>1, <1>2 DEF Leaves, TransactionsInv, TypeOK
  <2> QED BY <2>1 DEF Committed
<1> QED BY <1>3, <1>5, <1>6, <1>7 DEF TransactionsInv

LEMMA CommitRefusedKeeps ==
  ASSUME TransactionsInv, CommitRefused
  PROVE  TransactionsInv'
<1>1. /\ Turn(Root, "commit") /\ CommitFails(Root) /\ server' = NotOpen /\ closed' = closed
      /\ \/ broken' = broken /\ unknown' = unknown /\ durable' = durable
         \/ broken' = TRUE /\ unknown' = TRUE /\ durable' = durable \cup ToSet(server.log)
      /\ parent' = parent /\ within' = within /\ self' = self /\ stmt' = stmt /\ issuer' = issuer
  BY DEF CommitRefused, CommitFails
<1>2. /\ node' \in [Nodes -> {"none", "waiting", "active", "closing", "throwing", "resolved", "rejected"}]
      /\ queue' \in [Nodes -> Seq(Stmts \cup Savepoints \cup Closings)]
      /\ Queues' /\ Callers' /\ Tree' /\ Nested'
      /\ \A x \in Savepoints : Entered(x)' => Entered(x)
      /\ node[Root] = "closing"
  BY <1>1, CommitFailsKeeps, Distinct
<1>3. broken' \in BOOLEAN /\ unknown' \in BOOLEAN /\ durable' \subseteq Stmts
  BY <1>1, LogIsOfStmts DEF TransactionsInv, TypeOK
<1>4. TypeOK'
  BY <1>1, <1>2, <1>3, ServerType DEF TransactionsInv, TypeOK
<1>5. Logged' /\ Marks'
  BY <1>1, <1>2, LogStays
<1>6. Committed'
  BY <1>1, <1>2 DEF TransactionsInv, Committed
<1> QED BY <1>2, <1>4, <1>5, <1>6 DEF TransactionsInv

LEMMA BreakKeeps ==
  ASSUME TransactionsInv, Break
  PROVE  TransactionsInv'
<1>1. /\ broken' = TRUE /\ server' = NotOpen
      /\ node' = node /\ parent' = parent /\ within' = within /\ closed' = closed /\ self' = self /\ queue' = queue
      /\ stmt' = stmt /\ issuer' = issuer /\ unknown' = unknown /\ durable' = durable
  BY DEF Break
<1>2. TypeOK'
  BY <1>1, ServerType DEF TransactionsInv, TypeOK
<1>3. Queues' /\ Callers' /\ Tree'
  <2>1. Queues'
    BY <1>1 DEF TransactionsInv, Queues
  <2>2. Callers' /\ Tree'
    BY <1>1 DEF TransactionsInv, Callers, Tree
  <2> QED BY <2>1, <2>2
<1>4. Nested'
  BY <1>1, NestedStays DEF Entered, Held
<1>5. Logged' /\ Marks'
  BY <1>1, LogStays DEF Entered
<1>6. Committed'
  BY <1>1 DEF TransactionsInv, Committed
<1> QED BY <1>2, <1>3, <1>4, <1>5, <1>6 DEF TransactionsInv
-----------------------------------------------------------------------------
LEMMA TransactionsInvInit ==
  ASSUME Init
  PROVE  TransactionsInv
<1>1. \A n \in Nodes : node[n] = (IF n = Root THEN "waiting" ELSE "none") /\ queue[n] = <<>> /\ within[n] = {}
  BY DEF Init
<1>2. \A x \in Savepoints : node[x] = "none"
  BY <1>1, Distinct
<1>3. server = NotOpen /\ durable = {} /\ \A s \in Stmts : stmt[s] = "none"
  BY DEF Init
<1>4. server.log = <<>> /\ server \in [open : BOOLEAN, aborted : BOOLEAN, log : Seq(Stmts), mark : [Nodes -> Nat]]
  BY <1>3 DEF NotOpen
<1>5. TypeOK
  <2>1. /\ node \in [Nodes -> {"none", "waiting", "active", "closing", "throwing", "resolved", "rejected"}]
        /\ parent \in [Nodes -> Nodes \cup {NoNode}] /\ within \in [Nodes -> SUBSET Savepoints]
        /\ closed \in [Nodes -> BOOLEAN] /\ self \in [Nodes -> BOOLEAN]
    BY DEF Init
  <2>2. queue \in [Nodes -> Seq(Stmts \cup Savepoints \cup Closings)]
    <3>1. queue = [n \in Nodes |-> <<>>]
      BY DEF Init
    <3>2. <<>> \in Seq(Stmts \cup Savepoints \cup Closings)
      OBVIOUS
    <3> QED BY <3>1, <3>2
  <2>3. stmt \in [Stmts -> {"none", "waiting", "ok", "failed"}] /\ issuer \in [Stmts -> Nodes \cup {NoNode}]
    BY DEF Init
  <2>4. broken \in BOOLEAN /\ unknown \in BOOLEAN /\ durable \subseteq Stmts
    BY DEF Init
  <2> QED BY <1>4, <2>1, <2>2, <2>3, <2>4 DEF TypeOK
<1>6. Queues
  BY <1>1 DEF Queues
<1>7. Callers
  BY <1>1, SingleFacts DEF Callers
<1>8. Tree
  BY <1>1, <1>2, <1>3, Distinct DEF Tree
<1>9. Nested /\ Marks
  BY <1>2 DEF Nested, Upwards, Holder, Path, Chain, Marks, Entered
<1>10. Logged /\ Committed
  BY <1>3, <1>4 DEF Logged, Committed
<1> QED BY <1>5, <1>6, <1>7, <1>8, <1>9, <1>10 DEF TransactionsInv

LEMMA TransactionsInvNext ==
  ASSUME TransactionsInv, [Next]_vars
  PROVE  TransactionsInv'
<1>1. ASSUME Carries PROVE TransactionsInv'
  BY <1>1, BeginKeeps, CommitKeeps, CommitRefusedKeeps, ExecuteKeeps, EnterKeeps, ReleaseKeeps, LeavesClosedKeeps,
     RollbackKeeps DEF Carries
<1>2. ASSUME NEW n \in Nodes, NEW s \in Stmts, Issue(n, s) \/ IssueOuter(n, s) PROVE TransactionsInv'
  <2>1. /\ node[n] = "active" /\ stmt[s] = "none" /\ issuer' = [issuer EXCEPT ![s] = n]
        /\ \/ stmt' = [stmt EXCEPT ![s] = "failed"] /\ queue' = queue
           \/ stmt' = [stmt EXCEPT ![s] = "waiting"] /\ queue' = Locks(n, s)
        /\ UNCHANGED <<node, parent, within, closed, self, server, broken, unknown, durable>>
    BY <1>2 DEF Issue, IssueOuter, Usable, NextStmt
  <2> QED BY <2>1, CalledKeeps
<1>3. ASSUME UNCHANGED vars PROVE TransactionsInv'
  <2>1. /\ node' = node /\ parent' = parent /\ within' = within /\ closed' = closed /\ self' = self /\ queue' = queue
        /\ stmt' = stmt /\ issuer' = issuer /\ server' = server /\ broken' = broken /\ unknown' = unknown
        /\ durable' = durable
    BY <1>3 DEF vars
  <2>2. TypeOK'
    BY <2>1 DEF TransactionsInv, TypeOK
  <2>3. Queues' /\ Committed'
    BY <2>1 DEF TransactionsInv, Queues, Committed
  <2>4. Callers' /\ Tree'
    BY <2>1 DEF TransactionsInv, Callers, Tree
  <2>5. Nested'
    BY <2>1, NestedStays DEF Entered, Held
  <2>6. Logged' /\ Marks'
    BY <2>1, LogStays DEF Entered
  <2> QED BY <2>2, <2>3, <2>4, <2>5, <2>6 DEF TransactionsInv
<1> QED BY <1>1, <1>2, <1>3, BreakKeeps, OpenKeeps, RollbackSelfKeeps, CallbackKeeps DEF Next

LEMMA TransactionsInvCorrect == Spec => []TransactionsInv
<1>1. Init => TransactionsInv
  BY TransactionsInvInit
<1>2. TransactionsInv /\ [Next]_vars => TransactionsInv'
  BY TransactionsInvNext
<1> QED BY <1>1, <1>2, PTL DEF Spec

(* The variables keep their types. *)
THEOREM TransactionsTypeCorrect == Spec => []TypeOK
<1>1. TransactionsInv => TypeOK
  BY DEF TransactionsInv
<1> QED BY <1>1, TransactionsInvCorrect, PTL

(* A transaction that rejects leaves nothing, unless the answer to COMMIT was lost            *)
(* (Transaction.ts:169-185).                                                                  *)
THEOREM RejectedLeavesNothingCorrect == Spec => []RejectedLeavesNothing
<1>1. TransactionsInv => RejectedLeavesNothing
  BY DEF TransactionsInv, Committed, RejectedLeavesNothing
<1> QED BY <1>1, TransactionsInvCorrect, PTL

(* Nothing of others is between the SAVEPOINT and the end of a nested transaction             *)
(* (AcquiredConnection.ts:27-34).                                                             *)
THEOREM SavepointsExclusiveCorrect == Spec => []SavepointsExclusive
<1>1. TransactionsInv => SavepointsExclusive
  BY DEF TransactionsInv, Marks, SavepointsExclusive, Entered
<1> QED BY <1>1, TransactionsInvCorrect, PTL

(* What the commit of the transaction leaves. The second invariant says which queries the log *)
(* holds at any time: those of savepoints that still stand.                                   *)
OnceEach(q) == \A i, j \in DOMAIN q : q[i] = q[j] /\ q[i] \in Stmts => i = j

(* A query is issued where the transactions around it began. *)
Began ==
  \A s \in Stmts : stmt[s] # "none" =>
    \A x \in within[issuer[s]] \cup {Root} : node[x] \notin {"none", "waiting"}

Waiting ==
  \A n \in Nodes : OnceEach(queue[n]) /\ \A s \in Stmts \cap ToSet(queue[n]) : stmt[s] = "waiting"

(* Nothing but nested transactions waits at a closed transaction. *)
Commands ==
  \A n \in Nodes :
    /\ "rollbackSelf" \in ToSet(queue[n]) => queue[n] = <<"rollbackSelf">>
    /\ closed[n] => ToSet(queue[n]) \subseteq Savepoints
    /\ self[n] /\ ~broken => closed[n] \/ queue[n] = <<"rollbackSelf">>

OpenAround == \A x \in Savepoints : Entered(x) => \A y \in (within[x] \cup {Root}) \ {x} : ~closed[y]

Session ==
  /\ broken => ~server.open
  /\ ~server.open => ~server.aborted
  /\ unknown => broken
  /\ ~broken /\ node[Root] \in {"active", "closing"} /\ ~closed[Root] => server.open

(* An aborted transaction was aborted by a query of the root, or a savepoint will undo it. *)
RootFailed == \E s \in Stmts : issuer[s] = Root /\ stmt[s] = "failed"
Aborts == server.aborted => RootFailed \/ \E x \in Savepoints : Entered(x) /\ ~closed[x]

Before ==
  \A x \in Savepoints : Entered(x) =>
    \A i \in 1 .. server.mark[x] : x \notin within[issuer[server.log[i]]]

(* It did not roll back, so far. *)
Stands(n) == (Entered(n) /\ ~closed[n]) \/ (node[n] = "resolved" /\ ~self[n])
Standing == {s \in Stmts : stmt[s] = "ok" /\ \A n \in within[issuer[s]] : Stands(n)}
LogStands == server.open => ToSet(server.log) = Standing

KeptInv ==
  /\ Began
  /\ Waiting
  /\ Commands
  /\ OpenAround
  /\ Session
  /\ Aborts
  /\ Before
  /\ LogStands
-----------------------------------------------------------------------------
LEMMA OnceAppend ==
  ASSUME NEW q \in Seq(Items), NEW e \in Items, OnceEach(q), e \in Stmts => e \notin ToSet(q)
  PROVE  OnceEach(Append(q, e))
<1> SUFFICES ASSUME NEW i \in DOMAIN Append(q, e), NEW j \in DOMAIN Append(q, e),
                    Append(q, e)[i] = Append(q, e)[j], Append(q, e)[i] \in Stmts
             PROVE  i = j
  BY DEF OnceEach
<1>1. DOMAIN Append(q, e) = 1 .. Len(q) + 1 /\ DOMAIN q = 1 .. Len(q) /\ Len(q) \in Nat
  OBVIOUS
<1>2. Append(q, e)[Len(q) + 1] = e /\ \A k \in 1 .. Len(q) : Append(q, e)[k] = q[k]
  OBVIOUS
<1>3. \A k \in 1 .. Len(q) : q[k] \in ToSet(q)
  BY <1>1 DEF ToSet
<1>4. CASE i \in 1 .. Len(q) /\ j \in 1 .. Len(q)
  BY <1>1, <1>2, <1>4 DEF OnceEach
<1>5. CASE ~(i \in 1 .. Len(q) /\ j \in 1 .. Len(q))
  BY <1>1, <1>2, <1>3, <1>5
<1> QED BY <1>4, <1>5

LEMMA OnceTail ==
  ASSUME NEW q \in Seq(Items), q # <<>>, OnceEach(q)
  PROVE  OnceEach(Tail(q)) /\ (Head(q) \in Stmts => Head(q) \notin ToSet(Tail(q)))
<1>1. /\ DOMAIN q = 1 .. Len(q) /\ Len(q) \in Nat /\ Len(q) # 0 /\ DOMAIN Tail(q) = 1 .. Len(q) - 1
      /\ Head(q) = q[1] /\ \A k \in 1 .. Len(q) - 1 : Tail(q)[k] = q[k + 1]
  OBVIOUS
<1>2. ASSUME NEW i \in DOMAIN Tail(q), NEW j \in DOMAIN Tail(q), Tail(q)[i] = Tail(q)[j], Tail(q)[i] \in Stmts
      PROVE  i = j
  <2>1. i + 1 \in DOMAIN q /\ j + 1 \in DOMAIN q /\ q[i + 1] = q[j + 1] /\ q[i + 1] \in Stmts
    BY <1>1, <1>2
  <2>2. i + 1 = j + 1
    BY <2>1 DEF OnceEach
  <2> QED BY <1>1, <2>2
<1>3. ASSUME Head(q) \in Stmts, NEW k \in DOMAIN Tail(q), Tail(q)[k] = Head(q) PROVE FALSE
  <2>1. 1 \in DOMAIN q /\ k + 1 \in DOMAIN q /\ q[1] = q[k + 1] /\ q[1] \in Stmts
    BY <1>1, <1>3
  <2>2. 1 = k + 1
    BY <2>1 DEF OnceEach
  <2> QED BY <1>1, <2>2
<1> QED BY <1>2, <1>3 DEF OnceEach, ToSet

LEMMA OnceSingle ==
  ASSUME NEW e
  PROVE  OnceEach(<<>>) /\ OnceEach(<<e>>)
<1>1. OnceEach(<<>>)
  BY DEF OnceEach
<1>2. DOMAIN <<e>> = 1 .. 1
  OBVIOUS
<1>3. OnceEach(<<e>>)
  BY <1>2 DEF OnceEach
<1> QED BY <1>1, <1>3

LEMMA ShrinksFacts ==
  ASSUME NEW p \in Seq(Items), NEW q, Shrinks(q, p), OnceEach(p)
  PROVE  OnceEach(q) /\ ToSet(q) \subseteq ToSet(p) /\ (p = <<"rollbackSelf">> => q \in {p, <<>>})
<1>1. CASE q = p
  BY <1>1
<1>2. CASE p # <<>> /\ q = Tail(p)
  BY <1>2, OnceTail, TailFacts, SingleFacts
<1> QED BY <1>1, <1>2 DEF Shrinks
-----------------------------------------------------------------------------
(* Steps that leave a part of the invariant as it is. *)
LEMMA BeganStays ==
  ASSUME TransactionsInv, KeptInv,
         \A n \in Nodes : node[n] \notin {"none", "waiting"} => node'[n] \notin {"none", "waiting"},
         \A n \in Nodes : node[n] # "none" => within'[n] = within[n],
         \A s \in Stmts : stmt'[s] # "none" => stmt[s] # "none" /\ issuer'[s] = issuer[s]
  PROVE  Began'
<1> SUFFICES ASSUME NEW s \in Stmts, stmt'[s] # "none", NEW x \in within'[issuer'[s]] \cup {Root}
             PROVE  node'[x] \notin {"none", "waiting"}
  BY DEF Began
<1>1. stmt[s] # "none" /\ issuer'[s] = issuer[s] /\ issuer[s] \in Nodes /\ node[issuer[s]] # "none"
  BY DEF TransactionsInv, Tree
<1>2. within'[issuer'[s]] = within[issuer[s]] /\ within[issuer[s]] \subseteq Nodes
  BY <1>1, Distinct DEF TransactionsInv, TypeOK
<1> QED BY <1>1, <1>2, Distinct DEF KeptInv, Began

LEMMA WaitingStays ==
  ASSUME TransactionsInv, KeptInv, \A n \in Nodes : OnceEach(queue'[n]),
         \A n \in Nodes, s \in Stmts : s \in ToSet(queue'[n]) => s \in ToSet(queue[n]) /\ stmt'[s] = stmt[s]
  PROVE  Waiting'
BY DEF KeptInv, Waiting

LEMMA CommandsStay ==
  ASSUME TransactionsInv, KeptInv, \A n \in Nodes : Shrinks(queue'[n], queue[n]), self' = self, broken => broken',
         \A n \in Nodes : closed'[n] => closed[n] \/ queue'[n] = <<>>,
         \A n \in Nodes : closed[n] => closed'[n],
         \A n \in Nodes : queue[n] = <<"rollbackSelf">> /\ ~broken' => queue'[n] = queue[n] \/ closed'[n]
  PROVE  /\ Commands'
         /\ \A n \in Nodes : OnceEach(queue'[n]) /\ ToSet(queue'[n]) \subseteq ToSet(queue[n])
<1>1. ASSUME NEW n \in Nodes
      PROVE  /\ OnceEach(queue'[n]) /\ ToSet(queue'[n]) \subseteq ToSet(queue[n])
             /\ queue[n] = <<"rollbackSelf">> => queue'[n] \in {queue[n], <<>>}
  <2>1. queue[n] \in Seq(Items) /\ OnceEach(queue[n])
    BY DEF TransactionsInv, TypeOK, Items, KeptInv, Waiting
  <2> QED BY <2>1, ShrinksFacts
<1>2. ASSUME NEW n \in Nodes
      PROVE  /\ "rollbackSelf" \in ToSet(queue'[n]) => queue'[n] = <<"rollbackSelf">>
             /\ closed'[n] => ToSet(queue'[n]) \subseteq Savepoints
             /\ self[n] /\ ~broken' => closed'[n] \/ queue'[n] = <<"rollbackSelf">>
  <2>1. ToSet(<<>>) = {}
    BY SingleFacts
  <2> QED BY <1>1, <2>1 DEF KeptInv, Commands
<1> QED BY <1>1, <1>2 DEF Commands

LEMMA OpenAroundStays ==
  ASSUME TransactionsInv, KeptInv, \A x \in Savepoints : Entered(x)' => Entered(x) /\ within'[x] = within[x],
         \A n \in Nodes : closed'[n] => closed[n] \/ ~Held(n)
  PROVE  OpenAround'
<1> SUFFICES ASSUME NEW x \in Savepoints, Entered(x), NEW y \in (within[x] \cup {Root}) \ {x}, closed'[y]
             PROVE  FALSE
  BY DEF OpenAround
<1>1. y \in Nodes
  BY Distinct DEF TransactionsInv, TypeOK
<1>2. Held(y)
  BY DEF TransactionsInv, Nested, Path, Upwards, Held
<1> QED BY <1>1, <1>2 DEF KeptInv, OpenAround

LEMMA AbortsStay ==
  ASSUME TransactionsInv, KeptInv, server'.aborted => server.aborted,
         \A s \in Stmts : stmt[s] = "failed" => stmt'[s] = "failed" /\ issuer'[s] = issuer[s],
         \A x \in Savepoints : Entered(x) /\ ~closed[x] => Entered(x)' /\ ~closed'[x]
  PROVE  Aborts'
BY DEF KeptInv, Aborts, RootFailed

LEMMA BeforeStays ==
  ASSUME TransactionsInv, KeptInv, \A x \in Savepoints : Entered(x)' => Entered(x),
         \A n \in Nodes : node[n] # "none" => within'[n] = within[n],
         \A s \in Stmts : stmt[s] # "none" => issuer'[s] = issuer[s],
         (server'.log = server.log /\ server'.mark = server.mark) \/ server' = NotOpen
  PROVE  Before'
<1> SUFFICES ASSUME NEW x \in Savepoints, Entered(x), NEW i \in 1 .. server'.mark[x]
             PROVE  x \notin within'[issuer'[server'.log[i]]]
  BY DEF Before
<1>1. x \in Nodes
  BY Distinct
<1>2. CASE server' = NotOpen
  BY <1>1, <1>2 DEF NotOpen
<1>3. CASE server'.log = server.log /\ server'.mark = server.mark
  <2>1. i \in 1 .. Len(server.log)
    BY <1>1, <1>3, ServerType DEF TransactionsInv, Marks
  <2>2. /\ server.log[i] \in Stmts /\ stmt[server.log[i]] # "none" /\ issuer[server.log[i]] \in Nodes
        /\ node[issuer[server.log[i]]] # "none"
    BY <2>1 DEF TransactionsInv, Logged, Tree
  <2>3. within'[issuer'[server'.log[i]]] = within[issuer[server.log[i]]]
    BY <1>3, <2>2
  <2> QED BY <1>3, <2>3 DEF KeptInv, Before
<1> QED BY <1>2, <1>3

(* What counts in the log: the queries that succeeded, and which transactions stand. *)
LEMMA LogStandsStays ==
  ASSUME TransactionsInv, KeptInv, server'.open => server.open /\ server'.log = server.log,
         \A n \in Nodes : node[n] # "none" => within'[n] = within[n],
         \A s \in Stmts : stmt'[s] = "ok" <=> stmt[s] = "ok",
         \A s \in Stmts : stmt[s] # "none" => issuer'[s] = issuer[s],
         \A n \in Savepoints : node[n] \notin {"none", "waiting"} => (Stands(n)' <=> Stands(n))
  PROVE  LogStands'
<1>1. ASSUME NEW s \in Stmts, stmt[s] = "ok"
      PROVE  (\A n \in within'[issuer'[s]] : Stands(n)') <=> (\A n \in within[issuer[s]] : Stands(n))
  <2>1. issuer[s] \in Nodes /\ node[issuer[s]] # "none" /\ issuer'[s] = issuer[s]
    BY <1>1 DEF TransactionsInv, Tree
  <2>2. within'[issuer'[s]] = within[issuer[s]] /\ within[issuer[s]] \subseteq Savepoints
    BY <2>1 DEF TransactionsInv, TypeOK
  <2>3. \A n \in within[issuer[s]] : node[n] \notin {"none", "waiting"}
    BY <1>1 DEF KeptInv, Began
  <2> QED BY <2>2, <2>3
<1>2. Standing' = Standing
  BY <1>1 DEF Standing
<1> QED BY <1>2 DEF KeptInv, LogStands
-----------------------------------------------------------------------------
LEMMA BeginKeepsLog ==
  ASSUME TransactionsInv, KeptInv, Begin
  PROVE  KeptInv'
<1>1. /\ node[Root] = "waiting"
      /\ \/ node' = [node EXCEPT ![Root] = "rejected"] /\ server' = server
         \/ node' = [node EXCEPT ![Root] = "active"] /\ server' = [NotOpen EXCEPT !.open = TRUE] /\ ~broken
      /\ parent' = parent /\ within' = within /\ closed' = closed /\ self' = self /\ queue' = queue /\ stmt' = stmt
      /\ issuer' = issuer /\ broken' = broken /\ unknown' = unknown /\ durable' = durable
  BY DEF Begin
<1>2. node'[Root] \in {"active", "rejected"} /\ \A n \in Nodes : n # Root => node'[n] = node[n]
  BY <1>1, Distinct DEF TransactionsInv, TypeOK
<1>3. \A x \in Savepoints : Entered(x)' <=> Entered(x)
  BY <1>2, Distinct DEF Entered
<1>4. /\ server'.open => (server'.log = server.log \/ server'.log = <<>>)
      /\ server' = server \/ (server'.open /\ ~server'.aborted /\ ~broken /\ \A n \in Nodes : server'.mark[n] = 0)
  BY <1>1 DEF NotOpen
<1>5. \A s \in Stmts : stmt[s] = "none"
  BY <1>1 DEF KeptInv, Began
<1>6. Began' /\ Waiting' /\ Commands'
  BY <1>1, <1>5 DEF KeptInv, Began, Waiting, Commands
<1>7. OpenAround'
  BY <1>1, <1>3 DEF KeptInv, OpenAround
<1>8. Session'
  <2>1. CASE server' = server
    <3>1. node'[Root] = "rejected" \/ server.open
      BY <1>1, <1>2, <2>1, Distinct DEF NotOpen, TransactionsInv, TypeOK
    <3> QED BY <1>1, <2>1, <3>1 DEF KeptInv, Session
  <2>2. CASE server' # server
    BY <1>1, <1>4, <2>2 DEF KeptInv, Session
  <2> QED BY <2>1, <2>2
<1>9. Aborts'
  BY <1>1, <1>3, <1>4 DEF KeptInv, Aborts, RootFailed
<1>10. Before'
  <2>1. CASE server' = server
    BY <1>1, <1>3, <2>1 DEF KeptInv, Before
  <2>2. CASE server' # server
    BY <1>4, <2>2, Distinct DEF Before
  <2> QED BY <2>1, <2>2
<1>11. LogStands'
  <2>1. Standing = {} /\ Standing' = {}
    BY <1>1, <1>5 DEF Standing
  <2>2. CASE server' = server
    BY <2>1, <2>2 DEF KeptInv, LogStands
  <2>3. CASE server' # server
    <3>1. server' = [NotOpen EXCEPT !.open = TRUE]
      BY <1>1, <2>3
    <3>2. server'.log = <<>>
      BY <3>1 DEF NotOpen
    <3> QED BY <2>1, <3>2, SingleFacts DEF LogStands
  <2> QED BY <2>2, <2>3
<1> QED BY <1>6, <1>7, <1>8, <1>9, <1>10, <1>11 DEF KeptInv

(* Where a callback runs, everything around it began. *)
LEMMA AroundBegan ==
  ASSUME TransactionsInv, NEW n \in Nodes, node[n] = "active", NEW x \in within[n] \cup {Root}
  PROVE  node[x] \notin {"none", "waiting"}
<1>1. CASE n = Root
  BY <1>1 DEF TransactionsInv, Tree
<1>2. CASE n # Root
  <2>1. n \in Savepoints /\ Entered(n)
    BY <1>2 DEF Nodes, Entered
  <2>2. CASE x = Root
    <3>1. queue[Root] # <<>>
      BY <1>2, <2>1 DEF TransactionsInv, Nested, Path
    <3> QED BY <2>2, <3>1, Distinct DEF TransactionsInv, Queues
  <2>3. CASE x \in within[n]
    BY <2>1, <2>3 DEF TransactionsInv, Nested, Upwards, Entered
  <2> QED BY <2>2, <2>3
<1> QED BY <1>1, <1>2

LEMMA CalledKeepsLog ==
  ASSUME TransactionsInv, KeptInv, NEW n \in Nodes, NEW s \in Stmts, node[n] = "active", stmt[s] = "none",
         issuer' = [issuer EXCEPT ![s] = n],
         \/ stmt' = [stmt EXCEPT ![s] = "failed"] /\ queue' = queue
         \/ stmt' = [stmt EXCEPT ![s] = "waiting"] /\ queue' = Locks(n, s) /\ ~closed[n]
            /\ "rollbackSelf" \notin ToSet(queue[n]),
         UNCHANGED <<node, parent, within, closed, self, server, broken, unknown, durable>>
  PROVE  KeptInv'
<1>1. /\ stmt'[s] \in {"waiting", "failed"} /\ issuer'[s] = n
      /\ \A r \in Stmts \ {s} : stmt'[r] = stmt[r] /\ issuer'[r] = issuer[r]
  BY DEF TransactionsInv, TypeOK
<1>2. \A m \in Nodes : queue[m] \in Seq(Items) /\ OnceEach(queue[m]) /\ s \notin ToSet(queue[m])
  BY DEF TransactionsInv, TypeOK, Items, KeptInv, Waiting
<1>3. Began'
  BY <1>1, AroundBegan DEF KeptInv, Began
<1>4. Waiting'
  <2>1. CASE queue' = queue
    BY <1>1, <1>2, <2>1 DEF KeptInv, Waiting
  <2>2. CASE queue' = Locks(n, s) /\ stmt' = [stmt EXCEPT ![s] = "waiting"]
    <3>1. /\ queue'[n] = Append(queue[n], s) /\ ToSet(queue'[n]) = ToSet(queue[n]) \cup {s}
          /\ \A m \in Nodes \ {n} : queue'[m] = queue[m]
      BY <2>2, LocksFacts, Distinct DEF TransactionsInv
    <3>2. OnceEach(queue'[n]) /\ stmt'[s] = "waiting"
      BY <1>2, <2>2, <3>1, OnceAppend, Distinct DEF TransactionsInv, TypeOK
    <3> QED BY <1>1, <3>1, <3>2 DEF KeptInv, Waiting
  <2> QED BY <2>1, <2>2
<1>5. Commands'
  <2>1. CASE queue' = queue
    BY <2>1 DEF KeptInv, Commands
  <2>2. CASE queue' = Locks(n, s) /\ ~closed[n] /\ "rollbackSelf" \notin ToSet(queue[n])
    <3>1. /\ ToSet(queue'[n]) = ToSet(queue[n]) \cup {s}
          /\ \A m \in Nodes \ {n} : queue'[m] = queue[m]
      BY <2>2, LocksFacts, Distinct DEF TransactionsInv
    <3>2. "rollbackSelf" \notin ToSet(queue'[n])
      BY <2>2, <3>1, Distinct DEF Closings
    <3>3. queue[n] # <<"rollbackSelf">>
      BY <2>2, SingleFacts
    <3> QED BY <2>2, <3>1, <3>2, <3>3 DEF KeptInv, Commands
  <2> QED BY <2>1, <2>2
<1>6. OpenAround' /\ Session'
  BY DEF KeptInv, OpenAround, Session, Entered
<1>7. Aborts'
  BY <1>1, AbortsStay DEF Entered
<1>8. Before'
  BY <1>1, BeforeStays DEF Entered
<1>9. LogStands'
  BY <1>1, LogStandsStays DEF Stands, Entered
<1> QED BY <1>3, <1>4, <1>5, <1>6, <1>7, <1>8, <1>9 DEF KeptInv

LEMMA OpenKeepsLog ==
  ASSUME TransactionsInv, KeptInv, NEW n \in Nodes, NEW c \in Savepoints, Open(n, c)
  PROVE  KeptInv'
<1>1. /\ node[n] = "active" /\ node[c] = "none" /\ "rollbackSelf" \notin ToSet(queue[n])
      /\ node' = [node EXCEPT ![c] = "waiting"] /\ queue' = Locks(n, c)
      /\ within' = [within EXCEPT ![c] = within[n] \cup {c}]
      /\ closed' = closed /\ self' = self /\ stmt' = stmt /\ issuer' = issuer /\ server' = server
      /\ broken' = broken /\ unknown' = unknown /\ durable' = durable
  BY DEF Open, Usable, NextSavepoint
<1>2. /\ c \in Nodes /\ c # Root /\ node'[c] = "waiting"
      /\ \A m \in Nodes \ {c} : node'[m] = node[m] /\ within'[m] = within[m]
  BY <1>1, Distinct DEF TransactionsInv, TypeOK
<1>3. /\ queue'[n] = Append(queue[n], c) /\ ToSet(queue'[n]) = ToSet(queue[n]) \cup {c}
      /\ \A m \in Nodes \ {n} : queue'[m] = queue[m]
  BY <1>1, LocksFacts, Distinct DEF TransactionsInv
<1>4. \A x \in Savepoints : (Entered(x)' <=> Entered(x)) /\ (Entered(x) => within'[x] = within[x])
  BY <1>1, <1>2, Distinct DEF Entered
<1>5. Began'
  BY <1>1, <1>2, BeganStays
<1>6. Waiting'
  <2>1. OnceEach(queue'[n])
    <3>1. queue[n] \in Seq(Items) /\ OnceEach(queue[n]) /\ c \notin Stmts
      BY Distinct DEF TransactionsInv, TypeOK, Items, KeptInv, Waiting
    <3> QED BY <1>3, <3>1, OnceAppend, Distinct
  <2>2. c \notin Stmts
    BY Distinct
  <2> QED BY <1>1, <1>3, <2>1, <2>2 DEF KeptInv, Waiting
<1>7. Commands'
  <2>1. "rollbackSelf" \notin ToSet(queue'[n]) /\ queue[n] # <<"rollbackSelf">>
    BY <1>1, <1>3, Distinct, SingleFacts DEF Closings
  <2> QED BY <1>1, <1>3, <2>1 DEF KeptInv, Commands
<1>8. OpenAround'
  BY <1>1, <1>4 DEF KeptInv, OpenAround
<1>9. Session'
  BY <1>1, <1>2, Distinct DEF KeptInv, Session
<1>10. Aborts'
  BY <1>1, <1>4, AbortsStay
<1>11. Before'
  BY <1>1, <1>2, <1>4, BeforeStays
<1>12. LogStands'
  <2>1. \A m \in Savepoints : node[m] \notin {"none", "waiting"} => (Stands(m)' <=> Stands(m))
    BY <1>1, <1>2, <1>4, Distinct DEF Stands
  <2> QED BY <1>1, <1>2, <2>1, LogStandsStays
<1> QED BY <1>5, <1>6, <1>7, <1>8, <1>9, <1>10, <1>11, <1>12 DEF KeptInv

LEMMA RollbackSelfKeepsLog ==
  ASSUME TransactionsInv, KeptInv, NEW n \in Nodes, RollbackSelf(n)
  PROVE  KeptInv'
<1>1. /\ node[n] = "active" /\ ~closed[n] /\ queue[n] = <<>>
      /\ self' = [self EXCEPT ![n] = TRUE] /\ queue' = Locks(n, "rollbackSelf")
      /\ node' = node /\ within' = within /\ closed' = closed /\ stmt' = stmt /\ issuer' = issuer
      /\ server' = server /\ broken' = broken /\ unknown' = unknown
  BY DEF RollbackSelf, Awaited
<1>2. "rollbackSelf" \in Items /\ "rollbackSelf" \in Closings
  BY DEF Items, Closings
<1>3. queue'[n] = <<"rollbackSelf">> /\ \A m \in Nodes \ {n} : queue'[m] = queue[m]
  BY <1>1, <1>2, LocksFacts, SingleFacts DEF TransactionsInv
<1>4. self'[n] /\ \A m \in Nodes \ {n} : self'[m] = self[m]
  BY <1>1 DEF TransactionsInv, TypeOK
<1>5. Began'
  BY <1>1 DEF KeptInv, Began
<1>6. Waiting'
  <2>1. ToSet(queue'[n]) = {"rollbackSelf"} /\ "rollbackSelf" \notin Stmts /\ OnceEach(queue'[n])
    BY <1>2, <1>3, SingleFacts, OnceSingle, Distinct
  <2> QED BY <1>1, <1>3, <2>1 DEF KeptInv, Waiting
<1>7. Commands'
  BY <1>1, <1>3, <1>4 DEF KeptInv, Commands
<1>8. OpenAround' /\ Session' /\ Before'
  BY <1>1 DEF KeptInv, OpenAround, Session, Before, Entered
<1>9. Aborts'
  BY <1>1, AbortsStay DEF Entered
<1>10. LogStands'
  <2>1. \A m \in Savepoints : Stands(m)' <=> Stands(m)
    BY <1>1, <1>4, Distinct DEF Stands, Entered
  <2> QED BY <1>1, <2>1, LogStandsStays
<1> QED BY <1>5, <1>6, <1>7, <1>8, <1>9, <1>10 DEF KeptInv

LEMMA CallbackKeepsLog ==
  ASSUME TransactionsInv, KeptInv, NEW n \in Nodes, NEW ok \in BOOLEAN, Callback(n, ok)
  PROVE  KeptInv'
<1> DEFINE command == AfterCallback(n, ok)
<1>1. /\ node[n] = "active" /\ queue[n] = <<>>
      /\ node' = [node EXCEPT ![n] = IF ok THEN "closing" ELSE "throwing"]
      /\ queue' = queue \/ (queue' = Locks(n, command) /\ ~closed[n])
      /\ within' = within /\ closed' = closed /\ self' = self /\ stmt' = stmt /\ issuer' = issuer
      /\ server' = server /\ broken' = broken /\ unknown' = unknown
  BY DEF Callback, Awaited
<1>2. command \in Items /\ command \in Closings \ {"rollbackSelf"} /\ command \notin Stmts
  <2>1. command \in {"commit", "rollback"}
    BY DEF AfterCallback
  <2> QED BY <2>1, Distinct DEF Items, Closings
<1> HIDE DEF command
<1>3. /\ queue'[n] = <<>> \/ (queue'[n] = <<command>> /\ ~closed[n])
      /\ \A m \in Nodes \ {n} : queue'[m] = queue[m]
  BY <1>1, <1>2, LocksFacts, SingleFacts DEF TransactionsInv
<1>4. node'[n] \in {"closing", "throwing"} /\ \A m \in Nodes \ {n} : node'[m] = node[m]
  BY <1>1 DEF TransactionsInv, TypeOK
<1>5. \A x \in Savepoints : Entered(x)' <=> Entered(x)
  BY <1>1, <1>4, Distinct DEF Entered
<1>6. Began'
  BY <1>1, <1>4, BeganStays
<1>7. Waiting'
  <2>1. OnceEach(<<>>) /\ OnceEach(<<command>>) /\ ToSet(<<>>) = {} /\ ToSet(<<command>>) = {command}
    BY SingleFacts, OnceSingle
  <2>2. ToSet(queue'[n]) \subseteq {command} /\ OnceEach(queue'[n])
    BY <1>3, <2>1
  <2>3. Stmts \cap ToSet(queue'[n]) = {}
    BY <1>2, <2>2
  <2> QED BY <1>1, <1>3, <2>2, <2>3 DEF KeptInv, Waiting
<1>8. Commands'
  <2>1. "rollbackSelf" \notin ToSet(queue'[n])
    BY <1>2, <1>3, SingleFacts
  <2>2. queue[n] # <<"rollbackSelf">> /\ (closed[n] => ToSet(queue'[n]) = {})
    BY <1>1, <1>3, SingleFacts
  <2> QED BY <1>1, <1>3, <2>1, <2>2 DEF KeptInv, Commands
<1>9. OpenAround'
  BY <1>1, <1>5 DEF KeptInv, OpenAround
<1>10. Session'
  <2>1. node'[Root] \in {"active", "closing"} => node[Root] \in {"active", "closing"}
    BY <1>1, <1>4, Distinct
  <2> QED BY <1>1, <2>1 DEF KeptInv, Session
<1>11. Aborts'
  BY <1>1, <1>5, AbortsStay
<1>12. Before'
  BY <1>1, <1>5, BeforeStays
<1>13. LogStands'
  <2>1. \A m \in Savepoints : Stands(m)' <=> Stands(m)
    BY <1>1, <1>4, <1>5, Distinct DEF Stands
  <2> QED BY <1>1, <2>1, LogStandsStays
<1> QED BY <1>6, <1>7, <1>8, <1>9, <1>10, <1>11, <1>12, <1>13 DEF KeptInv
LEMMA ExecuteKeepsLog ==
  ASSUME TransactionsInv, KeptInv, NEW n \in Nodes, NEW s \in Stmts, Execute(n, s)
  PROVE  KeptInv'
<1>1. /\ Turn(n, s) /\ queue' = Passes(n)
      /\ \/ /\ ~broken /\ ~server.aborted /\ ~OuterClosed(n) /\ stmt' = [stmt EXCEPT ![s] = "ok"]
            /\ server' = [server EXCEPT !.log = Append(@, s)]
         \/ /\ stmt' = [stmt EXCEPT ![s] = "failed"]
            /\ server' = [server EXCEPT !.aborted = @ \/ (server.open /\ ~OuterClosed(n))]
      /\ node' = node /\ within' = within /\ closed' = closed /\ self' = self
      /\ issuer' = issuer /\ broken' = broken /\ unknown' = unknown
  BY DEF Execute
<1>2. node[n] = "active" /\ queue[n] # <<>> /\ s \in ToSet(queue[n]) /\ issuer[s] = n /\ stmt[s] # "none" /\ ~Held(n)
  BY <1>1, TurnOfCall
<1>3. stmt[s] = "waiting" /\ ~closed[n] /\ s \notin Savepoints
  BY <1>2, Distinct DEF KeptInv, Waiting, Commands
<1>4. \A m \in Nodes : Shrinks(queue'[m], queue[m])
  BY <1>1, <1>2, PassesFacts DEF TransactionsInv, Shrinks
<1>5. stmt'[s] \in {"ok", "failed"} /\ \A r \in Stmts \ {s} : stmt'[r] = stmt[r]
  BY <1>1 DEF TransactionsInv, TypeOK
<1>6. /\ Commands'
      /\ \A m \in Nodes : OnceEach(queue'[m]) /\ ToSet(queue'[m]) \subseteq ToSet(queue[m])
  <2>1. \A m \in Nodes : queue[m] = <<"rollbackSelf">> => queue'[m] = queue[m]
    <3>1. queue[n] # <<"rollbackSelf">>
      BY <1>2, SingleFacts, Distinct DEF Closings
    <3>2. \A m \in Nodes \ {n} : queue'[m] = queue[m]
      BY <1>1, <1>2, PassesFacts DEF TransactionsInv
    <3> QED BY <3>1, <3>2
  <2> QED BY <1>1, <1>4, <2>1, CommandsStay
<1>7. Waiting'
  <2>1. \A m \in Nodes : s \notin ToSet(queue'[m])
    <3>1. queue[n] \in Seq(Items) /\ OnceEach(queue[n]) /\ Head(queue[n]) = s /\ queue'[n] = Tail(queue[n])
      BY <1>1, <1>2, PassesFacts DEF TransactionsInv, TypeOK, Items, KeptInv, Waiting, Turn
    <3>2. s \notin ToSet(queue'[n])
      BY <1>2, <3>1, OnceTail
    <3>3. \A m \in Nodes \ {n} : s \notin ToSet(queue[m])
      BY <1>2 DEF TransactionsInv, Callers
    <3> QED BY <1>6, <3>2, <3>3
  <2>2. \A m \in Nodes, r \in Stmts : r \in ToSet(queue'[m]) => r \in ToSet(queue[m]) /\ stmt'[r] = stmt[r]
    BY <1>5, <1>6, <2>1
  <2> QED BY <1>6, <2>2, WaitingStays
<1>8. Began'
  BY <1>1, <1>2, <1>5, BeganStays
<1>9. OpenAround'
  BY <1>1, OpenAroundStays DEF Entered
<1>10. /\ server.log \in Seq(Stmts) /\ Len(server.log) \in Nat /\ server.mark \in [Nodes -> Nat]
       /\ server.aborted \in BOOLEAN /\ server.open \in BOOLEAN
  BY ServerType DEF TransactionsInv, TypeOK
<1>11. /\ server'.open = server.open /\ server'.mark = server.mark
       /\ \/ server'.log = Append(server.log, s) /\ server'.aborted = server.aborted /\ stmt'[s] = "ok"
             /\ ~broken /\ ~OuterClosed(n)
          \/ server'.log = server.log /\ (server'.aborted => server.aborted \/ server.open) /\ stmt'[s] = "failed"
  BY <1>1, <1>10 DEF TransactionsInv, TypeOK
<1>12. Session'
  BY <1>1, <1>10, <1>11 DEF KeptInv, Session
<1>13. Aborts'
  <2>1. CASE stmt'[s] = "ok"
    <3>1. server'.aborted => server.aborted
      BY <1>11, <2>1
    <3> QED BY <1>1, <1>3, <1>5, <3>1, AbortsStay DEF Entered
  <2>2. CASE stmt'[s] = "failed" /\ n = Root
    BY <1>1, <1>2, <2>2 DEF Aborts, RootFailed
  <2>3. CASE stmt'[s] = "failed" /\ n # Root
    <3>1. n \in Savepoints /\ Entered(n)' /\ ~closed'[n]
      BY <1>1, <1>2, <1>3, <2>3 DEF Entered, Nodes
    <3> QED BY <3>1 DEF Aborts
  <2> QED BY <1>5, <2>1, <2>2, <2>3
<1>14. Before'
  <2> SUFFICES ASSUME NEW x \in Savepoints, Entered(x), NEW i \in 1 .. server.mark[x]
               PROVE  x \notin within[issuer[server'.log[i]]]
    BY <1>1, <1>11 DEF Before, Entered
  <2>1. server.mark[x] \in Nat /\ server.mark[x] <= Len(server.log)
    BY <1>10, Distinct DEF TransactionsInv, Marks
  <2>2. server'.log[i] = server.log[i]
    BY <1>10, <1>11, <2>1
  <2> QED BY <2>2 DEF KeptInv, Before
<1>15. LogStands'
  <2>1. \A m \in Savepoints : Stands(m)' <=> Stands(m)
    BY <1>1 DEF Stands, Entered
  <2>2. CASE stmt'[s] = "failed"
    <3>1. \A r \in Stmts : stmt'[r] = "ok" <=> stmt[r] = "ok"
      BY <1>3, <1>5, <2>2
    <3> QED BY <1>1, <1>11, <2>1, <2>2, <3>1, LogStandsStays
  <2>3. CASE stmt'[s] = "ok"
    <3>1. server'.log = Append(server.log, s) /\ ~OuterClosed(n)
      BY <1>11, <2>3
    <3>2. ToSet(server'.log) = ToSet(server.log) \cup {s}
      BY <1>10, <3>1, AppendFacts
    <3>3. within[n] \subseteq Savepoints /\ \A m \in within[n] : Stands(m)
      <4>1. within[n] \subseteq Savepoints
        BY DEF TransactionsInv, TypeOK
      <4>2. ASSUME NEW m \in within[n] PROVE Entered(m)
        <5>1. n # Root
          BY <4>2 DEF TransactionsInv, Tree
        <5>2. n \in Savepoints /\ Entered(n)
          BY <1>2, <5>1 DEF Entered, Nodes
        <5> QED BY <5>2 DEF TransactionsInv, Nested, Upwards
      <4>3. ASSUME NEW m \in within[n] PROVE ~closed[m]
        BY <1>3, <3>1 DEF OuterClosed
      <4> QED BY <4>1, <4>2, <4>3 DEF Stands
    <3>4. Standing' = Standing \cup {s}
      <4>1. \A r \in Stmts \ {s} : r \in Standing' <=> r \in Standing
        <5>1. ASSUME NEW r \in Stmts, stmt[r] = "ok" PROVE issuer[r] \in Nodes /\ within[issuer[r]] \subseteq Savepoints
          BY <5>1 DEF TransactionsInv, Tree, TypeOK
        <5>2. ASSUME NEW r \in Stmts, stmt[r] = "ok"
              PROVE  (\A m \in within[issuer[r]] : Stands(m)') <=> (\A m \in within[issuer[r]] : Stands(m))
          BY <2>1, <5>1, <5>2
        <5> QED BY <1>1, <1>5, <5>2 DEF Standing
      <4>2. s \in Standing'
        BY <1>1, <1>2, <2>1, <2>3, <3>3 DEF Standing
      <4> QED BY <4>1, <4>2 DEF Standing
    <3> QED BY <1>11, <3>2, <3>4 DEF KeptInv, LogStands
  <2> QED BY <1>5, <2>2, <2>3
<1> QED BY <1>6, <1>7, <1>8, <1>9, <1>12, <1>13, <1>14, <1>15 DEF KeptInv

LEMMA EnterKeepsLog ==
  ASSUME TransactionsInv, KeptInv, NEW n \in Nodes, NEW c \in Savepoints, Enter(n, c)
  PROVE  KeptInv'
<1>1. /\ Turn(n, c) /\ node[c] = "waiting"
      /\ within' = within /\ closed' = closed /\ self' = self /\ stmt' = stmt
      /\ issuer' = issuer /\ broken' = broken /\ unknown' = unknown
      /\ \/ /\ node' = [node EXCEPT ![c] = "active"] /\ queue' = queue
            /\ server' = [server EXCEPT !.mark[c] = Len(server.log)]
            /\ ~server.aborted /\ ~closed[n] /\ ~OuterClosed(n)
         \/ node' = [node EXCEPT ![c] = "rejected"] /\ queue' = Passes(n) /\ server' = server
  BY DEF Enter
<1>2. node[n] = "active" /\ queue[n] # <<>> /\ parent[c] = n /\ c \in Nodes /\ c # Root /\ c \in ToSet(queue[n])
  BY <1>1, TurnOfCall, Distinct
<1>3. node'[c] \in {"active", "rejected"} /\ \A m \in Nodes \ {c} : node'[m] = node[m]
  BY <1>1, <1>2 DEF TransactionsInv, TypeOK
<1>4. \A m \in Nodes : Shrinks(queue'[m], queue[m])
  BY <1>1, <1>2, PassesFacts DEF TransactionsInv, Shrinks
<1>5. /\ Commands'
      /\ \A m \in Nodes : OnceEach(queue'[m]) /\ ToSet(queue'[m]) \subseteq ToSet(queue[m])
  <2>1. \A m \in Nodes : queue[m] = <<"rollbackSelf">> => queue'[m] = queue[m]
    <3>1. queue[n] # <<"rollbackSelf">>
      <4>1. c # "rollbackSelf" /\ ToSet(<<"rollbackSelf">>) = {"rollbackSelf"}
        BY SingleFacts, Distinct DEF Closings
      <4> QED BY <1>2, <4>1
    <3>2. \A m \in Nodes \ {n} : queue'[m] = queue[m]
      BY <1>1, <1>2, PassesFacts DEF TransactionsInv
    <3> QED BY <3>1, <3>2
  <2> QED BY <1>1, <1>4, <2>1, CommandsStay
<1>6. Waiting'
  BY <1>1, <1>5, WaitingStays
<1>7. Began'
  BY <1>1, <1>3, BeganStays
<1>8. \A x \in Savepoints : (Entered(x)' /\ x # c <=> Entered(x)) /\ (Entered(c)' => node'[c] = "active")
  BY <1>1, <1>3, Distinct DEF Entered
<1>9. /\ server'.open = server.open /\ server'.aborted = server.aborted /\ server'.log = server.log
      /\ node'[c] = "active" => server'.mark[c] = Len(server.log) /\ ~closed[n] /\ ~OuterClosed(n)
      /\ \A x \in Nodes \ {c} : server'.mark[x] = server.mark[x]
  BY <1>1, <1>2 DEF TransactionsInv, TypeOK
<1>10. OpenAround'
  <2> SUFFICES ASSUME NEW x \in Savepoints, Entered(x)', NEW y \in (within[x] \cup {Root}) \ {x}
               PROVE  ~closed[y]
    BY <1>1 DEF OpenAround
  <2>1. CASE x # c
    BY <1>8, <2>1 DEF KeptInv, OpenAround
  <2>2. CASE x = c
    <3>1. within[c] = within[n] \cup {c} /\ ~closed[n] /\ ~OuterClosed(n)
      BY <1>1, <1>2, <1>8, <1>9, <2>2 DEF TransactionsInv, Tree
    <3> QED BY <2>2, <3>1 DEF OuterClosed
  <2> QED BY <2>1, <2>2
<1>11. Session'
  BY <1>1, <1>2, <1>3, <1>9, Distinct DEF KeptInv, Session
<1>12. Aborts'
  BY <1>1, <1>8, <1>9, AbortsStay
<1>13. Before'
  <2> SUFFICES ASSUME NEW x \in Savepoints, Entered(x)', NEW i \in 1 .. server'.mark[x]
               PROVE  x \notin within[issuer[server.log[i]]]
    BY <1>1, <1>9 DEF Before
  <2>1. CASE x # c
    <3>1. server'.mark[x] = server.mark[x] /\ Entered(x)
      BY <1>8, <1>9, <2>1, Distinct
    <3> QED BY <3>1 DEF KeptInv, Before
  <2>2. CASE x = c
    <3>1. i \in 1 .. Len(server.log)
      BY <1>8, <1>9, <2>2
    <3>2. server.log[i] \in Stmts /\ stmt[server.log[i]] # "none"
      BY <3>1 DEF TransactionsInv, Logged
    <3> QED BY <1>1, <2>2, <3>2 DEF KeptInv, Began
  <2> QED BY <2>1, <2>2
<1>14. LogStands'
  <2>1. \A m \in Savepoints : node[m] \notin {"none", "waiting"} => (Stands(m)' <=> Stands(m))
    BY <1>1, <1>3, <1>8, Distinct DEF Stands
  <2> QED BY <1>1, <1>9, <2>1, LogStandsStays
<1> QED BY <1>5, <1>6, <1>7, <1>10, <1>11, <1>12, <1>13, <1>14 DEF KeptInv
-----------------------------------------------------------------------------
(* Settling. *)
LEMMA LeavesFrame ==
  ASSUME TransactionsInv, KeptInv, NEW n \in Nodes, node[n] \in {"closing", "throwing"}, NEW queues,
         \/ queues = queue /\ queue[n] = <<>>
         \/ queues = Passes(n) /\ \E command \in {"commit", "rollback"} : queue[n] = <<command>>,
         Leaves(n, queues), UNCHANGED <<within, self, stmt, issuer>>, broken => broken',
         \A m \in Nodes : closed[m] => closed'[m],
         \A m \in Nodes \ {n} : closed'[m] = closed[m]
  PROVE  /\ Began' /\ Waiting' /\ Commands' /\ OpenAround'
         /\ node'[n] = IF node[n] = "throwing" THEN "rejected" ELSE "resolved"
         /\ \A m \in Nodes \ {n} : node'[m] = node[m]
         /\ \A x \in Savepoints : Entered(x)' <=> Entered(x) /\ x # n
         /\ ~Held(n) /\ (n # Root => Entered(n))
<1>1. /\ node' = [node EXCEPT ![n] = IF node[n] = "throwing" THEN "rejected" ELSE "resolved"]
      /\ queue'[n] = <<>> /\ ~Held(n)
      /\ n # Root => Entered(n) /\ parent[n] \in Nodes /\ parent[n] # n /\ queue[parent[n]] # <<"rollbackSelf">>
      /\ \A m \in Nodes : m # n /\ (n # Root => m # parent[n]) => queue'[m] = queue[m]
      /\ \A m \in Nodes : Shrinks(queue'[m], queue[m])
  <2>1. \A command \in {"commit", "rollback"} : command \in Closings
    BY DEF Closings
  <2>2. n # Root => queue[parent[n]] # <<"rollbackSelf">>
    <3> SUFFICES ASSUME n # Root, queue[parent[n]] = <<"rollbackSelf">> PROVE FALSE
      OBVIOUS
    <3>1. n \in Savepoints /\ Head(queue[parent[n]]) = n
      BY DEF Nodes, Entered, TransactionsInv, Nested, Holder
    <3>2. Head(queue[parent[n]]) = "rollbackSelf"
      BY SingleFacts
    <3> QED BY <3>1, <3>2, Distinct DEF Closings
  <2> QED BY <2>1, <2>2, LeavesFacts
<1>2. /\ node'[n] = (IF node[n] = "throwing" THEN "rejected" ELSE "resolved")
      /\ \A m \in Nodes \ {n} : node'[m] = node[m]
  BY <1>1 DEF TransactionsInv, TypeOK
<1>3. \A x \in Savepoints : Entered(x)' <=> Entered(x) /\ x # n
  BY <1>2, Distinct DEF Entered
<1>4. Began'
  BY <1>2, BeganStays
<1>5. /\ Commands'
      /\ \A m \in Nodes : OnceEach(queue'[m]) /\ ToSet(queue'[m]) \subseteq ToSet(queue[m])
  <2>1. queue[n] # <<"rollbackSelf">>
    <3>1. Head(<<"rollbackSelf">>) = "rollbackSelf" /\ \A e \in {"commit", "rollback"} : Head(<<e>>) = e
      BY SingleFacts
    <3> QED BY <3>1, SingleFacts
  <2>2. \A m \in Nodes : queue[m] = <<"rollbackSelf">> => queue'[m] = queue[m]
    BY <1>1, <2>1
  <2> QED BY <1>1, <2>2, CommandsStay
<1>6. Waiting'
  BY <1>5, WaitingStays
<1>7. OpenAround'
  BY <1>1, <1>3, OpenAroundStays
<1> QED BY <1>1, <1>2, <1>3, <1>4, <1>5, <1>6, <1>7

LEMMA LeavesClosedKeepsLog ==
  ASSUME TransactionsInv, KeptInv, NEW n \in Nodes, LeavesClosed(n)
  PROVE  KeptInv' /\ self'[n]
<1>1. /\ node[n] \in {"closing", "throwing"} /\ closed[n] /\ self[n] /\ queue[n] = <<>> /\ Leaves(n, queue)
      /\ parent' = parent /\ within' = within /\ closed' = closed /\ self' = self /\ stmt' = stmt /\ issuer' = issuer
      /\ server' = server /\ broken' = broken /\ unknown' = unknown
  BY DEF LeavesClosed
<1>2. /\ Began' /\ Waiting' /\ Commands' /\ OpenAround'
      /\ node'[n] \in {"resolved", "rejected"}
      /\ \A m \in Nodes \ {n} : node'[m] = node[m]
      /\ \A x \in Savepoints : Entered(x)' <=> Entered(x) /\ x # n
  BY <1>1, LeavesFrame
<1>3. Session'
  BY <1>1, <1>2, Distinct DEF KeptInv, Session
<1>4. Aborts'
  BY <1>1, <1>2, AbortsStay
<1>5. Before'
  BY <1>1, <1>2, BeforeStays
<1>6. LogStands'
  <2>1. \A m \in Savepoints : Stands(m)' <=> Stands(m)
    BY <1>1, <1>2, Distinct DEF Stands
  <2> QED BY <1>1, <2>1, LogStandsStays
<1> QED BY <1>1, <1>2, <1>3, <1>4, <1>5, <1>6 DEF KeptInv

(* ROLLBACK TO cuts off the queries of the innermost transaction, and no other. *)
LEMMA RolledBackLog ==
  ASSUME TransactionsInv, KeptInv, NEW n \in Savepoints, Entered(n), ~closed[n], server' = RolledBack(n),
         ~Held(n), UNCHANGED <<within, stmt, issuer>>,
         \A x \in Savepoints \ {n} : Stands(x)' <=> Stands(x), ~Stands(n)',
         \A x \in Savepoints : Entered(x)' => Entered(x)
  PROVE  Before' /\ LogStands' /\ server'.open = server.open /\ ~server'.aborted
<1> DEFINE k == server.mark[n]
<1>1. /\ server.log \in Seq(Stmts) /\ Len(server.log) \in Nat /\ k \in Nat /\ k <= Len(server.log)
      /\ server.mark \in [Nodes -> Nat]
  BY ServerType, Distinct DEF TransactionsInv, Marks
<1>2. /\ server'.open = server.open /\ server'.aborted = FALSE /\ server'.mark = server.mark
      /\ server'.log = SubSeq(server.log, 1, k)
  BY Distinct DEF RolledBack, TransactionsInv, TypeOK
<1> HIDE DEF k
<1>3. /\ DOMAIN server.log = 1 .. Len(server.log) /\ DOMAIN server'.log = 1 .. k
      /\ \A i \in 1 .. k : server'.log[i] = server.log[i]
  BY <1>1, <1>2
<1>4. Before'
  <2> SUFFICES ASSUME NEW x \in Savepoints, Entered(x), NEW i \in 1 .. server.mark[x]
               PROVE  x \notin within[issuer[server'.log[i]]]
    BY <1>2 DEF Before
  <2>1. x \in within[n]
    BY Innermost DEF Nodes
  <2>2. server.mark[x] <= k /\ server.mark[x] \in Nat
    BY <1>1, <2>1, Distinct DEF TransactionsInv, Marks, k
  <2>3. server'.log[i] = server.log[i]
    BY <1>1, <1>3, <2>2
  <2> QED BY <2>3 DEF KeptInv, Before
<1>5. ToSet(server'.log) = {s \in ToSet(server.log) : n \notin within[issuer[s]]}
  <2>1. ASSUME NEW i \in 1 .. k PROVE server.log[i] \in ToSet(server.log) /\ n \notin within[issuer[server.log[i]]]
    BY <1>1, <1>3 DEF KeptInv, Before, ToSet, k
  <2>2. ASSUME NEW i \in 1 .. Len(server.log), n \notin within[issuer[server.log[i]]] PROVE i \in 1 .. k
    <3>1. ~(i \in k + 1 .. Len(server.log))
      BY <2>2 DEF TransactionsInv, Marks, k
    <3> QED BY <1>1, <3>1
  <2>3. ToSet(server'.log) \subseteq {s \in ToSet(server.log) : n \notin within[issuer[s]]}
    BY <1>3, <2>1 DEF ToSet
  <2>4. {s \in ToSet(server.log) : n \notin within[issuer[s]]} \subseteq ToSet(server'.log)
    BY <1>3, <2>2 DEF ToSet
  <2> QED BY <2>3, <2>4
<1>6. Standing' = {s \in Standing : n \notin within[issuer[s]]}
  <2>1. ASSUME NEW s \in Stmts, stmt[s] = "ok" PROVE within[issuer[s]] \subseteq Savepoints
    BY <2>1 DEF TransactionsInv, Tree, TypeOK
  <2>2. ASSUME NEW s \in Stmts, stmt[s] = "ok"
        PROVE  (\A m \in within[issuer[s]] : Stands(m)') <=>
               (\A m \in within[issuer[s]] : Stands(m)) /\ n \notin within[issuer[s]]
    <3>1. Stands(n)
      BY DEF Stands
    <3> QED BY <2>1, <2>2, <3>1
  <2> QED BY <2>2 DEF Standing
<1>7. LogStands'
  BY <1>2, <1>5, <1>6 DEF KeptInv, LogStands
<1> QED BY <1>2, <1>4, <1>7

LEMMA RollbackKeepsLog ==
  ASSUME TransactionsInv, KeptInv, NEW n \in Nodes, NEW command \in Closings, Rollback(n, command)
  PROVE  KeptInv' /\ node'[Root] # "resolved"
<1>1. /\ Turn(n, command) /\ command \in {"rollback", "rollbackSelf"}
      /\ \/ broken /\ closed' = closed /\ server' = server
         \/ ~broken /\ closed' = [closed EXCEPT ![n] = TRUE] /\ server' = RolledBack(n)
      /\ command = "rollback" => Leaves(n, Passes(n))
      /\ command # "rollback" => queue' = Passes(n) /\ node' = node
      /\ within' = within /\ self' = self /\ stmt' = stmt /\ issuer' = issuer
      /\ broken' = broken /\ unknown' = unknown
  BY DEF Rollback, Close
<1>2. /\ command = "rollback" => node[n] = "throwing"
      /\ command = "rollbackSelf" => node[n] = "active"
      /\ ~Held(n) /\ queue[n] = <<command>> /\ ~closed[n]
  <2>1. queue[n] \in Seq(Items) /\ queue[n] # <<>> /\ Head(queue[n]) = command
    BY <1>1 DEF TransactionsInv, TypeOK, Items, Turn
  <2>2. command \in ToSet(queue[n]) /\ command \notin Savepoints
    BY <2>1, TailFacts, Distinct
  <2> QED BY <1>1, <2>2, TurnOfCommand DEF KeptInv, Commands
<1>3. closed' \in [Nodes -> BOOLEAN] /\ (~broken => closed'[n]) /\ \A m \in Nodes \ {n} : closed'[m] = closed[m]
  BY <1>1 DEF TransactionsInv, TypeOK
<1>4. n # Root => n \in Savepoints /\ Entered(n)
  BY <1>1, <1>2 DEF Nodes, Entered
<1>5. /\ Began' /\ Waiting' /\ Commands' /\ OpenAround'
      /\ node'[n] = IF command = "rollback" THEN "rejected" ELSE "active"
      /\ \A m \in Nodes \ {n} : node'[m] = node[m]
  <2>1. CASE command = "rollback"
    <3>1. node[n] \in {"closing", "throwing"} /\ \E c \in {"commit", "rollback"} : queue[n] = <<c>>
      BY <1>2, <2>1
    <3>2. Leaves(n, Passes(n)) /\ UNCHANGED <<within, self, stmt, issuer>> /\ (broken => broken')
      BY <1>1, <2>1
    <3>3. \A m \in Nodes : closed[m] => closed'[m]
      BY <1>2, <1>3
    <3> QED BY <1>2, <1>3, <2>1, <3>1, <3>2, <3>3, LeavesFrame
  <2>2. CASE command = "rollbackSelf"
    <3>1. queue' = Passes(n) /\ node' = node
      BY <1>1, <2>2
    <3>2. queue'[n] = <<>> /\ \A m \in Nodes \ {n} : queue'[m] = queue[m]
      <4>1. queue[n] # <<>> /\ Tail(queue[n]) = <<>>
        BY <1>2, SingleFacts
      <4> QED BY <3>1, <4>1, PassesFacts DEF TransactionsInv
    <3>3. \A m \in Nodes : Shrinks(queue'[m], queue[m])
      BY <1>2, <3>2, SingleFacts DEF Shrinks
    <3>4. /\ \A m \in Nodes : closed'[m] => closed[m] \/ queue'[m] = <<>>
          /\ \A m \in Nodes : closed[m] => closed'[m]
          /\ \A m \in Nodes : queue[m] = <<"rollbackSelf">> /\ ~broken' => queue'[m] = queue[m] \/ closed'[m]
      BY <1>1, <1>2, <1>3, <3>2
    <3>5. Commands' /\ \A m \in Nodes : OnceEach(queue'[m]) /\ ToSet(queue'[m]) \subseteq ToSet(queue[m])
      BY <1>1, <3>3, <3>4, CommandsStay
    <3>6. Waiting'
      BY <1>1, <3>5, WaitingStays
    <3>7. Began'
      BY <1>1, <3>1, BeganStays
    <3>8. OpenAround'
      BY <1>1, <1>2, <1>3, <3>1, OpenAroundStays DEF Entered
    <3> QED BY <1>2, <2>2, <3>1, <3>5, <3>6, <3>7, <3>8
  <2> QED BY <1>1, <2>1, <2>2
<1>6. /\ \A x \in Savepoints : Entered(x)' => Entered(x)
      /\ \A x \in Savepoints \ {n} : (Entered(x)' <=> Entered(x)) /\ (Stands(x)' <=> Stands(x))
  BY <1>1, <1>2, <1>3, <1>5, Distinct DEF Entered, Stands
<1>7. ASSUME broken PROVE KeptInv'
  <2>1. server' = server /\ ~server.open /\ ~server.aborted
    BY <1>1, <1>7 DEF KeptInv, Session
  <2>2. Session' /\ Aborts' /\ LogStands'
    BY <1>1, <1>7, <2>1 DEF KeptInv, Session, Aborts, LogStands
  <2>3. Before'
    BY <1>1, <1>6, <2>1, BeforeStays
  <2> QED BY <1>5, <2>2, <2>3 DEF KeptInv
<1>8. ASSUME ~broken, n = Root PROVE KeptInv'
  <2>1. server' = NotOpen /\ closed'[Root]
    BY <1>1, <1>3, <1>8 DEF RolledBack
  <2>2. ~server'.open /\ ~server'.aborted
    BY <2>1 DEF NotOpen
  <2>3. Session' /\ Aborts' /\ LogStands'
    BY <1>1, <1>8, <2>1, <2>2 DEF KeptInv, Session, Aborts, LogStands
  <2>4. Before'
    BY <1>1, <1>6, <2>1, BeforeStays
  <2> QED BY <1>5, <2>3, <2>4 DEF KeptInv
<1>9. ASSUME ~broken, n # Root PROVE KeptInv'
  <2>1. server' = RolledBack(n) /\ ~Stands(n)' /\ Entered(n) /\ n \in Savepoints
    BY <1>1, <1>3, <1>4, <1>5, <1>9 DEF Stands, Entered
  <2>2. Before' /\ LogStands' /\ server'.open = server.open /\ ~server'.aborted
    BY <1>1, <1>2, <1>6, <2>1, RolledBackLog
  <2>3. Session'
    BY <1>1, <1>3, <1>5, <1>9, <2>2, Distinct DEF KeptInv, Session
  <2>4. Aborts'
    BY <2>2 DEF Aborts
  <2> QED BY <1>5, <2>2, <2>3, <2>4 DEF KeptInv
<1>10. node'[Root] # "resolved" \/ node[Root] = "resolved"
  BY <1>5, Distinct
<1>11. node[Root] # "resolved"
  <2>1. CASE n = Root
    BY <1>1, <1>2, <2>1
  <2>2. CASE n # Root
    <3>1. n \in Savepoints /\ Entered(n)
      BY <1>4, <2>2
    <3>2. queue[Root] # <<>>
      BY <2>2, <3>1 DEF TransactionsInv, Nested, Path
    <3> QED BY <3>2, Distinct DEF TransactionsInv, Queues
  <2> QED BY <2>1, <2>2
<1> QED BY <1>7, <1>8, <1>9, <1>10, <1>11
LEMMA TurnOfCommit ==
  ASSUME TransactionsInv, KeptInv, NEW n \in Nodes, Turn(n, "commit")
  PROVE  node[n] = "closing" /\ queue[n] = <<"commit">> /\ ~closed[n] /\ ~Held(n) /\ (~broken => ~self[n])
<1>1. node[n] = "closing" /\ queue[n] = <<"commit">> /\ ~Held(n)
  BY TurnOfCommand DEF Closings
<1>2. ToSet(queue[n]) = {"commit"} /\ "commit" \notin Savepoints
  BY <1>1, SingleFacts, Distinct DEF Closings
<1>3. queue[n] # <<"rollbackSelf">>
  <2>1. Head(<<"commit">>) = "commit" /\ Head(<<"rollbackSelf">>) = "rollbackSelf"
    BY SingleFacts
  <2> QED BY <1>1, <2>1
<1>4. ~closed[n]
  BY <1>2 DEF KeptInv, Commands
<1> QED BY <1>1, <1>3, <1>4 DEF KeptInv, Commands

LEMMA CommitFailsFrame ==
  ASSUME TransactionsInv, KeptInv, NEW n \in Nodes, Turn(n, "commit"), CommitFails(n),
         UNCHANGED <<within, self, stmt, issuer>>, broken => broken'
  PROVE  /\ Began' /\ Waiting' /\ Commands' /\ OpenAround'
         /\ node'[n] = "throwing" /\ closed' = closed
         /\ \A m \in Nodes \ {n} : node'[m] = node[m]
         /\ \A x \in Savepoints : Entered(x)' <=> Entered(x)
<1>1. /\ node' = [node EXCEPT ![n] = "throwing"] /\ queue' = [Passes(n) EXCEPT ![n] = Append(@, "rollback")]
      /\ closed' = closed
  BY DEF CommitFails
<1>2. node[n] = "closing" /\ queue[n] = <<"commit">> /\ ~closed[n]
  BY TurnOfCommit
<1>3. Append(<<>>, "rollback") = <<"rollback">> /\ queue[n] # <<>> /\ Tail(queue[n]) = <<>>
  BY <1>2, SingleFacts
<1>4. queue'[n] = <<"rollback">> /\ \A m \in Nodes \ {n} : queue'[m] = queue[m]
  BY <1>1, <1>3, PassesFacts DEF TransactionsInv
<1>5. ToSet(queue'[n]) = {"rollback"} /\ OnceEach(queue'[n]) /\ "rollback" \notin Stmts
  BY <1>4, SingleFacts, OnceSingle, Distinct DEF Closings
<1>6. node'[n] = "throwing" /\ \A m \in Nodes \ {n} : node'[m] = node[m]
  BY <1>1 DEF TransactionsInv, TypeOK
<1>7. \A x \in Savepoints : Entered(x)' <=> Entered(x)
  BY <1>2, <1>6, Distinct DEF Entered
<1>8. Began'
  BY <1>6, BeganStays
<1>9. Waiting'
  BY <1>4, <1>5 DEF KeptInv, Waiting
<1>10. Commands'
  <2>1. queue[n] # <<"rollbackSelf">>
    <3>1. Head(<<"commit">>) = "commit" /\ Head(<<"rollbackSelf">>) = "rollbackSelf"
      BY SingleFacts
    <3> QED BY <1>2, <3>1
  <2>2. "rollbackSelf" \notin ToSet(queue'[n])
    BY <1>5
  <2> QED BY <1>1, <1>2, <1>4, <2>1, <2>2 DEF KeptInv, Commands
<1>11. OpenAround'
  BY <1>1, <1>7, OpenAroundStays
<1> QED BY <1>1, <1>6, <1>7, <1>8, <1>9, <1>10, <1>11

LEMMA ReleaseKeepsLog ==
  ASSUME TransactionsInv, KeptInv, NEW n \in Nodes, Release(n)
  PROVE  KeptInv' /\ n # Root /\ \A m \in Nodes \ {n} : node'[m] = node[m]
<1>1. /\ Turn(n, "commit") /\ n # Root
      /\ within' = within /\ self' = self /\ stmt' = stmt /\ issuer' = issuer /\ server' = server
      /\ broken' = broken /\ unknown' = unknown
      /\ \/ CommitFails(n)
         \/ ~broken /\ ~server.aborted /\ Leaves(n, Passes(n)) /\ closed' = [closed EXCEPT ![n] = TRUE]
  BY DEF Release, Close
<1>2. node[n] = "closing" /\ queue[n] = <<"commit">> /\ ~closed[n] /\ ~Held(n) /\ (~broken => ~self[n])
  BY <1>1, TurnOfCommit
<1>3. /\ Began' /\ Waiting' /\ Commands' /\ OpenAround'
      /\ \A m \in Nodes \ {n} : node'[m] = node[m]
      /\ \/ node'[n] = "throwing" /\ closed' = closed /\ \A x \in Savepoints : Entered(x)' <=> Entered(x)
         \/ /\ node'[n] = "resolved" /\ ~server.aborted /\ ~self[n]
            /\ \A m \in Nodes \ {n} : closed'[m] = closed[m]
            /\ \A x \in Savepoints : Entered(x)' <=> Entered(x) /\ x # n
  <2>1. CASE CommitFails(n)
    BY <1>1, <2>1, CommitFailsFrame
  <2>2. CASE ~broken /\ ~server.aborted /\ Leaves(n, Passes(n)) /\ closed' = [closed EXCEPT ![n] = TRUE]
    <3>1. closed'[n] /\ \A m \in Nodes \ {n} : closed'[m] = closed[m]
      BY <2>2 DEF TransactionsInv, TypeOK
    <3>2. node[n] \in {"closing", "throwing"} /\ \E c \in {"commit", "rollback"} : queue[n] = <<c>>
      BY <1>2
    <3>3. \A m \in Nodes : closed[m] => closed'[m]
      BY <3>1
    <3> QED BY <1>1, <1>2, <2>2, <3>1, <3>2, <3>3, LeavesFrame
  <2> QED BY <1>1, <2>1, <2>2
<1>4. Session'
  <2>1. Root \in Nodes /\ node'[Root] = node[Root] /\ closed'[Root] = closed[Root]
    BY <1>1, <1>3, Distinct
  <2> QED BY <1>1, <2>1 DEF KeptInv, Session
<1>5. Aborts'
  <2>1. CASE server.aborted
    <3>1. \A x \in Savepoints : (Entered(x)' <=> Entered(x)) /\ closed'[x] = closed[x]
      BY <1>3, <2>1
    <3> QED BY <1>1, <3>1, AbortsStay
  <2>2. CASE ~server.aborted
    BY <1>1, <2>2 DEF Aborts
  <2> QED BY <2>1, <2>2
<1>6. Before'
  BY <1>1, <1>3, BeforeStays
<1>7. LogStands'
  <2>1. n \in Savepoints /\ Entered(n)
    BY <1>1, <1>2 DEF Nodes, Entered
  <2>2. Stands(n) /\ Stands(n)'
    BY <1>1, <1>2, <1>3, <2>1 DEF Stands, Entered
  <2>3. \A m \in Savepoints \ {n} : Stands(m)' <=> Stands(m)
    BY <1>1, <1>3, Distinct DEF Stands
  <2> QED BY <1>1, <2>2, <2>3, LogStandsStays
<1> QED BY <1>1, <1>3, <1>4, <1>5, <1>6, <1>7 DEF KeptInv

(* COMMIT makes durable what stands. *)
LEMMA CommitKeepsLog ==
  ASSUME TransactionsInv, KeptInv, Commit
  PROVE  KeptInv' /\ ResolvedLeavesAll'
<1>1. /\ Turn(Root, "commit") /\ ~broken /\ server' = NotOpen /\ closed' = [closed EXCEPT ![Root] = TRUE]
      /\ Leaves(Root, Passes(Root)) /\ durable' = IF server.aborted THEN durable ELSE durable \cup ToSet(server.log)
      /\ within' = within /\ self' = self /\ stmt' = stmt /\ issuer' = issuer
      /\ broken' = broken /\ unknown' = unknown
  BY DEF Commit, Close
<1>2. /\ Root \in Nodes /\ node[Root] = "closing" /\ queue[Root] = <<"commit">> /\ ~closed[Root] /\ ~Held(Root)
  BY <1>1, TurnOfCommit, Distinct
<1>3. closed'[Root] /\ \A m \in Nodes \ {Root} : closed'[m] = closed[m]
  BY <1>1, <1>2 DEF TransactionsInv, TypeOK
<1>4. /\ Began' /\ Waiting' /\ Commands' /\ OpenAround'
      /\ node'[Root] = "resolved"
      /\ \A m \in Nodes \ {Root} : node'[m] = node[m]
      /\ \A x \in Savepoints : Entered(x)' <=> Entered(x)
  <2>1. node[Root] \in {"closing", "throwing"} /\ \E c \in {"commit", "rollback"} : queue[Root] = <<c>>
    BY <1>2
  <2>2. \A m \in Nodes : closed[m] => closed'[m]
    BY <1>3
  <2> QED BY <1>1, <1>2, <1>3, <2>1, <2>2, LeavesFrame, Distinct
<1>5. Session' /\ Aborts' /\ LogStands'
  <2>1. ~server'.open /\ ~server'.aborted
    BY <1>1 DEF NotOpen
  <2> QED BY <1>1, <1>3, <2>1 DEF KeptInv, Session, Aborts, LogStands
<1>6. Before'
  BY <1>1, <1>4, BeforeStays
<1>7. ResolvedLeavesAll'
  <2> SUFFICES ASSUME ~RootFailed PROVE durable' = Kept'
    BY <1>1 DEF ResolvedLeavesAll, RootFailed
  <2>1. \A x \in Savepoints : ~Entered(x)
    BY <1>2, Innermost
  <2>2. server.open /\ ~server.aborted /\ durable = {}
    BY <1>1, <1>2, <2>1 DEF KeptInv, Session, Aborts, TransactionsInv, Committed
  <2>3. durable' = Standing
    BY <1>1, <2>2 DEF KeptInv, LogStands
  <2>4. \A m \in Savepoints : Stands(m) <=> (node[m] = "resolved" /\ ~self[m])'
    BY <1>1, <1>4, <2>1, Distinct DEF Stands
  <2>5. ASSUME NEW s \in Stmts, stmt[s] = "ok" PROVE within[issuer[s]] \subseteq Savepoints
    BY <2>5 DEF TransactionsInv, Tree, TypeOK
  <2>6. Standing = Kept'
    BY <1>1, <2>4, <2>5 DEF Standing, Kept
  <2> QED BY <2>3, <2>6
<1> QED BY <1>4, <1>5, <1>6, <1>7 DEF KeptInv

LEMMA CommitRefusedKeepsLog ==
  ASSUME TransactionsInv, KeptInv, CommitRefused
  PROVE  KeptInv' /\ node'[Root] = "throwing"
<1>1. /\ Turn(Root, "commit") /\ CommitFails(Root) /\ server' = NotOpen
      /\ within' = within /\ self' = self /\ stmt' = stmt /\ issuer' = issuer
      /\ (broken' = broken /\ unknown' = unknown) \/ (broken' = TRUE /\ unknown' = TRUE)
  BY DEF CommitRefused
<1>2. /\ Began' /\ Waiting' /\ Commands' /\ OpenAround'
      /\ node'[Root] = "throwing"
      /\ \A x \in Savepoints : Entered(x)' <=> Entered(x)
  BY <1>1, CommitFailsFrame, Distinct
<1>3. Session' /\ Aborts' /\ LogStands'
  <2>1. ~server'.open /\ ~server'.aborted
    BY <1>1 DEF NotOpen
  <2> QED BY <1>1, <1>2, <2>1 DEF KeptInv, Session, Aborts, LogStands
<1>4. Before'
  BY <1>1, <1>2, BeforeStays
<1> QED BY <1>2, <1>3, <1>4 DEF KeptInv

LEMMA BreakKeepsLog ==
  ASSUME TransactionsInv, KeptInv, Break
  PROVE  KeptInv'
<1>1. /\ broken' = TRUE /\ server' = NotOpen
      /\ node' = node /\ within' = within /\ closed' = closed /\ self' = self /\ queue' = queue
      /\ stmt' = stmt /\ issuer' = issuer /\ unknown' = unknown
  BY DEF Break
<1>2. Began' /\ Waiting' /\ Commands' /\ OpenAround'
  BY <1>1 DEF KeptInv, Began, Waiting, Commands, OpenAround, Entered
<1>3. Session' /\ Aborts' /\ LogStands'
  <2>1. ~server'.open /\ ~server'.aborted
    BY <1>1 DEF NotOpen
  <2> QED BY <1>1, <2>1 DEF KeptInv, Session, Aborts, LogStands
<1>4. Before'
  BY <1>1, BeforeStays DEF Entered
<1> QED BY <1>2, <1>3, <1>4 DEF KeptInv
-----------------------------------------------------------------------------
(* After the transaction settled, nothing but the connection can change. *)
LEMMA SettledStays ==
  ASSUME TransactionsInv, node[Root] = "resolved", [Next]_vars
  PROVE  UNCHANGED <<node, within, self, stmt, issuer, durable>>
<1>1. \A n \in Nodes : node[n] \notin {"active", "closing", "throwing"}
  <2>1. queue[Root] = <<>>
    BY Distinct DEF TransactionsInv, Queues
  <2>2. \A x \in Savepoints : ~Entered(x)
    BY <2>1, Distinct DEF TransactionsInv, Nested, Path
  <2> QED BY <2>2 DEF Entered, Nodes
<1>2. \A n \in Nodes : queue[n] = <<>>
  BY <1>1 DEF TransactionsInv, Queues, TypeOK
<1>3. ~Carries
  BY <1>1, <1>2, Distinct DEF Carries, Begin, Commit, CommitRefused, Execute, Enter, Release, LeavesClosed, Rollback, Turn
<1>4. \A n \in Nodes :
        /\ \A s \in Stmts : ~Issue(n, s) /\ ~IssueOuter(n, s)
        /\ \A c \in Savepoints : ~Open(n, c)
        /\ ~RollbackSelf(n) /\ \A ok \in BOOLEAN : ~Callback(n, ok)
  BY <1>1 DEF Issue, IssueOuter, Open, Usable, RollbackSelf, Callback
<1>5. Break \/ UNCHANGED vars
  BY <1>3, <1>4 DEF Next
<1> QED BY <1>5 DEF Break, vars

LEMMA KeptInvInit ==
  ASSUME Init
  PROVE  KeptInv /\ ResolvedLeavesAll
<1>1. \A n \in Nodes : queue[n] = <<>> /\ closed[n] = FALSE /\ self[n] = FALSE
  BY DEF Init
<1>2. \A x \in Savepoints : ~Entered(x)
  BY Distinct DEF Init, Entered
<1>3. /\ server = NotOpen /\ broken = FALSE /\ unknown = FALSE /\ \A s \in Stmts : stmt[s] = "none"
      /\ node[Root] = "waiting"
  BY Distinct DEF Init
<1>4. Waiting /\ Commands
  BY <1>1, OnceSingle, SingleFacts DEF Waiting, Commands
<1>5. Session /\ Aborts /\ LogStands
  BY <1>3 DEF Session, Aborts, LogStands, NotOpen
<1>6. Began /\ OpenAround /\ Before /\ ResolvedLeavesAll
  BY <1>2, <1>3 DEF Began, OpenAround, Before, ResolvedLeavesAll
<1> QED BY <1>4, <1>5, <1>6 DEF KeptInv

LEMMA KeptInvNext ==
  ASSUME TransactionsInv, KeptInv, [Next]_vars
  PROVE  KeptInv'
<1>1. ASSUME Carries PROVE KeptInv'
  BY <1>1, BeginKeepsLog, CommitKeepsLog, CommitRefusedKeepsLog, ExecuteKeepsLog, EnterKeepsLog, ReleaseKeepsLog,
     LeavesClosedKeepsLog, RollbackKeepsLog DEF Carries
<1>2. ASSUME NEW n \in Nodes, NEW s \in Stmts, Issue(n, s) \/ IssueOuter(n, s) PROVE KeptInv'
  <2>1. /\ node[n] = "active" /\ stmt[s] = "none" /\ issuer' = [issuer EXCEPT ![s] = n]
        /\ \/ stmt' = [stmt EXCEPT ![s] = "failed"] /\ queue' = queue
           \/ stmt' = [stmt EXCEPT ![s] = "waiting"] /\ queue' = Locks(n, s) /\ ~closed[n]
              /\ "rollbackSelf" \notin ToSet(queue[n])
        /\ UNCHANGED <<node, parent, within, closed, self, server, broken, unknown, durable>>
    BY <1>2 DEF Issue, IssueOuter, Usable, NextStmt
  <2> QED BY <2>1, CalledKeepsLog
<1>3. ASSUME UNCHANGED vars PROVE KeptInv'
  <2>1. /\ node' = node /\ within' = within /\ closed' = closed /\ self' = self /\ queue' = queue
        /\ stmt' = stmt /\ issuer' = issuer /\ server' = server /\ broken' = broken /\ unknown' = unknown
    BY <1>3 DEF vars
  <2>2. Began' /\ Waiting' /\ Commands' /\ OpenAround'
    BY <2>1 DEF KeptInv, Began, Waiting, Commands, OpenAround, Entered
  <2>3. Session' /\ Aborts' /\ Before'
    BY <2>1 DEF KeptInv, Session, Aborts, RootFailed, Before, Entered
  <2>4. LogStands'
    BY <2>1, LogStandsStays DEF Stands, Entered
  <2> QED BY <2>2, <2>3, <2>4 DEF KeptInv
<1> QED BY <1>1, <1>2, <1>3, BreakKeepsLog, OpenKeepsLog, RollbackSelfKeepsLog, CallbackKeepsLog DEF Next

(* Only COMMIT lets the transaction resolve, unless the callback had rolled it back. *)
LEMMA ResolvedLeavesNext ==
  ASSUME TransactionsInv, KeptInv, ResolvedLeavesAll, [Next]_vars
  PROVE  ResolvedLeavesAll'
<1>1. CASE node[Root] = "resolved"
  BY <1>1, SettledStays DEF ResolvedLeavesAll, Kept
<1>2. CASE node[Root] # "resolved"
  <2> SUFFICES ASSUME node'[Root] = "resolved", ~self'[Root]
               PROVE  ResolvedLeavesAll'
    BY DEF ResolvedLeavesAll
  <2>2. ~(\E n \in Nodes : LeavesClosed(n))
    <3> SUFFICES ASSUME NEW n \in Nodes, LeavesClosed(n) PROVE FALSE
      OBVIOUS
    <3>1. self'[n] /\ node' = [node EXCEPT ![n] = IF node[n] = "throwing" THEN "rejected" ELSE "resolved"]
      BY LeavesClosedKeepsLog DEF LeavesClosed, Leaves
    <3> QED BY <1>2, <3>1, Distinct DEF TransactionsInv, TypeOK
  <2>3. ~(\E n \in Nodes : Release(n))
    BY <1>2, ReleaseKeepsLog, Distinct
  <2>4. ~(\E n \in Nodes, command \in Closings : Rollback(n, command)) /\ ~CommitRefused
    BY RollbackKeepsLog, CommitRefusedKeepsLog
  <2>5. ~Begin
    BY <1>2, Distinct DEF Begin, TransactionsInv, TypeOK
  <2>6. ~(\E n \in Nodes, c \in Savepoints : Enter(n, c) \/ Open(n, c))
    BY <1>2, Distinct DEF Enter, Open, TransactionsInv, TypeOK
  <2>7. ~(\E n \in Nodes, ok \in BOOLEAN : Callback(n, ok))
    BY <1>2, Distinct DEF Callback, TransactionsInv, TypeOK
  <2>8. node' # node
    BY <1>2
  <2>9. ~Break /\ ~(UNCHANGED vars) /\ \A n \in Nodes : ~RollbackSelf(n) /\ \A s \in Stmts :
           ~Execute(n, s) /\ ~Issue(n, s) /\ ~IssueOuter(n, s)
    BY <2>8 DEF Break, vars, RollbackSelf, Execute, Issue, IssueOuter
  <2>10. Commit
    BY <2>2, <2>3, <2>4, <2>5, <2>6, <2>7, <2>9 DEF Next, Carries
  <2> QED BY <2>10, CommitKeepsLog
<1> QED BY <1>1, <1>2

(* A transaction that resolves, and swallowed no error of its own queries, leaves what its    *)
(* savepoints kept, all of it: a savepoint undoes its own queries only (Transaction.ts:169-185,*)
(* AcquiredConnection.ts:27-34).                                                              *)
THEOREM ResolvedLeavesAllCorrect == Spec => []ResolvedLeavesAll
<1> DEFINE All == TransactionsInv /\ KeptInv /\ ResolvedLeavesAll
<1>1. Init => All
  BY TransactionsInvInit, KeptInvInit
<1>2. All /\ [Next]_vars => All'
  BY TransactionsInvNext, KeptInvNext, ResolvedLeavesNext
<1>3. All => ResolvedLeavesAll
  OBVIOUS
<1> QED BY <1>1, <1>2, <1>3, PTL DEF Spec

=============================================================================
