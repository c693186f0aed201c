--------------------------- MODULE TriggersProofs ---------------------------
(***************************************************************************)
(* Proofs about Triggers, for any rows, relation and number of mutations.   *)
(* A mutation is described by what the payloads are built from: the rows    *)
(* after it and the events it fires.  Sound says what these two owe to each *)
(* other; every mutation is Sound, and a Sound mutation keeps the invariant. *)
(***************************************************************************)
EXTENDS Triggers, TLAPS

(* A change of a tree so far has an event, an event has a cause, and a root  *)
(* whose own deletion fired does not come back.                              *)
Noticed == \A r \in Roots : Tree(now, r) # Tree(db, r) => \E e \in fired : e.id = r
Caused == ~rel.restricted => \A e \in fired : e.id \in touched
OwnGone == \A e \in fired : Own(e) => e.id \in dead /\ now.title[e.id] = Gone
EventTypes(es) ==
  \A e \in es : e.id \in Roots /\ e.row \in IF e.entity = "root" THEN {e.id} ELSE Nodes
Inv == TypeOK /\ Noticed /\ Caused /\ OwnGone

(* What the rows d after a mutation, its events es, the roots rs it touches  *)
(* and the rows gone it deletes owe to each other.                           *)
Heard(d, es) == \A r \in Roots : Tree(d, r) # Tree(now, r) => \E e \in es : e.id = r
Sound(d, es, rs, gone) ==
  /\ d \in Rows /\ Consistent(d) /\ rs \subseteq Roots /\ gone \subseteq Roots \cup Nodes
  /\ EventTypes(es) /\ Heard(d, es)
  /\ ~rel.restricted => \A e \in es : e.id \in rs
  /\ \A e \in es : Own(e) => e.id \in gone /\ d.title[e.id] = Gone
  /\ \A r \in dead \cap Roots : now.title[r] = Gone => d.title[r] = Gone

(* The fields of the rows, and what an event carries. *)
LEMMA RowFields ==
  ASSUME NEW d \in Rows
  PROVE  /\ d.title \in [Roots -> Values \cup {Gone}]
         /\ d.name \in [Nodes -> Values \cup {Gone}]
         /\ d.links \in SUBSET (Roots \X Nodes)
         /\ d = [title |-> d.title, name |-> d.name, links |-> d.links]
  BY DEF Rows

LEMMA EventFields ==
  ASSUME NEW r, NEW operation, NEW entity, NEW row, NEW e
  PROVE  /\ Event(r, operation, entity, row).id = r
         /\ Event(r, operation, entity, row).operation = operation
         /\ Event(r, operation, entity, row).entity = entity
         /\ Event(r, operation, entity, row).row = row
  BY DEF Event

LEMMA OfFields ==
  ASSUME NEW roots, NEW operation, NEW entity, NEW row
  PROVE  /\ \A e \in Of(roots, operation, entity, row) :
               e.id \in roots /\ e.operation = operation /\ e.entity = entity /\ e.row = row
         /\ \A r \in roots : \E e \in Of(roots, operation, entity, row) : e.id = r
  BY EventFields DEF Of

(* A tree stays as it was when its root, its links and their nodes do. *)
LEMMA TreeKept ==
  ASSUME NEW d, NEW c, NEW r,
         d.title[r] = c.title[r],
         NodesOf(d, r) = NodesOf(c, r),
         \A n \in NodesOf(c, r) : d.name[n] = c.name[n]
  PROVE  Tree(d, r) = Tree(c, r)
<1>1. {<<n, d.name[n]>> : n \in NodesOf(d, r)} = {<<n, c.name[n]>> : n \in NodesOf(c, r)}
  OBVIOUS
<1> QED BY <1>1 DEF Tree

-----------------------------------------------------------------------------
(* A Sound mutation keeps the invariant. *)
LEMMA SoundKeeps ==
  ASSUME Inv, NEW d, NEW es, NEW shot, NEW rs, NEW gone,
         Record(d, es, shot, rs), dead' = dead \cup gone, Sound(d, es, rs, gone)
  PROVE  Inv'
<1>1. /\ now' = d /\ fired' = fired \cup es /\ touched' = touched \cup rs
      /\ count < Batch /\ count' = count + 1 /\ outbox' = {} /\ answer' = "none"
      /\ first' = IF first = {} /\ es # {} THEN {shot} ELSE first
      /\ rel' = rel /\ db' = db
  BY DEF Record
<1>2. TypeOK'
  <2>1. rel' \in Relations /\ (db \in Rows /\ Consistent(db))' /\ (now \in Rows /\ Consistent(now))'
    BY <1>1 DEF Inv, TypeOK, Sound, Consistent
  <2>2. dead' \subseteq Roots \cup Nodes /\ touched' \subseteq Roots
    BY <1>1 DEF Inv, TypeOK, Sound
  <2>3. EventTypes(fired')
    BY <1>1 DEF Inv, TypeOK, Sound, EventTypes
  <2>4. (first' = {}) <=> (fired' = {})
    BY <1>1 DEF Inv, TypeOK
  <2>5. count' \in 0 .. Batch
    BY <1>1, TriggersAssumption DEF Inv, TypeOK, TriggersAssumption
  <2> QED BY <1>1, <2>1, <2>2, <2>3, <2>4, <2>5 DEF TypeOK, EventTypes
<1>3. Noticed'
  <2>1. \A r \in Roots : Tree(now, r)' = Tree(d, r) /\ Tree(db, r)' = Tree(db, r)
    BY <1>1 DEF Tree, NodesOf
  <2>2. \A r \in Roots : Tree(d, r) # Tree(db, r) => \E e \in fired \cup es : e.id = r
    BY DEF Inv, Noticed, Sound, Heard
  <2> QED BY <1>1, <2>1, <2>2 DEF Noticed
<1>4. Caused'
  BY <1>1 DEF Inv, Caused, Sound
<1>5. OwnGone'
  BY <1>1 DEF Inv, TypeOK, OwnGone, Sound, Own
<1> QED BY <1>2, <1>3, <1>4, <1>5 DEF Inv

-----------------------------------------------------------------------------
(* Each mutation is Sound. *)
Does(es, rs, gone) ==
  \E d, shot : /\ Record(d, es, shot, rs) /\ dead' = dead \cup gone /\ Sound(d, es, rs, gone)

LEMMA InsertRootSound ==
  ASSUME Inv, InsertRoot
  PROVE  \E es, rs, gone : Does(es, rs, gone)
<1>1. PICK r \in Roots, v \in Values, ns \in SUBSET Nodes :
        /\ now.title[r] = Gone /\ r \notin dead
        /\ LET d == [now EXCEPT !.title[r] = v, !.links = @ \cup ({r} \X ns)]
           IN Consistent(d) /\ Record(d, {Event(r, "create", "root", r)}, None, {r})
        /\ UNCHANGED dead
  BY DEF InsertRoot
<1> DEFINE d == [now EXCEPT !.title[r] = v, !.links = @ \cup ({r} \X ns)]
           es == {Event(r, "create", "root", r)}
<1>2. now \in Rows /\ Consistent(now)
  BY DEF Inv, TypeOK
<1>3. /\ d \in Rows /\ d.title = [now.title EXCEPT ![r] = v] /\ d.name = now.name
      /\ d.links = now.links \cup ({r} \X ns)
  BY <1>2, RowFields DEF Rows
<1>4. Consistent(d) /\ Record(d, es, None, {r}) /\ dead' = dead \cup {}
  BY <1>1
<1> HIDE DEF d, es
<1>5. \A e \in es : e.id = r /\ e.operation = "create" /\ e.entity = "root" /\ e.row = r
  BY EventFields DEF es
<1>6. EventTypes(es)
  BY <1>5 DEF EventTypes
<1>7. \E e \in es : e.id = r
  BY EventFields DEF es
<1>8. Heard(d, es)
  <2>1. ASSUME NEW q \in Roots, q # r PROVE Tree(d, q) = Tree(now, q)
    <3>1. d.title[q] = now.title[q] /\ d.name = now.name
      BY <1>2, <1>3, <2>1, RowFields
    <3>2. NodesOf(d, q) = NodesOf(now, q)
      BY <1>3, <2>1 DEF NodesOf
    <3> QED BY <3>1, <3>2, TreeKept
  <2> QED BY <1>7, <2>1 DEF Heard
<1>9. \A q \in dead \cap Roots : now.title[q] = Gone => d.title[q] = Gone
  BY <1>1, <1>2, <1>3, RowFields
<1>10. Sound(d, es, {r}, {})
  BY <1>3, <1>4, <1>5, <1>6, <1>8, <1>9 DEF Sound, Own
<1> QED BY <1>4, <1>10 DEF Does

LEMMA InsertNodeSound ==
  ASSUME Inv, InsertNode
  PROVE  \E es, rs, gone : Does(es, rs, gone)
<1>1. PICK n \in Nodes, v \in Values, rs \in SUBSET Roots :
        /\ now.name[n] = Gone /\ n \notin dead
        /\ LET d == [now EXCEPT !.name[n] = v, !.links = @ \cup (rs \X {n})]
           IN Consistent(d) /\ Record(d, Of(rs, "create", "node", n), None, rs)
        /\ UNCHANGED dead
  BY DEF InsertNode
<1> DEFINE d == [now EXCEPT !.name[n] = v, !.links = @ \cup (rs \X {n})]
           es == Of(rs, "create", "node", n)
<1>2. now \in Rows /\ Consistent(now)
  BY DEF Inv, TypeOK
<1>3. /\ d \in Rows /\ d.title = now.title /\ d.name = [now.name EXCEPT ![n] = v]
      /\ d.links = now.links \cup (rs \X {n})
  BY <1>2, RowFields DEF Rows
<1>4. Consistent(d) /\ Record(d, es, None, rs) /\ dead' = dead \cup {}
  BY <1>1
<1> HIDE DEF d, es
<1>5. /\ \A e \in es : e.id \in rs /\ e.operation = "create" /\ e.entity = "node" /\ e.row = n
      /\ \A r \in rs : \E e \in es : e.id = r
  BY OfFields DEF es
<1>6. EventTypes(es)
  BY <1>5 DEF EventTypes
<1>7. Heard(d, es)
  <2>1. ASSUME NEW q \in Roots, q \notin rs PROVE Tree(d, q) = Tree(now, q)
    <3>1. NodesOf(d, q) = NodesOf(now, q)
      BY <1>3, <2>1 DEF NodesOf
    <3>2. \A m \in NodesOf(now, q) : m # n
      BY <1>1, <1>2 DEF Consistent, NodesOf
    <3>3. d.title[q] = now.title[q] /\ \A m \in NodesOf(now, q) : d.name[m] = now.name[m]
      BY <1>2, <1>3, <3>2, RowFields DEF NodesOf
    <3> QED BY <3>1, <3>3, TreeKept
  <2> QED BY <1>5, <2>1 DEF Heard
<1>8. Sound(d, es, rs, {})
  BY <1>3, <1>4, <1>5, <1>6, <1>7 DEF Sound, Own
<1> QED BY <1>4, <1>8 DEF Does

LEMMA UpdateRootSound ==
  ASSUME Inv, UpdateRoot
  PROVE  \E es, rs, gone : Does(es, rs, gone)
<1>1. PICK r \in Roots, fields \in SUBSET {"title", "link", "other"}, v \in Values,
           ns \in SUBSET Nodes :
        LET d == RootUpdate(r, fields, v, ns)
            changed == HasChanges(d, fields)
        IN /\ now.title[r] # Gone /\ fields # {}
           /\ "title" \in fields \/ v = 0
           /\ IF "link" \in fields THEN rel.kind = "manyHasOne" ELSE ns = {}
           /\ Consistent(d)
           /\ Record(d, IF changed /\ fields \cap RootFields # {}
                        THEN {Event(r, "update", "root", r)} ELSE {},
                     None, IF changed THEN {r} ELSE {})
           /\ UNCHANGED dead
  BY DEF UpdateRoot
<1> DEFINE d == RootUpdate(r, fields, v, ns)
           changed == HasChanges(d, fields)
           es == IF changed /\ fields \cap RootFields # {}
                 THEN {Event(r, "update", "root", r)} ELSE {}
           rs == IF changed THEN {r} ELSE {}
<1>2. now \in Rows /\ Consistent(now)
  BY DEF Inv, TypeOK
<1>3. /\ d \in Rows /\ d.name = now.name
      /\ d.title = IF "title" \in fields THEN [now.title EXCEPT ![r] = v] ELSE now.title
      /\ d.links = IF "link" \in fields THEN {l \in now.links : l[1] # r} \cup ({r} \X ns)
                   ELSE now.links
  <2> DEFINE x == IF "title" \in fields THEN v ELSE now.title[r]
             ls == IF "link" \in fields THEN {l \in now.links : l[1] # r} \cup ({r} \X ns)
                   ELSE now.links
  <2>1. x \in Values \cup {Gone} /\ ls \in SUBSET (Roots \X Nodes)
    BY <1>2, RowFields
  <2>2. d = [now EXCEPT !.title[r] = x, !.links = ls]
    BY DEF RootUpdate
  <2> HIDE DEF d, x, ls
  <2>3. d \in Rows /\ d.title = [now.title EXCEPT ![r] = x] /\ d.name = now.name /\ d.links = ls
    BY <1>2, <2>1, <2>2 DEF Rows
  <2> QED BY <1>2, <2>3, RowFields DEF x, ls
<1>4. Consistent(d) /\ Record(d, es, None, rs) /\ dead' = dead \cup {}
  BY <1>1
<1>5. /\ \A e \in es : e.id = r /\ e.operation = "update" /\ e.entity = "root" /\ e.row = r
      /\ ~changed => es = {}
      /\ changed /\ fields \cap RootFields # {} => \E e \in es : e.id = r
  BY EventFields
<1>6. EventTypes(es)
  BY <1>5 DEF EventTypes
<1>7. fields \cap RootFields = {} => d = now
  <2>1. ASSUME fields \cap RootFields = {} PROVE "title" \notin fields /\ "link" \notin fields
    BY <1>1, <2>1 DEF RootFields
  <2> QED BY <1>2, <1>3, <2>1, RowFields
<1>8. ~changed => d = now
  BY DEF HasChanges
<1> HIDE DEF d, es, changed, rs
<1>9. Heard(d, es)
  <2>1. ASSUME NEW q \in Roots, q # r PROVE Tree(d, q) = Tree(now, q)
    <3>1. d.title[q] = now.title[q] /\ d.name = now.name
      BY <1>2, <1>3, <2>1, RowFields
    <3>2. NodesOf(d, q) = NodesOf(now, q)
      BY <1>3, <2>1 DEF NodesOf
    <3> QED BY <3>1, <3>2, TreeKept
  <2> QED BY <1>5, <1>7, <1>8, <2>1 DEF Heard
<1>10. \A q \in dead \cap Roots : now.title[q] = Gone => d.title[q] = Gone
  BY <1>1, <1>2, <1>3, RowFields
<1>11. Sound(d, es, rs, {})
  BY <1>3, <1>4, <1>5, <1>6, <1>9, <1>10 DEF Sound, Own, rs
<1> QED BY <1>4, <1>11 DEF Does

LEMMA UpdateNodeSound ==
  ASSUME Inv, UpdateNode
  PROVE  \E es, rs, gone : Does(es, rs, gone)
<1>1. PICK n \in Nodes, fields \in SUBSET {"name", "link", "other"}, v \in Values,
           us \in SUBSET Roots :
        LET d == NodeUpdate(n, fields, v, us)
        IN /\ now.name[n] # Gone /\ fields # {}
           /\ "name" \in fields \/ v = 0
           /\ IF "link" \in fields THEN rel.kind = "oneHasMany" ELSE us = {}
           /\ Consistent(d)
           /\ Record(d, NodeUpdated(n, fields, d), None,
                     IF HasChanges(d, fields) THEN RootsOf(now, n) \cup RootsOf(d, n) ELSE {})
           /\ UNCHANGED dead
  BY DEF UpdateNode
<1> DEFINE d == NodeUpdate(n, fields, v, us)
           changed == HasChanges(d, fields)
           es == NodeUpdated(n, fields, d)
           rs == IF changed THEN RootsOf(now, n) \cup RootsOf(d, n) ELSE {}
<1>2. now \in Rows /\ Consistent(now)
  BY DEF Inv, TypeOK
<1>3. /\ d \in Rows /\ d.title = now.title
      /\ d.name = IF "name" \in fields THEN [now.name EXCEPT ![n] = v] ELSE now.name
      /\ d.links = IF "link" \in fields THEN {l \in now.links : l[2] # n} \cup (us \X {n})
                   ELSE now.links
  <2> DEFINE x == IF "name" \in fields THEN v ELSE now.name[n]
             ls == IF "link" \in fields THEN {l \in now.links : l[2] # n} \cup (us \X {n})
                   ELSE now.links
  <2>1. x \in Values \cup {Gone} /\ ls \in SUBSET (Roots \X Nodes)
    BY <1>2, RowFields
  <2>2. d = [now EXCEPT !.name[n] = x, !.links = ls]
    BY DEF NodeUpdate
  <2> HIDE DEF d, x, ls
  <2>3. d \in Rows /\ d.title = now.title /\ d.name = [now.name EXCEPT ![n] = x] /\ d.links = ls
    BY <1>2, <2>1, <2>2 DEF Rows
  <2> QED BY <1>2, <2>3, RowFields DEF x, ls
<1>4. Consistent(d) /\ Record(d, es, None, rs) /\ dead' = dead \cup {}
  BY <1>1
<1>5. ~changed => d = now /\ es = {}
  BY DEF HasChanges, NodeUpdated
<1> HIDE DEF d, changed
<1>6. changed => es = Of(Left(n, fields) \cup Reached(n, fields, d), "update", "node", n)
  BY DEF NodeUpdated, changed
<1> HIDE DEF es
<1>7. \A e \in es : e.id \in Left(n, fields) \cup Reached(n, fields, d)
                    /\ e.operation = "update" /\ e.entity = "node" /\ e.row = n
  <2>1. CASE changed
    BY <1>6, <2>1, OfFields
  <2> QED BY <1>5, <2>1
<1>8. Left(n, fields) \subseteq RootsOf(now, n) /\ Reached(n, fields, d) \subseteq RootsOf(d, n)
  BY DEF Left, Reached
<1>9. RootsOf(now, n) \subseteq Roots /\ RootsOf(d, n) \subseteq Roots
  BY DEF RootsOf
<1>10. EventTypes(es)
  BY <1>7, <1>8, <1>9 DEF EventTypes
<1>11. \A e \in es : e.id \in rs
  BY <1>5, <1>7, <1>8
<1>12. ASSUME NEW q \in Roots, \A e \in es : e.id # q PROVE Tree(d, q) = Tree(now, q)
  <2>1. CASE ~changed
    BY <1>5, <2>1
  <2>2. CASE changed
    <3>1. q \notin Left(n, fields) /\ q \notin Reached(n, fields, d)
      BY <1>6, <1>12, <2>2, OfFields
    <3>2. "link" \in fields => q \notin RootsOf(now, n) /\ q \notin RootsOf(d, n)
      BY <1>1, <3>1 DEF Left, Reached, NodeFields, NodeRelations
    <3>3. NodesOf(d, q) = NodesOf(now, q)
      BY <1>3, <3>2 DEF NodesOf, RootsOf
    <3>4. ASSUME NEW m \in NodesOf(now, q) PROVE d.name[m] = now.name[m]
      <4>1. CASE m = n /\ "name" \in fields
        <5>1. q \in RootsOf(d, n)
          BY <3>3, <4>1 DEF NodesOf, RootsOf
        <5> QED BY <3>1, <4>1, <5>1 DEF Reached, NodeFields
      <4> QED BY <1>2, <1>3, <4>1, RowFields DEF NodesOf
    <3> QED BY <1>3, <3>3, <3>4, TreeKept
  <2> QED BY <2>1, <2>2
<1>13. Heard(d, es)
  BY <1>12 DEF Heard
<1>14. Sound(d, es, rs, {})
  BY <1>3, <1>4, <1>7, <1>9, <1>10, <1>11, <1>13 DEF Sound, Own
<1> QED BY <1>4, <1>14 DEF Does

LEMMA ConnectSound ==
  ASSUME Inv, Connect
  PROVE  \E es, rs, gone : Does(es, rs, gone)
<1>1. PICK r \in Roots, n \in Nodes :
        LET d == [now EXCEPT !.links = @ \cup {<<r, n>>}]
        IN /\ rel.kind = "manyHasMany" /\ Consistent(d)
           /\ Record(d, IF d # now THEN {Event(r, "connect", "node", n)} ELSE {}, None,
                     IF d # now THEN {r} ELSE {})
           /\ UNCHANGED dead
  BY DEF Connect
<1> DEFINE d == [now EXCEPT !.links = @ \cup {<<r, n>>}]
           es == IF d # now THEN {Event(r, "connect", "node", n)} ELSE {}
           rs == IF d # now THEN {r} ELSE {}
<1>2. now \in Rows /\ Consistent(now)
  BY DEF Inv, TypeOK
<1>3. /\ d \in Rows /\ d.title = now.title /\ d.name = now.name
      /\ d.links = now.links \cup {<<r, n>>}
  BY <1>2, RowFields DEF Rows
<1>4. Consistent(d) /\ Record(d, es, None, rs) /\ dead' = dead \cup {}
  BY <1>1
<1> HIDE DEF d
<1>5. /\ \A e \in es : e.id = r /\ e.operation = "connect" /\ e.entity = "node" /\ e.row = n
      /\ d # now => \E e \in es : e.id = r
      /\ d = now => es = {}
  BY EventFields
<1>6. EventTypes(es)
  BY <1>5 DEF EventTypes
<1>7. Heard(d, es)
  <2>1. ASSUME NEW q \in Roots, q # r PROVE Tree(d, q) = Tree(now, q)
    BY <1>3, <2>1, TreeKept DEF NodesOf
  <2> QED BY <1>5, <2>1 DEF Heard
<1>8. Sound(d, es, rs, {})
  BY <1>3, <1>4, <1>5, <1>6, <1>7 DEF Sound, Own
<1> QED BY <1>4, <1>8 DEF Does

LEMMA DisconnectSound ==
  ASSUME Inv, Disconnect
  PROVE  \E es, rs, gone : Does(es, rs, gone)
<1>1. PICK r \in Roots, n \in Nodes :
        LET d == [now EXCEPT !.links = @ \ {<<r, n>>}]
        IN /\ rel.kind = "manyHasMany"
           /\ Record(d, IF d # now \/ rel.restricted
                        THEN {Event(r, "disconnect", "node", n)} ELSE {},
                     None, IF d # now THEN {r} ELSE {})
           /\ UNCHANGED dead
  BY DEF Disconnect
<1> DEFINE d == [now EXCEPT !.links = @ \ {<<r, n>>}]
           es == IF d # now \/ rel.restricted THEN {Event(r, "disconnect", "node", n)} ELSE {}
           rs == IF d # now THEN {r} ELSE {}
<1>2. now \in Rows /\ Consistent(now)
  BY DEF Inv, TypeOK
<1>3. /\ d \in Rows /\ d.title = now.title /\ d.name = now.name
      /\ d.links = now.links \ {<<r, n>>}
  BY <1>2, RowFields DEF Rows
<1>4. Record(d, es, None, rs) /\ dead' = dead \cup {}
  BY <1>1
<1> HIDE DEF d
<1>5. /\ \A e \in es : e.id = r /\ e.operation = "disconnect" /\ e.entity = "node" /\ e.row = n
      /\ d # now => \E e \in es : e.id = r
      /\ d = now /\ ~rel.restricted => es = {}
  BY EventFields
<1>6. EventTypes(es)
  BY <1>5 DEF EventTypes
<1>7. Consistent(d)
  BY <1>1, <1>2, <1>3 DEF Consistent
<1>8. Heard(d, es)
  <2>1. ASSUME NEW q \in Roots, q # r PROVE Tree(d, q) = Tree(now, q)
    BY <1>3, <2>1, TreeKept DEF NodesOf
  <2> QED BY <1>5, <2>1 DEF Heard
<1>9. Sound(d, es, rs, {})
  BY <1>3, <1>4, <1>5, <1>6, <1>7, <1>8 DEF Sound, Own
<1> QED BY <1>4, <1>9 DEF Does

(* Deletions: the rows after one, and the events of the rows that go. *)
Without(d, rs, ns) ==
  /\ d \in Rows /\ Consistent(d)
  /\ \A q \in Roots : d.title[q] = IF q \in rs THEN Gone ELSE now.title[q]
  /\ \A n \in Nodes : d.name[n] = IF n \in ns THEN Gone ELSE now.name[n]
  /\ \A l : l \in d.links <=> l \in now.links /\ l[1] \notin rs /\ l[2] \notin ns

LEMMA DeletedRows ==
  ASSUME now \in Rows, Consistent(now), NEW rs \in SUBSET Roots, NEW ns \in SUBSET Nodes
  PROVE  Without(Deleted(rs, ns), rs, ns)
<1> DEFINE d == Deleted(rs, ns)
<1>1. /\ d \in Rows
      /\ \A q \in Roots : d.title[q] = IF q \in rs THEN Gone ELSE now.title[q]
      /\ \A n \in Nodes : d.name[n] = IF n \in ns THEN Gone ELSE now.name[n]
      /\ \A l : l \in d.links <=> l \in now.links /\ l[1] \notin rs /\ l[2] \notin ns
  BY RowFields DEF Deleted, Rows
<1>2. Consistent(d)
  <2> HIDE DEF d
  <2>1. \A l \in now.links : l[1] \in Roots /\ l[2] \in Nodes
    BY RowFields
  <2> QED BY <1>1, <2>1 DEF Consistent
<1> QED BY <1>1, <1>2 DEF Without

LEMMA DeletionEvents ==
  ASSUME NEW rs \in SUBSET Roots, NEW ns \in SUBSET Nodes
  PROVE  /\ \A e \in RootsDeleted(rs) : e.id \in rs /\ e.entity = "root" /\ e.row = e.id
         /\ \A r \in rs : \E e \in RootsDeleted(rs) : e.id = r
         /\ \A e \in NodesDeleted(ns) :
              e.entity = "node" /\ e.row \in ns /\ e.id \in RootsOf(now, e.row)
         /\ \A n \in ns : \A r \in RootsOf(now, n) : \E e \in NodesDeleted(ns) : e.id = r
<1>1. /\ \A e \in RootsDeleted(rs) : e.id \in rs /\ e.entity = "root" /\ e.row = e.id
      /\ \A r \in rs : \E e \in RootsDeleted(rs) : e.id = r
  BY EventFields DEF RootsDeleted
<1>2. ASSUME NEW e \in NodesDeleted(ns)
      PROVE  e.entity = "node" /\ e.row \in ns /\ e.id \in RootsOf(now, e.row)
  <2>1. PICK n \in ns : e \in Of(RootsOf(now, n), "delete", "node", n)
    BY DEF NodesDeleted
  <2> QED BY <2>1, OfFields
<1>3. ASSUME NEW n \in ns, NEW r \in RootsOf(now, n)
      PROVE  \E e \in NodesDeleted(ns) : e.id = r
  <2>1. PICK e \in Of(RootsOf(now, n), "delete", "node", n) : e.id = r
    BY OfFields
  <2> QED BY <2>1 DEF NodesDeleted
<1> QED BY <1>1, <1>2, <1>3

LEMMA DeleteRootSound ==
  ASSUME Inv, DeleteRoot
  PROVE  \E es, rs, gone : Does(es, rs, gone)
<1>1. PICK r \in Roots :
        LET held == IF rel.kind = "oneHasMany" THEN NodesOf(now, r) ELSE {}
            dropped == IF rel.onDelete = "cascade" THEN held ELSE {}
            cleared == IF rel.onDelete = "setNull"
                       THEN UNION {Of({r}, "update", "node", n) : n \in held} ELSE {}
        IN /\ now.title[r] # Gone
           /\ Record(Deleted({r}, dropped),
                     RootsDeleted({r}) \cup NodesDeleted(dropped) \cup cleared,
                     Tree(now, r), {r})
           /\ dead' = dead \cup {r} \cup dropped
  BY DEF DeleteRoot
<1> DEFINE held == IF rel.kind = "oneHasMany" THEN NodesOf(now, r) ELSE {}
           dropped == IF rel.onDelete = "cascade" THEN held ELSE {}
           cleared == IF rel.onDelete = "setNull"
                      THEN UNION {Of({r}, "update", "node", n) : n \in held} ELSE {}
           d == Deleted({r}, dropped)
           es == RootsDeleted({r}) \cup NodesDeleted(dropped) \cup cleared
           gone == {r} \cup dropped
<1>2. now \in Rows /\ Consistent(now)
  BY DEF Inv, TypeOK
<1>3. /\ held \in SUBSET Nodes /\ dropped \in SUBSET Nodes /\ dropped \subseteq held
      /\ \A n \in held : RootsOf(now, n) = {r}
  BY <1>2, RowFields DEF Consistent, NodesOf, RootsOf
<1>4. Record(d, es, Tree(now, r), {r}) /\ dead' = dead \cup gone
  BY <1>1
<1>5. /\ d \in Rows /\ Consistent(d)
      /\ \A q \in Roots : d.title[q] = IF q \in {r} THEN Gone ELSE now.title[q]
      /\ \A n \in Nodes : d.name[n] = IF n \in dropped THEN Gone ELSE now.name[n]
      /\ \A l : l \in d.links <=> l \in now.links /\ l[1] \notin {r} /\ l[2] \notin dropped
  <2> HIDE DEF dropped, held
  <2>1. Without(Deleted({r}, dropped), {r}, dropped)
    BY <1>2, <1>3, DeletedRows
  <2> QED BY <2>1 DEF Without
<1>6. \A e \in cleared : e.entity = "node" /\ e.row \in held /\ e.id = r
  <2>1. ASSUME NEW e \in cleared PROVE e.entity = "node" /\ e.row \in held /\ e.id = r
    <3>1. PICK n \in held : e \in Of({r}, "update", "node", n)
      OBVIOUS
    <3> QED BY <3>1, OfFields
  <2> QED BY <2>1
<1>7. /\ \A e \in RootsDeleted({r}) : e.id = r /\ e.entity = "root" /\ e.row = r
      /\ \E e \in RootsDeleted({r}) : e.id = r
      /\ \A e \in NodesDeleted(dropped) : e.entity = "node" /\ e.row \in dropped /\ e.id = r
  BY <1>3, DeletionEvents
<1> HIDE DEF d, cleared, dropped, held
<1>8. /\ \A e \in es : e.id = r /\ e.row \in IF e.entity = "root" THEN {r} ELSE Nodes
      /\ \E e \in es : e.id = r
  BY <1>3, <1>6, <1>7
<1>9. Heard(d, es)
  <2>1. ASSUME NEW q \in Roots, q # r PROVE Tree(d, q) = Tree(now, q)
    <3>1. \A n \in NodesOf(now, q) : n \in Nodes /\ n \notin dropped
      BY <1>3, <2>1 DEF NodesOf, RootsOf
    <3>2. NodesOf(d, q) = NodesOf(now, q)
      BY <1>5, <2>1, <3>1 DEF NodesOf
    <3> QED BY <1>5, <2>1, <3>1, <3>2, TreeKept
  <2> QED BY <1>8, <2>1 DEF Heard
<1>10. Sound(d, es, {r}, gone)
  BY <1>3, <1>5, <1>8, <1>9 DEF Sound, EventTypes, Own
<1> QED BY <1>4, <1>10 DEF Does

LEMMA DeleteNodeSound ==
  ASSUME Inv, DeleteNode
  PROVE  \E es, rs, gone : Does(es, rs, gone)
<1>1. PICK n \in Nodes :
        LET held == IF rel.kind = "manyHasOne" THEN RootsOf(now, n) ELSE {}
            dropped == IF rel.onDelete = "cascade" THEN held ELSE {}
            cleared == IF rel.onDelete = "setNull" THEN held ELSE {}
        IN /\ now.name[n] # Gone
           /\ Record(Deleted(dropped, {n}),
                     NodesDeleted({n}) \cup RootsDeleted(dropped)
                       \cup {Event(r, "update", "root", r) : r \in cleared},
                     None, RootsOf(now, n))
           /\ dead' = dead \cup {n} \cup dropped
  BY DEF DeleteNode
<1> DEFINE held == IF rel.kind = "manyHasOne" THEN RootsOf(now, n) ELSE {}
           dropped == IF rel.onDelete = "cascade" THEN held ELSE {}
           cleared == IF rel.onDelete = "setNull" THEN held ELSE {}
           updates == {Event(r, "update", "root", r) : r \in cleared}
           d == Deleted(dropped, {n})
           es == NodesDeleted({n}) \cup RootsDeleted(dropped) \cup updates
           gone == {n} \cup dropped
           rs == RootsOf(now, n)
<1>2. now \in Rows /\ Consistent(now)
  BY DEF Inv, TypeOK
<1>3. rs \in SUBSET Roots /\ dropped \in SUBSET Roots /\ dropped \subseteq rs /\ cleared \subseteq rs
  BY DEF RootsOf
<1>4. Record(d, es, None, rs) /\ dead' = dead \cup gone
  BY <1>1
<1>5. /\ d \in Rows /\ Consistent(d)
      /\ \A q \in Roots : d.title[q] = IF q \in dropped THEN Gone ELSE now.title[q]
      /\ \A m \in Nodes : d.name[m] = IF m \in {n} THEN Gone ELSE now.name[m]
      /\ \A l : l \in d.links <=> l \in now.links /\ l[1] \notin dropped /\ l[2] \notin {n}
  <2> HIDE DEF dropped, held
  <2>1. Without(Deleted(dropped, {n}), dropped, {n})
    BY <1>2, <1>3, DeletedRows
  <2> QED BY <2>1 DEF Without
<1>6. \A e \in updates : e.id \in cleared /\ e.operation = "update" /\ e.row = e.id
  BY EventFields
<1>7. /\ \A e \in NodesDeleted({n}) : e.entity = "node" /\ e.row = n /\ e.id \in rs
      /\ \A q \in rs : \E e \in NodesDeleted({n}) : e.id = q
      /\ \A e \in RootsDeleted(dropped) : e.id \in dropped /\ e.entity = "root" /\ e.row = e.id
  BY <1>3, DeletionEvents
<1>8. \A e \in updates : e.entity = "root"
  BY EventFields
<1> HIDE DEF d, updates, cleared, dropped, held
<1>9. /\ \A e \in es : e.id \in rs /\ e.row \in IF e.entity = "root" THEN {e.id} ELSE Nodes
      /\ \A q \in rs : \E e \in es : e.id = q
      /\ \A e \in es : Own(e) => e.id \in dropped
  BY <1>3, <1>6, <1>7, <1>8 DEF Own
<1> HIDE DEF es
<1>10. Heard(d, es)
  <2>1. ASSUME NEW q \in Roots, q \notin rs PROVE Tree(d, q) = Tree(now, q)
    <3>1. \A m \in NodesOf(now, q) : m \in Nodes /\ m # n
      BY <2>1 DEF NodesOf, RootsOf
    <3>2. NodesOf(d, q) = NodesOf(now, q)
      BY <1>3, <1>5, <2>1, <3>1 DEF NodesOf
    <3> QED BY <1>3, <1>5, <2>1, <3>1, <3>2, TreeKept
  <2> QED BY <1>9, <2>1 DEF Heard
<1>11. Sound(d, es, rs, gone)
  BY <1>3, <1>5, <1>9, <1>10 DEF Sound, EventTypes
<1> QED BY <1>4, <1>11 DEF Does

LEMMA MutationSound ==
  ASSUME Inv, Mutation
  PROVE  \E es, rs, gone : Does(es, rs, gone)
  BY InsertRootSound, InsertNodeSound, UpdateRootSound, UpdateNodeSound, ConnectSound,
     DisconnectSound, DeleteRootSound, DeleteNodeSound DEF Mutation

LEMMA MutationKeeps ==
  ASSUME Inv, Mutation
  PROVE  Inv'
<1>1. ASSUME NEW es, NEW rs, NEW gone, Does(es, rs, gone) PROVE Inv'
  <2>1. PICK d, shot : /\ Record(d, es, shot, rs) /\ dead' = dead \cup gone
                       /\ Sound(d, es, rs, gone)
    BY <1>1 DEF Does
  <2> QED BY <2>1, SoundKeeps
<1> QED BY <1>1, MutationSound

-----------------------------------------------------------------------------
(* The ends of a transaction.  A new one starts with nothing changed. *)
LEMMA BeginKeeps ==
  ASSUME Inv, NEW d, d \in Rows, Consistent(d), Begin(d), db' = d, rel' = rel,
         \A p \in outbox' : p.id \in Roots /\ p.events # {},
         answer' \in {"none", "ok", "rolledBack"}
  PROVE  Inv'
<1>1. now' = d /\ dead' = {} /\ fired' = {} /\ first' = {} /\ touched' = {} /\ count' = 0
  BY DEF Begin
<1>2. rel' \in Relations /\ (db \in Rows /\ Consistent(db))' /\ (now \in Rows /\ Consistent(now))'
  BY <1>1 DEF Inv, TypeOK, Consistent
<1>3. TypeOK'
  BY <1>1, <1>2, TriggersAssumption DEF TypeOK, TriggersAssumption
<1>4. \A r \in Roots : Tree(now, r)' = Tree(db, r)'
  BY <1>1 DEF Tree, NodesOf
<1> QED BY <1>1, <1>3, <1>4 DEF Inv, Noticed, Caused, OwnGone

LEMMA PayloadFields ==
  ASSUME NEW r \in Roots
  PROVE  Payload(r).id = r /\ Payload(r).selection = Selection(r)
         /\ Payload(r).events = {e \in fired : e.id = r}
  BY DEF Payload

LEMMA CommitKeeps ==
  ASSUME Inv, Commit
  PROVE  Inv'
<1>1. Begin(now) /\ db' = now /\ rel' = rel /\ answer' = "ok" /\ outbox' = {Payload(r) : r \in Ids}
  BY DEF Commit
<1>2. \A r \in Ids : r \in Roots /\ {e \in fired : e.id = r} # {}
  BY DEF Inv, TypeOK, Ids
<1>3. \A p \in outbox' : p.id \in Roots /\ p.events # {}
  BY <1>1, <1>2, PayloadFields
<1> QED BY <1>1, <1>3, BeginKeeps DEF Inv, TypeOK

LEMMA RolledBackKeeps ==
  ASSUME Inv, PersistFails \/ Rollback
  PROVE  Inv'
<1>1. Begin(db) /\ db' = db /\ rel' = rel /\ outbox' = {} /\ answer' \in {"ok", "rolledBack"}
  BY DEF PersistFails, Rollback
<1> QED BY <1>1, BeginKeeps DEF Inv, TypeOK

LEMMA InitInv == Init => Inv
<1> SUFFICES ASSUME Init PROVE Inv
  OBVIOUS
<1>1. TypeOK
  BY TriggersAssumption DEF Init, TypeOK, TriggersAssumption
<1> QED BY <1>1 DEF Init, Inv, Noticed, Caused, OwnGone

LEMMA StepInv == Inv /\ [Next]_vars => Inv'
<1> SUFFICES ASSUME Inv, [Next]_vars PROVE Inv'
  OBVIOUS
<1>1. CASE UNCHANGED vars
  <2>1. TypeOK'
    BY <1>1 DEF vars, Inv, TypeOK, Consistent
  <2>2. \A r \in Roots : Tree(now, r)' = Tree(now, r) /\ Tree(db, r)' = Tree(db, r)
    BY <1>1 DEF vars, Tree, NodesOf
  <2>3. Noticed'
    BY <1>1, <2>2 DEF vars, Inv, Noticed
  <2>4. Caused' /\ OwnGone'
    BY <1>1 DEF vars, Inv, Caused, OwnGone, Own
  <2> QED BY <2>1, <2>3, <2>4 DEF Inv
<1>2. CASE Next
  BY <1>2, MutationKeeps, CommitKeeps, RolledBackKeeps DEF Next
<1> QED BY <1>1, <1>2

(* The invariant holds: types; a change so far has an event; an event has a   *)
(* cause; a root whose own deletion fired is gone.                            *)
THEOREM InvCorrect == Spec => []Inv
<1> QED BY InitInv, StepInv, PTL DEF Spec

(* Both images of the rows keep the foreign keys and the relation's arity.    *)
THEOREM TriggersTypeCorrect == Spec => []TypeOK
<1>1. Inv => TypeOK
  BY DEF Inv
<1> QED BY <1>1, InvCorrect, PTL

-----------------------------------------------------------------------------
(* Only a COMMIT changes the committed rows or stores payloads. *)
LEMMA OnlyCommit ==
  ASSUME Inv, [Next]_vars
  PROVE  Commit \/ (db' = db /\ outbox' \in {outbox, {}})
<1>1. CASE UNCHANGED vars
  BY <1>1 DEF vars
<1>2. CASE Mutation
  BY <1>2, MutationSound DEF Does, Record
<1>3. CASE PersistFails \/ Rollback
  BY <1>3 DEF PersistFails, Rollback
<1> QED BY <1>1, <1>2, <1>3 DEF Next

(* A transaction that changes what a trigger watches of a root stores a       *)
(* payload for it together with the change, whatever rows it changed, in      *)
(* whatever order (TriggerHandler.attach, TriggerListenersBuilder).           *)
THEOREM CompleteCorrect == Spec => Complete
<1> DEFINE Seen == \A r \in Roots : Tree(db', r) # Tree(db, r) => \E p \in outbox' : p.id = r
<1>1. Inv /\ [Next]_vars => [Seen]_vars
  <2> SUFFICES ASSUME Inv, Next PROVE Seen
    OBVIOUS
  <2>1. CASE Commit
    <3>1. db' = now /\ outbox' = {Payload(r) : r \in Ids}
      BY <2>1 DEF Commit
    <3>2. SUFFICES ASSUME NEW r \in Roots, Tree(now, r) # Tree(db, r)
                   PROVE  \E p \in outbox' : p.id = r
      BY <3>1
    <3>3. r \in Ids
      BY <3>2 DEF Inv, Noticed, Ids
    <3> QED BY <3>1, <3>3, PayloadFields
  <2>2. CASE db' = db
    BY <2>2
  <2> QED BY <2>1, <2>2, OnlyCommit
<1> QED BY <1>1, InvCorrect, PTL DEF Spec, Complete

(* No payload without a cause: some row of the root's tree was really changed *)
(* (hasChanges), except for a disconnect under a predicate.                   *)
THEOREM NoFalseAlarmCorrect == Spec => NoFalseAlarm
<1> DEFINE Quiet == \A p \in outbox' : (outbox' # outbox /\ ~rel.restricted) => p.id \in touched
<1>1. Inv /\ [Next]_vars => [Quiet]_vars
  <2> SUFFICES ASSUME Inv, Next, ~rel.restricted, outbox' # outbox,
                      NEW p \in outbox'
               PROVE  p.id \in touched
    OBVIOUS
  <2>1. Commit
    BY OnlyCommit
  <2>2. PICK r \in Ids : p = Payload(r)
    BY <2>1 DEF Commit
  <2>3. r \in Roots /\ r \in touched
    BY DEF Ids, Inv, TypeOK, Caused
  <2> QED BY <2>2, <2>3, PayloadFields
<1> QED BY <1>1, InvCorrect, PTL DEF Spec, NoFalseAlarm

(* The selection shows a surviving root as it is committed, unless the first  *)
(* event of the transaction was a root's own deletion (buildWatchEventPayloads *)
(* reads it once, before the commit).                                         *)
THEOREM SelectionFreshCorrect == Spec => SelectionFresh
<1> DEFINE Fresh == \A p \in outbox' :
             (outbox' # outbox /\ first = {None} /\ db'.title[p.id] # Gone)
               => p.selection = Tree(db', p.id)
<1>1. Inv /\ [Next]_vars => [Fresh]_vars
  <2> SUFFICES ASSUME Inv, Next, NEW p \in outbox', outbox' # outbox,
                      first = {None}, db'.title[p.id] # Gone
               PROVE  p.selection = Tree(db', p.id)
    OBVIOUS
  <2>1. Commit
    BY OnlyCommit
  <2>2. PICK r \in Ids : p = Payload(r)
    BY <2>1 DEF Commit
  <2>3. PICK e \in fired : e.id = r
    BY DEF Ids
  <2>4. r \in Roots /\ p.id = r /\ p.selection = Fetched(r) /\ db' = now
    BY <2>1, <2>2, <2>3, PayloadFields DEF Inv, TypeOK, Commit, Selection
  <2>5. now.title[r] # Gone /\ ~Own(e)
    BY <2>3, <2>4 DEF Inv, OwnGone
  <2> QED BY <2>3, <2>4, <2>5 DEF Fetched
<1> QED BY <1>1, InvCorrect, PTL DEF Spec, SelectionFresh

=============================================================================
