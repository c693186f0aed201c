--------------------------- MODULE OneHasOneProofs ---------------------------
(***************************************************************************)
(* Theorems about OneHasOne.  The statements of the mapper come first, one  *)
(* lemma each: they respect the keys of the database, what they do when     *)
(* they succeed and which errors they may give.  The methods of the input   *)
(* processors are sequences of statements and get the same treatment; the   *)
(* theorems read what an operation promises from its method's lemma.        *)
(***************************************************************************)
EXTENDS OneHasOne, TLAPS

Errors == {"none", "notFound", "noResult", "notNull", "foreignKey", "unique"}
Mappers ==
  [own : [Owners -> Inverses \cup {None, Gone}], inv : SUBSET Inverses,
   err : Errors, dead : SUBSET (Owners \cup Inverses),
   owner : [Inverses -> Owners \cup {None, "unasked"}],
   seen : [Owners \cup Inverses -> {"unasked", "found", "missing"}]]

(* The rows respect the keys, and a row the mapper has deleted is not there. *)
Valid(m) ==
  /\ m \in Mappers
  /\ Consistent(rel, m)
  /\ \A x \in m.dead : ~Exists(m, x)

SameRows(m, r) == r.own = m.own /\ r.inv = m.inv /\ r.dead = m.dead

(* The mapper's memory of the owner of b, and of the row x, is right.        *)
KnowsOwner(m, b) == m.owner[b] \in {"unasked", OwnerOf(m, b)}
Knows(m, x) == m.seen[x] \in {"unasked", IF Exists(m, x) THEN "found" ELSE "missing"}

-----------------------------------------------------------------------------
(* The statements of the mapper.                                             *)

OwnerFacts(m, b) ==
  /\ OwnerOf(m, b) \in Owners \cup {None}
  /\ \A a \in Owners : m.own[a] = b <=> OwnerOf(m, b) = a
LEMMA OwnerIs ==
  ASSUME NEW m, Valid(m), NEW b \in Inverses
  PROVE  OwnerFacts(m, b)
<1>1. CASE Linked(m, b)
  <2>1. PICK a \in Owners : m.own[a] = b
    BY <1>1 DEF Linked
  <2>2. OwnerOf(m, b) = CHOOSE o \in Owners : m.own[o] = b
    BY <1>1 DEF OwnerOf
  <2>3. OwnerOf(m, b) \in Owners /\ m.own[OwnerOf(m, b)] = b
    BY <2>1, <2>2
  <2>4. \A o, u \in Owners : m.own[o] = b /\ m.own[u] = b => o = u
    BY DEF Valid, Consistent
  <2> QED BY <2>3, <2>4 DEF OwnerFacts
<1>2. CASE ~Linked(m, b)
  <2>1. OwnerOf(m, b) = None
    BY <1>2 DEF OwnerOf
  <2> QED BY <1>2, <2>1, OneHasOneAssumption DEF OwnerFacts, Linked
<1> QED BY <1>1, <1>2

ErrorFacts(m, r) ==
  Valid(r) /\ SameRows(m, r) /\ r.owner = m.owner /\ r.seen = m.seen
LEMMA Errs ==
  ASSUME NEW m, Valid(m), NEW e \in Errors
  PROVE  /\ ErrorFacts(m, Error(m, e))
         /\ Error(m, e).err = IF m.err = "none" THEN e ELSE m.err
<1>1. m \in Mappers
  BY DEF Valid
<1>2. /\ Error(m, e) \in Mappers /\ SameRows(m, Error(m, e))
      /\ Error(m, e).owner = m.owner /\ Error(m, e).seen = m.seen
      /\ Error(m, e).err = IF m.err = "none" THEN e ELSE m.err
  BY <1>1 DEF Error, Mappers, SameRows
<1> QED BY <1>2 DEF ErrorFacts, Valid, SameRows, Consistent, Exists

AskFacts(m, b, r) ==
  /\ Valid(r) /\ SameRows(m, r) /\ r.err = m.err
  /\ CurrentOwner(m, b) \in Owners \cup {None}
  /\ KnowsOwner(m, b) => CurrentOwner(m, b) = OwnerOf(m, b)
LEMMA Asks ==
  ASSUME NEW m, Valid(m), NEW b \in Inverses
  PROVE  AskFacts(m, b, AskOwner(m, b))
<1>1. m \in Mappers
  BY DEF Valid
<1>2. OwnerOf(m, b) \in Owners \cup {None}
  BY OwnerIs DEF OwnerFacts
<1>3. m.owner[b] \in Owners \cup {None, "unasked"}
  BY <1>1 DEF Mappers
<1>4. /\ CurrentOwner(m, b) \in Owners \cup {None}
      /\ KnowsOwner(m, b) => CurrentOwner(m, b) = OwnerOf(m, b)
  BY <1>2, <1>3 DEF CurrentOwner, KnowsOwner
<1>5. /\ AskOwner(m, b) \in Mappers /\ SameRows(m, AskOwner(m, b))
      /\ AskOwner(m, b).err = m.err
  BY <1>1, <1>4 DEF AskOwner, Mappers, SameRows
<1> QED BY <1>4, <1>5 DEF AskFacts, Valid, SameRows, Consistent, Exists

FindFacts(m, x, r) ==
  /\ Valid(r) /\ SameRows(m, r) /\ r.owner = m.owner /\ r.err = m.err
  /\ Knows(m, x) => (Found(m, x) <=> Exists(m, x))
  /\ \A y \in Owners \cup Inverses : Knows(m, y) => Knows(r, y)
LEMMA Finds ==
  ASSUME NEW m, Valid(m), NEW x \in Owners \cup Inverses
  PROVE  FindFacts(m, x, Find(m, x))
<1>1. m \in Mappers
  BY DEF Valid
<1>2. m.seen[x] \in {"unasked", "found", "missing"}
  BY <1>1 DEF Mappers
<1>3. Knows(m, x) => (Found(m, x) <=> Exists(m, x))
  BY <1>2 DEF Knows, Found
<1> DEFINE r == Find(m, x)
<1>4. /\ r \in Mappers /\ SameRows(m, r) /\ r.owner = m.owner /\ r.err = m.err
      /\ r.seen[x] = IF Found(m, x) THEN "found" ELSE "missing"
      /\ \A y \in Owners \cup Inverses : y # x => r.seen[y] = m.seen[y]
  BY <1>1 DEF Find, Mappers, SameRows
<1> HIDE DEF r
<1>5. \A y \in Owners \cup Inverses : Exists(r, y) <=> Exists(m, y)
  BY <1>4 DEF SameRows, Exists
<1>6. \A y \in Owners \cup Inverses : Knows(m, y) => Knows(r, y)
  BY <1>3, <1>4, <1>5 DEF Knows
<1>7. Valid(r)
  BY <1>4 DEF Valid, SameRows, Consistent, Exists
<1> QED BY <1>3, <1>4, <1>6, <1>7 DEF FindFacts, r

FindOrFailFacts(m, x, r) ==
  /\ Valid(r) /\ SameRows(m, r) /\ r.owner = m.owner
  /\ \A y \in Owners \cup Inverses : Knows(m, y) => Knows(r, y)
  /\ m.err # "none" => r.err = m.err
  /\ m.err = "none" => r.err \in {"none", "notFound"}
  /\ Knows(m, x) /\ r.err = "none" => Exists(m, x)
LEMMA FindsOrFails ==
  ASSUME NEW m, Valid(m), NEW x \in Owners \cup Inverses
  PROVE  FindOrFailFacts(m, x, FindOrFail(m, x))
<1> DEFINE f == Find(m, x)
<1>1. FindFacts(m, x, f)
  BY Finds
<1>2. /\ ErrorFacts(f, Error(f, "notFound"))
      /\ Error(f, "notFound").err = IF f.err = "none" THEN "notFound" ELSE f.err
  BY <1>1, Errs DEF FindFacts, Errors
<1>3. FindOrFail(m, x) = IF Found(m, x) THEN f ELSE Error(f, "notFound")
  BY DEF FindOrFail
<1> HIDE DEF f
<1>4. CASE Found(m, x)
  BY <1>1, <1>3, <1>4 DEF FindFacts, FindOrFailFacts
<1>5. CASE ~Found(m, x)
  <2> DEFINE r == Error(f, "notFound")
  <2>1. FindOrFail(m, x) = r
    BY <1>3, <1>5
  <2> HIDE DEF r
  <2>2. SameRows(m, r) /\ r.owner = m.owner /\ Valid(r)
    BY <1>1, <1>2 DEF FindFacts, ErrorFacts, SameRows, r
  <2>3. r.err = IF m.err = "none" THEN "notFound" ELSE m.err
    BY <1>1, <1>2 DEF FindFacts, r
  <2>4. \A y \in Owners \cup Inverses : Knows(m, y) => Knows(r, y)
    <3>1. r.seen = f.seen /\ r.own = f.own /\ r.inv = f.inv
      BY <1>2 DEF ErrorFacts, SameRows, r
    <3>2. \A y \in Owners \cup Inverses : Knows(f, y) => Knows(r, y)
      BY <3>1 DEF Knows, Exists
    <3> QED BY <1>1, <3>2 DEF FindFacts
  <2> QED BY <2>1, <2>2, <2>3, <2>4 DEF FindOrFailFacts
<1> QED BY <1>4, <1>5

SetFacts(m, a, v, r) ==
  /\ Valid(r) /\ r.dead = m.dead
  /\ m.err # "none" => r.err = m.err
  /\ m.err = "none" /\ r.err = "none" =>
       /\ m.own[a] # Gone /\ v \in m.inv \cup {None}
       /\ r.own = [m.own EXCEPT ![a] = v] /\ r.inv = m.inv
  /\ m.err = "none" /\ r.err # "none" =>
       /\ r.err = "unique" => v # None /\ OwnerOf(m, v) \notin {None, a}
       /\ r.err = "noResult" => m.own[a] = Gone
LEMMA Sets ==
  ASSUME rel \in Relations, NEW m, Valid(m), NEW a \in Owners,
         NEW v \in Inverses \cup {None}
  PROVE  SetFacts(m, a, v, SetOwn(m, a, v))
<1> DEFINE r == SetOwn(m, a, v)
<1> m \in Mappers
  BY DEF Valid
<1>1. CASE m.err # "none"
  BY <1>1 DEF SetFacts, SetOwn
<1>2. CASE m.err = "none" /\ m.own[a] = Gone
  BY <1>2, Errs, OneHasOneAssumption DEF SetFacts, SetOwn, ErrorFacts, SameRows, Errors
<1>3. CASE m.err = "none" /\ m.own[a] # Gone /\ v = None /\ ~rel.owner
  BY <1>3, Errs DEF SetFacts, SetOwn, ErrorFacts, SameRows, Errors
<1>4. CASE m.err = "none" /\ m.own[a] # Gone /\ v # None /\ v \notin m.inv
  BY <1>4, Errs DEF SetFacts, SetOwn, ErrorFacts, SameRows, Errors
<1>5. CASE m.err = "none" /\ m.own[a] # Gone /\ v # None /\ v \in m.inv /\ OwnerOf(m, v) \notin {None, a}
  BY <1>5, Errs DEF SetFacts, SetOwn, ErrorFacts, SameRows, Errors
<1>6. CASE /\ m.err = "none" /\ m.own[a] # Gone /\ ~(v = None /\ ~rel.owner)
           /\ v # None => v \in m.inv /\ OwnerOf(m, v) \in {None, a}
  <2>1. r = [m EXCEPT !.own[a] = v]
    BY <1>6 DEF SetOwn
  <2>2. /\ r \in Mappers /\ r.err = "none"
        /\ r.own = [m.own EXCEPT ![a] = v] /\ r.inv = m.inv /\ r.dead = m.dead
    BY <1>6, <2>1 DEF Mappers
  <2>3. m.own \in [Owners -> Inverses \cup {None, Gone}]
    BY DEF Mappers
  <2> HIDE DEF r
  <2>4. \A x \in Owners : r.own[x] = IF x = a THEN v ELSE m.own[x]
    BY <2>2, <2>3
  <2>5. \A x \in Owners : v # None /\ m.own[x] = v => x = a
    BY <1>6, OwnerIs, OneHasOneAssumption DEF OwnerFacts
  <2>6. Consistent(rel, r)
    <3>1. \A x \in Owners : r.own[x] \in r.inv \cup {None, Gone}
      BY <1>6, <2>2, <2>4 DEF Valid, Consistent
    <3>2. \A x, y \in Owners : r.own[x] = r.own[y] /\ r.own[x] \in Inverses => x = y
      BY <2>4, <2>5, OneHasOneAssumption DEF Valid, Consistent
    <3>3. ~rel.owner => \A x \in Owners : r.own[x] # None
      BY <1>6, <2>4 DEF Valid, Consistent
    <3> QED BY <3>1, <3>2, <3>3 DEF Consistent
  <2>7. \A x \in r.dead : ~Exists(r, x)
    BY <1>6, <2>2, <2>4 DEF Valid, Exists
  <2>8. v \in m.inv \cup {None}
    BY <1>6
  <2> QED BY <1>6, <2>2, <2>6, <2>7, <2>8 DEF SetFacts, Valid, r
<1> QED BY <1>1, <1>2, <1>3, <1>4, <1>5, <1>6

(* Release of the row b's owner o, as the mapper remembers it.               *)
ReleaseFacts(m, o, r) ==
  /\ Valid(r) /\ r.dead = m.dead
  /\ m.err # "none" => r.err = m.err
  /\ m.err = "none" /\ r.err = "none" =>
       /\ r.inv = m.inv
       /\ \A a \in Owners : r.own[a] = IF a = o THEN None ELSE m.own[a]
  /\ m.err = "none" /\ r.err # "none" =>
       /\ r.err # "unique"
       /\ r.err = "noResult" => o \in Owners /\ m.own[o] = Gone
LEMMA Releases ==
  ASSUME rel \in Relations, NEW m, Valid(m), NEW o \in Owners \cup {None}
  PROVE  ReleaseFacts(m, o, Release(m, o))
<1> m \in Mappers
  BY DEF Valid
<1>1. CASE o = None
  BY <1>1, OneHasOneAssumption DEF Release, ReleaseFacts
<1>2. CASE o # None
  <2> DEFINE r == SetOwn(m, o, None)
  <2>1. Release(m, o) = r /\ o \in Owners
    BY <1>2 DEF Release
  <2>2. SetFacts(m, o, None, r)
    BY <2>1, Sets
  <2> HIDE DEF r
  <2>3. m.own \in [Owners -> Inverses \cup {None, Gone}]
    BY DEF Mappers
  <2> QED BY <2>1, <2>2, <2>3 DEF SetFacts, ReleaseFacts
<1> QED BY <1>1, <1>2

InsertOwnerFacts(m, a, v, r) ==
  /\ Valid(r)
  /\ m.err # "none" => r.err = m.err
  /\ m.err = "none" /\ r.err = "none" =>
       /\ m.own[a] = Gone /\ v \in m.inv \cup {None}
       /\ r.own = [m.own EXCEPT ![a] = v] /\ r.inv = m.inv /\ r.dead = m.dead
  /\ m.err = "none" /\ r.err # "none" =>
       /\ r.err # "noResult"
       /\ r.err = "unique" => m.own[a] # Gone \/ (v # None /\ OwnerOf(m, v) # None)
LEMMA InsertsOwner ==
  ASSUME rel \in Relations, NEW m, Valid(m), NEW a \in Owners, a \notin m.dead,
         NEW v \in Inverses \cup {None}, v = None => rel.owner
  PROVE  InsertOwnerFacts(m, a, v, InsertOwner(m, a, v))
<1> DEFINE r == InsertOwner(m, a, v)
<1> m \in Mappers
  BY DEF Valid
<1>1. CASE m.err # "none"
  BY <1>1 DEF InsertOwnerFacts, InsertOwner
<1>2. CASE m.err = "none" /\ m.own[a] # Gone
  BY <1>2, Errs DEF InsertOwnerFacts, InsertOwner, ErrorFacts, Errors
<1>3. CASE m.err = "none" /\ m.own[a] = Gone /\ v # None /\ v \notin m.inv
  BY <1>3, Errs DEF InsertOwnerFacts, InsertOwner, ErrorFacts, Errors
<1>4. CASE m.err = "none" /\ m.own[a] = Gone /\ v # None /\ v \in m.inv /\ OwnerOf(m, v) # None
  BY <1>4, Errs DEF InsertOwnerFacts, InsertOwner, ErrorFacts, Errors
<1>5. CASE /\ m.err = "none" /\ m.own[a] = Gone
           /\ v # None => v \in m.inv /\ OwnerOf(m, v) = None
  <2>1. r = [m EXCEPT !.own[a] = v]
    BY <1>5 DEF InsertOwner
  <2>2. /\ r \in Mappers /\ r.err = "none"
        /\ r.own = [m.own EXCEPT ![a] = v] /\ r.inv = m.inv /\ r.dead = m.dead
    BY <1>5, <2>1 DEF Mappers
  <2>3. m.own \in [Owners -> Inverses \cup {None, Gone}]
    BY DEF Mappers
  <2> HIDE DEF r
  <2>4. \A x \in Owners : r.own[x] = IF x = a THEN v ELSE m.own[x]
    BY <2>2, <2>3
  <2>5. \A x \in Owners : v # None => m.own[x] # v
    BY <1>5, OwnerIs, OneHasOneAssumption DEF OwnerFacts
  <2>6. Consistent(rel, r)
    <3>1. \A x \in Owners : r.own[x] \in r.inv \cup {None, Gone}
      BY <1>5, <2>2, <2>4 DEF Valid, Consistent
    <3>2. \A x, y \in Owners : r.own[x] = r.own[y] /\ r.own[x] \in Inverses => x = y
      BY <2>4, <2>5, OneHasOneAssumption DEF Valid, Consistent
    <3>3. ~rel.owner => \A x \in Owners : r.own[x] # None
      BY <1>5, <2>4 DEF Valid, Consistent
    <3> QED BY <3>1, <3>2, <3>3 DEF Consistent
  <2>7. \A x \in r.dead : ~Exists(r, x)
    <3> SUFFICES ASSUME NEW x \in m.dead PROVE ~Exists(r, x)
      BY <2>2
    <3>1. ~Exists(m, x) /\ x # a
      BY DEF Valid
    <3>2. x \notin m.inv /\ (x \in Owners => r.own[x] = Gone)
      BY <2>4, <3>1 DEF Exists
    <3> QED BY <2>2, <3>2 DEF Exists
  <2>8. v \in m.inv \cup {None}
    BY <1>5
  <2> QED BY <1>5, <2>2, <2>6, <2>7, <2>8 DEF InsertOwnerFacts, Valid, r
<1> QED BY <1>1, <1>2, <1>3, <1>4, <1>5

InsertInverseFacts(m, b, r) ==
  /\ Valid(r) /\ r.own = m.own /\ r.dead = m.dead /\ r.seen = m.seen /\ r.owner = m.owner
  /\ m.err # "none" => r.err = m.err
  /\ m.err = "none" /\ r.err = "none" => b \notin m.inv /\ r.inv = m.inv \cup {b}
  /\ m.err = "none" /\ r.err # "none" => r.err = "unique" /\ b \in m.inv
LEMMA InsertsInverse ==
  ASSUME NEW m, Valid(m), NEW b \in Inverses, b \notin m.dead
  PROVE  InsertInverseFacts(m, b, InsertInverse(m, b))
<1> DEFINE r == InsertInverse(m, b)
<1> m \in Mappers
  BY DEF Valid
<1>1. CASE m.err # "none"
  BY <1>1 DEF InsertInverseFacts, InsertInverse
<1>2. CASE m.err = "none" /\ b \in m.inv
  BY <1>2, Errs DEF InsertInverseFacts, InsertInverse, ErrorFacts, SameRows, Errors
<1>3. CASE m.err = "none" /\ b \notin m.inv
  <2>1. r = [m EXCEPT !.inv = @ \cup {b}]
    BY <1>3 DEF InsertInverse
  <2>2. /\ r \in Mappers /\ r.err = "none" /\ r.seen = m.seen /\ r.owner = m.owner
        /\ r.own = m.own /\ r.inv = m.inv \cup {b} /\ r.dead = m.dead
    <3> DEFINE inv == m.inv \cup {b}
    <3>1. inv \in SUBSET Inverses /\ r = [m EXCEPT !.inv = inv]
      BY <2>1 DEF Mappers
    <3> HIDE DEF inv
    <3>2. /\ r \in Mappers /\ r.err = "none" /\ r.seen = m.seen /\ r.owner = m.owner
          /\ r.own = m.own /\ r.inv = inv /\ r.dead = m.dead
      BY <1>3, <3>1 DEF Mappers
    <3> QED BY <3>2 DEF inv
  <2> HIDE DEF r
  <2>3. Consistent(rel, r)
    BY <2>2 DEF Valid, Consistent
  <2>4. \A x \in r.dead : ~Exists(r, x)
    BY <2>2 DEF Valid, Exists
  <2> QED BY <1>3, <2>2, <2>3, <2>4 DEF InsertInverseFacts, Valid, r
<1> QED BY <1>1, <1>2, <1>3

(* A row of B and what its deletion does to the row that owns it.            *)
DeleteInverseFacts(m, b, r) ==
  /\ Valid(r)
  /\ m.err # "none" => r.err = m.err
  /\ m.err = "none" => r.err \in {"none", "notFound", "foreignKey", "notNull"}
  /\ m.err = "none" /\ r.err = "none" =>
       /\ r.inv = m.inv \ {b}
       /\ \A a \in Owners : m.own[a] # b => r.own[a] = m.own[a]
       /\ \A a \in Owners : m.own[a] = b =>
            r.own[a] = IF rel.onDelete = "cascade" THEN Gone ELSE None
LEMMA DeletesInverse ==
  ASSUME rel \in Relations, NEW m, Valid(m), NEW b \in Inverses
  PROVE  DeleteInverseFacts(m, b, DeleteInverse(m, b))
<1> DEFINE r == DeleteInverse(m, b)
           o == OwnerOf(m, b)
           drops == rel.onDelete = "cascade" /\ o # None
           dead == m.dead \cup {b} \cup (IF drops THEN {o} ELSE {})
           own == [a \in Owners |-> IF a # o THEN m.own[a] ELSE IF drops THEN Gone ELSE None]
           inv == m.inv \ {b}
<1> m \in Mappers
  BY DEF Valid
<1>0. /\ o \in Owners \cup {None}
      /\ \A a \in Owners : m.own[a] = b <=> o = a
  BY OwnerIs DEF OwnerFacts
<1>1. CASE m.err # "none"
  BY <1>1 DEF DeleteInverseFacts, DeleteInverse
<1>2. CASE m.err = "none" /\ b \in m.dead
  <2>1. r = m
    BY <1>2 DEF DeleteInverse
  <2>2. b \notin m.inv
    BY <1>2 DEF Valid, Exists
  <2>3. \A a \in Owners : m.own[a] # b
    BY <2>2, OneHasOneAssumption DEF Valid, Consistent
  <2> QED BY <1>2, <2>1, <2>2, <2>3 DEF DeleteInverseFacts
<1>3. CASE m.err = "none" /\ b \notin m.dead /\ b \notin m.inv
  <2>1. r = Error(m, "notFound")
    BY <1>3 DEF DeleteInverse
  <2> QED BY <1>3, <2>1, Errs DEF DeleteInverseFacts, ErrorFacts, Errors
<1>4. CASE m.err = "none" /\ b \notin m.dead /\ b \in m.inv /\ o # None /\ rel.onDelete = "restrict"
  <2>1. r = Error(m, "foreignKey")
    BY <1>4 DEF DeleteInverse
  <2> QED BY <1>4, <2>1, Errs DEF DeleteInverseFacts, ErrorFacts, Errors
<1>5. CASE /\ m.err = "none" /\ b \notin m.dead /\ b \in m.inv
           /\ o # None /\ rel.onDelete = "setNull" /\ ~rel.owner
  <2>1. r = Error(m, "notNull")
    BY <1>5 DEF DeleteInverse
  <2> QED BY <1>5, <2>1, Errs DEF DeleteInverseFacts, ErrorFacts, Errors
<1>6. CASE /\ m.err = "none" /\ b \notin m.dead /\ b \in m.inv
           /\ ~(o # None /\ rel.onDelete = "restrict")
           /\ ~(o # None /\ rel.onDelete = "setNull" /\ ~rel.owner)
  <2>1. r = [m EXCEPT !.inv = inv, !.dead = dead, !.own = own]
    BY <1>6 DEF DeleteInverse
  <2>2. /\ inv \in SUBSET Inverses /\ dead \in SUBSET (Owners \cup Inverses)
        /\ own \in [Owners -> Inverses \cup {None, Gone}]
    <3>1. inv \in SUBSET Inverses
      BY DEF Mappers
    <3>2. (IF drops THEN {o} ELSE {}) \in SUBSET Owners
      BY <1>0
    <3>3. dead \in SUBSET (Owners \cup Inverses)
      BY <3>2 DEF Mappers
    <3>4. m.own \in [Owners -> Inverses \cup {None, Gone}]
      BY DEF Mappers
    <3> QED BY <3>1, <3>3, <3>4
  <2>3. \A x \in dead : x \in m.dead \/ x = b \/ (x = o /\ drops)
    OBVIOUS
  <2>4. \A a \in Owners : own[a] = IF a # o THEN m.own[a] ELSE IF drops THEN Gone ELSE None
    OBVIOUS
  <2>5. \A x : x \in inv <=> x \in m.inv /\ x # b
    OBVIOUS
  <2> HIDE DEF r, inv, dead, own
  <2>6. /\ r \in Mappers /\ r.err = "none"
        /\ r.own = own /\ r.inv = inv /\ r.dead = dead
    BY <1>6, <2>1, <2>2 DEF Mappers
  <2> HIDE DEF o
  <2>7. \A a \in Owners : r.own[a] = IF m.own[a] # b THEN m.own[a]
                                     ELSE IF rel.onDelete = "cascade" THEN Gone ELSE None
    BY <1>0, <2>4, <2>6, OneHasOneAssumption
  <2>8. Consistent(rel, r)
    <3>1. \A x \in Owners : r.own[x] \in r.inv \cup {None, Gone}
      BY <2>5, <2>6, <2>7 DEF Valid, Consistent
    <3>2. \A x, y \in Owners : r.own[x] = r.own[y] /\ r.own[x] \in Inverses => x = y
      BY <2>7, OneHasOneAssumption DEF Valid, Consistent
    <3>3. ASSUME ~rel.owner, NEW x \in Owners PROVE r.own[x] # None
      <4>1. m.own[x] # None
        BY <3>3 DEF Valid, Consistent
      <4>2. m.own[x] = b => rel.onDelete = "cascade"
        BY <1>0, <1>6, <3>3, OneHasOneAssumption DEF Relations
      <4> QED BY <2>7, <4>1, <4>2, OneHasOneAssumption
    <3> QED BY <3>1, <3>2, <3>3 DEF Consistent
  <2>9. \A x \in r.dead : ~Exists(r, x)
    <3> SUFFICES ASSUME NEW x \in dead PROVE ~Exists(r, x)
      BY <2>6
    <3>1. CASE x \in m.dead
      BY <2>5, <2>6, <2>7, <3>1, OneHasOneAssumption DEF Valid, Exists, Consistent
    <3>2. CASE x = b
      BY <2>5, <2>6, <3>2, OneHasOneAssumption DEF Exists
    <3>3. CASE x = o /\ drops
      <4>1. x \in Owners /\ m.own[x] = b
        BY <1>0, <3>3
      <4>2. r.own[x] = Gone
        BY <2>7, <3>3, <4>1
      <4>3. x \notin r.inv
        BY <2>6, <4>1, OneHasOneAssumption DEF Mappers
      <4> QED BY <4>2, <4>3 DEF Exists
    <3> QED BY <2>3, <3>1, <3>2, <3>3
  <2> QED BY <1>6, <2>5, <2>6, <2>7, <2>8, <2>9 DEF DeleteInverseFacts, Valid, inv, r
<1> QED BY <1>1, <1>2, <1>3, <1>4, <1>5, <1>6

DeleteOwnerFacts(m, a, r) ==
  /\ Valid(r)
  /\ m.err # "none" => r.err = m.err
  /\ m.err = "none" => r.err \in {"none", "notFound"}
  /\ m.err = "none" /\ r.err = "none" =>
       /\ r.own[a] = Gone
       /\ \A x \in Owners : x # a => r.own[x] = m.own[x]
       /\ r.inv = IF rel.orphan THEN m.inv \ {m.own[a]} ELSE m.inv
LEMMA DeletesOwner ==
  ASSUME rel \in Relations, NEW m, Valid(m), NEW a \in Owners
  PROVE  DeleteOwnerFacts(m, a, DeleteOwner(m, a))
<1> DEFINE r == DeleteOwner(m, a)
           orphans == IF rel.orphan THEN {m.own[a]} \cap Inverses ELSE {}
           inv == m.inv \ orphans
           own == [m.own EXCEPT ![a] = Gone]
           dead == m.dead \cup {a} \cup orphans
<1> m \in Mappers
  BY DEF Valid
<1>0. m.own \in [Owners -> Inverses \cup {None, Gone}] /\ m.inv \in SUBSET Inverses
  BY DEF Mappers
<1>1. CASE m.err # "none"
  BY <1>1 DEF DeleteOwnerFacts, DeleteOwner
<1>2. CASE m.err = "none" /\ a \in m.dead
  <2>1. r = m
    BY <1>2 DEF DeleteOwner
  <2>2. m.own[a] = Gone
    BY <1>2 DEF Valid, Exists
  <2>3. m.inv \ {Gone} = m.inv
    BY <1>0, OneHasOneAssumption
  <2> QED BY <1>2, <2>1, <2>2, <2>3 DEF DeleteOwnerFacts
<1>3. CASE m.err = "none" /\ a \notin m.dead /\ m.own[a] = Gone
  <2>1. r = Error(m, "notFound")
    BY <1>3 DEF DeleteOwner
  <2> QED BY <1>3, <2>1, Errs DEF DeleteOwnerFacts, ErrorFacts, Errors
<1>4. CASE m.err = "none" /\ a \notin m.dead /\ m.own[a] # Gone
  <2>1. r = [m EXCEPT !.own[a] = Gone, !.inv = inv, !.dead = dead]
    BY <1>4 DEF DeleteOwner
  <2>2. /\ inv \in SUBSET Inverses /\ dead \in SUBSET (Owners \cup Inverses)
    BY DEF Mappers
  <2>3. \A x \in dead : x \in m.dead \/ x = a \/ x \in orphans
    OBVIOUS
  <2>4. inv = IF rel.orphan THEN m.inv \ {m.own[a]} ELSE m.inv
    BY <1>0
  <2>5. \A x : x \in orphans => rel.orphan /\ x = m.own[a] /\ x \in Inverses
    OBVIOUS
  <2>6. \A x : x \in inv <=> x \in m.inv /\ x \notin orphans
    OBVIOUS
  <2> HIDE DEF r, inv, dead, orphans
  <2>7. /\ r \in Mappers /\ r.err = "none"
        /\ r.own = [m.own EXCEPT ![a] = Gone] /\ r.inv = inv /\ r.dead = dead
    BY <1>4, <2>1, <2>2 DEF Mappers
  <2>8. \A x \in Owners : r.own[x] = IF x = a THEN Gone ELSE m.own[x]
    BY <1>0, <2>7
  <2>9. Consistent(rel, r)
    <3>1. \A x \in Owners : r.own[x] \in r.inv \cup {None, Gone}
      BY <2>5, <2>6, <2>7, <2>8 DEF Valid, Consistent
    <3>2. \A x, y \in Owners : r.own[x] = r.own[y] /\ r.own[x] \in Inverses => x = y
      BY <2>8, OneHasOneAssumption DEF Valid, Consistent
    <3>3. ~rel.owner => \A x \in Owners : r.own[x] # None
      BY <2>8, OneHasOneAssumption DEF Valid, Consistent
    <3> QED BY <3>1, <3>2, <3>3 DEF Consistent
  <2>10. \A x \in r.dead : ~Exists(r, x)
    <3> SUFFICES ASSUME NEW x \in dead PROVE ~Exists(r, x)
      BY <2>7
    <3>1. CASE x \in m.dead
      BY <2>6, <2>7, <2>8, <3>1 DEF Valid, Exists
    <3>2. CASE x = a
      <4>1. x \notin m.inv
        BY <1>0, <3>2, OneHasOneAssumption
      <4> QED BY <2>6, <2>7, <2>8, <3>2, <4>1 DEF Exists
    <3>3. CASE x \in orphans
      BY <2>5, <2>6, <2>7, <3>3, OneHasOneAssumption DEF Exists
    <3> QED BY <2>3, <3>1, <3>2, <3>3
  <2> QED BY <1>4, <2>4, <2>7, <2>8, <2>9, <2>10 DEF DeleteOwnerFacts, Valid, r
<1> QED BY <1>1, <1>2, <1>3, <1>4

-----------------------------------------------------------------------------
(* The methods of the input processors.                                      *)

Clean(r) == r.err \notin {"unique", "noResult"}
Others(m, a, b, r) ==
  \A x \in Owners : x # a /\ m.own[x] # b => r.own[x] = m.own[x]
NoOrphans(m, r) == \A b \in r.inv : Linked(m, b) => Linked(r, b)
(* The relations in which an operation must look after the row left behind.  *)
Protected == rel.orphan \/ ~rel.inverse

CurrentFacts(m, a, cur) ==
  /\ cur \in Inverses \cup {None}
  /\ cur # None => m.own[a] = cur
  /\ Protected /\ m.own[a] \in Inverses => cur = m.own[a]
LEMMA Currents ==
  ASSUME NEW m, NEW a \in Owners
  PROVE  CurrentFacts(m, a, CurrentInverse(m, a))
BY DEF CurrentFacts, CurrentInverse, Protected

KeepFacts(m, cur, r) ==
  /\ Valid(r) /\ SameRows(m, r)
  /\ m.err # "none" => r.err = m.err
  /\ m.err = "none" => r.err \in {"none", "notNull"}
  /\ r.err = "none" /\ Protected /\ cur # None => rel.orphan
LEMMA KeepsInverse ==
  ASSUME NEW m, Valid(m), NEW cur \in Inverses \cup {None}
  PROVE  KeepFacts(m, cur, KeepInverse(m, cur))
<1>1. CASE cur # None /\ ~rel.inverse /\ ~rel.orphan
  BY <1>1, Errs DEF KeepFacts, KeepInverse, ErrorFacts, Errors
<1>2. CASE ~(cur # None /\ ~rel.inverse /\ ~rel.orphan)
  BY <1>2 DEF KeepFacts, KeepInverse, SameRows, Protected
<1> QED BY <1>1, <1>2

CleanupFacts(m, cur, r) ==
  /\ Valid(r)
  /\ m.err # "none" => r.err = m.err
  /\ m.err = "none" => r.err \in {"none", "notFound", "foreignKey", "notNull"}
  /\ m.err = "none" /\ r.err = "none" =>
       /\ r.inv = IF rel.orphan /\ cur # None THEN m.inv \ {cur} ELSE m.inv
       /\ \A x \in Owners : m.own[x] # cur => r.own[x] = m.own[x]
       /\ \A x \in Owners : r.own[x] \in {m.own[x], None, Gone}
       /\ \A x \in Owners : rel.onDelete # "cascade" /\ m.own[x] # Gone => r.own[x] # Gone
       /\ rel.orphan /\ cur # None => ~Linked(r, cur)
       /\ ~rel.orphan \/ cur = None => \A x \in Owners : r.own[x] = m.own[x]
LEMMA CleansUp ==
  ASSUME rel \in Relations, NEW m, Valid(m), NEW cur \in Inverses \cup {None}
  PROVE  CleanupFacts(m, cur, Cleanup(m, cur))
<1>1. CASE rel.orphan /\ cur # None
  <2> DEFINE r == DeleteInverse(m, cur)
  <2>1. Cleanup(m, cur) = r /\ cur \in Inverses
    BY <1>1 DEF Cleanup
  <2>2. DeleteInverseFacts(m, cur, r)
    BY <2>1, DeletesInverse
  <2> HIDE DEF r
  <2> QED BY <1>1, <2>1, <2>2, OneHasOneAssumption
          DEF CleanupFacts, DeleteInverseFacts, Linked
<1>2. CASE ~(rel.orphan /\ cur # None)
  BY <1>2 DEF CleanupFacts, Cleanup
<1> QED BY <1>1, <1>2

(* The owner a leaves the row cur for v, and cur is cleaned up.              *)
MoveFacts(s, a, v, cur, r) ==
  /\ Valid(r)
  /\ s.err # "none" => r.err = s.err
  /\ s.err = "none" =>
       /\ r.err = "unique" => v # None /\ OwnerOf(s, v) \notin {None, a}
       /\ r.err = "noResult" => s.own[a] = Gone
       /\ r.err = "none" /\ cur \in {None, s.own[a]} /\ (cur # v \/ cur = None) =>
            /\ \A x \in Owners : r.own[x] = IF x = a THEN v ELSE s.own[x]
            /\ r.inv = IF rel.orphan /\ cur # None THEN s.inv \ {cur} ELSE s.inv
LEMMA Moves ==
  ASSUME rel \in Relations, NEW s, Valid(s), NEW a \in Owners,
         NEW v \in Inverses \cup {None}, NEW cur \in Inverses \cup {None}
  PROVE  MoveFacts(s, a, v, cur, Cleanup(SetOwn(s, a, v), cur))
<1> DEFINE t == SetOwn(s, a, v)
           r == Cleanup(t, cur)
<1>1. SetFacts(s, a, v, t)
  BY Sets
<1>2. CleanupFacts(t, cur, r)
  BY <1>1, CleansUp DEF SetFacts
<1> HIDE DEF t, r
<1>3. Valid(r) /\ (s.err # "none" => r.err = s.err)
  BY <1>1, <1>2 DEF SetFacts, CleanupFacts
<1>4. ASSUME s.err = "none"
      PROVE  /\ r.err = "unique" => v # None /\ OwnerOf(s, v) \notin {None, a}
             /\ r.err = "noResult" => s.own[a] = Gone
  BY <1>1, <1>2, <1>4 DEF SetFacts, CleanupFacts
<1>5. ASSUME s.err = "none", r.err = "none", cur \in {None, s.own[a]}, cur # v \/ cur = None
      PROVE  /\ \A x \in Owners : r.own[x] = IF x = a THEN v ELSE s.own[x]
             /\ r.inv = IF rel.orphan /\ cur # None THEN s.inv \ {cur} ELSE s.inv
  <2>0. t.err = "none"
    BY <1>2, <1>5 DEF CleanupFacts
  <2>1. /\ s.own \in [Owners -> Inverses \cup {None, Gone}]
        /\ t.own = [s.own EXCEPT ![a] = v] /\ t.inv = s.inv
    BY <1>1, <1>5, <2>0 DEF SetFacts, Valid, Mappers
  <2>2. \A x \in Owners : t.own[x] = IF x = a THEN v ELSE s.own[x]
    BY <2>1
  <2>3. r.inv = IF rel.orphan /\ cur # None THEN s.inv \ {cur} ELSE s.inv
    BY <1>2, <1>5, <2>0, <2>1 DEF CleanupFacts
  <2>4. ASSUME NEW x \in Owners PROVE r.own[x] = t.own[x]
    <3>1. CASE cur = None
      BY <1>2, <1>5, <2>0, <3>1 DEF CleanupFacts
    <3>2. CASE cur # None
      <4>1. cur \in Inverses /\ cur = s.own[a] /\ cur # v
        BY <1>5, <3>2
      <4>2. s.own[x] = cur => x = a
        BY <4>1 DEF Valid, Consistent
      <4>3. t.own[x] # cur
        BY <2>2, <4>1, <4>2
      <4> QED BY <1>2, <1>5, <2>0, <4>3 DEF CleanupFacts
    <3> QED BY <3>1, <3>2
  <2> QED BY <2>2, <2>3, <2>4
<1> QED BY <1>3, <1>4, <1>5 DEF MoveFacts, r, t

(* a owns b in the end.                                                      *)
JoinFacts(m, a, b, r, kept) ==
  /\ Clean(r)
  /\ r.err = "none" =>
       /\ r.own[a] = b /\ Others(m, a, b, r)
       /\ kept => NoOrphans(m, r)
OwningConnectFacts(m, a, b, r) ==
  /\ Valid(r)
  /\ m.err # "none" => r.err = m.err
  /\ m.err = "none" /\ KnowsOwner(m, b) /\ m.own[a] # Gone => JoinFacts(m, a, b, r, Protected)
LEMMA OwningConnects ==
  ASSUME rel \in Relations, NEW m, Valid(m), NEW a \in Owners, NEW b \in Inverses
  PROVE  OwningConnectFacts(m, a, b, OwningConnect(m, a, b))
<1> DEFINE cur == CurrentInverse(m, a)
           asked == AskOwner(m, b)
           o == CurrentOwner(m, b)
           kept == KeepInverse(asked, cur)
           released == Release(kept, o)
           r == Cleanup(SetOwn(released, a, b), cur)
<1>1. CurrentFacts(m, a, cur) /\ cur \in Inverses \cup {None}
  BY Currents DEF CurrentFacts
<1>2. AskFacts(m, b, asked) /\ Valid(asked) /\ o \in Owners \cup {None}
  BY Asks DEF AskFacts
<1>3. KeepFacts(asked, cur, kept) /\ Valid(kept)
  BY <1>1, <1>2, KeepsInverse DEF KeepFacts
<1>4. ReleaseFacts(kept, o, released) /\ Valid(released)
  BY <1>2, <1>3, Releases DEF ReleaseFacts
<1>5. MoveFacts(released, a, b, cur, r)
  BY <1>1, <1>4, Moves
<1>6. OwningConnect(m, a, b) = IF m.err # "none" \/ cur = b THEN m ELSE IF o = a THEN asked ELSE r
  BY DEF OwningConnect
<1>7. OwnerFacts(m, b)
  BY OwnerIs
<1>8. AskFacts(m, b, asked) => (KnowsOwner(m, b) => o = OwnerOf(m, b))
  BY DEF AskFacts
<1> HIDE DEF cur, asked, o, kept, released, r
<1>9. CASE m.err # "none" \/ cur = b
  <2>1. OwningConnect(m, a, b) = m
    BY <1>6, <1>9
  <2>2. m.err = "none" => m.own[a] = b
    BY <1>1, <1>9, OneHasOneAssumption DEF CurrentFacts
  <2> QED BY <2>1, <2>2 DEF OwningConnectFacts, JoinFacts, Clean, Others, NoOrphans
<1>10. CASE m.err = "none" /\ cur # b /\ o = a
  <2>1. OwningConnect(m, a, b) = asked
    BY <1>6, <1>10
  <2>2. KnowsOwner(m, b) => m.own[a] = b
    BY <1>2, <1>7, <1>8, <1>10 DEF OwnerFacts
  <2>3. SameRows(m, asked) /\ asked.err = "none"
    BY <1>2, <1>10 DEF AskFacts
  <2> QED BY <1>2, <1>10, <2>1, <2>2, <2>3
          DEF OwningConnectFacts, JoinFacts, Clean, Others, NoOrphans, SameRows, Linked
<1>11. CASE m.err = "none" /\ cur # b /\ o # a
  <2>1. OwningConnect(m, a, b) = r
    BY <1>6, <1>11
  <2>2. ASSUME KnowsOwner(m, b), m.own[a] # Gone
        PROVE  JoinFacts(m, a, b, r, Protected)
    <3>1. SameRows(m, kept) /\ kept.err \in {"none", "notNull"}
      BY <1>2, <1>3, <1>11 DEF AskFacts, KeepFacts, SameRows
    <3>2. \A x \in Owners : m.own[x] = b <=> o = x
      BY <1>2, <1>7, <1>8, <2>2 DEF OwnerFacts
    <3>3. released.err \notin {"unique", "noResult"}
      <4>1. CASE kept.err = "none"
        <5>1. o \in Owners => kept.own[o] # Gone
          BY <3>1, <3>2, OneHasOneAssumption DEF SameRows
        <5> QED BY <1>4, <4>1, <5>1 DEF ReleaseFacts
      <4>2. CASE kept.err # "none"
        BY <1>4, <3>1, <4>2 DEF ReleaseFacts
      <4> QED BY <4>1, <4>2
    <3>4. CASE released.err # "none"
      BY <1>5, <3>3, <3>4 DEF MoveFacts, JoinFacts, Clean
    <3>5. CASE released.err = "none"
      <4>1. kept.err = "none"
        BY <1>4, <3>5 DEF ReleaseFacts
      <4>2. /\ \A x \in Owners : released.own[x] = IF x = o THEN None ELSE m.own[x]
            /\ released.inv = m.inv
        BY <1>4, <3>1, <3>5, <4>1 DEF ReleaseFacts, SameRows
      <4>3. released.own[a] = m.own[a]
        BY <1>11, <4>2
      <4>4. OwnerOf(released, b) = None
        <5>1. \A x \in Owners : released.own[x] # b
          BY <3>2, <4>2, OneHasOneAssumption
        <5> QED BY <5>1 DEF OwnerOf, Linked
      <4>5. Clean(r)
        BY <1>5, <2>2, <3>5, <4>3, <4>4 DEF MoveFacts, Clean
      <4>6. ASSUME r.err = "none"
            PROVE  /\ r.own[a] = b /\ Others(m, a, b, r)
                   /\ Protected => NoOrphans(m, r)
        <5>1. /\ \A x \in Owners : r.own[x] = IF x = a THEN b ELSE released.own[x]
              /\ r.inv = IF rel.orphan /\ cur # None THEN m.inv \ {cur} ELSE m.inv
          BY <1>1, <1>5, <1>11, <3>5, <4>2, <4>3, <4>6 DEF MoveFacts, CurrentFacts
        <5>2. Others(m, a, b, r)
          BY <3>2, <4>2, <5>1 DEF Others
        <5>3. ASSUME Protected, NEW c \in r.inv, Linked(m, c) PROVE Linked(r, c)
          <6>1. PICK y \in Owners : m.own[y] = c
            BY <5>3 DEF Linked
          <6>2. CASE c = b
            BY <5>1, <6>2 DEF Linked
          <6>3. CASE y = a
            <7>1. c \in Inverses
              BY <5>1, <5>3 DEF Valid, Mappers
            <7>2. cur = c /\ cur # None
              BY <1>1, <5>3, <6>1, <6>3, <7>1, OneHasOneAssumption DEF CurrentFacts
            <7>3. rel.orphan
              BY <1>3, <4>1, <5>3, <7>2 DEF KeepFacts
            <7> QED BY <5>1, <5>3, <7>2, <7>3
          <6>4. CASE c # b /\ y # a
            <7>1. r.own[y] = c
              BY <3>2, <4>2, <5>1, <6>1, <6>4
            <7> QED BY <7>1 DEF Linked
          <6> QED BY <6>2, <6>3, <6>4
        <5> QED BY <5>1, <5>2, <5>3 DEF NoOrphans
      <4> QED BY <4>5, <4>6 DEF JoinFacts
    <3> QED BY <3>4, <3>5
  <2> QED BY <1>5, <1>11, <2>1, <2>2 DEF OwningConnectFacts, MoveFacts
<1> QED BY <1>9, <1>10, <1>11

(* What was looked up in between does not matter.                            *)
LEMMA SameJoin ==
  ASSUME NEW m, NEW f, SameRows(m, f), NEW a, NEW b, NEW r, NEW k,
         JoinFacts(f, a, b, r, k)
  PROVE  JoinFacts(m, a, b, r, k)
BY DEF JoinFacts, SameRows, Others, NoOrphans, Linked

LEMMA SameKnows ==
  ASSUME NEW m, NEW f, SameRows(m, f), f.owner = m.owner, NEW b, KnowsOwner(m, b)
  PROVE  KnowsOwner(f, b)
BY DEF KnowsOwner, SameRows, OwnerOf, Linked

OwningCreateFacts(m, a, b, r) ==
  /\ Valid(r)
  /\ m.err # "none" => r.err = m.err
  /\ m.err = "none" /\ m.own[a] # Gone /\ b \notin m.inv => JoinFacts(m, a, b, r, Protected)
LEMMA OwningCreates ==
  ASSUME rel \in Relations, NEW m, Valid(m), NEW a \in Owners, NEW b \in Inverses, b \notin m.dead
  PROVE  OwningCreateFacts(m, a, b, OwningCreate(m, a, b))
<1> DEFINE cur == CurrentInverse(m, a)
           kept == KeepInverse(m, cur)
           made == InsertInverse(kept, b)
           r == Cleanup(SetOwn(made, a, b), cur)
<1>1. CurrentFacts(m, a, cur) /\ cur \in Inverses \cup {None}
  BY Currents DEF CurrentFacts
<1>2. KeepFacts(m, cur, kept) /\ Valid(kept) /\ b \notin kept.dead
  BY <1>1, KeepsInverse DEF KeepFacts, SameRows
<1>3. InsertInverseFacts(kept, b, made) /\ Valid(made)
  BY <1>2, InsertsInverse DEF InsertInverseFacts
<1>4. MoveFacts(made, a, b, cur, r)
  BY <1>1, <1>3, Moves
<1>5. OwningCreate(m, a, b) = r
  BY DEF OwningCreate
<1> HIDE DEF cur, kept, made, r
<1>6. Valid(r) /\ (m.err # "none" => r.err = m.err)
  BY <1>2, <1>3, <1>4 DEF KeepFacts, InsertInverseFacts, MoveFacts
<1>7. ASSUME m.err = "none", m.own[a] # Gone, b \notin m.inv
      PROVE  JoinFacts(m, a, b, r, Protected)
  <2>1. /\ made.own = m.own /\ made.err \in {"none", "notNull"}
        /\ made.err = "none" => kept.err = "none" /\ made.inv = m.inv \cup {b}
    BY <1>2, <1>3, <1>7 DEF KeepFacts, InsertInverseFacts, SameRows
  <2>2. \A x \in Owners : m.own[x] # b
    BY <1>7, OneHasOneAssumption DEF Valid, Consistent
  <2>3. OwnerOf(made, b) = None
    BY <2>1, <2>2 DEF OwnerOf, Linked
  <2>4. Clean(r)
    BY <1>4, <1>7, <2>1, <2>3 DEF MoveFacts, Clean
  <2>5. ASSUME r.err = "none"
        PROVE  /\ r.own[a] = b /\ Others(m, a, b, r)
               /\ Protected => NoOrphans(m, r)
    <3>0. made.err = "none" /\ kept.err = "none"
      BY <1>4, <2>1, <2>5 DEF MoveFacts
    <3>1. cur \in {None, made.own[a]} /\ (cur # b \/ cur = None)
      BY <1>1, <2>1, <2>2 DEF CurrentFacts
    <3>2. /\ \A x \in Owners : r.own[x] = IF x = a THEN b ELSE m.own[x]
          /\ r.inv = IF rel.orphan /\ cur # None THEN (m.inv \cup {b}) \ {cur} ELSE m.inv \cup {b}
      BY <1>4, <2>1, <2>5, <3>0, <3>1 DEF MoveFacts
    <3>3. ASSUME Protected, NEW c \in r.inv, Linked(m, c) PROVE Linked(r, c)
      <4>1. PICK y \in Owners : m.own[y] = c
        BY <3>3 DEF Linked
      <4>2. CASE y = a
        <5>1. c \in Inverses
          BY <1>6, <3>3 DEF Valid, Mappers
        <5>2. cur = c /\ cur # None
          BY <1>1, <3>3, <4>1, <4>2, <5>1, OneHasOneAssumption DEF CurrentFacts
        <5>3. rel.orphan
          BY <1>2, <3>0, <3>3, <5>2 DEF KeepFacts
        <5> QED BY <3>2, <3>3, <5>2, <5>3
      <4>3. CASE y # a
        BY <3>2, <4>1, <4>3 DEF Linked
      <4> QED BY <4>2, <4>3
    <3> QED BY <3>2, <3>3 DEF Others, NoOrphans
  <2> QED BY <2>4, <2>5 DEF JoinFacts
<1> QED BY <1>5, <1>6, <1>7 DEF OwningCreateFacts

OwningConnectOrCreateFacts(m, a, b, r) ==
  /\ Valid(r)
  /\ m.err # "none" => r.err = m.err
  /\ m.err = "none" /\ KnowsOwner(m, b) /\ Knows(m, b) /\ m.own[a] # Gone =>
       JoinFacts(m, a, b, r, Protected)
LEMMA OwningConnectsOrCreates ==
  ASSUME rel \in Relations, NEW m, Valid(m), NEW a \in Owners, NEW b \in Inverses, b \notin m.dead
  PROVE  OwningConnectOrCreateFacts(m, a, b, OwningConnectOrCreate(m, a, b))
<1> DEFINE f == Find(m, b)
           c == OwningConnect(f, a, b)
           d == OwningCreate(f, a, b)
<1>1. FindFacts(m, b, f)
  BY Finds
<1>2. Valid(f) /\ SameRows(m, f) /\ f.owner = m.owner /\ f.err = m.err /\ b \notin f.dead
  BY <1>1 DEF FindFacts, SameRows
<1>3. OwningConnectFacts(f, a, b, c)
  BY <1>2, OwningConnects
<1>4. OwningCreateFacts(f, a, b, d)
  BY <1>2, OwningCreates
<1>5. OwningConnectOrCreate(m, a, b) = IF Found(m, b) THEN c ELSE d
  BY DEF OwningConnectOrCreate
<1> HIDE DEF f, c, d
<1>6. KnowsOwner(m, b) => KnowsOwner(f, b)
  BY <1>2, SameKnows
<1>7. f.own = m.own /\ f.inv = m.inv
  BY <1>2 DEF SameRows
<1>8. CASE Found(m, b)
  <2>1. m.err = "none" /\ KnowsOwner(m, b) /\ m.own[a] # Gone => JoinFacts(f, a, b, c, Protected)
    BY <1>2, <1>3, <1>6, <1>7 DEF OwningConnectFacts
  <2>2. JoinFacts(f, a, b, c, Protected) => JoinFacts(m, a, b, c, Protected)
    BY <1>2, SameJoin
  <2> QED BY <1>2, <1>3, <1>5, <1>8, <2>1, <2>2 DEF OwningConnectFacts, OwningConnectOrCreateFacts
<1>9. CASE ~Found(m, b)
  <2>0. Knows(m, b) => b \notin m.inv
    BY <1>1, <1>9 DEF FindFacts, Exists
  <2>1. m.err = "none" /\ Knows(m, b) /\ m.own[a] # Gone => JoinFacts(f, a, b, d, Protected)
    BY <1>2, <1>4, <1>7, <2>0 DEF OwningCreateFacts
  <2>2. JoinFacts(f, a, b, d, Protected) => JoinFacts(m, a, b, d, Protected)
    BY <1>2, SameJoin
  <2> QED BY <1>2, <1>4, <1>5, <1>9, <2>1, <2>2 DEF OwningCreateFacts, OwningConnectOrCreateFacts
<1> QED BY <1>8, <1>9

(* Nothing is taken away: a owns b in the end, or nobody's owner has changed. *)
UpsertFacts(m, a, b, r) ==
  /\ Clean(r)
  /\ r.err = "none" =>
       /\ r.own[a] = b \/ r.own = m.own
       /\ Others(m, a, b, r) /\ NoOrphans(m, r)
OwningUpsertFacts(m, a, b, r) ==
  /\ Valid(r)
  /\ m.err # "none" => r.err = m.err
  /\ m.err = "none" /\ m.own[a] # Gone /\ b \notin m.inv => UpsertFacts(m, a, b, r)
LEMMA OwningUpserts ==
  ASSUME rel \in Relations, NEW m, Valid(m), NEW a \in Owners, NEW b \in Inverses, b \notin m.dead
  PROVE  OwningUpsertFacts(m, a, b, OwningUpsert(m, a, b))
<1> DEFINE made == InsertInverse(m, b)
           r == SetOwn(made, a, b)
<1>1. InsertInverseFacts(m, b, made) /\ Valid(made)
  BY InsertsInverse DEF InsertInverseFacts
<1>2. SetFacts(made, a, b, r)
  BY <1>1, Sets
<1>3. OwningUpsert(m, a, b) = IF m.own[a] \in Inverses THEN m ELSE r
  BY DEF OwningUpsert
<1> HIDE DEF made, r
<1>4. Valid(r) /\ (m.err # "none" => r.err = m.err)
  BY <1>1, <1>2 DEF InsertInverseFacts, SetFacts
<1>5. ASSUME m.err = "none", m.own[a] # Gone, b \notin m.inv, m.own[a] \notin Inverses
      PROVE  UpsertFacts(m, a, b, r)
  <2>1. made.err = "none" /\ made.own = m.own /\ made.inv = m.inv \cup {b}
    BY <1>1, <1>5 DEF InsertInverseFacts, Errors
  <2>2. \A x \in Owners : m.own[x] # b
    BY <1>5, OneHasOneAssumption DEF Valid, Consistent
  <2>3. OwnerOf(made, b) = None
    BY <2>1, <2>2 DEF OwnerOf, Linked
  <2>4. Clean(r)
    BY <1>2, <1>5, <2>1, <2>3 DEF SetFacts, Clean
  <2>5. ASSUME r.err = "none"
        PROVE  r.own[a] = b /\ Others(m, a, b, r) /\ NoOrphans(m, r)
    <3>1. /\ m.own \in [Owners -> Inverses \cup {None, Gone}]
          /\ r.own = [m.own EXCEPT ![a] = b] /\ r.inv \in SUBSET Inverses
      BY <1>2, <1>4, <2>1, <2>5 DEF SetFacts, Valid, Mappers
    <3>2. \A x \in Owners : r.own[x] = IF x = a THEN b ELSE m.own[x]
      BY <3>1
    <3>3. \A c \in r.inv : Linked(m, c) => Linked(r, c)
      BY <1>5, <3>1, <3>2 DEF Linked
    <3> QED BY <3>2, <3>3 DEF Others, NoOrphans
  <2> QED BY <2>4, <2>5 DEF UpsertFacts
<1>6. UpsertFacts(m, a, b, m) \/ m.err # "none"
  BY DEF UpsertFacts, Clean, Others, NoOrphans
<1> QED BY <1>3, <1>4, <1>5, <1>6 DEF OwningUpsertFacts

(* a owns nothing in the end, and nobody else loses anything.                *)
LeaveFacts(m, a, r) ==
  /\ Clean(r)
  /\ r.err = "none" =>
       /\ r.own[a] \in {None, Gone}
       /\ \A x \in Owners : x # a => r.own[x] = m.own[x]
       /\ Protected => NoOrphans(m, r)
(* Where the pair is kept without a word, nothing changes at all.            *)
StaysLinked(m, a) == ~rel.inverse /\ ~rel.orphan /\ m.own[a] # None
OwningDisconnectFacts(m, a, r) ==
  /\ Valid(r)
  /\ m.err # "none" => r.err = m.err
  /\ m.err = "none" /\ m.own[a] # Gone =>
       /\ Clean(r)
       /\ r.err = "none" =>
            /\ IF StaysLinked(m, a) THEN SameRows(m, r) ELSE r.own[a] = None
            /\ \A x \in Owners : x # a => r.own[x] = m.own[x]
            /\ Protected => NoOrphans(m, r)
LEMMA OwningDisconnects ==
  ASSUME rel \in Relations, NEW m, Valid(m), NEW a \in Owners
  PROVE  OwningDisconnectFacts(m, a, OwningDisconnect(m, a))
<1> DEFINE cur == CurrentInverse(m, a)
           r == Cleanup(SetOwn(m, a, None), cur)
           e == Error(m, "notNull")
<1>1. CurrentFacts(m, a, cur) /\ cur \in Inverses \cup {None}
  BY Currents DEF CurrentFacts
<1>2. m.own[a] \in Inverses \cup {None, Gone}
  BY DEF Valid, Mappers
<1>3. MoveFacts(m, a, None, cur, r)
  BY <1>1, Moves
<1>4. Valid(e) /\ e.err = IF m.err = "none" THEN "notNull" ELSE m.err
  BY Errs DEF ErrorFacts, Errors
<1>5. OwningDisconnect(m, a) = IF ~rel.owner THEN e ELSE IF KeepsSilently(cur) THEN m ELSE r
  BY DEF OwningDisconnect
<1>6. CASE ~rel.owner
  BY <1>4, <1>5, <1>6 DEF OwningDisconnectFacts, Clean
<1>7. CASE rel.owner /\ KeepsSilently(cur)
  <2>1. ~rel.inverse /\ ~rel.orphan /\ m.own[a] # None
    BY <1>1, <1>7, OneHasOneAssumption DEF KeepsSilently, CurrentInverse
  <2> QED BY <1>5, <1>7, <2>1
          DEF OwningDisconnectFacts, StaysLinked, Clean, SameRows, NoOrphans, Linked
<1>8. CASE rel.owner /\ ~KeepsSilently(cur)
  <2> HIDE DEF cur, r, e
  <2>1. rel.orphan \/ cur = None
    BY <1>8 DEF KeepsSilently
  <2>2. ASSUME m.err = "none", m.own[a] # Gone
        PROVE  Clean(r) /\ ~StaysLinked(m, a)
    <3>1. ~StaysLinked(m, a)
      BY <1>1, <1>2, <2>1, <2>2, OneHasOneAssumption DEF StaysLinked, CurrentFacts, Protected
    <3> QED BY <1>3, <2>2, <3>1 DEF MoveFacts, Clean
  <2>3. ASSUME m.err = "none", m.own[a] # Gone, r.err = "none"
        PROVE  /\ r.own[a] = None
               /\ \A x \in Owners : x # a => r.own[x] = m.own[x]
               /\ Protected => NoOrphans(m, r)
    <3>1. /\ \A x \in Owners : r.own[x] = IF x = a THEN None ELSE m.own[x]
          /\ r.inv = IF rel.orphan /\ cur # None THEN m.inv \ {cur} ELSE m.inv
      BY <1>1, <1>3, <2>3 DEF MoveFacts, CurrentFacts
    <3>2. ASSUME Protected, NEW c \in r.inv, Linked(m, c) PROVE Linked(r, c)
      <4>1. PICK y \in Owners : m.own[y] = c
        BY <3>2 DEF Linked
      <4>2. CASE y = a
        <5>1. c \in Inverses
          BY <1>3, <3>2 DEF MoveFacts, Valid, Mappers
        <5>2. cur = c /\ cur # None
          BY <1>1, <3>2, <4>1, <4>2, <5>1, OneHasOneAssumption DEF CurrentFacts
        <5> QED BY <2>1, <3>1, <3>2, <5>2
      <4>3. CASE y # a
        BY <3>1, <4>1, <4>3 DEF Linked
      <4> QED BY <4>2, <4>3
    <3> QED BY <3>1, <3>2 DEF NoOrphans
  <2> QED BY <1>3, <1>5, <1>8, <2>2, <2>3 DEF OwningDisconnectFacts, MoveFacts
<1> QED BY <1>6, <1>7, <1>8

OwningDeleteFacts(m, a, r) ==
  /\ Valid(r)
  /\ m.err # "none" => r.err = m.err
  /\ m.err = "none" /\ m.own[a] # Gone =>
       LeaveFacts(m, a, r) /\ (r.err = "none" => m.own[a] \notin r.inv)
LEMMA OwningDeletes ==
  ASSUME rel \in Relations, NEW m, Valid(m), NEW a \in Owners
  PROVE  OwningDeleteFacts(m, a, OwningDelete(m, a))
<1> DEFINE e == Error(m, "notNull")
           s == SetOwn(m, a, None)
           cleared == IF rel.onDelete = "restrict" THEN s ELSE m
           b == m.own[a]
           r == DeleteInverse(cleared, b)
<1>1. Valid(e) /\ e.err = IF m.err = "none" THEN "notNull" ELSE m.err
  BY Errs DEF ErrorFacts, Errors
<1>2. SetFacts(m, a, None, s)
  BY Sets
<1>3. Valid(cleared) /\ (m.err # "none" => cleared.err = m.err)
  BY <1>2 DEF SetFacts
<1>4. b \in Inverses => DeleteInverseFacts(cleared, b, r)
  BY <1>3, DeletesInverse
<1>5. OwningDelete(m, a) = IF ~rel.owner /\ rel.onDelete # "cascade" THEN e
                           ELSE IF b \notin Inverses THEN cleared ELSE r
  BY DEF OwningDelete
<1>6. cleared = IF rel.onDelete = "restrict" THEN s ELSE m
  OBVIOUS
<1>7. b = m.own[a] /\ m.own \in [Owners -> Inverses \cup {None, Gone}] /\ b \in Inverses \cup {None, Gone}
  BY DEF Valid, Mappers
<1> HIDE DEF e, s, cleared, b, r
<1>8. m.err = "none" /\ b # Gone =>
         /\ cleared.err \in {"none", "notNull", "notFound", "foreignKey"}
         /\ cleared.err = "none" =>
              /\ cleared.inv = m.inv
              /\ \A x \in Owners : x # a => cleared.own[x] = m.own[x]
              /\ cleared.own[a] \in {None, b}
  <2>1. CASE rel.onDelete = "restrict"
    <3>1. s.err \in Errors
      BY <1>2 DEF SetFacts, Valid, Mappers
    <3> QED BY <1>2, <1>6, <1>7, <2>1, <3>1 DEF SetFacts, Errors
  <2>2. CASE rel.onDelete # "restrict"
    BY <1>6, <1>7, <2>2
  <2> QED BY <2>1, <2>2
<1>9. CASE b \notin Inverses
  <2>1. m.err = "none" /\ b # Gone =>
          LeaveFacts(m, a, cleared) /\ (cleared.err = "none" => b \notin cleared.inv)
    <3> SUFFICES ASSUME m.err = "none", b # Gone
                 PROVE  LeaveFacts(m, a, cleared) /\ (cleared.err = "none" => b \notin cleared.inv)
      OBVIOUS
    <3>1. b = None
      BY <1>7, <1>9
    <3>2. cleared.inv \in SUBSET Inverses
      BY <1>3 DEF Valid, Mappers
    <3>3. cleared.err = "none" => NoOrphans(m, cleared)
      BY <1>7, <1>8, <3>1, <3>2, OneHasOneAssumption DEF NoOrphans, Linked
    <3> QED BY <1>8, <3>1, <3>2, <3>3, OneHasOneAssumption DEF LeaveFacts, Clean
  <2>2. m.err = "none" => LeaveFacts(m, a, e) /\ e.err # "none"
    BY <1>1 DEF LeaveFacts, Clean
  <2> QED BY <1>1, <1>3, <1>5, <1>7, <1>9, <2>1, <2>2 DEF OwningDeleteFacts
<1>10. CASE b \in Inverses
  <2>0. DeleteInverseFacts(cleared, b, r)
    BY <1>4, <1>10
  <2>1. Valid(r) /\ (m.err # "none" => r.err = m.err)
    BY <1>3, <2>0 DEF DeleteInverseFacts
  <2>2. ASSUME m.err = "none"
        PROVE  LeaveFacts(m, a, r) /\ (r.err = "none" => b \notin r.inv)
    <3>0. b # Gone
      BY <1>10, OneHasOneAssumption
    <3>1. Clean(r)
      BY <1>8, <2>0, <2>2, <3>0 DEF DeleteInverseFacts, Clean
    <3>2. ASSUME r.err = "none"
          PROVE  /\ r.own[a] \in {None, Gone} /\ b \notin r.inv
                 /\ \A x \in Owners : x # a => r.own[x] = m.own[x]
                 /\ NoOrphans(m, r)
      <4>1. cleared.err = "none"
        BY <2>0, <3>2 DEF DeleteInverseFacts
      <4>2. /\ r.inv = cleared.inv \ {b}
            /\ \A x \in Owners : cleared.own[x] # b => r.own[x] = cleared.own[x]
            /\ \A x \in Owners : cleared.own[x] = b => r.own[x] \in {None, Gone}
        BY <2>0, <3>2, <4>1 DEF DeleteInverseFacts
      <4>3. \A x \in Owners : x # a => m.own[x] # b
        BY <1>7, <1>10 DEF Valid, Consistent
      <4>4. \A x \in Owners : x # a => r.own[x] = m.own[x]
        BY <1>8, <2>2, <3>0, <4>1, <4>2, <4>3
      <4>5. r.own[a] \in {None, Gone}
        BY <1>8, <2>2, <3>0, <4>1, <4>2
      <4>6. \A c \in r.inv : Linked(m, c) => Linked(r, c)
        BY <1>7, <4>2, <4>4 DEF Linked
      <4> QED BY <4>2, <4>4, <4>5, <4>6 DEF NoOrphans
    <3> QED BY <3>1, <3>2 DEF LeaveFacts
  <2>3. m.err = "none" => LeaveFacts(m, a, e) /\ e.err # "none"
    BY <1>1 DEF LeaveFacts, Clean
  <2> QED BY <1>1, <1>5, <1>7, <1>10, <2>1, <2>2, <2>3 DEF OwningDeleteFacts
<1> QED BY <1>9, <1>10

(* InverseCreate, and the insert of a row of A that connects b: the owner    *)
(* the mapper remembers is released, then a is inserted with b.              *)
HandOverFacts(m, a, b, r) ==
  /\ Valid(r)
  /\ m.err # "none" => r.err = m.err
  /\ m.err = "none" /\ KnowsOwner(m, b) /\ m.own[a] = Gone => JoinFacts(m, a, b, r, TRUE)
LEMMA HandsOver ==
  ASSUME rel \in Relations, NEW m, Valid(m), NEW a \in Owners, NEW b \in Inverses, a \notin m.dead
  PROVE  HandOverFacts(m, a, b, InsertOwner(Release(AskOwner(m, b), CurrentOwner(m, b)), a, b))
<1> DEFINE asked == AskOwner(m, b)
           o == CurrentOwner(m, b)
           released == Release(asked, o)
           r == InsertOwner(released, a, b)
<1>1. AskFacts(m, b, asked) /\ Valid(asked) /\ o \in Owners \cup {None} /\ SameRows(m, asked)
  BY Asks DEF AskFacts
<1>2. ReleaseFacts(asked, o, released)
  BY <1>1, Releases
<1>3. Valid(released) /\ a \notin released.dead
  BY <1>1, <1>2 DEF ReleaseFacts, SameRows
<1>4. InsertOwnerFacts(released, a, b, r)
  BY <1>3, InsertsOwner, OneHasOneAssumption
<1>5. OwnerFacts(m, b)
  BY OwnerIs
<1>6. AskFacts(m, b, asked) => (KnowsOwner(m, b) => o = OwnerOf(m, b))
  BY DEF AskFacts
<1> HIDE DEF asked, o, released, r
<1>7. Valid(r) /\ (m.err # "none" => r.err = m.err)
  BY <1>1, <1>2, <1>4 DEF AskFacts, ReleaseFacts, InsertOwnerFacts
<1>8. ASSUME m.err = "none", KnowsOwner(m, b), m.own[a] = Gone
      PROVE  JoinFacts(m, a, b, r, TRUE)
  <2>1. asked.err = "none" /\ asked.own = m.own /\ asked.inv = m.inv
    BY <1>1, <1>8 DEF AskFacts, SameRows
  <2>2. \A x \in Owners : m.own[x] = b <=> o = x
    BY <1>1, <1>5, <1>6, <1>8 DEF OwnerFacts
  <2>3. released.err \notin {"unique", "noResult"}
    <3>1. o \in Owners => asked.own[o] # Gone
      BY <2>1, <2>2, OneHasOneAssumption
    <3> QED BY <1>2, <2>1, <3>1 DEF ReleaseFacts
  <2>4. CASE released.err # "none"
    BY <1>4, <2>3, <2>4 DEF InsertOwnerFacts, JoinFacts, Clean
  <2>5. CASE released.err = "none"
    <3>1. \A x \in Owners : released.own[x] = IF x = o THEN None ELSE m.own[x]
      BY <1>2, <2>1, <2>5 DEF ReleaseFacts
    <3>2. OwnerOf(released, b) = None
      <4>1. \A x \in Owners : released.own[x] # b
        BY <2>2, <3>1, OneHasOneAssumption
      <4> QED BY <4>1 DEF OwnerOf, Linked
    <3>3. o # a
      BY <1>8, <2>2, OneHasOneAssumption
    <3>4. Clean(r)
      BY <1>4, <1>8, <2>5, <3>1, <3>2, <3>3 DEF InsertOwnerFacts, Clean
    <3>5. ASSUME r.err = "none"
          PROVE  r.own[a] = b /\ Others(m, a, b, r) /\ NoOrphans(m, r)
      <4>1. /\ released.own \in [Owners -> Inverses \cup {None, Gone}]
            /\ r.own = [released.own EXCEPT ![a] = b] /\ r.inv \in SUBSET Inverses
        BY <1>3, <1>4, <1>7, <2>5, <3>5 DEF InsertOwnerFacts, Valid, Mappers
      <4>2. \A x \in Owners : r.own[x] = IF x = a THEN b ELSE released.own[x]
        BY <4>1
      <4>3. Others(m, a, b, r)
        BY <2>2, <3>1, <4>2 DEF Others
      <4>4. ASSUME NEW c \in r.inv, Linked(m, c) PROVE Linked(r, c)
        <5>1. PICK y \in Owners : m.own[y] = c
          BY <4>4 DEF Linked
        <5>2. c \in Inverses /\ y # a
          BY <1>8, <4>1, <5>1, OneHasOneAssumption
        <5>3. CASE c = b
          BY <4>2, <5>3 DEF Linked
        <5>4. CASE c # b
          <6>1. r.own[y] = c
            BY <2>2, <3>1, <4>2, <5>1, <5>2, <5>4
          <6> QED BY <6>1 DEF Linked
        <5> QED BY <5>3, <5>4
      <4> QED BY <4>2, <4>3, <4>4 DEF NoOrphans
    <3> QED BY <3>4, <3>5 DEF JoinFacts
  <2> QED BY <2>4, <2>5
<1> QED BY <1>7, <1>8 DEF HandOverFacts, r, released, asked, o

InverseConnectFacts(m, b, a, r) ==
  /\ Valid(r)
  /\ m.err # "none" => r.err = m.err
  /\ m.err = "none" /\ KnowsOwner(m, b) /\ m.own[a] # Gone => JoinFacts(m, a, b, r, rel.orphan)
LEMMA InverseConnects ==
  ASSUME rel \in Relations, NEW m, Valid(m), NEW a \in Owners, NEW b \in Inverses
  PROVE  InverseConnectFacts(m, b, a, InverseConnect(m, b, a))
<1> DEFINE asked == AskOwner(m, b)
           o == CurrentOwner(m, b)
           orphan == IF rel.orphan /\ m.own[a] \in Inverses THEN m.own[a] ELSE None
           released == Release(asked, o)
           r == Cleanup(SetOwn(released, a, b), orphan)
<1>1. AskFacts(m, b, asked) /\ Valid(asked) /\ o \in Owners \cup {None}
  BY Asks DEF AskFacts
<1>2. ReleaseFacts(asked, o, released) /\ Valid(released)
  BY <1>1, Releases DEF ReleaseFacts
<1>3. /\ orphan \in Inverses \cup {None}
      /\ orphan # None => orphan = m.own[a] /\ rel.orphan
      /\ rel.orphan /\ m.own[a] \in Inverses => orphan = m.own[a]
  OBVIOUS
<1>4. MoveFacts(released, a, b, orphan, r)
  BY <1>2, <1>3, Moves
<1>5. InverseConnect(m, b, a) = IF m.err # "none" THEN m ELSE IF o = a THEN asked ELSE r
  BY DEF InverseConnect
<1>6. OwnerFacts(m, b)
  BY OwnerIs
<1>7. AskFacts(m, b, asked) => (KnowsOwner(m, b) => o = OwnerOf(m, b))
  BY DEF AskFacts
<1> HIDE DEF asked, o, orphan, released, r
<1>8. CASE m.err # "none"
  BY <1>5, <1>8 DEF InverseConnectFacts
<1>9. CASE m.err = "none" /\ o = a
  <2>1. InverseConnect(m, b, a) = asked
    BY <1>5, <1>9
  <2>2. KnowsOwner(m, b) => m.own[a] = b
    BY <1>1, <1>6, <1>7, <1>9 DEF OwnerFacts
  <2>3. SameRows(m, asked) /\ asked.err = "none"
    BY <1>1, <1>9 DEF AskFacts
  <2> QED BY <1>1, <1>9, <2>1, <2>2, <2>3
          DEF InverseConnectFacts, JoinFacts, Clean, Others, NoOrphans, SameRows, Linked
<1>10. CASE m.err = "none" /\ o # a
  <2>1. InverseConnect(m, b, a) = r
    BY <1>5, <1>10
  <2>2. ASSUME KnowsOwner(m, b), m.own[a] # Gone
        PROVE  JoinFacts(m, a, b, r, rel.orphan)
    <3>1. SameRows(m, asked) /\ asked.err = "none"
      BY <1>1, <1>10 DEF AskFacts
    <3>2. \A x \in Owners : m.own[x] = b <=> o = x
      BY <1>1, <1>6, <1>7, <2>2 DEF OwnerFacts
    <3>3. released.err \notin {"unique", "noResult"}
      <4>1. o \in Owners => asked.own[o] # Gone
        BY <3>1, <3>2, OneHasOneAssumption DEF SameRows
      <4> QED BY <1>2, <3>1, <4>1 DEF ReleaseFacts
    <3>4. CASE released.err # "none"
      BY <1>4, <3>3, <3>4 DEF MoveFacts, JoinFacts, Clean
    <3>5. CASE released.err = "none"
      <4>2. /\ \A x \in Owners : released.own[x] = IF x = o THEN None ELSE m.own[x]
            /\ released.inv = m.inv
        BY <1>2, <3>1, <3>5 DEF ReleaseFacts, SameRows
      <4>3. released.own[a] = m.own[a] /\ m.own[a] # b
        BY <1>10, <3>2, <4>2
      <4>4. OwnerOf(released, b) = None
        <5>1. \A x \in Owners : released.own[x] # b
          BY <3>2, <4>2, OneHasOneAssumption
        <5> QED BY <5>1 DEF OwnerOf, Linked
      <4>5. Clean(r)
        BY <1>4, <2>2, <3>5, <4>3, <4>4 DEF MoveFacts, Clean
      <4>6. ASSUME r.err = "none"
            PROVE  /\ r.own[a] = b /\ Others(m, a, b, r)
                   /\ rel.orphan => NoOrphans(m, r)
        <5>0. orphan \in {None, released.own[a]} /\ (orphan # b \/ orphan = None)
          BY <1>3, <4>3
        <5>1. /\ \A x \in Owners : r.own[x] = IF x = a THEN b ELSE released.own[x]
              /\ r.inv = IF rel.orphan /\ orphan # None THEN m.inv \ {orphan} ELSE m.inv
          BY <1>4, <3>5, <4>2, <4>6, <5>0 DEF MoveFacts
        <5>2. Others(m, a, b, r)
          BY <3>2, <4>2, <5>1 DEF Others
        <5>3. ASSUME rel.orphan, NEW c \in r.inv, Linked(m, c) PROVE Linked(r, c)
          <6>1. PICK y \in Owners : m.own[y] = c
            BY <5>3 DEF Linked
          <6>2. CASE c = b
            BY <5>1, <6>2 DEF Linked
          <6>3. CASE y = a
            <7>1. c \in Inverses
              BY <5>1, <5>3 DEF Valid, Mappers
            <7>2. orphan = c /\ orphan # None
              BY <1>3, <5>3, <6>1, <6>3, <7>1, OneHasOneAssumption
            <7> QED BY <5>1, <5>3, <7>2
          <6>4. CASE c # b /\ y # a
            <7>1. r.own[y] = c
              BY <3>2, <4>2, <5>1, <6>1, <6>4
            <7> QED BY <7>1 DEF Linked
          <6> QED BY <6>2, <6>3, <6>4
        <5> QED BY <5>1, <5>2, <5>3 DEF NoOrphans
      <4> QED BY <4>5, <4>6 DEF JoinFacts
    <3> QED BY <3>4, <3>5
  <2> QED BY <1>4, <1>10, <2>1, <2>2 DEF InverseConnectFacts, MoveFacts, ReleaseFacts
<1> QED BY <1>8, <1>9, <1>10

InverseConnectOrCreateFacts(m, b, a, r) ==
  /\ Valid(r)
  /\ m.err # "none" => r.err = m.err
  /\ m.err = "none" /\ KnowsOwner(m, b) /\ Knows(m, a) => JoinFacts(m, a, b, r, rel.orphan)
LEMMA InverseConnectsOrCreates ==
  ASSUME rel \in Relations, NEW m, Valid(m), NEW a \in Owners, NEW b \in Inverses, a \notin m.dead
  PROVE  InverseConnectOrCreateFacts(m, b, a, InverseConnectOrCreate(m, b, a))
<1> DEFINE f == Find(m, a)
           c == InverseConnect(f, b, a)
           d == InverseCreate(f, b, a)
<1>1. FindFacts(m, a, f)
  BY Finds
<1>2. Valid(f) /\ SameRows(m, f) /\ f.owner = m.owner /\ f.err = m.err /\ a \notin f.dead
  BY <1>1 DEF FindFacts, SameRows
<1>3. InverseConnectFacts(f, b, a, c)
  BY <1>2, InverseConnects
<1>4. HandOverFacts(f, a, b, d)
  BY <1>2, HandsOver DEF InverseCreate
<1>5. InverseConnectOrCreate(m, b, a) = IF Found(m, a) THEN c ELSE d
  BY DEF InverseConnectOrCreate
<1> HIDE DEF f, c, d
<1>6. KnowsOwner(m, b) => KnowsOwner(f, b)
  BY <1>2, SameKnows
<1>7. f.own = m.own /\ f.inv = m.inv
  BY <1>2 DEF SameRows
<1>8. a \notin m.inv
  BY OneHasOneAssumption DEF Valid, Mappers
<1>9. CASE Found(m, a)
  <2>0. Knows(m, a) => m.own[a] # Gone
    BY <1>1, <1>8, <1>9 DEF FindFacts, Exists
  <2>1. m.err = "none" /\ KnowsOwner(m, b) /\ Knows(m, a) => JoinFacts(f, a, b, c, rel.orphan)
    BY <1>2, <1>3, <1>6, <1>7, <2>0 DEF InverseConnectFacts
  <2>2. JoinFacts(f, a, b, c, rel.orphan) => JoinFacts(m, a, b, c, rel.orphan)
    BY <1>2, SameJoin
  <2> QED BY <1>2, <1>3, <1>5, <1>9, <2>1, <2>2 DEF InverseConnectFacts, InverseConnectOrCreateFacts
<1>10. CASE ~Found(m, a)
  <2>0. Knows(m, a) => m.own[a] = Gone
    BY <1>1, <1>10 DEF FindFacts, Exists
  <2>1. m.err = "none" /\ KnowsOwner(m, b) /\ Knows(m, a) => JoinFacts(f, a, b, d, TRUE)
    BY <1>2, <1>4, <1>6, <1>7, <2>0 DEF HandOverFacts
  <2>2. JoinFacts(f, a, b, d, TRUE) => JoinFacts(m, a, b, d, TRUE)
    BY <1>2, SameJoin
  <2>3. JoinFacts(m, a, b, d, TRUE) => JoinFacts(m, a, b, d, rel.orphan)
    BY DEF JoinFacts
  <2> QED BY <1>2, <1>4, <1>5, <1>10, <2>1, <2>2, <2>3 DEF HandOverFacts, InverseConnectOrCreateFacts
<1> QED BY <1>9, <1>10

InverseUpsertFacts(m, b, a, r) ==
  /\ Valid(r)
  /\ m.err # "none" => r.err = m.err
  /\ m.err = "none" /\ KnowsOwner(m, b) /\ m.own[a] = Gone => UpsertFacts(m, a, b, r)
LEMMA InverseUpserts ==
  ASSUME rel \in Relations, NEW m, Valid(m), NEW a \in Owners, NEW b \in Inverses, a \notin m.dead
  PROVE  InverseUpsertFacts(m, b, a, InverseUpsert(m, b, a))
<1> DEFINE asked == AskOwner(m, b)
           o == CurrentOwner(m, b)
           e == Error(asked, "noResult")
           d == InverseCreate(m, b, a)
<1>1. /\ AskFacts(m, b, asked) /\ Valid(asked) /\ o \in Owners \cup {None}
      /\ SameRows(m, asked) /\ asked.err = m.err
  BY Asks DEF AskFacts
<1>2. Valid(e) /\ e.err = IF m.err = "none" THEN "noResult" ELSE m.err
  BY <1>1, Errs DEF ErrorFacts, Errors
<1>3. HandOverFacts(m, a, b, d)
  BY HandsOver DEF InverseCreate
<1>4. InverseUpsert(m, b, a) = IF o # None THEN IF m.own[o] = Gone THEN e ELSE asked ELSE d
  BY DEF InverseUpsert
<1>5. OwnerFacts(m, b)
  BY OwnerIs
<1>6. AskFacts(m, b, asked) => (KnowsOwner(m, b) => o = OwnerOf(m, b))
  BY DEF AskFacts
<1> HIDE DEF asked, o, e, d
<1>7. CASE o # None
  <2>1. KnowsOwner(m, b) => m.own[o] # Gone
    BY <1>1, <1>5, <1>6, <1>7, OneHasOneAssumption DEF OwnerFacts
  <2>2. m.err = "none" => UpsertFacts(m, a, b, asked)
    BY <1>1 DEF UpsertFacts, Clean, Others, NoOrphans, SameRows, Linked
  <2> QED BY <1>1, <1>2, <1>4, <1>7, <2>1, <2>2 DEF InverseUpsertFacts
<1>8. CASE o = None
  <2>1. JoinFacts(m, a, b, d, TRUE) => UpsertFacts(m, a, b, d)
    BY DEF JoinFacts, UpsertFacts
  <2> QED BY <1>3, <1>4, <1>8, <2>1 DEF HandOverFacts, InverseUpsertFacts
<1> QED BY <1>7, <1>8

(* b has no owner in the end, and nobody else has lost anything.             *)
FreeFacts(m, b, r) ==
  /\ Clean(r)
  /\ r.err = "none" =>
       /\ ~Linked(r, b)
       /\ \A x \in Owners : m.own[x] # b => r.own[x] = m.own[x]
       /\ Protected => NoOrphans(m, r)
InverseDisconnectFacts(m, b, r) ==
  /\ Valid(r)
  /\ m.err # "none" => r.err = m.err
  /\ m.err = "none" /\ KnowsOwner(m, b) => FreeFacts(m, b, r)
LEMMA InverseDisconnects ==
  ASSUME rel \in Relations, NEW m, Valid(m), NEW b \in Inverses
  PROVE  InverseDisconnectFacts(m, b, InverseDisconnect(m, b))
<1> DEFINE asked == AskOwner(m, b)
           o == CurrentOwner(m, b)
           e == Error(m, "notNull")
           released == SetOwn(asked, o, None)
           d == DeleteInverse(released, b)
<1>1. /\ AskFacts(m, b, asked) /\ Valid(asked) /\ o \in Owners \cup {None}
      /\ SameRows(m, asked) /\ asked.err = m.err
  BY Asks DEF AskFacts
<1>2. Valid(e) /\ e.err = IF m.err = "none" THEN "notNull" ELSE m.err
  BY Errs DEF ErrorFacts, Errors
<1>3. o # None => SetFacts(asked, o, None, released) /\ Valid(released)
  BY <1>1, Sets DEF SetFacts
<1>4. o # None => DeleteInverseFacts(released, b, d)
  BY <1>3, DeletesInverse
<1>5. InverseDisconnect(m, b) =
        IF m.err # "none" THEN m
        ELSE IF ~rel.inverse /\ ~rel.orphan THEN e
        ELSE IF o = None THEN asked
        ELSE IF rel.orphan THEN d ELSE released
  BY DEF InverseDisconnect
<1>6. OwnerFacts(m, b)
  BY OwnerIs
<1>7. AskFacts(m, b, asked) => (KnowsOwner(m, b) => o = OwnerOf(m, b))
  BY DEF AskFacts
<1> HIDE DEF asked, o, e, released, d
<1>8. CASE m.err # "none"
  BY <1>5, <1>8 DEF InverseDisconnectFacts
<1>9. CASE m.err = "none" /\ ~rel.inverse /\ ~rel.orphan
  BY <1>2, <1>5, <1>9 DEF InverseDisconnectFacts, FreeFacts, Clean
<1>10. CASE m.err = "none" /\ ~(~rel.inverse /\ ~rel.orphan) /\ o = None
  <2>1. InverseDisconnect(m, b) = asked
    BY <1>5, <1>10
  <2>2. KnowsOwner(m, b) => \A x \in Owners : m.own[x] # b
    BY <1>1, <1>6, <1>7, <1>10, OneHasOneAssumption DEF OwnerFacts
  <2> QED BY <1>1, <1>10, <2>1, <2>2
          DEF InverseDisconnectFacts, FreeFacts, Clean, NoOrphans, SameRows, Linked
<1>11. CASE m.err = "none" /\ ~(~rel.inverse /\ ~rel.orphan) /\ o # None
  <2>1. InverseDisconnect(m, b) = IF rel.orphan THEN d ELSE released
    BY <1>5, <1>11
  <2>2. o \in Owners
    BY <1>1, <1>11
  <2>3. ASSUME KnowsOwner(m, b)
        PROVE  /\ Clean(released)
               /\ released.err = "none" =>
                    /\ released.inv = m.inv
                    /\ \A x \in Owners : released.own[x] # b
                    /\ \A x \in Owners : m.own[x] # b => released.own[x] = m.own[x]
    <3>1. \A x \in Owners : m.own[x] = b <=> o = x
      BY <1>1, <1>6, <1>7, <2>3 DEF OwnerFacts
    <3>2. asked.own = m.own /\ asked.inv = m.inv /\ asked.err = "none"
      BY <1>1, <1>11 DEF SameRows
    <3>3. asked.own[o] # Gone
      BY <2>2, <3>1, <3>2, OneHasOneAssumption
    <3>4. Clean(released)
      BY <1>3, <1>11, <3>2, <3>3 DEF SetFacts, Clean
    <3>5. ASSUME released.err = "none"
          PROVE  \A x \in Owners : released.own[x] = IF x = o THEN None ELSE m.own[x]
      <4>1. /\ m.own \in [Owners -> Inverses \cup {None, Gone}]
            /\ released.own = [m.own EXCEPT ![o] = None]
        BY <1>3, <1>11, <3>2, <3>5 DEF SetFacts, Valid, Mappers
      <4> QED BY <4>1
    <3>6. released.err = "none" => released.inv = m.inv
      BY <1>3, <1>11, <3>2 DEF SetFacts
    <3> QED BY <3>1, <3>4, <3>5, <3>6, OneHasOneAssumption
  <2>4. CASE rel.orphan
    <3>1. Valid(d)
      BY <1>4, <1>11 DEF DeleteInverseFacts
    <3>2. ASSUME KnowsOwner(m, b) PROVE FreeFacts(m, b, d)
      <4>1. Clean(d)
        BY <1>4, <1>11, <2>3, <3>2 DEF DeleteInverseFacts, Clean
      <4>2. ASSUME d.err = "none"
            PROVE  /\ ~Linked(d, b) /\ NoOrphans(m, d)
                   /\ \A x \in Owners : m.own[x] # b => d.own[x] = m.own[x]
        <5>1. released.err = "none"
          BY <1>4, <1>11, <4>2 DEF DeleteInverseFacts
        <5>2. \A x \in Owners : d.own[x] = released.own[x]
          BY <1>4, <1>11, <2>3, <3>2, <4>2, <5>1 DEF DeleteInverseFacts
        <5>3. d.inv = m.inv \ {b}
          BY <1>4, <1>11, <2>3, <3>2, <4>2, <5>1 DEF DeleteInverseFacts
        <5> QED BY <2>3, <3>2, <5>1, <5>2, <5>3 DEF Linked, NoOrphans
      <4> QED BY <4>1, <4>2 DEF FreeFacts
    <3> QED BY <1>11, <2>1, <2>4, <3>1, <3>2 DEF InverseDisconnectFacts
  <2>5. CASE ~rel.orphan
    <3>1. ~Protected
      BY <1>11, <2>5 DEF Protected
    <3>2. ASSUME KnowsOwner(m, b) PROVE FreeFacts(m, b, released)
      BY <2>3, <3>1, <3>2 DEF FreeFacts, Linked
    <3> QED BY <1>3, <1>11, <2>1, <2>5, <3>2 DEF InverseDisconnectFacts
  <2> QED BY <2>4, <2>5
<1> QED BY <1>8, <1>9, <1>10, <1>11

InverseDeleteFacts(m, b, r) ==
  /\ Valid(r)
  /\ m.err # "none" => r.err = m.err
  /\ m.err = "none" /\ KnowsOwner(m, b) =>
       /\ Clean(r)
       /\ r.err = "none" =>
            /\ \E o \in Owners : m.own[o] = b /\ r.own[o] = Gone
            /\ \A x \in Owners : m.own[x] # b => r.own[x] = m.own[x]
            /\ Protected => NoOrphans(m, r)
LEMMA InverseDeletes ==
  ASSUME rel \in Relations, NEW m, Valid(m), NEW b \in Inverses
  PROVE  InverseDeleteFacts(m, b, InverseDelete(m, b))
<1> DEFINE asked == AskOwner(m, b)
           o == CurrentOwner(m, b)
           e == Error(m, "notNull")
           n == Error(asked, "notFound")
           d == DeleteOwner(asked, o)
<1>1. /\ AskFacts(m, b, asked) /\ Valid(asked) /\ o \in Owners \cup {None}
      /\ SameRows(m, asked) /\ asked.err = m.err
  BY Asks DEF AskFacts
<1>2. Valid(e) /\ e.err = IF m.err = "none" THEN "notNull" ELSE m.err
  BY Errs DEF ErrorFacts, Errors
<1>3. Valid(n) /\ n.err = IF m.err = "none" THEN "notFound" ELSE m.err
  BY <1>1, Errs DEF ErrorFacts, Errors
<1>4. o # None => DeleteOwnerFacts(asked, o, d)
  BY <1>1, DeletesOwner
<1>5. InverseDelete(m, b) =
        IF m.err # "none" THEN m
        ELSE IF ~rel.inverse /\ ~rel.orphan THEN e
        ELSE IF o = None THEN n ELSE d
  BY DEF InverseDelete
<1>6. OwnerFacts(m, b)
  BY OwnerIs
<1>7. AskFacts(m, b, asked) => (KnowsOwner(m, b) => o = OwnerOf(m, b))
  BY DEF AskFacts
<1> HIDE DEF asked, o, e, n, d
<1>8. CASE m.err # "none"
  BY <1>5, <1>8 DEF InverseDeleteFacts
<1>9. CASE m.err = "none" /\ ~rel.inverse /\ ~rel.orphan
  BY <1>2, <1>5, <1>9 DEF InverseDeleteFacts, Clean
<1>10. CASE m.err = "none" /\ ~(~rel.inverse /\ ~rel.orphan) /\ o = None
  BY <1>3, <1>5, <1>10 DEF InverseDeleteFacts, Clean
<1>11. CASE m.err = "none" /\ ~(~rel.inverse /\ ~rel.orphan) /\ o # None
  <2>1. InverseDelete(m, b) = d
    BY <1>5, <1>11
  <2>2. o \in Owners /\ DeleteOwnerFacts(asked, o, d)
    BY <1>1, <1>4, <1>11
  <2>3. asked.own = m.own /\ asked.inv = m.inv /\ asked.err = "none"
    BY <1>1, <1>11 DEF SameRows
  <2>4. Clean(d)
    BY <2>2, <2>3 DEF DeleteOwnerFacts, Clean
  <2>5. ASSUME KnowsOwner(m, b), d.err = "none"
        PROVE  /\ \E x \in Owners : m.own[x] = b /\ d.own[x] = Gone
               /\ \A x \in Owners : m.own[x] # b => d.own[x] = m.own[x]
               /\ Protected => NoOrphans(m, d)
    <3>1. \A x \in Owners : m.own[x] = b <=> o = x
      BY <1>1, <1>6, <1>7, <2>5 DEF OwnerFacts
    <3>2. /\ d.own[o] = Gone /\ m.own[o] = b
          /\ \A x \in Owners : x # o => d.own[x] = m.own[x]
          /\ rel.orphan => d.inv = m.inv \ {b}
      BY <2>2, <2>3, <2>5, <3>1 DEF DeleteOwnerFacts
    <3>3. rel.orphan => NoOrphans(m, d)
      BY <3>1, <3>2 DEF NoOrphans, Linked
    <3> QED BY <1>11, <2>2, <3>1, <3>2, <3>3 DEF Protected
  <2> QED BY <1>11, <2>1, <2>2, <2>4, <2>5 DEF InverseDeleteFacts, DeleteOwnerFacts
<1> QED BY <1>8, <1>9, <1>10, <1>11

(* A row of B was inserted; the row a takes it.                              *)
ConnectInsertedFacts(m, b, a, r) ==
  /\ Valid(r)
  /\ m.err # "none" => r.err = m.err
  /\ m.err = "none" /\ ~Linked(m, b) /\ m.own[a] # Gone =>
       /\ r.err # "unique"
       /\ r.err = "noResult" => rel.onDelete = "cascade"
       /\ r.err = "none" =>
            /\ r.own[a] = b /\ Others(m, a, b, r)
            /\ Protected => NoOrphans(m, r)
LEMMA ConnectsInserted ==
  ASSUME rel \in Relations, NEW m, Valid(m), NEW a \in Owners, NEW b \in Inverses
  PROVE  ConnectInsertedFacts(m, b, a, ConnectInserted(m, b, a))
<1> DEFINE cur == IF m.own[a] \in Inverses THEN m.own[a] ELSE None
           cleaned == Cleanup(m, cur)
           checked == KeepInverse(m, cur)
           kept == IF rel.orphan THEN cleaned ELSE checked
           r == SetOwn(kept, a, b)
<1>1. /\ cur \in Inverses \cup {None} /\ (cur # None => m.own[a] = cur)
      /\ m.own[a] \in Inverses => cur = m.own[a]
  OBVIOUS
<1>2. CleanupFacts(m, cur, cleaned)
  BY <1>1, CleansUp
<1>3. KeepFacts(m, cur, checked)
  BY <1>1, KeepsInverse
<1>4. Valid(kept) /\ (m.err # "none" => kept.err = m.err)
  BY <1>2, <1>3 DEF CleanupFacts, KeepFacts
<1>5. SetFacts(kept, a, b, r)
  BY <1>4, Sets
<1>6. ConnectInserted(m, b, a) = r
  BY DEF ConnectInserted
<1>7. kept = IF rel.orphan THEN cleaned ELSE checked
  OBVIOUS
<1> HIDE DEF cur, cleaned, checked, kept, r
<1>8. Valid(r) /\ (m.err # "none" => r.err = m.err)
  BY <1>4, <1>5 DEF SetFacts
<1>9. ASSUME m.err = "none", ~Linked(m, b), m.own[a] # Gone
      PROVE  /\ r.err # "unique"
             /\ r.err = "noResult" => rel.onDelete = "cascade"
             /\ r.err = "none" =>
                  /\ r.own[a] = b /\ Others(m, a, b, r)
                  /\ Protected => NoOrphans(m, r)
  <2>1. kept.err \in {"none", "notFound", "foreignKey", "notNull"}
    BY <1>2, <1>3, <1>7, <1>9 DEF CleanupFacts, KeepFacts
  <2>2. CASE kept.err # "none"
    BY <1>5, <2>1, <2>2 DEF SetFacts
  <2>3. CASE kept.err = "none"
    <3>1. /\ \A x \in Owners : x # a => kept.own[x] = m.own[x]
          /\ kept.own[a] \in {m.own[a], None, Gone}
          /\ rel.onDelete # "cascade" => kept.own[a] # Gone
          /\ Protected => kept.inv = m.inv \ {m.own[a]}
      <4>1. CASE rel.orphan
        <5>1. cleaned.err = "none" /\ kept = cleaned
          BY <1>7, <2>3, <4>1
        <5>2. \A x \in Owners : x # a => kept.own[x] = m.own[x]
          <6> SUFFICES ASSUME NEW x \in Owners, x # a PROVE kept.own[x] = m.own[x]
            OBVIOUS
          <6>1. CASE cur = None
            BY <1>2, <1>9, <5>1, <6>1 DEF CleanupFacts
          <6>2. CASE cur # None
            <7>1. m.own[x] # cur
              BY <1>1, <6>2 DEF Valid, Consistent
            <7> QED BY <1>2, <1>9, <5>1, <7>1 DEF CleanupFacts
          <6> QED BY <6>1, <6>2
        <5>3. m.inv \in SUBSET Inverses
          BY DEF Valid, Mappers
        <5>4. kept.inv = IF cur # None THEN m.inv \ {cur} ELSE m.inv
          BY <1>2, <1>9, <4>1, <5>1 DEF CleanupFacts
        <5>5. cur = None => m.inv \ {m.own[a]} = m.inv
          BY <1>1, <5>3, OneHasOneAssumption
        <5>6. kept.inv = m.inv \ {m.own[a]}
          BY <1>1, <5>4, <5>5
        <5> QED BY <1>2, <1>9, <5>1, <5>2, <5>6 DEF CleanupFacts
      <4>2. CASE ~rel.orphan
        <5>1. checked.err = "none" /\ kept = checked
          BY <1>7, <2>3, <4>2
        <5>2. kept.own = m.own /\ kept.inv = m.inv
          BY <1>3, <5>1 DEF KeepFacts, SameRows
        <5>3. Protected => cur = None
          BY <1>3, <4>2, <5>1 DEF KeepFacts
        <5>4. m.inv \in SUBSET Inverses
          BY DEF Valid, Mappers
        <5>5. Protected => m.own[a] \notin m.inv
          BY <1>1, <5>3, <5>4, OneHasOneAssumption
        <5> QED BY <1>9, <5>2, <5>5
      <4> QED BY <4>1, <4>2
    <3>2. \A x \in Owners : kept.own[x] # b
      BY <1>9, <3>1, OneHasOneAssumption DEF Linked
    <3>3. OwnerOf(kept, b) = None
      BY <3>2 DEF OwnerOf, Linked
    <3>4. r.err # "unique" /\ (r.err = "noResult" => rel.onDelete = "cascade")
      BY <1>5, <2>3, <3>1, <3>3 DEF SetFacts
    <3>5. ASSUME r.err = "none"
          PROVE  /\ r.own[a] = b /\ Others(m, a, b, r)
                 /\ Protected => NoOrphans(m, r)
      <4>1. /\ kept.own \in [Owners -> Inverses \cup {None, Gone}]
            /\ r.own = [kept.own EXCEPT ![a] = b] /\ r.inv = kept.inv
        BY <1>4, <1>5, <2>3, <3>5 DEF SetFacts, Valid, Mappers
      <4>2. \A x \in Owners : r.own[x] = IF x = a THEN b ELSE m.own[x]
        BY <3>1, <4>1
      <4>3. Protected => NoOrphans(m, r)
        BY <3>1, <4>1, <4>2 DEF NoOrphans, Linked
      <4> QED BY <4>2, <4>3 DEF Others
    <3> QED BY <3>4, <3>5
  <2> QED BY <2>2, <2>3
<1> QED BY <1>6, <1>8, <1>9 DEF ConnectInsertedFacts

-----------------------------------------------------------------------------
(* The mutations.                                                            *)

LookFacts(m, x, f) ==
  /\ Valid(f) /\ SameRows(m, f)
  /\ f.err \in {"none", "notFound"} /\ (f.err = "none" => m.err = "none")
  /\ Truthful(m) => Truthful(f) /\ (f.err = "none" => Exists(m, x))
LEMMA Looks ==
  ASSUME NEW m, Valid(m), m.err \in {"none", "notFound"}, NEW x \in Owners \cup Inverses
  PROVE  LookFacts(m, x, FindOrFail(m, x))
<1> DEFINE f == FindOrFail(m, x)
<1>1. FindOrFailFacts(m, x, f)
  BY FindsOrFails
<1> HIDE DEF f
<1>2. \A b \in Inverses : OwnerOf(f, b) = OwnerOf(m, b)
  BY <1>1 DEF FindOrFailFacts, SameRows, OwnerOf, Linked
<1>3. Truthful(m) => \A b \in Inverses : f.owner[b] \in {"unasked", OwnerOf(f, b)}
  BY <1>1, <1>2 DEF FindOrFailFacts, Truthful
<1>4. Truthful(m) => \A y \in Owners \cup Inverses : Knows(f, y)
  BY <1>1 DEF FindOrFailFacts, Truthful, Knows
<1>5. Truthful(m) => Truthful(f)
  BY <1>3, <1>4 DEF Truthful, Knows
<1>6. Truthful(m) /\ f.err = "none" => Exists(m, x)
  BY <1>1 DEF FindOrFailFacts, Truthful, Knows
<1> QED BY <1>1, <1>5, <1>6 DEF LookFacts, FindOrFailFacts, f

(* What AsAsked says, of the rows r a mutation ends with.                    *)
Asked(side, op, a, b, r) ==
  CASE op \in {"connect", "create"} -> r.own[a] = b
    [] op = "upsert" -> r.own[a] = b \/ r.own = mapper.own
    [] op = "none" -> a # None => r.own[a] = None
    [] op = "disconnect" ->
         IF a = None THEN ~Linked(r, b)
         ELSE IF ~rel.inverse /\ ~rel.orphan /\ mapper.own[a] # None
              THEN Saved(r) = Saved(mapper) ELSE r.own[a] = None
    [] op = "delete" ->
         CASE side = "row" -> b \notin r.inv /\ (a # None => r.own[a] = Gone)
           [] side = "owner" -> r.own[a] \in {None, Gone} /\ mapper.own[a] \notin r.inv
           [] side = "inverse" -> \E o \in Owners : mapper.own[o] = b /\ r.own[o] = Gone

MustKeep(side, op) ==
  rel.orphan \/ (~rel.inverse /\ side # "row" /\ <<side, op>> # <<"inverse", "connect">>)

Promised(side, op, a, b, r) ==
  /\ r.err # "unique"
  /\ r.err = "noResult" =>
       <<side, op>> = <<"newInverse", "connect">> /\ rel.onDelete = "cascade"
  /\ r.err = "none" =>
       /\ Asked(side, op, a, b, r) /\ Others(mapper, a, b, r)
       /\ MustKeep(side, op) => NoOrphans(mapper, r)

(* Every mutation is one that keeps its promises.                            *)
Mutated ==
  \E side, op, a, b, r :
    Mutate(side, op, a, b, r) /\ Valid(r) /\ (Truthful(mapper) => Promised(side, op, a, b, r))

Inv ==
  /\ rel \in Relations /\ db \in Rows /\ Consistent(rel, db)
  /\ Valid(mapper) /\ mapper.err = "none"
  /\ count \in 0..Batch

LEMMA JoinPromised ==
  ASSUME NEW side \in {"owner", "inverse", "newOwner", "newInverse"},
         NEW op \in {"connect", "create"}, NEW a, NEW b, NEW r, NEW k,
         JoinFacts(mapper, a, b, r, k), MustKeep(side, op) => k
  PROVE  Promised(side, op, a, b, r)
BY DEF JoinFacts, Promised, Clean, Asked

LEMMA FailPromised ==
  ASSUME NEW side, NEW op, NEW a, NEW b, NEW r, r.err = "notFound"
  PROVE  Promised(side, op, a, b, r)
BY DEF Promised

LEMMA Guarded == Protected <=> rel.orphan \/ ~rel.inverse
BY DEF Protected

LEMMA ConnectsToOwner ==
  ASSUME Inv, ConnectToOwner
  PROVE  Mutated
<1>1. PICK a \in Owners, b \in Inverses :
        UpdateOwner("connect", a, b, OwningConnect(FindOrFail(FindOrFail(mapper, a), b), a, b))
  BY DEF ConnectToOwner
<1> DEFINE f == FindOrFail(mapper, a)
           g == FindOrFail(f, b)
           r == OwningConnect(g, a, b)
<1>2. LookFacts(mapper, a, f)
  BY Looks DEF Inv
<1>3. LookFacts(f, b, g)
  BY <1>2, Looks DEF LookFacts
<1>4. OwningConnectFacts(g, a, b, r)
  BY <1>3, OwningConnects DEF LookFacts, Inv
<1>5. Mutate("owner", "connect", a, b, r)
  BY <1>1 DEF UpdateOwner
<1> HIDE DEF f, g, r
<1>6. SameRows(mapper, g) /\ g.err \in {"none", "notFound"}
  BY <1>2, <1>3 DEF LookFacts, SameRows
<1>7. ASSUME Truthful(mapper) PROVE Promised("owner", "connect", a, b, r)
  <2>1. CASE g.err = "none"
    <3>1. Truthful(g) /\ Exists(mapper, a)
      BY <1>2, <1>3, <1>7, <2>1 DEF LookFacts
    <3>2. g.own[a] # Gone
      BY <1>6, <3>1, OneHasOneAssumption DEF Exists, SameRows, Inv, Valid, Mappers
    <3>3. JoinFacts(g, a, b, r, Protected)
      BY <1>4, <2>1, <3>1, <3>2 DEF OwningConnectFacts, Truthful, KnowsOwner
    <3>4. JoinFacts(mapper, a, b, r, Protected)
      BY <1>6, <3>3, SameJoin
    <3> QED BY <3>4, JoinPromised, Guarded DEF MustKeep
  <2>2. CASE g.err = "notFound"
    BY <1>4, <2>2, FailPromised DEF OwningConnectFacts
  <2> QED BY <1>6, <2>1, <2>2
<1> QED BY <1>4, <1>5, <1>7 DEF Mutated, OwningConnectFacts

LEMMA CreatesForOwner ==
  ASSUME Inv, CreateForOwner
  PROVE  Mutated
<1>1. PICK a \in Owners, b \in FreshInverses :
        UpdateOwner("create", a, b, OwningCreate(FindOrFail(mapper, a), a, b))
  BY DEF CreateForOwner
<1> DEFINE f == FindOrFail(mapper, a)
           r == OwningCreate(f, a, b)
<1>2. b \in Inverses /\ b \notin mapper.inv /\ b \notin mapper.dead
  BY DEF FreshInverses
<1>3. LookFacts(mapper, a, f) /\ SameRows(mapper, f) /\ f.err \in {"none", "notFound"} /\ Valid(f)
  BY Looks DEF Inv, LookFacts
<1>4. OwningCreateFacts(f, a, b, r)
  <2>1. b \notin f.dead
    BY <1>2, <1>3 DEF SameRows
  <2> QED BY <1>2, <1>3, <2>1, OwningCreates DEF Inv
<1>5. Mutate("owner", "create", a, b, r)
  BY <1>1 DEF UpdateOwner
<1> HIDE DEF f, r
<1>6. ASSUME Truthful(mapper) PROVE Promised("owner", "create", a, b, r)
  <2>1. CASE f.err = "none"
    <3>1. Exists(mapper, a)
      BY <1>3, <1>6, <2>1 DEF LookFacts
    <3>2. f.own[a] # Gone /\ b \notin f.inv
      BY <1>2, <1>3, <3>1, OneHasOneAssumption DEF Exists, SameRows, Inv, Valid, Mappers
    <3>3. JoinFacts(f, a, b, r, Protected)
      BY <1>4, <2>1, <3>2 DEF OwningCreateFacts
    <3>4. JoinFacts(mapper, a, b, r, Protected)
      BY <1>3, <3>3, SameJoin
    <3> QED BY <3>4, JoinPromised, Guarded DEF MustKeep
  <2>2. CASE f.err = "notFound"
    BY <1>4, <2>2, FailPromised DEF OwningCreateFacts
  <2> QED BY <1>3, <2>1, <2>2
<1> QED BY <1>4, <1>5, <1>6 DEF Mutated, OwningCreateFacts

LEMMA ConnectsOrCreatesForOwner ==
  ASSUME Inv, ConnectOrCreateForOwner
  PROVE  Mutated
<1>1. PICK a \in Owners, b \in Inverses \ mapper.dead :
        UpdateOwner("connect", a, b, OwningConnectOrCreate(FindOrFail(mapper, a), a, b))
  BY DEF ConnectOrCreateForOwner
<1> DEFINE f == FindOrFail(mapper, a)
           r == OwningConnectOrCreate(f, a, b)
<1>2. LookFacts(mapper, a, f) /\ SameRows(mapper, f) /\ f.err \in {"none", "notFound"} /\ Valid(f)
  BY Looks DEF Inv, LookFacts
<1>3. OwningConnectOrCreateFacts(f, a, b, r)
  <2>1. b \notin f.dead /\ b \in Inverses
    BY <1>2 DEF SameRows
  <2> QED BY <1>2, <2>1, OwningConnectsOrCreates DEF Inv
<1>4. Mutate("owner", "connect", a, b, r)
  BY <1>1 DEF UpdateOwner
<1> HIDE DEF f, r
<1>5. ASSUME Truthful(mapper) PROVE Promised("owner", "connect", a, b, r)
  <2>1. CASE f.err = "none"
    <3>1. Truthful(f) /\ Exists(mapper, a)
      BY <1>2, <1>5, <2>1 DEF LookFacts
    <3>2. f.own[a] # Gone
      BY <1>2, <3>1, OneHasOneAssumption DEF Exists, SameRows, Inv, Valid, Mappers
    <3>3. KnowsOwner(f, b) /\ Knows(f, b)
      BY <3>1 DEF Truthful, KnowsOwner, Knows
    <3>4. JoinFacts(f, a, b, r, Protected)
      BY <1>3, <2>1, <3>2, <3>3 DEF OwningConnectOrCreateFacts
    <3>5. JoinFacts(mapper, a, b, r, Protected)
      BY <1>2, <3>4, SameJoin
    <3> QED BY <3>5, JoinPromised, Guarded DEF MustKeep
  <2>2. CASE f.err = "notFound"
    BY <1>3, <2>2, FailPromised DEF OwningConnectOrCreateFacts
  <2> QED BY <1>2, <2>1, <2>2
<1> QED BY <1>3, <1>4, <1>5 DEF Mutated, OwningConnectOrCreateFacts

LEMMA UpsertPromised ==
  ASSUME NEW side, NEW a, NEW b, NEW r, NEW f, SameRows(mapper, f), UpsertFacts(f, a, b, r)
  PROVE  Promised(side, "upsert", a, b, r)
BY DEF UpsertFacts, SameRows, Promised, Clean, Asked, Others, NoOrphans, Linked

LEMMA UpsertsForOwner ==
  ASSUME Inv, UpsertForOwner
  PROVE  Mutated
<1>1. PICK a \in Owners, b \in FreshInverses :
        UpdateOwner("upsert", a, b, OwningUpsert(FindOrFail(mapper, a), a, b))
  BY DEF UpsertForOwner
<1> DEFINE f == FindOrFail(mapper, a)
           r == OwningUpsert(f, a, b)
<1>2. b \in Inverses /\ b \notin mapper.inv /\ b \notin mapper.dead
  BY DEF FreshInverses
<1>3. LookFacts(mapper, a, f) /\ SameRows(mapper, f) /\ f.err \in {"none", "notFound"} /\ Valid(f)
  BY Looks DEF Inv, LookFacts
<1>4. OwningUpsertFacts(f, a, b, r)
  <2>1. b \notin f.dead
    BY <1>2, <1>3 DEF SameRows
  <2> QED BY <1>2, <1>3, <2>1, OwningUpserts DEF Inv
<1>5. Mutate("owner", "upsert", a, b, r)
  BY <1>1 DEF UpdateOwner
<1> HIDE DEF f, r
<1>6. ASSUME Truthful(mapper) PROVE Promised("owner", "upsert", a, b, r)
  <2>1. CASE f.err = "none"
    <3>1. Exists(mapper, a)
      BY <1>3, <1>6, <2>1 DEF LookFacts
    <3>2. f.own[a] # Gone /\ b \notin f.inv
      BY <1>2, <1>3, <3>1, OneHasOneAssumption DEF Exists, SameRows, Inv, Valid, Mappers
    <3>3. UpsertFacts(f, a, b, r)
      BY <1>4, <2>1, <3>2 DEF OwningUpsertFacts
    <3> QED BY <1>3, <3>3, UpsertPromised
  <2>2. CASE f.err = "notFound"
    BY <1>4, <2>2, FailPromised DEF OwningUpsertFacts
  <2> QED BY <1>3, <2>1, <2>2
<1> QED BY <1>4, <1>5, <1>6 DEF Mutated, OwningUpsertFacts

LEMMA DisconnectsOwner ==
  ASSUME Inv, DisconnectOwner
  PROVE  Mutated
<1>1. PICK a \in Owners :
        UpdateOwner("disconnect", a, None, OwningDisconnect(FindOrFail(mapper, a), a))
  BY DEF DisconnectOwner
<1> DEFINE f == FindOrFail(mapper, a)
           r == OwningDisconnect(f, a)
<1>2. LookFacts(mapper, a, f) /\ SameRows(mapper, f) /\ f.err \in {"none", "notFound"} /\ Valid(f)
  BY Looks DEF Inv, LookFacts
<1>3. OwningDisconnectFacts(f, a, r)
  BY <1>2, OwningDisconnects DEF Inv
<1>4. Mutate("owner", "disconnect", a, None, r)
  BY <1>1 DEF UpdateOwner
<1> HIDE DEF f, r
<1>5. ASSUME Truthful(mapper) PROVE Promised("owner", "disconnect", a, None, r)
  <2>1. CASE f.err = "none"
    <3>1. Exists(mapper, a)
      BY <1>2, <1>5, <2>1 DEF LookFacts
    <3>2. f.own[a] # Gone /\ f.own = mapper.own
      BY <1>2, <3>1, OneHasOneAssumption DEF Exists, SameRows, Inv, Valid, Mappers
    <3>3. /\ Clean(r)
          /\ r.err = "none" =>
               /\ IF StaysLinked(f, a) THEN SameRows(f, r) ELSE r.own[a] = None
               /\ \A x \in Owners : x # a => r.own[x] = f.own[x]
               /\ Protected => NoOrphans(f, r)
      BY <1>3, <2>1, <3>2 DEF OwningDisconnectFacts
    <3>4. r.err = "none" => Asked("owner", "disconnect", a, None, r)
      BY <1>2, <3>2, <3>3, OneHasOneAssumption DEF Asked, StaysLinked, SameRows, Saved
    <3> QED BY <3>2, <3>3, <3>4, Guarded
            DEF Promised, Clean, Others, MustKeep, NoOrphans, Linked
  <2>2. CASE f.err = "notFound"
    BY <1>3, <2>2, FailPromised DEF OwningDisconnectFacts
  <2> QED BY <1>2, <2>1, <2>2
<1> QED BY <1>3, <1>4, <1>5 DEF Mutated, OwningDisconnectFacts

LEMMA DeletesOfOwner ==
  ASSUME Inv, DeleteOfOwner
  PROVE  Mutated
<1>1. PICK a \in Owners : UpdateOwner("delete", a, None, OwningDelete(FindOrFail(mapper, a), a))
  BY DEF DeleteOfOwner
<1> DEFINE f == FindOrFail(mapper, a)
           r == OwningDelete(f, a)
<1>2. LookFacts(mapper, a, f) /\ SameRows(mapper, f) /\ f.err \in {"none", "notFound"} /\ Valid(f)
  BY Looks DEF Inv, LookFacts
<1>3. OwningDeleteFacts(f, a, r)
  BY <1>2, OwningDeletes DEF Inv
<1>4. Mutate("owner", "delete", a, None, r)
  BY <1>1 DEF UpdateOwner
<1> HIDE DEF f, r
<1>5. ASSUME Truthful(mapper) PROVE Promised("owner", "delete", a, None, r)
  <2>1. CASE f.err = "none"
    <3>1. Exists(mapper, a)
      BY <1>2, <1>5, <2>1 DEF LookFacts
    <3>2. f.own[a] # Gone /\ f.own = mapper.own
      BY <1>2, <3>1, OneHasOneAssumption DEF Exists, SameRows, Inv, Valid, Mappers
    <3>3. LeaveFacts(f, a, r) /\ (r.err = "none" => f.own[a] \notin r.inv)
      BY <1>3, <2>1, <3>2 DEF OwningDeleteFacts
    <3>4. r.err = "none" => Asked("owner", "delete", a, None, r)
      BY <3>2, <3>3 DEF Asked, LeaveFacts
    <3> QED BY <3>2, <3>3, <3>4, Guarded
            DEF LeaveFacts, Promised, Clean, Others, MustKeep, NoOrphans, Linked
  <2>2. CASE f.err = "notFound"
    BY <1>3, <2>2, FailPromised DEF OwningDeleteFacts
  <2> QED BY <1>2, <2>1, <2>2
<1> QED BY <1>3, <1>4, <1>5 DEF Mutated, OwningDeleteFacts

LEMMA ConnectsToInverse ==
  ASSUME Inv, ConnectToInverse
  PROVE  Mutated
<1>1. PICK a \in Owners, b \in Inverses :
        UpdateInverse("connect", b, a, InverseConnect(FindOrFail(FindOrFail(mapper, b), a), b, a))
  BY DEF ConnectToInverse
<1> DEFINE f == FindOrFail(mapper, b)
           g == FindOrFail(f, a)
           r == InverseConnect(g, b, a)
<1>2. LookFacts(mapper, b, f)
  BY Looks DEF Inv
<1>3. LookFacts(f, a, g)
  BY <1>2, Looks DEF LookFacts
<1>4. InverseConnectFacts(g, b, a, r)
  BY <1>3, InverseConnects DEF LookFacts, Inv
<1>5. Mutate("inverse", "connect", a, b, r)
  BY <1>1 DEF UpdateInverse
<1> HIDE DEF f, g, r
<1>6. SameRows(mapper, g) /\ g.err \in {"none", "notFound"}
  BY <1>2, <1>3 DEF LookFacts, SameRows
<1>7. ASSUME Truthful(mapper) PROVE Promised("inverse", "connect", a, b, r)
  <2>1. CASE g.err = "none"
    <3>1. Truthful(g) /\ Exists(f, a)
      BY <1>2, <1>3, <1>7, <2>1 DEF LookFacts
    <3>2. g.own[a] # Gone
      BY <1>2, <1>3, <3>1, OneHasOneAssumption DEF Exists, SameRows, LookFacts, Valid, Mappers
    <3>3. JoinFacts(g, a, b, r, rel.orphan)
      BY <1>4, <2>1, <3>1, <3>2 DEF InverseConnectFacts, Truthful, KnowsOwner
    <3>4. JoinFacts(mapper, a, b, r, rel.orphan)
      BY <1>6, <3>3, SameJoin
    <3> QED BY <3>4, JoinPromised DEF MustKeep
  <2>2. CASE g.err = "notFound"
    BY <1>4, <2>2, FailPromised DEF InverseConnectFacts
  <2> QED BY <1>6, <2>1, <2>2
<1> QED BY <1>4, <1>5, <1>7 DEF Mutated, InverseConnectFacts

LEMMA CreatesForInverse ==
  ASSUME Inv, CreateForInverse
  PROVE  Mutated
<1>1. PICK a \in FreshOwners, b \in Inverses :
        UpdateInverse("create", b, a, InverseCreate(FindOrFail(mapper, b), b, a))
  BY DEF CreateForInverse
<1> DEFINE f == FindOrFail(mapper, b)
           r == InverseCreate(f, b, a)
<1>2. a \in Owners /\ mapper.own[a] = Gone /\ a \notin mapper.dead
  BY DEF FreshOwners
<1>3. LookFacts(mapper, b, f) /\ SameRows(mapper, f) /\ f.err \in {"none", "notFound"} /\ Valid(f)
  BY Looks DEF Inv, LookFacts
<1>4. HandOverFacts(f, a, b, r)
  <2>1. a \notin f.dead
    BY <1>2, <1>3 DEF SameRows
  <2> QED BY <1>2, <1>3, <2>1, HandsOver DEF Inv, InverseCreate
<1>5. Mutate("inverse", "create", a, b, r)
  BY <1>1 DEF UpdateInverse
<1> HIDE DEF f, r
<1>6. ASSUME Truthful(mapper) PROVE Promised("inverse", "create", a, b, r)
  <2>1. CASE f.err = "none"
    <3>1. KnowsOwner(f, b)
      BY <1>3, <1>6 DEF LookFacts, Truthful, KnowsOwner
    <3>2. f.own[a] = Gone
      BY <1>2, <1>3 DEF SameRows
    <3>3. JoinFacts(f, a, b, r, TRUE)
      BY <1>4, <2>1, <3>1, <3>2 DEF HandOverFacts
    <3>4. JoinFacts(mapper, a, b, r, TRUE)
      BY <1>3, <3>3, SameJoin
    <3> QED BY <3>4, JoinPromised
  <2>2. CASE f.err = "notFound"
    BY <1>4, <2>2, FailPromised DEF HandOverFacts
  <2> QED BY <1>3, <2>1, <2>2
<1> QED BY <1>4, <1>5, <1>6 DEF Mutated, HandOverFacts

LEMMA ConnectsOrCreatesForInverse ==
  ASSUME Inv, ConnectOrCreateForInverse
  PROVE  Mutated
<1>1. PICK a \in Owners \ mapper.dead, b \in Inverses :
        UpdateInverse("connect", b, a, InverseConnectOrCreate(FindOrFail(mapper, b), b, a))
  BY DEF ConnectOrCreateForInverse
<1> DEFINE f == FindOrFail(mapper, b)
           r == InverseConnectOrCreate(f, b, a)
<1>2. LookFacts(mapper, b, f) /\ SameRows(mapper, f) /\ f.err \in {"none", "notFound"} /\ Valid(f)
  BY Looks DEF Inv, LookFacts
<1>3. InverseConnectOrCreateFacts(f, b, a, r)
  <2>1. a \notin f.dead /\ a \in Owners
    BY <1>2 DEF SameRows
  <2> QED BY <1>2, <2>1, InverseConnectsOrCreates DEF Inv
<1>4. Mutate("inverse", "connect", a, b, r)
  BY <1>1 DEF UpdateInverse
<1> HIDE DEF f, r
<1>5. ASSUME Truthful(mapper) PROVE Promised("inverse", "connect", a, b, r)
  <2>1. CASE f.err = "none"
    <3>1. Truthful(f)
      BY <1>2, <1>5 DEF LookFacts
    <3>2. KnowsOwner(f, b) /\ Knows(f, a)
      BY <3>1 DEF Truthful, KnowsOwner, Knows
    <3>3. JoinFacts(f, a, b, r, rel.orphan)
      BY <1>3, <2>1, <3>2 DEF InverseConnectOrCreateFacts
    <3>4. JoinFacts(mapper, a, b, r, rel.orphan)
      BY <1>2, <3>3, SameJoin
    <3> QED BY <3>4, JoinPromised DEF MustKeep
  <2>2. CASE f.err = "notFound"
    BY <1>3, <2>2, FailPromised DEF InverseConnectOrCreateFacts
  <2> QED BY <1>2, <2>1, <2>2
<1> QED BY <1>3, <1>4, <1>5 DEF Mutated, InverseConnectOrCreateFacts

LEMMA UpsertsForInverse ==
  ASSUME Inv, UpsertForInverse
  PROVE  Mutated
<1>1. PICK a \in FreshOwners, b \in Inverses :
        UpdateInverse("upsert", b, a, InverseUpsert(FindOrFail(mapper, b), b, a))
  BY DEF UpsertForInverse
<1> DEFINE f == FindOrFail(mapper, b)
           r == InverseUpsert(f, b, a)
<1>2. a \in Owners /\ mapper.own[a] = Gone /\ a \notin mapper.dead
  BY DEF FreshOwners
<1>3. LookFacts(mapper, b, f) /\ SameRows(mapper, f) /\ f.err \in {"none", "notFound"} /\ Valid(f)
  BY Looks DEF Inv, LookFacts
<1>4. InverseUpsertFacts(f, b, a, r)
  <2>1. a \notin f.dead
    BY <1>2, <1>3 DEF SameRows
  <2> QED BY <1>2, <1>3, <2>1, InverseUpserts DEF Inv
<1>5. Mutate("inverse", "upsert", a, b, r)
  BY <1>1 DEF UpdateInverse
<1> HIDE DEF f, r
<1>6. ASSUME Truthful(mapper) PROVE Promised("inverse", "upsert", a, b, r)
  <2>1. CASE f.err = "none"
    <3>1. KnowsOwner(f, b)
      BY <1>3, <1>6 DEF LookFacts, Truthful, KnowsOwner
    <3>2. f.own[a] = Gone
      BY <1>2, <1>3 DEF SameRows
    <3>3. UpsertFacts(f, a, b, r)
      BY <1>4, <2>1, <3>1, <3>2 DEF InverseUpsertFacts
    <3> QED BY <1>3, <3>3, UpsertPromised
  <2>2. CASE f.err = "notFound"
    BY <1>4, <2>2, FailPromised DEF InverseUpsertFacts
  <2> QED BY <1>3, <2>1, <2>2
<1> QED BY <1>4, <1>5, <1>6 DEF Mutated, InverseUpsertFacts

LEMMA DisconnectsInverse ==
  ASSUME Inv, DisconnectInverse
  PROVE  Mutated
<1>1. PICK b \in Inverses :
        UpdateInverse("disconnect", b, None, InverseDisconnect(FindOrFail(mapper, b), b))
  BY DEF DisconnectInverse
<1> DEFINE f == FindOrFail(mapper, b)
           r == InverseDisconnect(f, b)
<1>2. LookFacts(mapper, b, f) /\ SameRows(mapper, f) /\ f.err \in {"none", "notFound"} /\ Valid(f)
  BY Looks DEF Inv, LookFacts
<1>3. InverseDisconnectFacts(f, b, r)
  BY <1>2, InverseDisconnects DEF Inv
<1>4. Mutate("inverse", "disconnect", None, b, r)
  BY <1>1 DEF UpdateInverse
<1> HIDE DEF f, r
<1>5. ASSUME Truthful(mapper) PROVE Promised("inverse", "disconnect", None, b, r)
  <2>1. CASE f.err = "none"
    <3>1. KnowsOwner(f, b) /\ f.own = mapper.own
      BY <1>2, <1>5 DEF LookFacts, Truthful, KnowsOwner, SameRows
    <3>2. FreeFacts(f, b, r)
      BY <1>3, <2>1, <3>1 DEF InverseDisconnectFacts
    <3>3. r.err = "none" => Asked("inverse", "disconnect", None, b, r)
      BY <3>2 DEF Asked, FreeFacts
    <3> QED BY <3>1, <3>2, <3>3, Guarded
            DEF FreeFacts, Promised, Clean, Others, MustKeep, NoOrphans, Linked
  <2>2. CASE f.err = "notFound"
    BY <1>3, <2>2, FailPromised DEF InverseDisconnectFacts
  <2> QED BY <1>2, <2>1, <2>2
<1> QED BY <1>3, <1>4, <1>5 DEF Mutated, InverseDisconnectFacts

LEMMA DeletesOfInverse ==
  ASSUME Inv, DeleteOfInverse
  PROVE  Mutated
<1>1. PICK b \in Inverses :
        UpdateInverse("delete", b, None, InverseDelete(FindOrFail(mapper, b), b))
  BY DEF DeleteOfInverse
<1> DEFINE f == FindOrFail(mapper, b)
           r == InverseDelete(f, b)
<1>2. LookFacts(mapper, b, f) /\ SameRows(mapper, f) /\ f.err \in {"none", "notFound"} /\ Valid(f)
  BY Looks DEF Inv, LookFacts
<1>3. InverseDeleteFacts(f, b, r)
  BY <1>2, InverseDeletes DEF Inv
<1>4. Mutate("inverse", "delete", None, b, r)
  BY <1>1 DEF UpdateInverse
<1> HIDE DEF f, r
<1>5. ASSUME Truthful(mapper) PROVE Promised("inverse", "delete", None, b, r)
  <2>1. CASE f.err = "none"
    <3>1. KnowsOwner(f, b) /\ f.own = mapper.own
      BY <1>2, <1>5 DEF LookFacts, Truthful, KnowsOwner, SameRows
    <3>2. /\ Clean(r)
          /\ r.err = "none" =>
               /\ \E o \in Owners : mapper.own[o] = b /\ r.own[o] = Gone
               /\ Others(mapper, None, b, r)
               /\ Protected => NoOrphans(mapper, r)
      BY <1>3, <2>1, <3>1 DEF InverseDeleteFacts, Others, NoOrphans, Linked
    <3>3. r.err = "none" => Asked("inverse", "delete", None, b, r)
      BY <3>2 DEF Asked
    <3> QED BY <3>2, <3>3, Guarded DEF Promised, Clean, MustKeep
  <2>2. CASE f.err = "notFound"
    BY <1>3, <2>2, FailPromised DEF InverseDeleteFacts
  <2> QED BY <1>2, <2>1, <2>2
<1> QED BY <1>3, <1>4, <1>5 DEF Mutated, InverseDeleteFacts

InsertJoinFacts(m, a, b, r) ==
  /\ Valid(r)
  /\ m.err # "none" => r.err = m.err
  /\ m.err = "none" /\ m.own[a] = Gone /\ ~Linked(m, b) => JoinFacts(m, a, b, r, TRUE)
LEMMA InsertJoins ==
  ASSUME rel \in Relations, NEW m, Valid(m), NEW a \in Owners, a \notin m.dead, NEW b \in Inverses
  PROVE  InsertJoinFacts(m, a, b, InsertOwner(m, a, b))
<1> DEFINE r == InsertOwner(m, a, b)
<1>1. InsertOwnerFacts(m, a, b, r)
  BY InsertsOwner, OneHasOneAssumption
<1> HIDE DEF r
<1>2. ASSUME m.err = "none", m.own[a] = Gone, ~Linked(m, b)
      PROVE  JoinFacts(m, a, b, r, TRUE)
  <2>1. OwnerOf(m, b) = None
    BY <1>2 DEF OwnerOf
  <2>2. Clean(r)
    BY <1>1, <1>2, <2>1 DEF InsertOwnerFacts, Clean
  <2>3. ASSUME r.err = "none"
        PROVE  r.own[a] = b /\ Others(m, a, b, r) /\ NoOrphans(m, r)
    <3>1. /\ m.own \in [Owners -> Inverses \cup {None, Gone}]
          /\ r.own = [m.own EXCEPT ![a] = b] /\ r.inv \in SUBSET Inverses
      BY <1>1, <1>2, <2>3 DEF InsertOwnerFacts, Valid, Mappers
    <3>2. \A x \in Owners : r.own[x] = IF x = a THEN b ELSE m.own[x]
      BY <3>1
    <3>3. NoOrphans(m, r)
      BY <1>2, <3>1, <3>2, OneHasOneAssumption DEF NoOrphans, Linked
    <3> QED BY <3>2, <3>3 DEF Others
  <2> QED BY <2>2, <2>3 DEF JoinFacts
<1> QED BY <1>1, <1>2 DEF InsertJoinFacts, InsertOwnerFacts, r

(* Both rows are new.                                                        *)
PairFacts(m, a, b, r) ==
  /\ Valid(r)
  /\ m.err # "none" => r.err = m.err
  /\ m.err = "none" /\ m.own[a] = Gone /\ b \notin m.inv => JoinFacts(m, a, b, r, TRUE)
LEMMA InsertsPair ==
  ASSUME rel \in Relations, NEW m, Valid(m), NEW a \in Owners, a \notin m.dead,
         NEW b \in Inverses, b \notin m.dead
  PROVE  PairFacts(m, a, b, InsertOwner(InsertInverse(m, b), a, b))
<1> DEFINE i == InsertInverse(m, b)
           r == InsertOwner(i, a, b)
<1>1. InsertInverseFacts(m, b, i) /\ Valid(i)
  BY InsertsInverse DEF InsertInverseFacts
<1>2. InsertJoinFacts(i, a, b, r)
  <2>1. a \notin i.dead
    BY <1>1 DEF InsertInverseFacts
  <2> QED BY <1>1, <2>1, InsertJoins
<1> HIDE DEF i, r
<1>3. ASSUME m.err = "none", m.own[a] = Gone, b \notin m.inv
      PROVE  JoinFacts(m, a, b, r, TRUE)
  <2>1. i.err = "none" /\ i.own = m.own
    BY <1>1, <1>3 DEF InsertInverseFacts
  <2>2. ~Linked(i, b)
    BY <1>3, <2>1, OneHasOneAssumption DEF Linked, Valid, Consistent
  <2>3. JoinFacts(i, a, b, r, TRUE)
    BY <1>2, <1>3, <2>1, <2>2 DEF InsertJoinFacts
  <2> QED BY <2>1, <2>3 DEF JoinFacts, Others, NoOrphans, Linked
<1> QED BY <1>1, <1>2, <1>3 DEF PairFacts, InsertInverseFacts, InsertJoinFacts, i, r

LEMMA InsertsA ==
  ASSUME Inv, InsertA
  PROVE  Mutated
<1>1. PICK a \in FreshOwners :
        rel.owner /\ Mutate("newOwner", "none", a, None, InsertOwner(mapper, a, None))
  BY DEF InsertA
<1> DEFINE r == InsertOwner(mapper, a, None)
<1>2. a \in Owners /\ mapper.own[a] = Gone /\ a \notin mapper.dead
  BY DEF FreshOwners
<1>3. InsertOwnerFacts(mapper, a, None, r)
  BY <1>1, <1>2, InsertsOwner DEF Inv
<1>4. Mutate("newOwner", "none", a, None, r)
  BY <1>1
<1> HIDE DEF r
<1>5. Promised("newOwner", "none", a, None, r)
  <2>1. r.err \notin {"unique", "noResult"}
    BY <1>2, <1>3 DEF InsertOwnerFacts, Inv
  <2>2. ASSUME r.err = "none"
        PROVE  Asked("newOwner", "none", a, None, r) /\ Others(mapper, a, None, r) /\ NoOrphans(mapper, r)
    <3>1. /\ mapper.own \in [Owners -> Inverses \cup {None, Gone}]
          /\ r.own = [mapper.own EXCEPT ![a] = None] /\ r.inv \in SUBSET Inverses
      BY <1>3, <2>2 DEF InsertOwnerFacts, Inv, Valid, Mappers
    <3>2. \A x \in Owners : r.own[x] = IF x = a THEN None ELSE mapper.own[x]
      BY <3>1
    <3>3. NoOrphans(mapper, r)
      BY <1>2, <3>1, <3>2, OneHasOneAssumption DEF NoOrphans, Linked
    <3> QED BY <1>2, <3>2, <3>3 DEF Others, Asked
  <2> QED BY <2>1, <2>2 DEF Promised
<1> QED BY <1>3, <1>4, <1>5 DEF Mutated, InsertOwnerFacts

LEMMA InsertsAConnecting ==
  ASSUME Inv, InsertAConnect
  PROVE  Mutated
<1>1. PICK a \in FreshOwners, b \in Inverses :
        Mutate("newOwner", "connect", a, b,
               InsertOwner(ConnectForInsert(FindOrFail(mapper, b), b), a, b))
  BY DEF InsertAConnect
<1> DEFINE f == FindOrFail(mapper, b)
           r == InsertOwner(ConnectForInsert(f, b), a, b)
<1>2. a \in Owners /\ mapper.own[a] = Gone /\ a \notin mapper.dead
  BY DEF FreshOwners
<1>3. LookFacts(mapper, b, f) /\ SameRows(mapper, f) /\ f.err \in {"none", "notFound"} /\ Valid(f)
  BY Looks DEF Inv, LookFacts
<1>4. HandOverFacts(f, a, b, r)
  <2>1. a \notin f.dead
    BY <1>2, <1>3 DEF SameRows
  <2> QED BY <1>2, <1>3, <2>1, HandsOver DEF Inv, ConnectForInsert
<1>5. Mutate("newOwner", "connect", a, b, r)
  BY <1>1
<1> HIDE DEF f, r
<1>6. ASSUME Truthful(mapper) PROVE Promised("newOwner", "connect", a, b, r)
  <2>1. CASE f.err = "none"
    <3>1. KnowsOwner(f, b)
      BY <1>3, <1>6 DEF LookFacts, Truthful, KnowsOwner
    <3>2. f.own[a] = Gone
      BY <1>2, <1>3 DEF SameRows
    <3>3. JoinFacts(f, a, b, r, TRUE)
      BY <1>4, <2>1, <3>1, <3>2 DEF HandOverFacts
    <3>4. JoinFacts(mapper, a, b, r, TRUE)
      BY <1>3, <3>3, SameJoin
    <3> QED BY <3>4, JoinPromised
  <2>2. CASE f.err = "notFound"
    BY <1>4, <2>2, FailPromised DEF HandOverFacts
  <2> QED BY <1>3, <2>1, <2>2
<1> QED BY <1>4, <1>5, <1>6 DEF Mutated, HandOverFacts

LEMMA InsertsBoth ==
  ASSUME Inv, InsertACreate \/ InsertBCreate
  PROVE  Mutated
<1>1. PICK a \in FreshOwners, b \in FreshInverses, side \in {"newOwner", "newInverse"} :
        Mutate(side, "create", a, b, InsertOwner(InsertInverse(mapper, b), a, b))
  BY DEF InsertACreate, InsertBCreate
<1> DEFINE r == InsertOwner(InsertInverse(mapper, b), a, b)
<1>2. /\ a \in Owners /\ mapper.own[a] = Gone /\ a \notin mapper.dead
      /\ b \in Inverses /\ b \notin mapper.inv /\ b \notin mapper.dead
  BY DEF FreshOwners, FreshInverses
<1>3. PairFacts(mapper, a, b, r)
  BY <1>2, InsertsPair DEF Inv
<1>4. Mutate(side, "create", a, b, r)
  BY <1>1
<1> HIDE DEF r
<1>5. JoinFacts(mapper, a, b, r, TRUE)
  BY <1>2, <1>3 DEF PairFacts, Inv
<1>6. Promised(side, "create", a, b, r)
  BY <1>5, JoinPromised
<1> QED BY <1>3, <1>4, <1>6 DEF Mutated, PairFacts

LEMMA InsertsAConnectingOrCreating ==
  ASSUME Inv, InsertAConnectOrCreate
  PROVE  Mutated
<1>1. PICK a \in FreshOwners, b \in Inverses \ mapper.dead :
        Mutate("newOwner", "connect", a, b,
               InsertOwner(IF Found(mapper, b) THEN ConnectForInsert(Find(mapper, b), b)
                           ELSE InsertInverse(Find(mapper, b), b), a, b))
  BY DEF InsertAConnectOrCreate
<1> DEFINE f == Find(mapper, b)
           c == InsertOwner(ConnectForInsert(f, b), a, b)
           d == InsertOwner(InsertInverse(f, b), a, b)
           r == IF Found(mapper, b) THEN c ELSE d
<1>2. a \in Owners /\ mapper.own[a] = Gone /\ a \notin mapper.dead /\ b \in Inverses /\ b \notin mapper.dead
  BY DEF FreshOwners
<1>3. FindFacts(mapper, b, f)
  BY <1>2, Finds DEF Inv
<1>4. /\ Valid(f) /\ SameRows(mapper, f) /\ f.owner = mapper.owner /\ f.err = "none"
      /\ a \notin f.dead /\ b \notin f.dead /\ f.own = mapper.own /\ f.inv = mapper.inv
  BY <1>2, <1>3 DEF FindFacts, SameRows, Inv
<1>5. HandOverFacts(f, a, b, c)
  BY <1>2, <1>4, HandsOver DEF Inv, ConnectForInsert
<1>6. PairFacts(f, a, b, d)
  BY <1>2, <1>4, InsertsPair DEF Inv
<1>7. Mutate("newOwner", "connect", a, b, r)
  BY <1>1
<1>8. (Found(mapper, b) => r = c) /\ (~Found(mapper, b) => r = d)
  OBVIOUS
<1> HIDE DEF f, c, d, r
<1>9. ASSUME Truthful(mapper) PROVE Promised("newOwner", "connect", a, b, r)
  <2>1. Knows(mapper, b) /\ KnowsOwner(mapper, b)
    BY <1>2, <1>9 DEF Truthful, Knows, KnowsOwner
  <2>2. KnowsOwner(f, b)
    BY <1>4, <2>1, SameKnows
  <2>3. Found(mapper, b) <=> b \in mapper.inv
    BY <1>2, <1>3, <2>1, OneHasOneAssumption DEF FindFacts, Exists
  <2>4. JoinFacts(f, a, b, r, TRUE)
    BY <1>2, <1>4, <1>5, <1>6, <1>8, <2>2, <2>3 DEF HandOverFacts, PairFacts
  <2>5. JoinFacts(mapper, a, b, r, TRUE)
    BY <1>4, <2>4, SameJoin
  <2> QED BY <2>5, JoinPromised
<1>10. Valid(r)
  BY <1>5, <1>6, <1>8 DEF HandOverFacts, PairFacts
<1> QED BY <1>7, <1>9, <1>10 DEF Mutated

LEMMA InsertsB ==
  ASSUME Inv, InsertB
  PROVE  Mutated
<1>1. PICK b \in FreshInverses :
        rel.inverse /\ Mutate("newInverse", "none", None, b, InsertInverse(mapper, b))
  BY DEF InsertB
<1> DEFINE r == InsertInverse(mapper, b)
<1>2. b \in Inverses /\ b \notin mapper.inv /\ b \notin mapper.dead
  BY DEF FreshInverses
<1>3. InsertInverseFacts(mapper, b, r)
  BY <1>2, InsertsInverse DEF Inv
<1>4. Mutate("newInverse", "none", None, b, r)
  BY <1>1
<1> HIDE DEF r
<1>5. r.err = "none" /\ r.own = mapper.own
  BY <1>2, <1>3 DEF InsertInverseFacts, Inv
<1>6. Promised("newInverse", "none", None, b, r)
  BY <1>5 DEF Promised, Asked, Others, NoOrphans, Linked
<1> QED BY <1>3, <1>4, <1>6 DEF Mutated, InsertInverseFacts

LEMMA InsertedPromised ==
  ASSUME NEW i, i.own = mapper.own, i.err = "none", NEW a, NEW b, NEW r,
         ConnectInsertedFacts(i, b, a, r), ~Linked(i, b), i.own[a] # Gone
  PROVE  Promised("newInverse", "connect", a, b, r)
<1>1. r.err = "none" =>
        /\ r.own[a] = b /\ Others(mapper, a, b, r)
        /\ Protected => NoOrphans(mapper, r)
  BY DEF ConnectInsertedFacts, Others, NoOrphans, Linked
<1> QED BY <1>1, Guarded DEF ConnectInsertedFacts, Promised, Asked, MustKeep

LEMMA InsertsBConnecting ==
  ASSUME Inv, InsertBConnect
  PROVE  Mutated
<1>1. PICK b \in FreshInverses, a \in Owners :
        Mutate("newInverse", "connect", a, b,
               ConnectInserted(FindOrFail(InsertInverse(mapper, b), a), b, a))
  BY DEF InsertBConnect
<1> DEFINE i == InsertInverse(mapper, b)
           f == FindOrFail(i, a)
           r == ConnectInserted(f, b, a)
<1>2. b \in Inverses /\ b \notin mapper.inv /\ b \notin mapper.dead
  BY DEF FreshInverses
<1>3. InsertInverseFacts(mapper, b, i)
  BY <1>2, InsertsInverse DEF Inv
<1>4. Valid(i) /\ i.err = "none" /\ i.own = mapper.own /\ i.seen = mapper.seen
  BY <1>2, <1>3 DEF InsertInverseFacts, Inv
<1>5. FindOrFailFacts(i, a, f) /\ Valid(f)
  BY <1>4, FindsOrFails DEF FindOrFailFacts
<1>6. ConnectInsertedFacts(f, b, a, r)
  BY <1>2, <1>5, ConnectsInserted DEF Inv
<1>7. Mutate("newInverse", "connect", a, b, r)
  BY <1>1
<1> HIDE DEF i, f, r
<1>8. f.own = mapper.own /\ f.err \in {"none", "notFound"}
  BY <1>4, <1>5 DEF FindOrFailFacts, SameRows
<1>9. ASSUME Truthful(mapper) PROVE Promised("newInverse", "connect", a, b, r)
  <2>1. CASE f.err = "none"
    <3>0. a \notin i.inv /\ a \notin mapper.inv
      BY <1>4, OneHasOneAssumption DEF Inv, Valid, Mappers
    <3>1. Knows(i, a)
      BY <1>4, <1>9, <3>0 DEF Truthful, Knows, Exists
    <3>2. i.own[a] # Gone
      BY <1>5, <2>1, <3>0, <3>1 DEF FindOrFailFacts, Exists
    <3>3. f.own[a] # Gone
      BY <1>4, <1>8, <3>2
    <3>4. ~Linked(f, b)
      BY <1>2, <1>8, OneHasOneAssumption DEF Linked, Inv, Valid, Consistent
    <3> QED BY <1>6, <1>8, <2>1, <3>3, <3>4, InsertedPromised
  <2>2. CASE f.err = "notFound"
    BY <1>6, <2>2, FailPromised DEF ConnectInsertedFacts
  <2> QED BY <1>8, <2>1, <2>2
<1> QED BY <1>6, <1>7, <1>9 DEF Mutated, ConnectInsertedFacts

LEMMA InsertsBConnectingOrCreating ==
  ASSUME Inv, InsertBConnectOrCreate
  PROVE  Mutated
<1> DEFINE i(b) == InsertInverse(mapper, b)
           f(b, a) == Find(i(b), a)
           c(b, a) == ConnectInserted(f(b, a), b, a)
           d(b, a) == InsertOwner(f(b, a), a, b)
           r(b, a) == IF Found(mapper, a) THEN c(b, a) ELSE d(b, a)
<1>1. PICK b \in FreshInverses, a \in Owners \ mapper.dead :
        Mutate("newInverse", "connect", a, b, r(b, a))
  BY DEF InsertBConnectOrCreate
<1>2. /\ b \in Inverses /\ b \notin mapper.inv /\ b \notin mapper.dead
      /\ a \in Owners /\ a \notin mapper.dead
  BY DEF FreshInverses
<1>3. InsertInverseFacts(mapper, b, i(b))
  BY <1>2, InsertsInverse DEF Inv
<1>4. Valid(i(b)) /\ i(b).err = "none" /\ i(b).own = mapper.own /\ i(b).dead = mapper.dead
  BY <1>2, <1>3 DEF InsertInverseFacts, Inv
<1>5. FindFacts(i(b), a, f(b, a))
  BY <1>2, <1>4, Finds
<1>6. /\ Valid(f(b, a)) /\ f(b, a).own = mapper.own /\ f(b, a).err = "none"
      /\ a \notin f(b, a).dead
  BY <1>2, <1>4, <1>5 DEF FindFacts, SameRows
<1>7. ConnectInsertedFacts(f(b, a), b, a, c(b, a))
  BY <1>2, <1>6, ConnectsInserted DEF Inv
<1>8. InsertJoinFacts(f(b, a), a, b, d(b, a))
  BY <1>2, <1>6, InsertJoins DEF Inv
<1>9. FindFacts(mapper, a, Find(mapper, a))
  BY <1>2, Finds DEF Inv
<1> HIDE DEF i, f, c, d
<1>10. ASSUME Truthful(mapper) PROVE Promised("newInverse", "connect", a, b, r(b, a))
  <2>1. ~Linked(f(b, a), b)
    BY <1>2, <1>6, OneHasOneAssumption DEF Linked, Inv, Valid, Consistent
  <2>2. Found(mapper, a) <=> mapper.own[a] # Gone
    <3>1. Knows(mapper, a)
      BY <1>2, <1>10 DEF Truthful, Knows
    <3>2. a \notin mapper.inv
      BY <1>2, OneHasOneAssumption DEF Inv, Valid, Mappers
    <3> QED BY <1>2, <1>9, <3>1, <3>2 DEF FindFacts, Exists
  <2>3. CASE Found(mapper, a)
    <3>1. f(b, a).own[a] # Gone
      BY <1>6, <2>2, <2>3
    <3>2. Promised("newInverse", "connect", a, b, c(b, a))
      BY <1>6, <1>7, <2>1, <3>1, InsertedPromised
    <3> QED BY <2>3, <3>2
  <2>4. CASE ~Found(mapper, a)
    <3>1. JoinFacts(f(b, a), a, b, d(b, a), TRUE)
      BY <1>6, <1>8, <2>1, <2>2, <2>4 DEF InsertJoinFacts
    <3>2. JoinFacts(mapper, a, b, d(b, a), TRUE)
      BY <1>6, <3>1 DEF JoinFacts, Others, NoOrphans, Linked
    <3>3. Promised("newInverse", "connect", a, b, d(b, a))
      BY <3>2, JoinPromised
    <3> QED BY <2>4, <3>3
  <2> QED BY <2>3, <2>4
<1>11. Valid(r(b, a))
  BY <1>7, <1>8 DEF ConnectInsertedFacts, InsertJoinFacts
<1> HIDE DEF r
<1> QED BY <1>1, <1>10, <1>11 DEF Mutated

LEMMA DeletesA ==
  ASSUME Inv, DeleteA
  PROVE  Mutated
<1>1. PICK a \in Owners : Mutate("row", "delete", a, None, DeleteOwner(FindOrFail(mapper, a), a))
  BY DEF DeleteA
<1> DEFINE f == FindOrFail(mapper, a)
           r == DeleteOwner(f, a)
<1>2. LookFacts(mapper, a, f) /\ SameRows(mapper, f) /\ f.err \in {"none", "notFound"} /\ Valid(f)
  BY Looks DEF Inv, LookFacts
<1>3. DeleteOwnerFacts(f, a, r)
  BY <1>2, DeletesOwner DEF Inv
<1>4. Mutate("row", "delete", a, None, r)
  BY <1>1
<1> HIDE DEF f, r
<1>5. Promised("row", "delete", a, None, r)
  <2>1. CASE f.err = "none"
    <3>1. r.err \in {"none", "notFound"}
      BY <1>3, <2>1 DEF DeleteOwnerFacts
    <3>2. ASSUME r.err = "none"
          PROVE  /\ Asked("row", "delete", a, None, r) /\ Others(mapper, a, None, r)
                 /\ rel.orphan => NoOrphans(mapper, r)
      <4>1. /\ r.own[a] = Gone
            /\ \A x \in Owners : x # a => r.own[x] = mapper.own[x]
            /\ rel.orphan => r.inv = mapper.inv \ {mapper.own[a]}
        BY <1>2, <1>3, <2>1, <3>2 DEF DeleteOwnerFacts, SameRows
      <4>2. None \notin r.inv
        BY <1>3, OneHasOneAssumption DEF DeleteOwnerFacts, Valid, Mappers
      <4>3. rel.orphan => NoOrphans(mapper, r)
        BY <4>1 DEF NoOrphans, Linked
      <4> QED BY <4>1, <4>2, <4>3 DEF Asked, Others
    <3> QED BY <3>1, <3>2 DEF Promised, MustKeep
  <2>2. CASE f.err = "notFound"
    BY <1>3, <2>2, FailPromised DEF DeleteOwnerFacts
  <2> QED BY <1>2, <2>1, <2>2
<1> QED BY <1>3, <1>4, <1>5 DEF Mutated, DeleteOwnerFacts

LEMMA DeletesB ==
  ASSUME Inv, DeleteB
  PROVE  Mutated
<1>1. PICK b \in Inverses : Mutate("row", "delete", None, b, DeleteInverse(FindOrFail(mapper, b), b))
  BY DEF DeleteB
<1> DEFINE f == FindOrFail(mapper, b)
           r == DeleteInverse(f, b)
<1>2. LookFacts(mapper, b, f) /\ SameRows(mapper, f) /\ f.err \in {"none", "notFound"} /\ Valid(f)
  BY Looks DEF Inv, LookFacts
<1>3. DeleteInverseFacts(f, b, r)
  BY <1>2, DeletesInverse DEF Inv
<1>4. Mutate("row", "delete", None, b, r)
  BY <1>1
<1> HIDE DEF f, r
<1>5. Promised("row", "delete", None, b, r)
  <2>1. CASE f.err = "none"
    <3>1. r.err \notin {"unique", "noResult"}
      BY <1>3, <2>1 DEF DeleteInverseFacts
    <3>2. ASSUME r.err = "none"
          PROVE  /\ Asked("row", "delete", None, b, r) /\ Others(mapper, None, b, r)
                 /\ NoOrphans(mapper, r)
      <4>1. /\ r.inv = mapper.inv \ {b}
            /\ \A x \in Owners : mapper.own[x] # b => r.own[x] = mapper.own[x]
        BY <1>2, <1>3, <2>1, <3>2 DEF DeleteInverseFacts, SameRows
      <4>2. NoOrphans(mapper, r)
        BY <4>1 DEF NoOrphans, Linked
      <4> QED BY <4>1, <4>2 DEF Asked, Others
    <3> QED BY <3>1, <3>2 DEF Promised
  <2>2. CASE f.err = "notFound"
    BY <1>3, <2>2, FailPromised DEF DeleteInverseFacts
  <2> QED BY <1>2, <2>1, <2>2
<1> QED BY <1>3, <1>4, <1>5 DEF Mutated, DeleteInverseFacts

-----------------------------------------------------------------------------
(* The theorems.                                                             *)

(* A new mapper has an empty memory, which is true: what is said of truthful  *)
(* memories is said of the first mutation of every transaction.              *)
LEMMA Opens ==
  ASSUME NEW d \in Rows, Consistent(rel, d)
  PROVE  Valid(Opened(d)) /\ Opened(d).err = "none" /\ Truthful(Opened(d))
<1> DEFINE m == Opened(d)
<1>1. d.own \in [Owners -> Inverses \cup {None, Gone}] /\ d.inv \in SUBSET Inverses
  BY DEF Rows
<1>2. /\ m.own = d.own /\ m.inv = d.inv /\ m.err = "none" /\ m.dead = {}
      /\ m.owner = [b \in Inverses |-> "unasked"]
      /\ m.seen = [x \in Owners \cup Inverses |-> "unasked"]
  BY DEF Opened
<1>3. m \in Mappers
  BY <1>1 DEF Opened, Mappers, Errors
<1> HIDE DEF m
<1>4. Consistent(rel, m)
  BY <1>2 DEF Consistent
<1>5. Truthful(m)
  BY <1>2 DEF Truthful
<1> QED BY <1>2, <1>3, <1>4, <1>5 DEF Valid, m

LEMMA Moved ==
  ASSUME Inv, Next
  PROVE  Commit \/ Mutated
BY ConnectsToOwner, CreatesForOwner, ConnectsOrCreatesForOwner, UpsertsForOwner,
   DisconnectsOwner, DeletesOfOwner, ConnectsToInverse, CreatesForInverse,
   ConnectsOrCreatesForInverse, UpsertsForInverse, DisconnectsInverse, DeletesOfInverse,
   InsertsA, InsertsAConnecting, InsertsBoth, InsertsAConnectingOrCreating, InsertsB,
   InsertsBConnecting, InsertsBConnectingOrCreating, DeletesA, DeletesB
   DEF Next

LEMMA InvStep ==
  ASSUME Inv, [Next]_vars
  PROVE  Inv'
<1>1. CASE UNCHANGED vars
  BY <1>1 DEF Inv, vars, Valid, Consistent, Exists
<1>2. CASE Commit
  <2>1. mapper \in Mappers /\ Consistent(rel, mapper)
    BY DEF Inv, Valid
  <2>2. db' \in Rows /\ Consistent(rel, db')
    BY <1>2, <2>1 DEF Commit, Saved, Rows, Mappers, Consistent
  <2>3. Valid(Opened(db')) /\ Opened(db').err = "none"
    BY <2>2, Opens
  <2>4. rel' = rel /\ mapper' = Opened(db') /\ count' = 0
    BY <1>2 DEF Commit
  <2> QED BY <2>2, <2>3, <2>4, OneHasOneAssumption DEF Inv, Valid, Consistent, Exists
<1>3. CASE Mutated
  <2>1. PICK side, op, a, b, r : Mutate(side, op, a, b, r) /\ Valid(r)
    BY <1>3 DEF Mutated
  <2>2. rel' = rel /\ db' = db /\ count < Batch
    BY <2>1 DEF Mutate
  <2>3. CASE r.err = "none"
    <3>1. mapper' = r /\ count' = count + 1
      BY <2>1, <2>3 DEF Mutate
    <3>2. count' \in 0..Batch
      BY <2>2, <3>1, OneHasOneAssumption DEF Inv
    <3> QED BY <2>1, <2>2, <2>3, <3>1, <3>2 DEF Inv, Valid, Consistent, Exists
  <2>4. CASE r.err # "none"
    <3>1. mapper' = Opened(db) /\ count' = 0
      BY <2>1, <2>4 DEF Mutate
    <3>2. Valid(Opened(db)) /\ Opened(db).err = "none"
      BY Opens DEF Inv
    <3> QED BY <2>2, <3>1, <3>2, OneHasOneAssumption DEF Inv, Valid, Consistent, Exists
  <2> QED BY <2>3, <2>4
<1> QED BY <1>1, <1>2, <1>3, Moved

THEOREM InvCorrect == Spec => []Inv
<1>1. Init => Inv
  BY Opens, OneHasOneAssumption DEF Init, Inv
<1>2. Inv /\ [Next]_vars => Inv'
  BY InvStep
<1> QED BY <1>1, <1>2, PTL DEF Spec

(* Whatever mutations are made of one mapper, with a true memory or a stale   *)
(* one, the rows respect the keys and types.                                 *)
THEOREM OneHasOneTypeCorrect == Spec => []TypeOK
<1>1. Inv => TypeOK
  BY DEF Inv, TypeOK, Valid, Mappers, Saved, Rows
<1> QED BY <1>1, InvCorrect, PTL

(* What a step of the invariant promises, read off the mutation it is.       *)
LEMMA StepPromised ==
  ASSUME Inv, Next, last' # Idle \/ Succeeded
  PROVE  \E side, op, a, b, r :
           /\ last' = [side |-> side, op |-> op, a |-> a, b |-> b, err |-> r.err]
           /\ Succeeded => r.err = "none" /\ mapper' = r
           /\ Truthful(mapper) => Promised(side, op, a, b, r)
<1>1. Mutated
  <2>1. Commit => ~(last' # Idle \/ Succeeded)
    BY DEF Commit, Succeeded, Inv
  <2> QED BY <2>1, Moved
<1>2. PICK side, op, a, b, r :
        Mutate(side, op, a, b, r) /\ (Truthful(mapper) => Promised(side, op, a, b, r))
  BY <1>1 DEF Mutated
<1>3. last' = [side |-> side, op |-> op, a |-> a, b |-> b, err |-> r.err]
  BY <1>2 DEF Mutate
<1>4. Succeeded => r.err = "none" /\ mapper' = r
  BY <1>2 DEF Mutate, Succeeded, Inv
<1> QED BY <1>2, <1>3, <1>4

(* A mutation from a true memory that reports success did what it was asked   *)
(* for, and changed no pair of rows it does not name; the owner's disconnect  *)
(* that is dropped without a word changed nothing at all.                    *)
THEOREM ExactCorrect == Spec => Exact
<1>1. ASSUME Inv, Next, Succeeded, Truthful(mapper)
      PROVE  AsAsked /\ OtherPairsKept
  <2>1. PICK side, op, a, b, r :
          /\ last' = [side |-> side, op |-> op, a |-> a, b |-> b, err |-> r.err]
          /\ r.err = "none" /\ mapper' = r /\ Promised(side, op, a, b, r)
    BY <1>1, StepPromised
  <2>2. last'.side = side /\ last'.op = op /\ last'.a = a /\ last'.b = b
    BY <2>1
  <2>3. Asked(side, op, a, b, mapper') /\ Others(mapper, a, b, mapper')
    BY <2>1 DEF Promised
  <2>4. AsAsked
    BY <2>2, <2>3 DEF AsAsked, Asked, Linked
  <2> QED BY <2>2, <2>3, <2>4 DEF OtherPairsKept, Others
<1>2. Inv /\ [Next]_vars => [Succeeded /\ Truthful(mapper) => AsAsked /\ OtherPairsKept]_vars
  BY <1>1
<1> QED BY <1>2, InvCorrect, PTL DEF Spec, Exact

(* From a true memory, with orphan removal, a row of B that loses its owner   *)
(* finds another or is deleted, in the same mutation.                        *)
THEOREM OrphansRemovedCorrect == Spec => OrphansRemoved
<1> DEFINE Kept == \A b \in mapper'.inv : Linked(mapper, b) => Linked(mapper', b)
<1>1. ASSUME Inv, Next, Succeeded, rel.orphan, Truthful(mapper)
      PROVE  Kept
  <2>1. PICK side, op, a, b, r : r.err = "none" /\ mapper' = r /\ Promised(side, op, a, b, r)
    BY <1>1, StepPromised
  <2>2. NoOrphans(mapper, r)
    BY <1>1, <2>1 DEF Promised, MustKeep
  <2> QED BY <2>1, <2>2 DEF NoOrphans, Linked
<1>2. Inv /\ [Next]_vars => [Succeeded /\ rel.orphan /\ Truthful(mapper) => Kept]_vars
  BY <1>1
<1> QED BY <1>2, InvCorrect, PTL DEF Spec, OrphansRemoved

(* From a true memory, a required inverse side keeps its owner under every    *)
(* operation but those that take another row's owner away.                   *)
THEOREM RequiredKeptCorrect == Spec => RequiredKept
<1> DEFINE Kept == \A b \in mapper'.inv : Linked(mapper, b) => Linked(mapper', b)
           Held == /\ Succeeded /\ ~rel.inverse /\ Truthful(mapper)
                   /\ last'.side # "row" /\ <<last'.side, last'.op>> # <<"inverse", "connect">>
<1>1. ASSUME Inv, Next, Held
      PROVE  Kept
  <2>1. PICK side, op, a, b, r :
          /\ last' = [side |-> side, op |-> op, a |-> a, b |-> b, err |-> r.err]
          /\ r.err = "none" /\ mapper' = r /\ Promised(side, op, a, b, r)
    BY <1>1, StepPromised
  <2>2. MustKeep(side, op)
    BY <1>1, <2>1 DEF MustKeep
  <2>3. NoOrphans(mapper, r)
    BY <2>1, <2>2 DEF Promised
  <2> QED BY <2>1, <2>3 DEF NoOrphans, Linked
<1>2. Inv /\ [Next]_vars => [Held => Kept]_vars
  BY <1>1
<1> QED BY <1>2, InvCorrect, PTL DEF Spec, RequiredKept

(* From a true memory, no operation fails on a unique key or on a row that    *)
(* vanished under it, but the creation the orphan removal cascades into.     *)
THEOREM NoSpuriousErrorCorrect == Spec => NoSpuriousError
<1> DEFINE Told ==
      /\ last'.err # "unique"
      /\ last'.err = "noResult" =>
           <<last'.side, last'.op>> = <<"newInverse", "connect">> /\ rel.onDelete = "cascade"
<1>1. ASSUME Inv, Next, last' # Idle, Truthful(mapper)
      PROVE  Told
  <2>1. PICK side, op, a, b, r :
          /\ last' = [side |-> side, op |-> op, a |-> a, b |-> b, err |-> r.err]
          /\ Promised(side, op, a, b, r)
    BY <1>1, StepPromised
  <2> QED BY <2>1 DEF Promised
<1>2. Inv /\ [Next]_vars => [last' # Idle /\ Truthful(mapper) => Told]_vars
  BY <1>1
<1> QED BY <1>2, InvCorrect, PTL DEF Spec, NoSpuriousError

=============================================================================
