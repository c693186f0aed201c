------------------------------ MODULE OneHasOne ------------------------------
(***************************************************************************)
(* The content API over one one-has-one relation: entity A holds the       *)
(* joining column (the owner), entity B is the inverse side.  A mutation    *)
(* creates, updates or deletes one row and carries one nested operation on  *)
(* the relation; the four input processors of                               *)
(* engine-content-api/src/mapper/relations turn it into lookups, updates,   *)
(* inserts and deletes of one Mapper.  The mapper lives as long as the      *)
(* database transaction (`transaction { ... }` runs several mutations on    *)
(* one) and memoizes every lookup of a primary key.                         *)
(*                                                                          *)
(* A row stands for its primary key and its unique name at once; a name is  *)
(* not reused within the transaction that deleted its row.                  *)
(***************************************************************************)
EXTENDS Naturals

CONSTANTS Owners, Inverses,  \* the rows of A and of B that may ever exist
          None,              \* the column is null; no row
          Gone,              \* the row of A does not exist
          Batch              \* bound: mutations in one transaction

ASSUME OneHasOneAssumption ==
  /\ Batch \in Nat \ {0}
  /\ Owners \cap Inverses = {}
  /\ None \notin Owners \cup Inverses \cup {Gone, "unasked"}
  /\ Gone \notin Inverses
  /\ "unasked" \notin Owners

VARIABLES rel,     \* the relation as the schema defines it
          db,      \* the committed rows
          mapper,  \* the rows as the open transaction sees them, and the Mapper's memory
          count,   \* mutations done in the open transaction
          last     \* the last mutation and how it ended

vars == <<rel, db, mapper, count, last>>

(* owner, inverse: whether the field of that side is nullable; orphan:       *)
(* orphanRemoval, an inverse row that loses its owner is deleted.            *)
Relations == [owner : BOOLEAN, inverse : BOOLEAN, orphan : BOOLEAN,
              onDelete : {"restrict", "cascade", "setNull"}]

Rows == [own : [Owners -> Inverses \cup {None, Gone}], inv : SUBSET Inverses]

(* Unique and foreign keys of PostgreSQL, and a NOT NULL joining column.    *)
Consistent(r, d) ==
  /\ \A a \in Owners : d.own[a] \in d.inv \cup {None, Gone}
  /\ \A a, o \in Owners : d.own[a] = d.own[o] /\ d.own[a] \in Inverses => a = o
  /\ ~r.owner => \A a \in Owners : d.own[a] # None
Linked(d, b) == \E a \in Owners : d.own[a] = b
Complete(r, d) == ~r.inverse => \A b \in d.inv : Linked(d, b)

(* A new Mapper: nothing looked up, nothing deleted.                        *)
Opened(d) ==
  [own |-> d.own, inv |-> d.inv, err |-> "none", dead |-> {},
   owner |-> [b \in Inverses |-> "unasked"],
   seen |-> [x \in Owners \cup Inverses |-> "unasked"]]
Saved(m) == [own |-> m.own, inv |-> m.inv]
Idle == [side |-> "none", op |-> "none", a |-> None, b |-> None, err |-> "none"]

Init ==
  /\ rel \in Relations
  /\ db \in {d \in Rows : Consistent(rel, d) /\ Complete(rel, d)}
  /\ mapper = Opened(db)
  /\ count = 0
  /\ last = Idle

-----------------------------------------------------------------------------
(* The mapper.  Every operator takes the mapper's state and returns the      *)
(* next one; after an error nothing more is done, the whole transaction      *)
(* being rolled back.                                                        *)

Error(m, e) == IF m.err = "none" THEN [m EXCEPT !.err = e] ELSE m

OwnerOf(m, b) ==
  IF Linked(m, b) THEN CHOOSE a \in Owners : m.own[a] = b ELSE None
Exists(m, x) == x \in m.inv \/ (x \in Owners /\ m.own[x] # Gone)

(* getPrimaryValue(A, {relation: {id: b}}): the first answer is kept, an     *)
(* empty one too, the memory holding the promise.                            *)
CurrentOwner(m, b) ==
  IF m.owner[b] = "unasked" THEN OwnerOf(m, b) ELSE m.owner[b]
AskOwner(m, b) == [m EXCEPT !.owner[b] = CurrentOwner(m, b)]

(* getPrimaryValue by a unique name.                                         *)
Found(m, x) == IF m.seen[x] = "unasked" THEN Exists(m, x) ELSE m.seen[x] = "found"
Find(m, x) == [m EXCEPT !.seen[x] = IF Found(m, x) THEN "found" ELSE "missing"]
FindOrFail(m, x) ==
  IF Found(m, x) THEN Find(m, x) ELSE Error(Find(m, x), "notFound")

(* UPDATE a SET relation = v WHERE id = a                                    *)
SetOwn(m, a, v) ==
  IF m.err # "none" THEN m
  ELSE IF m.own[a] = Gone THEN Error(m, "noResult")
  ELSE IF v = None /\ ~rel.owner THEN Error(m, "notNull")
  ELSE IF v # None /\ v \notin m.inv THEN Error(m, "foreignKey")
  ELSE IF v # None /\ OwnerOf(m, v) \notin {None, a} THEN Error(m, "unique")
  ELSE [m EXCEPT !.own[a] = v]

(* updateInternal(A, {id}, relation := null), when there is such an owner    *)
Release(m, o) == IF o = None THEN m ELSE SetOwn(m, o, None)

InsertOwner(m, a, v) ==
  IF m.err # "none" THEN m
  ELSE IF m.own[a] # Gone THEN Error(m, "unique")
  ELSE IF v # None /\ v \notin m.inv THEN Error(m, "foreignKey")
  ELSE IF v # None /\ OwnerOf(m, v) # None THEN Error(m, "unique")
  ELSE [m EXCEPT !.own[a] = v]
InsertInverse(m, b) ==
  IF m.err # "none" THEN m
  ELSE IF b \in m.inv THEN Error(m, "unique")
  ELSE [m EXCEPT !.inv = @ \cup {b}]

(* DeleteExecutor: what the row's deletion drags along is collected first.   *)
DeleteInverse(m, b) ==
  LET o == OwnerOf(m, b)
      drops == rel.onDelete = "cascade" /\ o # None
  IN IF m.err # "none" \/ b \in m.dead THEN m
     ELSE IF b \notin m.inv THEN Error(m, "notFound")
     ELSE IF o # None /\ rel.onDelete = "restrict" THEN Error(m, "foreignKey")
     ELSE IF o # None /\ rel.onDelete = "setNull" /\ ~rel.owner THEN Error(m, "notNull")
     ELSE [m EXCEPT !.inv = @ \ {b},
                    !.dead = @ \cup {b} \cup (IF drops THEN {o} ELSE {}),
                    !.own = [a \in Owners |-> IF a # o THEN @[a]
                                              ELSE IF drops THEN Gone ELSE None]]
DeleteOwner(m, a) ==
  LET orphans == IF rel.orphan THEN {m.own[a]} \cap Inverses ELSE {}
  IN IF m.err # "none" \/ a \in m.dead THEN m
     ELSE IF m.own[a] = Gone THEN Error(m, "notFound")
     ELSE [m EXCEPT !.own[a] = Gone, !.inv = @ \ orphans,
                    !.dead = @ \cup {a} \cup orphans]

-----------------------------------------------------------------------------
(* OneHasOneOwningUpdateInputProcessor: update of the row a of A.            *)

(* getCurrentInverseSide: read only when someone will ask.                   *)
CurrentInverse(m, a) ==
  IF (~rel.inverse \/ rel.orphan) /\ m.own[a] \in Inverses THEN m.own[a] ELSE None
(* Mutant: the required inverse row is not protected. *)
KeepInverseNever(m, cur) == m
(* A required inverse row must not lose its owner, unless it is removed.     *)
KeepInverse(m, cur) ==
  IF cur # None /\ ~rel.inverse /\ ~rel.orphan THEN Error(m, "notNull") ELSE m
(* cleanupOrphan: after the owner's own update                               *)
Cleanup(m, cur) == IF rel.orphan /\ cur # None THEN DeleteInverse(m, cur) ELSE m

(* Mutant: any owner of the inverse row counts as the right one. *)
OwningConnectAny(m, a, b) ==
  IF CurrentOwner(m, b) # None THEN AskOwner(m, b)
  ELSE Cleanup(SetOwn(KeepInverse(AskOwner(m, b), CurrentInverse(m, a)), a, b),
               CurrentInverse(m, a))
OwningConnect(m, a, b) ==
  LET cur == CurrentInverse(m, a)
      asked == AskOwner(m, b)
      released == Release(KeepInverse(asked, cur), CurrentOwner(m, b))
  IN IF m.err # "none" \/ cur = b THEN m
     ELSE IF CurrentOwner(m, b) = a THEN asked
     ELSE Cleanup(SetOwn(released, a, b), cur)
OwningCreate(m, a, b) ==
  LET cur == CurrentInverse(m, a)
  IN Cleanup(SetOwn(InsertInverse(KeepInverse(m, cur), b), a, b), cur)
OwningConnectOrCreate(m, a, b) ==
  IF Found(m, b) THEN OwningConnect(Find(m, b), a, b) ELSE OwningCreate(Find(m, b), a, b)
OwningUpsert(m, a, b) ==
  IF m.own[a] \in Inverses THEN m ELSE SetOwn(InsertInverse(m, b), a, b)
(* Nobody waits for the callback that finds the required inverse row: the    *)
(* result has been returned when its notNull error is added.  The update is  *)
(* aborted, the mutation reports success and the pair is still there.        *)
KeepsSilently(cur) == cur # None /\ ~rel.orphan
OwningDisconnect(m, a) ==
  LET cur == CurrentInverse(m, a)
  IN IF ~rel.owner THEN Error(m, "notNull")
     ELSE IF KeepsSilently(cur) THEN m
     ELSE Cleanup(SetOwn(m, a, None), cur)
OwningDelete(m, a) ==
  LET cleared == IF rel.onDelete = "restrict" THEN SetOwn(m, a, None) ELSE m
  IN IF ~rel.owner /\ rel.onDelete # "cascade" THEN Error(m, "notNull")
     ELSE IF m.own[a] \notin Inverses THEN cleared
     ELSE DeleteInverse(cleared, m.own[a])

(* OneHasOneOwningCreateInputProcessor: insert of a row of A for b.          *)
(* Mutant: the former owner is not released. *)
ConnectForInsertKeeps(m, b) == AskOwner(m, b)
ConnectForInsert(m, b) == Release(AskOwner(m, b), CurrentOwner(m, b))

(* OneHasOneInverseUpdateInputProcessor: update of the row b of B.           *)
(* Mutant: the new owner's former inverse row is left behind. *)
InverseConnectLeaves(m, b, a) ==
  IF CurrentOwner(m, b) = a THEN AskOwner(m, b)
  ELSE SetOwn(Release(AskOwner(m, b), CurrentOwner(m, b)), a, b)
InverseConnect(m, b, a) ==
  LET asked == AskOwner(m, b)
      o == CurrentOwner(m, b)
      orphan == IF rel.orphan /\ m.own[a] \in Inverses THEN m.own[a] ELSE None
      moved == SetOwn(Release(asked, o), a, b)
  IN IF m.err # "none" THEN m
     ELSE IF o = a THEN asked
     ELSE Cleanup(moved, orphan)
InverseCreate(m, b, a) == InsertOwner(Release(AskOwner(m, b), CurrentOwner(m, b)), a, b)
InverseConnectOrCreate(m, b, a) ==
  IF Found(m, a) THEN InverseConnect(Find(m, a), b, a) ELSE InverseCreate(Find(m, a), b, a)
InverseUpsert(m, b, a) ==
  IF CurrentOwner(m, b) # None
  THEN IF m.own[CurrentOwner(m, b)] = Gone THEN Error(AskOwner(m, b), "noResult")
       ELSE AskOwner(m, b)
  ELSE InverseCreate(m, b, a)
InverseDisconnect(m, b) ==
  LET o == CurrentOwner(m, b)
      released == SetOwn(AskOwner(m, b), o, None)
  IN IF m.err # "none" THEN m
     ELSE IF ~rel.inverse /\ ~rel.orphan THEN Error(m, "notNull")
     ELSE IF o = None THEN AskOwner(m, b)
     ELSE IF rel.orphan THEN DeleteInverse(released, b) ELSE released
InverseDelete(m, b) ==
  IF m.err # "none" THEN m
  ELSE IF ~rel.inverse /\ ~rel.orphan THEN Error(m, "notNull")
  ELSE IF CurrentOwner(m, b) = None THEN Error(AskOwner(m, b), "notFound")
  ELSE DeleteOwner(AskOwner(m, b), CurrentOwner(m, b))

(* OneHasOneInverseCreateInputProcessor: the row b of B is inserted first;   *)
(* the orphan of the new owner is deleted before the owner moves.            *)
ConnectInserted(m, b, a) ==
  LET cur == IF m.own[a] \in Inverses THEN m.own[a] ELSE None
      kept == IF rel.orphan THEN Cleanup(m, cur) ELSE KeepInverse(m, cur)
  IN SetOwn(kept, a, b)

-----------------------------------------------------------------------------
Mutate(side, op, a, b, m) ==
  /\ count < Batch
  /\ last' = [side |-> side, op |-> op, a |-> a, b |-> b, err |-> m.err]
  /\ IF m.err = "none" THEN mapper' = m /\ count' = count + 1
     ELSE mapper' = Opened(db) /\ count' = 0
  /\ UNCHANGED <<rel, db>>

Commit ==
  /\ count > 0
  /\ db' = Saved(mapper)
  /\ mapper' = Opened(db')
  /\ count' = 0
  /\ last' = Idle
  /\ UNCHANGED rel

(* The operations the GraphQL schema offers: when both sides are required,   *)
(* the two rows can only be created together.                                *)
Free == rel.owner \/ rel.inverse
MayDelete == Free \/ rel.onDelete = "cascade"

UpdateOwner(op, a, b, m) == Mutate("owner", op, a, b, m)
UpdateInverse(op, b, a, m) == Mutate("inverse", op, a, b, m)
FreshOwners == {a \in Owners : mapper.own[a] = Gone /\ a \notin mapper.dead}
FreshInverses == Inverses \ (mapper.inv \cup mapper.dead)

ConnectToOwner == \E a \in Owners, b \in Inverses :
  Free /\ UpdateOwner("connect", a, b,
            OwningConnect(FindOrFail(FindOrFail(mapper, a), b), a, b))
CreateForOwner == \E a \in Owners, b \in FreshInverses :
  Free /\ UpdateOwner("create", a, b, OwningCreate(FindOrFail(mapper, a), a, b))
ConnectOrCreateForOwner == \E a \in Owners, b \in Inverses \ mapper.dead :
  Free /\ UpdateOwner("connect", a, b, OwningConnectOrCreate(FindOrFail(mapper, a), a, b))
UpsertForOwner == \E a \in Owners, b \in FreshInverses :
  Free /\ UpdateOwner("upsert", a, b, OwningUpsert(FindOrFail(mapper, a), a, b))
DisconnectOwner == \E a \in Owners :
  Free /\ UpdateOwner("disconnect", a, None, OwningDisconnect(FindOrFail(mapper, a), a))
DeleteOfOwner == \E a \in Owners :
  MayDelete /\ UpdateOwner("delete", a, None, OwningDelete(FindOrFail(mapper, a), a))

ConnectToInverse == \E a \in Owners, b \in Inverses :
  Free /\ UpdateInverse("connect", b, a,
            InverseConnect(FindOrFail(FindOrFail(mapper, b), a), b, a))
CreateForInverse == \E a \in FreshOwners, b \in Inverses :
  Free /\ UpdateInverse("create", b, a, InverseCreate(FindOrFail(mapper, b), b, a))
ConnectOrCreateForInverse == \E a \in Owners \ mapper.dead, b \in Inverses :
  Free /\ UpdateInverse("connect", b, a, InverseConnectOrCreate(FindOrFail(mapper, b), b, a))
UpsertForInverse == \E a \in FreshOwners, b \in Inverses :
  Free /\ UpdateInverse("upsert", b, a, InverseUpsert(FindOrFail(mapper, b), b, a))
DisconnectInverse == \E b \in Inverses :
  Free /\ UpdateInverse("disconnect", b, None, InverseDisconnect(FindOrFail(mapper, b), b))
DeleteOfInverse == \E b \in Inverses :
  Free /\ UpdateInverse("delete", b, None, InverseDelete(FindOrFail(mapper, b), b))

(* create{A}: without the relation only when the field is nullable           *)
InsertA == \E a \in FreshOwners :
  rel.owner /\ Mutate("newOwner", "none", a, None, InsertOwner(mapper, a, None))
InsertAConnect == \E a \in FreshOwners, b \in Inverses :
  Free /\ Mutate("newOwner", "connect", a, b,
            InsertOwner(ConnectForInsert(FindOrFail(mapper, b), b), a, b))
InsertACreate == \E a \in FreshOwners, b \in FreshInverses :
  Mutate("newOwner", "create", a, b, InsertOwner(InsertInverse(mapper, b), a, b))
InsertAConnectOrCreate == \E a \in FreshOwners, b \in Inverses \ mapper.dead :
  Free /\ Mutate("newOwner", "connect", a, b,
            InsertOwner(IF Found(mapper, b) THEN ConnectForInsert(Find(mapper, b), b)
                        ELSE InsertInverse(Find(mapper, b), b), a, b))
InsertB == \E b \in FreshInverses :
  rel.inverse /\ Mutate("newInverse", "none", None, b, InsertInverse(mapper, b))
InsertBConnect == \E b \in FreshInverses, a \in Owners :
  Free /\ Mutate("newInverse", "connect", a, b,
            ConnectInserted(FindOrFail(InsertInverse(mapper, b), a), b, a))
InsertBCreate == \E b \in FreshInverses, a \in FreshOwners :
  Mutate("newInverse", "create", a, b, InsertOwner(InsertInverse(mapper, b), a, b))
InsertBConnectOrCreate == \E b \in FreshInverses, a \in Owners \ mapper.dead :
  LET inserted == Find(InsertInverse(mapper, b), a)
  IN Free /\ Mutate("newInverse", "connect", a, b,
                IF Found(mapper, a) THEN ConnectInserted(inserted, b, a)
                ELSE InsertOwner(inserted, a, b))

DeleteA == \E a \in Owners :
  Mutate("row", "delete", a, None, DeleteOwner(FindOrFail(mapper, a), a))
DeleteB == \E b \in Inverses :
  Mutate("row", "delete", None, b, DeleteInverse(FindOrFail(mapper, b), b))

Next ==
  \/ Commit
  \/ ConnectToOwner \/ CreateForOwner \/ ConnectOrCreateForOwner \/ UpsertForOwner
  \/ DisconnectOwner \/ DeleteOfOwner
  \/ ConnectToInverse \/ CreateForInverse \/ ConnectOrCreateForInverse
  \/ UpsertForInverse \/ DisconnectInverse \/ DeleteOfInverse
  \/ InsertA \/ InsertAConnect \/ InsertACreate \/ InsertAConnectOrCreate
  \/ InsertB \/ InsertBConnect \/ InsertBCreate \/ InsertBConnectOrCreate
  \/ DeleteA \/ DeleteB

Spec == Init /\ [][Next]_vars

-----------------------------------------------------------------------------
(* The committed rows respect the keys of the database, and so do the rows   *)
(* as the transaction sees them.                                             *)
TypeOK ==
  /\ rel \in Relations /\ db \in Rows /\ Saved(mapper) \in Rows
  /\ Consistent(rel, db) /\ Consistent(rel, mapper)
  /\ mapper.err = "none" /\ mapper.dead \subseteq Owners \cup Inverses
  /\ mapper.owner \in [Inverses -> Owners \cup {None, "unasked"}]
  /\ mapper.seen \in [Owners \cup Inverses -> {"unasked", "found", "missing"}]
  /\ count \in 0..Batch

Succeeded == count' = count + 1

AsAsked ==
  LET a == last'.a
      b == last'.b
      own == mapper'.own
  IN CASE last'.op \in {"connect", "create"} -> own[a] = b
       [] last'.op = "upsert" -> own[a] = b \/ UNCHANGED mapper.own
       [] last'.op = "none" -> a # None => own[a] = None
       [] last'.op = "disconnect" ->
            IF a = None THEN ~Linked(mapper', b)
            ELSE IF ~rel.inverse /\ ~rel.orphan /\ mapper.own[a] # None
                 THEN Saved(mapper') = Saved(mapper) ELSE own[a] = None
       [] last'.op = "delete" ->
            CASE last'.side = "row" -> b \notin mapper'.inv /\ (a # None => own[a] = Gone)
              [] last'.side = "owner" ->
                   own[a] \in {None, Gone} /\ mapper.own[a] \notin mapper'.inv
              [] last'.side = "inverse" ->
                   \E o \in Owners : mapper.own[o] = b /\ own[o] = Gone

OtherPairsKept ==
  \A x \in Owners :
    x # last'.a /\ mapper.own[x] # last'.b => mapper'.own[x] = mapper.own[x]

(* What the Mapper remembers is still so.  A new Mapper remembers nothing;    *)
(* an earlier mutation of the same transaction may have moved what it asked. *)
Truthful(m) ==
  /\ \A b \in Inverses : m.owner[b] \in {"unasked", OwnerOf(m, b)}
  /\ \A x \in Owners \cup Inverses :
       m.seen[x] \in {"unasked", IF Exists(m, x) THEN "found" ELSE "missing"}

(* A mutation that starts from a truthful memory, as the first one of a       *)
(* transaction does, has when it reports success brought about what it was   *)
(* asked for, whichever of the lookups found the work already done ("nothing *)
(* to do"), and no pair of rows it does not name has changed, whatever was   *)
(* released, moved, cascaded or removed on the way.  One request reports      *)
(* success without being carried out, the owner's disconnect from a required *)
(* inverse row that is no orphan: there no row may change at all.            *)
Exact == [][Succeeded /\ Truthful(mapper) => AsAsked /\ OtherPairsKept]_vars

(* With orphan removal, and from a truthful memory, no row of B that had an  *)
(* owner is left without one: it finds a new owner in the same mutation or   *)
(* is deleted in it.                                                         *)
OrphansRemoved ==
  [][Succeeded /\ rel.orphan /\ Truthful(mapper) =>
       \A b \in mapper'.inv : Linked(mapper, b) => Linked(mapper', b)]_vars

(* A required inverse side stays owned under every operation of the owner's  *)
(* side, every creation, and every operation of its own side that does not   *)
(* take another row's owner away, from a truthful memory.                    *)
RequiredKept ==
  [][Succeeded /\ ~rel.inverse /\ Truthful(mapper)
       /\ last'.side # "row" /\ <<last'.side, last'.op>> # <<"inverse", "connect">> =>
         \A b \in mapper'.inv : Linked(mapper, b) => Linked(mapper', b)]_vars

(* A mutation that starts from a truthful memory is refused by the handlers' *)
(* own checks and never by a unique key or by a row that vanished under it;  *)
(* the exception is an inverse row created for an owner the orphan removal   *)
(* has just deleted by cascade.                                              *)
NoSpuriousError ==
  [][last' # Idle /\ Truthful(mapper) =>
       /\ last'.err # "unique"
       /\ last'.err = "noResult" =>
            <<last'.side, last'.op>> = <<"newInverse", "connect">> /\ rel.onDelete = "cascade"]_vars
=============================================================================
