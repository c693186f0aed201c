----------------------- MODULE DispatchWorkersProofs -----------------------
(***************************************************************************)
(* Proofs about ProjectContainers, and about DispatchWorkers beside it, for *)
(* any number of requests, reloads, workers and containers.  The invariant  *)
(* of the first part says which container the store may still hold while    *)
(* calls await one: nothing but that one.                                    *)
(***************************************************************************)
EXTENDS DispatchWorkers, TLAPS

StoreTypes ==
  /\ row \in Rows /\ cont \in [Containers -> ContainerStates]
  /\ entry \in Containers \cup {None} /\ aliased \in BOOLEAN
  /\ call \in [Calls -> CallStates]

(* What a call asks about, or awaits, is a container that was made. *)
AsksMade ==
  \A r \in Calls : call[r].at \in {"found", "state", "stateRead", "destroying", "creating", "joining"} =>
    call[r].of \in Containers /\ cont[call[r].of].st # "none"

(* One container at most is being made, and none is destroyed before it is ready. *)
OneCreated ==
  /\ \A c, d \in Containers : cont[c].st = "creating" /\ cont[d].st = "creating" => c = d
  /\ \A c \in Containers : cont[c].st = "creating" => cont[c].destroyed = 0

(* While a call awaits a container, the store holds that one or none. *)
AwaitedInStore == \A r \in Calls : Awaits(r) => entry \in {call[r].of, None}

StoreInv == StoreTypes /\ AsksMade /\ OneCreated /\ AwaitedInStore /\ StoreHoldsLive

USE ContainersAssumption DEF ContainersAssumption

LEMMA StoreInit == ContainersInit => StoreInv
<1> SUFFICES ASSUME ContainersInit PROVE StoreInv
  OBVIOUS
<1>1. row \in Rows /\ entry \in Containers \cup {None} /\ aliased \in BOOLEAN
  BY DEF ContainersInit, Rows
<1>2. cont \in [Containers -> ContainerStates]
  <2>1. row.version \in 0..MaxVersion /\ row.alias \in BOOLEAN
    BY <1>1 DEF Rows
  <2>2. [Unmade EXCEPT !.st = "ready", !.version = row.version, !.alias = row.alias] \in ContainerStates
    BY <2>1 DEF Unmade, ContainerStates
  <2>3. Unmade \in ContainerStates
    BY DEF Unmade, ContainerStates
  <2> QED BY <2>2, <2>3 DEF ContainersInit
<1>3. call \in [Calls -> CallStates]
  <2>1. Blank \in CallStates
    BY DEF Blank, CallStates, Places, Slugs, Rows
  <2> QED BY <2>1 DEF ContainersInit
<1>4. \A r \in Calls : call[r].at = "idle"
  BY DEF ContainersInit, Blank
<1>5. AsksMade /\ AwaitedInStore
  BY <1>4 DEF AsksMade, AwaitedInStore, Awaits
<1>6. \A c \in Containers : cont[c].destroyed = 0 /\ cont[c].st = IF c = entry THEN "ready" ELSE "none"
  BY DEF ContainersInit, Unmade
<1>7. OneCreated /\ StoreHoldsLive
  BY <1>6 DEF OneCreated, StoreHoldsLive
<1> QED
  BY <1>1, <1>2, <1>3, <1>5, <1>7 DEF StoreInv, StoreTypes

(* The calls but r stay where they are; r goes to another place. *)
OnlyMoves(r) == \A q \in Calls : q # r => call'[q] = call[q]

(* The store and the containers are left alone. *)
Untouched == UNCHANGED <<cont, entry, aliased>>

(* A call that goes on, or ends, without touching the store keeps the invariant if what it    *)
(* awaits is there.                                                                           *)
LEMMA CallMoves ==
  ASSUME StoreInv, NEW r \in Calls, Untouched, row' \in Rows, call' \in [Calls -> CallStates], OnlyMoves(r),
         call'[r].at \in {"found", "state", "stateRead", "destroying", "creating", "joining"} =>
           call'[r].of \in Containers /\ cont[call'[r].of].st # "none",
         call'[r].at \in {"found", "destroying", "creating", "joining"} => entry \in {call'[r].of, None}
  PROVE  StoreInv'
<1>1. StoreTypes'
  BY DEF StoreInv, StoreTypes, Untouched
<1>2. AsksMade'
  BY DEF StoreInv, AsksMade, Untouched, OnlyMoves
<1>3. OneCreated'
  BY DEF StoreInv, OneCreated, Untouched
<1>4. AwaitedInStore'
  BY DEF StoreInv, AwaitedInStore, Untouched, Awaits, OnlyMoves
<1>5. StoreHoldsLive'
  BY DEF StoreInv, StoreHoldsLive, Untouched
<1> QED BY <1>1, <1>2, <1>3, <1>4, <1>5 DEF StoreInv

(* One call's record changes within its type. *)
LEMMA CallTyped ==
  ASSUME StoreTypes, NEW r \in Calls, NEW new \in CallStates, call' = [call EXCEPT ![r] = new]
  PROVE  call' \in [Calls -> CallStates] /\ OnlyMoves(r) /\ call'[r] = new
  BY DEF StoreTypes, OnlyMoves

(* Blank is a call that was not made, and an answer that was not given. *)
LEMMA BlankTyped == Blank \in CallStates /\ Blank.seen \in Rows
  BY DEF Blank, CallStates, Places, Slugs, Rows

(* What a call was made for, and its history, stay. *)
SameCall(r) ==
  /\ call'[r].slug = call[r].slug /\ call'[r].avoid = call[r].avoid
  /\ call'[r].absent = call[r].absent /\ call'[r].creates = call[r].creates

LEMMA GoesTyped ==
  ASSUME StoreTypes, NEW r \in Calls, NEW at \in Places, NEW of \in Containers \cup {None, Failure}, Goes(r, at, of)
  PROVE  /\ call' \in [Calls -> CallStates] /\ OnlyMoves(r) /\ call'[r].at = at /\ call'[r].of = of
         /\ SameCall(r) /\ call'[r].seen = call[r].seen
<1> DEFINE new == [call[r] EXCEPT !.at = at, !.of = of]
<1>1. /\ new \in CallStates /\ new.at = at /\ new.of = of /\ new.seen = call[r].seen
      /\ new.slug = call[r].slug /\ new.avoid = call[r].avoid
      /\ new.absent = call[r].absent /\ new.creates = call[r].creates
  BY DEF StoreTypes, CallStates
<1>2. call' = [call EXCEPT ![r] = new]
  BY DEF Goes, StoreTypes
<1> HIDE DEF new
<1>3. call' \in [Calls -> CallStates] /\ OnlyMoves(r) /\ call'[r] = new
  BY <1>1, <1>2, CallTyped
<1> QED BY <1>1, <1>3 DEF SameCall

LEMMA ReturnsTyped ==
  ASSUME StoreTypes, NEW r \in Calls, NEW of \in Containers \cup {None, Failure}, Returns(r, of)
  PROVE  /\ call' \in [Calls -> CallStates] /\ OnlyMoves(r) /\ call'[r].at = "done" /\ call'[r].of = of
         /\ SameCall(r)
<1> DEFINE new == [call[r] EXCEPT !.at = "done", !.of = of, !.gone = FALSE, !.seen = Blank.seen]
<1>1. /\ new \in CallStates /\ new.at = "done" /\ new.of = of
      /\ new.slug = call[r].slug /\ new.avoid = call[r].avoid
      /\ new.absent = call[r].absent /\ new.creates = call[r].creates
  BY BlankTyped DEF StoreTypes, CallStates, Places
<1>2. call' = [call EXCEPT ![r] = new]
  BY DEF Returns, StoreTypes
<1> HIDE DEF new
<1>3. call' \in [Calls -> CallStates] /\ OnlyMoves(r) /\ call'[r] = new
  BY <1>1, <1>2, CallTyped
<1> QED BY <1>1, <1>3 DEF SameCall

LEMMA GetStep ==
  ASSUME StoreInv, NEW r \in Calls, NEW s \in Slugs, NEW byAlias \in BOOLEAN, Get(r, s, byAlias)
  PROVE  StoreInv'
<1> DEFINE slug == IF s = "alias" /\ aliased THEN "slug" ELSE s
           started == [Blank EXCEPT !.slug = slug, !.byAlias = byAlias, !.absent = ~row.exists,
                               !.avoid = IF Outdated(entry) THEN entry ELSE None]
           new == IF slug = "slug" /\ entry # None
                  THEN [started EXCEPT !.at = IF cont[entry].st = "ready" THEN "state" ELSE "found", !.of = entry]
                  ELSE [started EXCEPT !.at = "row"]
<1>1. call' = [call EXCEPT ![r] = new] /\ Untouched /\ row' = row
  BY DEF Get, Untouched
<1>2. slug \in Slugs /\ (~row.exists) \in BOOLEAN /\ (IF Outdated(entry) THEN entry ELSE None) \in Containers \cup {None}
  BY DEF StoreInv, StoreTypes, Rows, Slugs
<1>3. started \in CallStates
  BY <1>2, BlankTyped DEF CallStates
<1>4. new \in CallStates
  <2> HIDE DEF started, slug
  <2>1. entry \in Containers \cup {None}
    BY DEF StoreInv, StoreTypes
  <2>2. [started EXCEPT !.at = "row"] \in CallStates
    BY <1>3 DEF CallStates, Places
  <2>3. ASSUME NEW at \in Places PROVE [started EXCEPT !.at = at, !.of = entry] \in CallStates
    BY <1>3, <2>1 DEF CallStates
  <2>4. (IF cont[entry].st = "ready" THEN "state" ELSE "found") \in Places
    BY DEF Places
  <2> QED BY <2>2, <2>3, <2>4
<1>5. new.at \in {"state", "found"} => new.of = entry /\ entry # None
  BY <1>3 DEF CallStates
<1>6. new.at \in {"state", "found", "row"}
  BY <1>3 DEF CallStates
<1>7. entry # None => entry \in Containers /\ cont[entry].st # "none"
  BY DEF StoreInv, StoreTypes, StoreHoldsLive, ContainerStates
<1> HIDE DEF new
<1>8. call' \in [Calls -> CallStates] /\ OnlyMoves(r) /\ call'[r] = new
  BY <1>1, <1>4, CallTyped DEF StoreInv
<1> QED BY <1>1, <1>5, <1>6, <1>7, <1>8, CallMoves DEF StoreInv, StoreTypes

LEMMA FoundStep ==
  ASSUME StoreInv, NEW r \in Calls, Found(r)
  PROVE  StoreInv'
<1> DEFINE c == call[r].of
<1>1. c \in Containers /\ cont[c].st # "none" /\ Untouched /\ row' = row /\ row \in Rows
  BY DEF Found, StoreInv, AsksMade, Untouched, StoreTypes
<1>2. CASE cont[c].st = "ready"
  <2>1. Goes(r, "state", c)
    BY <1>2 DEF Found, AskState
  <2> HIDE DEF c
  <2>2. /\ call' \in [Calls -> CallStates] /\ OnlyMoves(r)
        /\ call'[r].at = "state" /\ call'[r].of = c
    BY <1>1, <2>1, GoesTyped DEF StoreInv, Places
  <2> QED BY <1>1, <2>2, CallMoves
<1>3. CASE cont[c].st # "ready"
  <2>1. Returns(r, Failure)
    BY <1>3 DEF Found, AskState
  <2>2. call' \in [Calls -> CallStates] /\ OnlyMoves(r) /\ call'[r].at = "done"
    BY <2>1, ReturnsTyped DEF StoreInv
  <2> QED BY <1>1, <2>2, CallMoves
<1> QED BY <1>2, <1>3

LEMMA ReadsStep ==
  ASSUME StoreInv, NEW r \in Calls, NEW from, NEW to, Reads(r, from, to),
         <<from, to>> \in {<<"state", "stateRead">>, <<"row", "rowRead">>}
  PROVE  StoreInv'
<1> DEFINE new == [call[r] EXCEPT !.at = to, !.seen = row]
<1>1. to \in Places /\ row \in Rows /\ call[r] \in CallStates /\ to \in {"stateRead", "rowRead"}
  BY DEF StoreInv, StoreTypes, Places
<1>2. new \in CallStates /\ new.at = to /\ new.of = call[r].of
  BY <1>1 DEF CallStates
<1>3. call' = [call EXCEPT ![r] = new] /\ Untouched /\ row' = row
  BY DEF Reads, Untouched, StoreInv, StoreTypes
<1>4. to = "stateRead" => call[r].of \in Containers /\ cont[call[r].of].st # "none"
  BY DEF Reads, StoreInv, AsksMade
<1> HIDE DEF new
<1>5. call' \in [Calls -> CallStates] /\ OnlyMoves(r) /\ call'[r] = new
  BY <1>2, <1>3, CallTyped DEF StoreInv
<1> QED BY <1>1, <1>2, <1>3, <1>4, <1>5, CallMoves

(* What was ready stays ready, of the same row, and destroyed if it was. *)
ContainersKept ==
  \A c \in Containers : cont[c].st = "ready" =>
    /\ cont'[c].st = "ready" /\ cont'[c].version = cont[c].version
    /\ cont'[c].destroyed \in Nat /\ (cont[c].destroyed > 0 => cont'[c].destroyed > 0)

LEMMA DestroyEffect ==
  ASSUME StoreInv, NEW c \in Containers, Destroy(c)
  PROVE  /\ cont' \in [Containers -> ContainerStates] /\ entry' = None /\ aliased' \in BOOLEAN
         /\ \A d \in Containers : cont'[d].st = cont[d].st /\ (d # c => cont'[d] = cont[d])
         /\ cont'[c].destroyed = cont[c].destroyed + 1 /\ cont[c].destroyed \in Nat
         /\ ContainersKept
<1> DEFINE new == [cont[c] EXCEPT !.destroyed = @ + 1]
<1>1. cont[c] \in ContainerStates
  BY DEF StoreInv, StoreTypes
<1>2. /\ new \in ContainerStates /\ new.st = cont[c].st /\ new.destroyed = cont[c].destroyed + 1
      /\ cont[c].destroyed \in Nat /\ new.version = cont[c].version
  BY <1>1 DEF ContainerStates
<1>3. cont' = [cont EXCEPT ![c] = new]
  BY DEF Destroy, StoreInv, StoreTypes
<1>4. entry' = None /\ aliased' = (aliased /\ ~cont[c].alias)
  BY DEF Destroy
<1>5. aliased' \in BOOLEAN
  BY <1>4
<1> HIDE DEF new
<1>6. cont' \in [Containers -> ContainerStates] /\ cont'[c] = new /\ \A d \in Containers : d # c => cont'[d] = cont[d]
  BY <1>2, <1>3 DEF StoreInv, StoreTypes
<1>7. ContainersKept
  BY <1>2, <1>6 DEF ContainersKept, StoreInv, StoreTypes, ContainerStates
<1> QED BY <1>2, <1>4, <1>5, <1>6, <1>7

(* Destroying the container of the store, or one that no longer is there, and going on.       *)
LEMMA DestroyMoves ==
  ASSUME StoreInv, NEW r \in Calls, NEW c \in Containers, cont[c].st = "ready", entry \in {c, None},
         Destroy(c), row' = row, call' \in [Calls -> CallStates], OnlyMoves(r), call'[r].at \in {"done", "row"}
  PROVE  StoreInv'
<1>1. /\ cont' \in [Containers -> ContainerStates] /\ entry' = None /\ aliased' \in BOOLEAN
      /\ \A d \in Containers : cont'[d].st = cont[d].st /\ (d # c => cont'[d] = cont[d])
      /\ cont'[c].destroyed = cont[c].destroyed + 1 /\ cont[c].destroyed \in Nat
  BY DestroyEffect
<1>2. StoreTypes'
  BY <1>1 DEF StoreInv, StoreTypes
<1>3. AsksMade'
  BY <1>1 DEF StoreInv, AsksMade, OnlyMoves
<1>4. OneCreated'
  BY <1>1 DEF StoreInv, OneCreated
<1>5. AwaitedInStore'
  BY <1>1 DEF AwaitedInStore
<1>6. StoreHoldsLive'
  <2> SUFFICES ASSUME NEW d \in Containers
               PROVE  ~((cont[d].st \in {"creating", "ready"} /\ cont'[d].destroyed = 0))
    BY <1>1 DEF StoreHoldsLive
  <2>1. CASE d = c
    BY <1>1, <2>1
  <2>2. CASE d # c
    BY <1>1, <2>2 DEF StoreInv, StoreHoldsLive
  <2> QED BY <2>1, <2>2
<1> QED BY <1>2, <1>3, <1>4, <1>5, <1>6 DEF StoreInv

LEMMA AfterDestroyTyped ==
  ASSUME StoreTypes, NEW r \in Calls, NEW gone \in BOOLEAN, AfterDestroy(r, gone)
  PROVE  /\ call' \in [Calls -> CallStates] /\ OnlyMoves(r) /\ call'[r].at = IF gone THEN "done" ELSE "row"
         /\ call'[r].of = None /\ SameCall(r)
<1> DEFINE at == IF gone THEN "done" ELSE "row"
           new == [call[r] EXCEPT !.gone = FALSE, !.of = None, !.seen = Blank.seen, !.at = at]
<1>1. call' = [call EXCEPT ![r] = new]
  BY DEF AfterDestroy, StoreTypes
<1>2. at \in Places
  BY DEF Places
<1> HIDE DEF at
<1>3. /\ new \in CallStates /\ new.at = at /\ new.of = None
      /\ new.slug = call[r].slug /\ new.avoid = call[r].avoid
      /\ new.absent = call[r].absent /\ new.creates = call[r].creates
  BY <1>2, BlankTyped DEF StoreTypes, CallStates
<1> HIDE DEF new
<1>4. call' \in [Calls -> CallStates] /\ OnlyMoves(r) /\ call'[r] = new
  BY <1>1, <1>3, CallTyped
<1> QED BY <1>3, <1>4 DEF at, SameCall

LEMMA StateAnswerStep ==
  ASSUME StoreInv, NEW r \in Calls, StateAnswer(r)
  PROVE  StoreInv'
<1> DEFINE gone == ~call[r].seen.exists
<1>1. gone \in BOOLEAN /\ row' = row /\ row \in Rows /\ StoreTypes /\ AsksMade /\ call[r].at = "stateRead"
  BY DEF StateAnswer, StoreInv, StoreTypes, CallStates, Rows
<1> HIDE DEF gone
<1>2. CASE Valid(r) /\ Returns(r, call[r].of) /\ UNCHANGED <<cont, entry, aliased>>
  <2>1. call[r].of \in Containers
    BY <1>1 DEF AsksMade
  <2>2. call' \in [Calls -> CallStates] /\ OnlyMoves(r) /\ call'[r].at = "done"
    BY <1>1, <1>2, <2>1, ReturnsTyped
  <2> QED BY <1>1, <1>2, <2>2, CallMoves DEF Untouched
<1>3. CASE ~Valid(r) /\ entry = None /\ AfterDestroy(r, gone) /\ UNCHANGED <<cont, entry, aliased>>
  <2>1. call' \in [Calls -> CallStates] /\ OnlyMoves(r) /\ call'[r].at \in {"done", "row"}
    BY <1>1, <1>3, AfterDestroyTyped
  <2> QED BY <1>1, <1>3, <2>1, CallMoves DEF Untouched
<1>4. CASE entry # None /\ cont[entry].st = "ready" /\ Destroy(entry) /\ AfterDestroy(r, gone)
  <2>1. call' \in [Calls -> CallStates] /\ OnlyMoves(r) /\ call'[r].at \in {"done", "row"}
    BY <1>1, <1>4, AfterDestroyTyped
  <2>2. entry \in Containers
    BY <1>1, <1>4 DEF StoreTypes
  <2> QED BY <1>1, <1>4, <2>1, <2>2, DestroyMoves
<1>5. CASE /\ entry # None /\ cont[entry].st # "ready"
           /\ call' = [call EXCEPT ![r].at = "destroying", ![r].of = entry, ![r].gone = gone, ![r].seen = Blank.seen]
           /\ UNCHANGED <<cont, entry, aliased>>
  <2> DEFINE new == [call[r] EXCEPT !.at = "destroying", !.of = entry, !.gone = gone, !.seen = Blank.seen]
  <2>1. entry \in Containers
    BY <1>1, <1>5 DEF StoreTypes
  <2>2. new \in CallStates /\ new.at = "destroying" /\ new.of = entry
    BY <1>1, <2>1, BlankTyped DEF StoreTypes, CallStates, Places
  <2>3. call' = [call EXCEPT ![r] = new]
    BY <1>1, <1>5 DEF StoreTypes
  <2>4. cont[entry].st # "none"
    BY <1>5, <2>1, <1>1 DEF StoreInv, StoreHoldsLive, StoreTypes, ContainerStates
  <2> HIDE DEF new
  <2>5. call' \in [Calls -> CallStates] /\ OnlyMoves(r) /\ call'[r] = new
    BY <1>1, <2>2, <2>3, CallTyped
  <2> QED BY <1>1, <1>5, <2>1, <2>2, <2>4, <2>5, CallMoves DEF Untouched
<1> QED BY <1>2, <1>3, <1>4, <1>5 DEF StateAnswer, gone

LEMMA DestroyingStep ==
  ASSUME StoreInv, NEW r \in Calls, Destroying(r)
  PROVE  StoreInv'
<1> DEFINE c == call[r].of
<1>1. c \in Containers /\ row' = row /\ row \in Rows /\ StoreTypes /\ call[r].gone \in BOOLEAN
  BY DEF Destroying, StoreInv, AsksMade, StoreTypes, CallStates
<1>2. entry \in {c, None}
  BY DEF Destroying, StoreInv, AwaitedInStore, Awaits
<1>3. CASE cont[c].st = "ready" /\ Destroy(c) /\ AfterDestroy(r, call[r].gone)
  <2>1. call' \in [Calls -> CallStates] /\ OnlyMoves(r) /\ call'[r].at \in {"done", "row"}
    BY <1>1, <1>3, AfterDestroyTyped
  <2> HIDE DEF c
  <2> QED BY <1>1, <1>2, <1>3, <2>1, DestroyMoves
<1>4. CASE Returns(r, Failure) /\ UNCHANGED <<cont, entry, aliased>>
  <2>1. call' \in [Calls -> CallStates] /\ OnlyMoves(r) /\ call'[r].at = "done"
    BY <1>1, <1>4, ReturnsTyped
  <2> QED BY <1>1, <1>4, <2>1, CallMoves DEF Untouched
<1> QED BY <1>3, <1>4 DEF Destroying

(* While nothing settled is awaited and the store is empty, nothing is being made or awaited.  *)
LEMMA EmptyStore ==
  ASSUME StoreInv, ~Pending, entry = None
  PROVE  /\ \A c \in Containers : cont[c].st # "creating"
         /\ \A r \in Calls : ~Awaits(r)
<1>1. \A c \in Containers : cont[c].st # "creating"
  BY DEF StoreInv, OneCreated, StoreHoldsLive
<1>2. ASSUME NEW r \in Calls, Awaits(r) PROVE FALSE
  <2>1. call[r].of \in Containers /\ cont[call[r].of].st # "none"
    BY <1>2 DEF StoreInv, AsksMade, Awaits
  <2>2. cont[call[r].of].st \in {"ready", "failed"}
    BY <1>1, <2>1 DEF StoreInv, StoreTypes, ContainerStates
  <2> QED BY <1>2, <2>2 DEF Pending, Settled
<1> QED BY <1>1, <1>2

LEMMA FetchStep ==
  ASSUME StoreInv, ~Pending, NEW r \in Calls, NEW version \in 0..MaxVersion, NEW alias \in BOOLEAN,
         NEW seen \in CallStates, Fetch(r, version, alias, seen), row' = row
  PROVE  StoreInv'
<1>1. StoreTypes /\ row \in Rows
  BY DEF StoreInv, StoreTypes
<1>2. CASE /\ entry # None /\ UNCHANGED <<cont, entry, aliased>>
           /\ call' = [call EXCEPT ![r] = [seen EXCEPT !.at = "joining", !.of = entry]]
  <2> DEFINE new == [seen EXCEPT !.at = "joining", !.of = entry]
  <2>1. entry \in Containers
    BY <1>1, <1>2 DEF StoreTypes
  <2>2. new \in CallStates /\ new.at = "joining" /\ new.of = entry
    BY <2>1 DEF CallStates, Places
  <2>3. cont[entry].st # "none"
    BY <1>1, <1>2, <2>1 DEF StoreInv, StoreHoldsLive, StoreTypes, ContainerStates
  <2> HIDE DEF new
  <2>4. call' \in [Calls -> CallStates] /\ OnlyMoves(r) /\ call'[r] = new
    BY <1>1, <1>2, <2>2, CallTyped DEF new
  <2> QED BY <1>1, <1>2, <2>1, <2>2, <2>3, <2>4, CallMoves DEF Untouched
<1>3. CASE /\ entry = None /\ Creates(version, alias)
           /\ call' = [call EXCEPT ![r] = [seen EXCEPT !.at = "creating", !.of = NewContainer]]
  <2> DEFINE n == NewContainer
             made == [st |-> "creating", version |-> version, alias |-> alias, destroyed |-> 0]
             new == [seen EXCEPT !.at = "creating", !.of = n]
  <2>1. n \in Containers /\ cont[n] = Unmade
    BY <1>3 DEF Creates, NewContainer
  <2>2. cont' = [cont EXCEPT ![n] = made] /\ entry' = n /\ aliased' = aliased
    BY <1>3 DEF Creates
  <2> HIDE DEF n
  <2>3. new \in CallStates /\ new.at = "creating" /\ new.of = n
    BY <2>1 DEF CallStates, Places
  <2>4. made \in ContainerStates /\ made.st = "creating" /\ made.destroyed = 0
    BY DEF ContainerStates
  <2> HIDE DEF new, made
  <2>5. call' \in [Calls -> CallStates] /\ OnlyMoves(r) /\ call'[r] = new
    BY <1>1, <1>3, <2>3, CallTyped DEF new, n
  <2>6. cont' \in [Containers -> ContainerStates] /\ cont'[n] = made /\ \A d \in Containers : d # n => cont'[d] = cont[d]
    BY <1>1, <2>1, <2>2, <2>4 DEF StoreTypes
  <2>7. (\A c \in Containers : cont[c].st # "creating") /\ \A q \in Calls : ~Awaits(q)
    BY <1>3, EmptyStore
  <2>8. StoreTypes'
    BY <1>1, <2>1, <2>2, <2>5, <2>6 DEF StoreTypes
  <2>9. AsksMade'
    BY <2>1, <2>3, <2>4, <2>5, <2>6 DEF StoreInv, AsksMade, OnlyMoves
  <2>10. OneCreated'
    BY <2>1, <2>4, <2>6, <2>7 DEF OneCreated
  <2>11. AwaitedInStore'
    BY <2>2, <2>3, <2>5, <2>7 DEF AwaitedInStore, Awaits, OnlyMoves
  <2>12. StoreHoldsLive'
    <3>1. \A c \in Containers : ~(cont[c].st \in {"creating", "ready"} /\ cont[c].destroyed = 0)
      BY <1>3 DEF StoreInv, StoreHoldsLive
    <3> QED BY <2>1, <2>2, <2>4, <2>6, <3>1 DEF StoreHoldsLive
  <2> QED BY <2>8, <2>9, <2>10, <2>11, <2>12 DEF StoreInv
<1> QED BY <1>2, <1>3 DEF Fetch

LEMMA RowAnswerStep ==
  ASSUME StoreInv, NEW r \in Calls, RowAnswer(r)
  PROVE  StoreInv'
<1>1. StoreTypes /\ row' = row /\ row \in Rows /\ ~Pending
  BY DEF RowAnswer, StoreInv, StoreTypes
<1>2. CASE Fetch(r, call[r].seen.version, call[r].seen.alias, [call[r] EXCEPT !.seen = Blank.seen])
  <2>1. call[r].seen.version \in 0..MaxVersion /\ call[r].seen.alias \in BOOLEAN
    BY <1>1 DEF StoreTypes, CallStates, Rows
  <2>2. [call[r] EXCEPT !.seen = Blank.seen] \in CallStates
    BY <1>1, BlankTyped DEF StoreTypes, CallStates
  <2> QED BY <1>1, <1>2, <2>1, <2>2, FetchStep
<1>3. CASE Returns(r, None) /\ UNCHANGED <<cont, entry, aliased>>
  <2>1. call' \in [Calls -> CallStates] /\ OnlyMoves(r) /\ call'[r].at = "done"
    BY <1>1, <1>3, ReturnsTyped
  <2> QED BY <1>1, <1>3, <2>1, CallMoves DEF Untouched
<1> QED BY <1>2, <1>3 DEF RowAnswer

LEMMA CreateProjectStep ==
  ASSUME StoreInv, NEW r \in Calls, CreateProject(r)
  PROVE  StoreInv'
<1>1. PICK alias \in BOOLEAN :
        LET new == [exists |-> TRUE, version |-> row.version + 1, alias |-> alias]
        IN  Fetch(r, new.version, alias, [Blank EXCEPT !.creates = TRUE, !.seen = new])
  BY DEF CreateProject
<1> DEFINE new == [exists |-> TRUE, version |-> row.version + 1, alias |-> alias]
<1>2. row' = row /\ ~Pending /\ row.version < MaxVersion /\ row.version \in Nat
  BY DEF CreateProject, StoreInv, StoreTypes, Rows
<1>3. new \in Rows /\ new.version \in 0..MaxVersion
  BY <1>2 DEF Rows
<1>4. Fetch(r, new.version, alias, [Blank EXCEPT !.creates = TRUE, !.seen = new])
  BY <1>1
<1> HIDE DEF new
<1>5. [Blank EXCEPT !.creates = TRUE, !.seen = new] \in CallStates
  BY <1>3, BlankTyped DEF CallStates
<1> QED BY <1>2, <1>3, <1>4, <1>5, FetchStep

LEMMA InitializeStep ==
  ASSUME StoreInv, NEW c \in Containers, Initialize(c)
  PROVE  StoreInv'
<1>1. PICK st \in {"ready", "failed"} : cont' = [cont EXCEPT ![c].st = st]
  BY DEF Initialize
<1> DEFINE new == [cont[c] EXCEPT !.st = st]
<1>2. new \in ContainerStates /\ new.st = st /\ new.destroyed = cont[c].destroyed
  BY DEF StoreInv, StoreTypes, ContainerStates
<1>3. cont' = [cont EXCEPT ![c] = new]
  BY <1>1 DEF StoreInv, StoreTypes
<1>4. cont[c].st = "creating" /\ UNCHANGED <<row, entry, aliased, call>>
  BY DEF Initialize
<1> HIDE DEF new
<1>5. cont' \in [Containers -> ContainerStates] /\ cont'[c] = new /\ \A d \in Containers : d # c => cont'[d] = cont[d]
  BY <1>2, <1>3 DEF StoreInv, StoreTypes
<1>6. StoreTypes'
  BY <1>4, <1>5 DEF StoreInv, StoreTypes
<1>7. AsksMade'
  BY <1>2, <1>4, <1>5 DEF StoreInv, AsksMade
<1>8. OneCreated'
  BY <1>2, <1>4, <1>5 DEF StoreInv, OneCreated
<1>9. AwaitedInStore'
  BY <1>4 DEF StoreInv, AwaitedInStore, Awaits
<1>10. StoreHoldsLive'
  BY <1>2, <1>4, <1>5 DEF StoreInv, StoreHoldsLive, OneCreated
<1> QED BY <1>6, <1>7, <1>8, <1>9, <1>10 DEF StoreInv

(* The promise of fetch: a ready container stays, a failed one leaves the store if it is there. *)
LEMMA FetchedStep ==
  ASSUME StoreInv, NEW r \in Calls, Fetched(r)
  PROVE  StoreInv'
<1> DEFINE c == call[r].of
<1>1. StoreTypes /\ c \in Containers /\ row' = row /\ row \in Rows /\ cont' = cont /\ call[r].at \in {"creating", "joining"}
  BY DEF Fetched, StoreInv, AsksMade, StoreTypes
<1>2. entry \in {c, None} /\ cont[c].st # "none"
  BY <1>1 DEF StoreInv, AwaitedInStore, Awaits, AsksMade
<1>3. /\ call' \in [Calls -> CallStates] /\ OnlyMoves(r) /\ call'[r].at \in {"commit", "done"}
      /\ entry' = entry \/ (entry' = None /\ cont[c].st = "failed")
      /\ aliased' \in BOOLEAN
  <2>1. CASE /\ cont[c].st = "ready" /\ UNCHANGED entry /\ SetAlias(r)
             /\ IF call[r].creates THEN Goes(r, "commit", c) ELSE Returns(r, c)
    <3>1. entry' = entry /\ aliased' \in BOOLEAN
      BY <2>1 DEF SetAlias
    <3>2. CASE call[r].creates
      BY <1>1, <2>1, <3>1, <3>2, GoesTyped DEF Places
    <3>3. CASE ~call[r].creates
      BY <1>1, <2>1, <3>1, <3>3, ReturnsTyped
    <3> QED BY <3>2, <3>3
  <2>2. CASE /\ cont[c].st = "failed" /\ UNCHANGED aliased
             /\ Returns(r, Failure) /\ entry' = IF call[r].at = "creating" THEN None ELSE entry
    <3>1. call' \in [Calls -> CallStates] /\ OnlyMoves(r) /\ call'[r].at = "done"
      BY <1>1, <2>2, ReturnsTyped
    <3> QED BY <1>1, <2>2, <3>1 DEF StoreTypes
  <2> QED BY <2>1, <2>2 DEF Fetched
<1> HIDE DEF c
<1>4. StoreTypes'
  BY <1>1, <1>3 DEF StoreTypes
<1>5. AsksMade'
  BY <1>1, <1>3 DEF StoreInv, AsksMade, OnlyMoves
<1>6. OneCreated'
  BY <1>1 DEF StoreInv, OneCreated
<1>7. AwaitedInStore'
  BY <1>3 DEF StoreInv, AwaitedInStore, Awaits, OnlyMoves
<1>8. StoreHoldsLive'
  BY <1>1, <1>2, <1>3 DEF StoreInv, StoreHoldsLive
<1> QED BY <1>4, <1>5, <1>6, <1>7, <1>8 DEF StoreInv

(* A change of the row is remembered by the calls, and moves none of them but one that ends.   *)
LEMMA RowChanges ==
  ASSUME StoreInv, Untouched, row' \in Rows,
         call' = Noticed \/ \E r \in Calls : call' = [Noticed EXCEPT ![r].at = "done"]
  PROVE  StoreInv'
<1>1. Noticed \in [Calls -> CallStates] /\ \A q \in Calls : Noticed[q].at = call[q].at /\ Noticed[q].of = call[q].of
  <2> SUFFICES ASSUME NEW q \in Calls
               PROVE  Noticed[q] \in CallStates /\ Noticed[q].at = call[q].at /\ Noticed[q].of = call[q].of
    BY DEF Noticed
  <2>1. call[q] \in CallStates
    BY DEF StoreInv, StoreTypes
  <2>2. ASSUME NEW b \in BOOLEAN PROVE [call[q] EXCEPT !.absent = b] \in CallStates
    BY <2>1 DEF CallStates
  <2>3. (call[q].absent \/ ~row'.exists) \in BOOLEAN
    OBVIOUS
  <2>4. [call[q] EXCEPT !.absent = @ \/ ~row'.exists] \in CallStates
    BY <2>2, <2>3
  <2> QED BY <2>1, <2>4 DEF Noticed, CallStates
<1>2. /\ call' \in [Calls -> CallStates]
      /\ \A q \in Calls : call'[q].of = call[q].of /\ (call'[q].at = call[q].at \/ call'[q].at = "done")
  <2>1. ASSUME NEW r \in Calls, call' = [Noticed EXCEPT ![r].at = "done"] PROVE <1>2
    <3> DEFINE new == [Noticed[r] EXCEPT !.at = "done"]
    <3>1. new \in CallStates /\ new.at = "done" /\ new.of = Noticed[r].of
      BY <1>1 DEF CallStates, Places
    <3>2. call' = [Noticed EXCEPT ![r] = new]
      BY <1>1, <2>1
    <3> HIDE DEF new
    <3> QED BY <1>1, <3>1, <3>2
  <2> QED BY <1>1, <2>1
<1>3. StoreTypes' /\ OneCreated' /\ StoreHoldsLive'
  BY <1>2 DEF StoreInv, StoreTypes, OneCreated, StoreHoldsLive, Untouched
<1>4. AsksMade' /\ AwaitedInStore'
  BY <1>2 DEF StoreInv, AsksMade, AwaitedInStore, Awaits, Untouched
<1> QED BY <1>3, <1>4 DEF StoreInv

LEMMA RowSteps ==
  ASSUME StoreInv, UpdateProject \/ DeleteProject \/ \E r \in Calls : Commit(r)
  PROVE  StoreInv'
<1>1. StoreTypes /\ row \in Rows
  BY DEF StoreInv, StoreTypes
<1>2. CASE UpdateProject
  <2>1. PICK alias \in BOOLEAN : RowBecomes([row EXCEPT !.version = @ + 1, !.alias = alias])
    BY <1>2 DEF UpdateProject
  <2>2. row' \in Rows
    <3>0. row.version < MaxVersion
      BY <1>2 DEF UpdateProject
    <3>1. row.version \in Nat /\ row.version + 1 \in 0..MaxVersion
      BY <1>1, <3>0 DEF Rows
    <3>2. ASSUME NEW v \in 0..MaxVersion PROVE [row EXCEPT !.version = v, !.alias = alias] \in Rows
      BY <1>1 DEF Rows
    <3>3. row' = [row EXCEPT !.version = row.version + 1, !.alias = alias]
      BY <1>1, <2>1 DEF RowBecomes, Rows
    <3> QED BY <3>1, <3>2, <3>3
  <2> QED BY <1>2, <2>1, <2>2, RowChanges DEF UpdateProject, RowBecomes, Untouched
<1>3. CASE DeleteProject
  <2>1. row' \in Rows
    BY <1>1, <1>3 DEF DeleteProject, RowBecomes, Rows
  <2> QED BY <1>3, <2>1, RowChanges DEF DeleteProject, RowBecomes, Untouched
<1>4. ASSUME NEW r \in Calls, Commit(r) PROVE StoreInv'
  <2>1. CASE RowBecomes(call[r].seen) /\ call' = [Noticed EXCEPT ![r].at = "done"]
    <3>1. row' \in Rows
      BY <1>1, <2>1 DEF StoreTypes, CallStates, RowBecomes
    <3> QED BY <2>1, <3>1, RowChanges DEF RowBecomes, Untouched
  <2>2. CASE Returns(r, Failure) /\ UNCHANGED <<row, cont, entry, aliased>>
    <3>1. call' \in [Calls -> CallStates] /\ OnlyMoves(r) /\ call'[r].at = "done"
      BY <1>1, <2>2, ReturnsTyped
    <3> QED BY <1>1, <2>2, <3>1, CallMoves DEF Untouched
  <2> QED BY <1>4, <2>1, <2>2 DEF Commit
<1> QED BY <1>2, <1>3, <1>4

LEMMA StoreStep == StoreInv /\ [ContainersNext]_containerVars => StoreInv'
<1> SUFFICES ASSUME StoreInv, [ContainersNext]_containerVars PROVE StoreInv'
  OBVIOUS
<1>1. CASE \E r \in Calls, s \in Slugs, byAlias \in BOOLEAN : Get(r, s, byAlias)
  BY <1>1, GetStep
<1>2. ASSUME NEW r \in Calls, CallStep(r) PROVE StoreInv'
  <2>1. CASE Continues(r)
    BY <2>1, FoundStep, DestroyingStep, FetchedStep DEF Continues
  <2>2. CASE StateReads(r)
    BY <2>2, ReadsStep DEF StateReads
  <2>3. CASE RowReads(r)
    BY <2>3, ReadsStep DEF RowReads
  <2>4. CASE StateAnswer(r) \/ RowAnswer(r) \/ Commit(r)
    BY <2>4, StateAnswerStep, RowAnswerStep, RowSteps
  <2> QED BY <1>2, <2>1, <2>2, <2>3, <2>4 DEF CallStep, Answers
<1>3. CASE \E r \in Calls : CreateProject(r)
  BY <1>3, CreateProjectStep
<1>4. CASE \E c \in Containers : Initialize(c)
  BY <1>4, InitializeStep
<1>5. CASE UpdateProject \/ DeleteProject
  BY <1>5, RowSteps
<1>6. CASE UNCHANGED containerVars
  BY <1>6 DEF containerVars, StoreInv, StoreTypes, AsksMade, OneCreated, AwaitedInStore, Awaits, StoreHoldsLive
<1> QED BY <1>1, <1>2, <1>3, <1>4, <1>5, <1>6 DEF ContainersNext

(* For any number of calls and containers: the types, the containers that are asked about or    *)
(* awaited were made, and one at most is being made (ProjectContainerResolver.ts, PromiseMap.ts). *)
THEOREM ContainersTypeCorrect == ContainersSpec => []ContainersTypeOK
<1>1. StoreInv => ContainersTypeOK
  BY DEF StoreInv, StoreTypes, AsksMade, OneCreated, ContainersTypeOK
<1> QED BY <1>1, StoreInit, StoreStep, PTL DEF ContainersSpec

(* For any number of calls and containers, and every race of lookups, creations, updates and   *)
(* destructions: the container in the store is the one that is alive, every other one was      *)
(* destroyed or failed (ProjectContainerResolver.ts:74-82).                                    *)
THEOREM StoreHoldsLiveCorrect == ContainersSpec => []StoreHoldsLive
<1>1. StoreInv => StoreHoldsLive
  BY DEF StoreInv
<1> QED BY <1>1, StoreInit, StoreStep, PTL DEF ContainersSpec
-----------------------------------------------------------------------------
(* What the history of a call says of it. One createProject at a time is under way, and the   *)
(* project is not there until it commits.                                                     *)
Creator(r) ==
  /\ call[r].at = "idle" => ~call[r].creates
  /\ call[r].at = "commit" => call[r].creates /\ call[r].of # None
  /\ call[r].creates =>
       /\ call[r].at \in {"creating", "joining", "commit", "done"} /\ call[r].avoid = None
       /\ call[r].at # "done" => ~row.exists /\ row.version < call[r].seen.version
       /\ call[r].at = "done" => call[r].of # None
OneCreator ==
  \A q, r \in Calls :
    call[q].creates /\ call[q].at # "done" /\ call[r].creates /\ call[r].at # "done" => q = r

(* What a call knows of the absence of the project, it was absent. *)
KnowsAbsent(r) ==
  /\ call[r].at # "idle" /\ ~call[r].creates /\ ~row.exists => call[r].absent
  /\ call[r].at \in {"stateRead", "rowRead"} /\ ~call[r].seen.exists => call[r].absent
  /\ call[r].at = "destroying" /\ call[r].gone => call[r].absent
  /\ call[r].at = "done" /\ call[r].of = None /\ call[r].slug = "slug" => call[r].absent

(* The container to avoid is older than the project, and destroyed before the call goes on.   *)
Avoids(r) ==
  LET k == call[r]
      a == k.avoid
  IN  k.slug = "slug" /\ a # None =>
        /\ cont[a].st = "ready" /\ cont[a].version < row.version
        /\ k.at \in {"state", "stateRead", "destroying", "row", "rowRead", "creating", "joining", "done"}
        /\ k.at = "stateRead" /\ k.seen.exists => cont[a].version < k.seen.version
        /\ k.at \in {"destroying", "row", "rowRead", "creating", "joining"} => cont[a].destroyed > 0
        /\ k.at \in {"creating", "joining", "done"} => k.of # a

Remembers(r) == Creator(r) /\ KnowsAbsent(r) /\ Avoids(r)
History == OneCreator /\ \A r \in Calls : Remembers(r)

LEMMA HistoryInit == ContainersInit => History
<1> SUFFICES ASSUME ContainersInit PROVE History
  OBVIOUS
<1>1. \A r \in Calls : call[r].at = "idle" /\ call[r].avoid = None /\ call[r].creates = FALSE
  BY DEF ContainersInit, Blank
<1> QED BY <1>1 DEF History, OneCreator, Remembers, Creator, KnowsAbsent, Avoids

(* The other calls remember what they did. *)
LEMMA OtherRemembers ==
  ASSUME StoreInv, NEW q \in Calls, Remembers(q), call'[q] = call[q], row' = row, ContainersKept
  PROVE  Remembers(q)'
<1>1. Creator(q)'
  BY DEF Remembers, Creator
<1>2. KnowsAbsent(q)'
  BY DEF Remembers, KnowsAbsent
<1>3. Avoids(q)'
  <2>1. call[q].avoid \in Containers \cup {None}
    BY DEF StoreInv, StoreTypes, CallStates
  <2> QED BY <2>1 DEF Remembers, Avoids, ContainersKept
<1> QED BY <1>1, <1>2, <1>3 DEF Remembers

(* A call makes a step and remembers. *)
LEMMA RemembersMoves ==
  ASSUME StoreInv, History, NEW r \in Calls, OnlyMoves(r), row' = row, ContainersKept, Remembers(r)',
         call'[r].creates /\ call'[r].at # "done" => call[r].creates /\ call[r].at # "done"
  PROVE  History'
<1>1. \A q \in Calls : Remembers(q)'
  BY OtherRemembers DEF History, OnlyMoves
<1>2. OneCreator'
  BY DEF History, OneCreator, OnlyMoves
<1> QED BY <1>1, <1>2 DEF History

LEMMA UntouchedKept == StoreInv /\ UNCHANGED cont => ContainersKept
  BY DEF ContainersKept, StoreInv, StoreTypes, ContainerStates

(* A call that returns a container, undefined or a failure. *)
LEMMA ReturnsRemembers ==
  ASSUME StoreInv, History, NEW r \in Calls, NEW of \in Containers \cup {None, Failure}, Returns(r, of),
         row' = row, UNCHANGED cont, call[r].at \notin {"idle", "done"},
         call[r].creates => of # None,
         of = None /\ call[r].slug = "slug" => call[r].absent,
         call[r].slug = "slug" /\ call[r].avoid # None => of # call[r].avoid
  PROVE  History'
<1>1. /\ OnlyMoves(r) /\ call'[r].at = "done" /\ call'[r].of = of /\ SameCall(r)
  BY ReturnsTyped DEF StoreInv
<1>2. Creator(r)'
  BY <1>1 DEF History, Remembers, Creator, SameCall
<1>3. KnowsAbsent(r)'
  BY <1>1 DEF History, Remembers, KnowsAbsent, SameCall
<1>4. Avoids(r)'
  BY <1>1 DEF History, Remembers, Avoids, SameCall
<1> QED BY <1>1, <1>2, <1>3, <1>4, RemembersMoves, UntouchedKept DEF Remembers

LEMMA GetRemembers ==
  ASSUME StoreInv, History, NEW r \in Calls, NEW s \in Slugs, NEW byAlias \in BOOLEAN, Get(r, s, byAlias)
  PROVE  History'
<1> DEFINE slug == IF s = "alias" /\ aliased THEN "slug" ELSE s
           avoid == IF Outdated(entry) THEN entry ELSE None
           started == [Blank EXCEPT !.slug = slug, !.byAlias = byAlias, !.absent = ~row.exists,
                               !.avoid = avoid]
           new == IF slug = "slug" /\ entry # None
                  THEN [started EXCEPT !.at = IF cont[entry].st = "ready" THEN "state" ELSE "found", !.of = entry]
                  ELSE [started EXCEPT !.at = "row"]
<1>1. call' = [call EXCEPT ![r] = new] /\ Untouched /\ row' = row
  BY DEF Get, Untouched
<1>2. call'[r] = new /\ OnlyMoves(r)
  BY <1>1 DEF OnlyMoves, StoreInv, StoreTypes
<1>3. /\ new.creates = FALSE /\ new.slug = slug /\ new.avoid = avoid /\ (new.absent <=> ~row.exists)
      /\ new.at \in {"state", "found", "row"}
  BY DEF Blank
<1>4. slug = "slug" /\ avoid # None => new.at = "state"
  BY DEF Blank, Outdated
<1>5. avoid # None => cont[avoid].st = "ready" /\ cont[avoid].version < row.version
  BY DEF Outdated
<1> HIDE DEF new, avoid, slug
<1>6. Creator(r)'
  BY <1>2, <1>3 DEF Creator
<1>7. KnowsAbsent(r)'
  BY <1>1, <1>2, <1>3 DEF KnowsAbsent
<1>8. Avoids(r)'
  BY <1>1, <1>2, <1>3, <1>4, <1>5 DEF Avoids, Untouched
<1> QED BY <1>1, <1>2, <1>3, <1>6, <1>7, <1>8, RemembersMoves, UntouchedKept DEF Remembers, Untouched

LEMMA FoundRemembers ==
  ASSUME StoreInv, History, NEW r \in Calls, Found(r)
  PROVE  History'
<1> DEFINE c == call[r].of
<1>1. /\ call[r].at = "found" /\ row' = row /\ UNCHANGED cont /\ c \in Containers
      /\ Creator(r) /\ KnowsAbsent(r) /\ Avoids(r)
  BY DEF Found, StoreInv, AsksMade, History, Remembers
<1>2. ~call[r].creates /\ ~(call[r].slug = "slug" /\ call[r].avoid # None)
  BY <1>1 DEF Creator, Avoids
<1>3. CASE Goes(r, "state", c)
  <2>1. OnlyMoves(r) /\ call'[r].at = "state" /\ SameCall(r)
    BY <1>1, <1>3, GoesTyped DEF StoreInv, Places
  <2>2. Creator(r)' /\ Avoids(r)'
    BY <1>2, <2>1 DEF Creator, Avoids, SameCall
  <2>3. KnowsAbsent(r)'
    BY <1>1, <2>1 DEF KnowsAbsent, SameCall
  <2> QED BY <1>1, <1>2, <2>1, <2>2, <2>3, RemembersMoves, UntouchedKept DEF Remembers, SameCall
<1>4. CASE Returns(r, Failure)
  BY <1>1, <1>2, <1>4, ReturnsRemembers
<1> QED BY <1>3, <1>4 DEF Found, AskState

LEMMA ReadsRemembers ==
  ASSUME StoreInv, History, NEW r \in Calls, NEW from, NEW to, Reads(r, from, to),
         <<from, to>> \in {<<"state", "stateRead">>, <<"row", "rowRead">>}
  PROVE  History'
<1> DEFINE new == [call[r] EXCEPT !.at = to, !.seen = row]
<1>1. /\ call[r] \in CallStates /\ call[r].at = from /\ Creator(r) /\ KnowsAbsent(r) /\ Avoids(r)
      /\ row' = row /\ UNCHANGED cont
  BY DEF StoreInv, StoreTypes, Reads, History, Remembers
<1>2. /\ new.at = to /\ new.seen = row /\ new.slug = call[r].slug /\ new.avoid = call[r].avoid
      /\ new.absent = call[r].absent /\ new.creates = call[r].creates
  BY <1>1 DEF CallStates
<1>3. call'[r] = new /\ OnlyMoves(r)
  BY DEF Reads, OnlyMoves, StoreInv, StoreTypes
<1> HIDE DEF new
<1>4. ~call[r].creates
  BY <1>1 DEF Creator
<1>5. Creator(r)'
  BY <1>1, <1>2, <1>3, <1>4 DEF Creator
<1>6. KnowsAbsent(r)'
  BY <1>1, <1>2, <1>3, <1>4 DEF KnowsAbsent
<1>7. Avoids(r)'
  BY <1>1, <1>2, <1>3 DEF Avoids
<1> QED BY <1>1, <1>2, <1>3, <1>4, <1>5, <1>6, <1>7, RemembersMoves, UntouchedKept DEF Remembers

(* A call goes on after destroyContainer; the container it avoids is destroyed by then.        *)
LEMMA AfterDestroyRemembers ==
  ASSUME StoreInv, History, NEW r \in Calls, NEW gone \in BOOLEAN, AfterDestroy(r, gone), row' = row,
         ContainersKept, call[r].at \in {"stateRead", "destroying"}, gone => call[r].absent,
         call[r].slug = "slug" /\ call[r].avoid # None => cont'[call[r].avoid].destroyed > 0
  PROVE  History'
<1>1. /\ OnlyMoves(r) /\ call'[r].at = IF gone THEN "done" ELSE "row"
      /\ call'[r].of = None /\ SameCall(r)
  BY AfterDestroyTyped DEF StoreInv
<1>2. Creator(r) /\ KnowsAbsent(r) /\ Avoids(r) /\ call[r].avoid \in Containers \cup {None}
  BY DEF History, Remembers, StoreInv, StoreTypes, CallStates
<1>3. ~call[r].creates
  BY <1>2 DEF Creator
<1>4. Creator(r)'
  BY <1>1, <1>3 DEF Creator, SameCall
<1>5. KnowsAbsent(r)'
  BY <1>1, <1>2, <1>3 DEF KnowsAbsent, SameCall
<1>6. Avoids(r)'
  BY <1>1, <1>2 DEF Avoids, SameCall, ContainersKept
<1> QED BY <1>1, <1>3, <1>4, <1>5, <1>6, RemembersMoves DEF Remembers, SameCall

LEMMA StateAnswerRemembers ==
  ASSUME StoreInv, History, NEW r \in Calls, StateAnswer(r)
  PROVE  History'
<1> DEFINE gone == ~call[r].seen.exists
           a == call[r].avoid
           old == call[r].slug = "slug" /\ a # None
<1>1. /\ gone \in BOOLEAN /\ row' = row /\ call[r].at = "stateRead" /\ a \in Containers \cup {None}
      /\ Creator(r) /\ KnowsAbsent(r) /\ Avoids(r) /\ call[r].of \in Containers
  BY DEF StateAnswer, StoreInv, AsksMade, StoreTypes, CallStates, Rows, History, Remembers
<1>2. ~call[r].creates /\ (gone => call[r].absent) /\ (old => cont[a].st = "ready")
      /\ (old /\ ~gone => cont[a].version < call[r].seen.version)
  BY <1>1 DEF Creator, KnowsAbsent, Avoids
<1>3. CASE Valid(r) /\ Returns(r, call[r].of) /\ UNCHANGED <<cont, entry, aliased>>
  <2>1. old => call[r].of # a
    <3>1. cont[call[r].of].version \in Nat /\ call[r].seen.version \in Nat
      BY <1>1 DEF StoreInv, StoreTypes, ContainerStates, CallStates, Rows
    <3>2. a \in Containers => cont[a].version \in Nat
      BY DEF StoreInv, StoreTypes, ContainerStates
    <3> QED BY <1>1, <1>2, <1>3, <3>1, <3>2 DEF Valid
  <2> QED BY <1>1, <1>2, <1>3, <2>1, ReturnsRemembers
<1>4. ASSUME old, a # entry PROVE cont[a].destroyed > 0
  <2>1. a \in Containers
    BY <1>1, <1>4
  <2>2. cont[a].destroyed # 0
    BY <1>2, <1>4, <2>1 DEF StoreInv, StoreHoldsLive
  <2>3. cont[a].destroyed \in Nat
    BY <2>1 DEF StoreInv, StoreTypes, ContainerStates
  <2> HIDE DEF a
  <2> QED BY <2>2, <2>3
<1> HIDE DEF gone, old
<1>5. CASE entry = None /\ AfterDestroy(r, gone) /\ UNCHANGED <<cont, entry, aliased>>
  BY <1>1, <1>2, <1>4, <1>5, AfterDestroyRemembers, UntouchedKept DEF old
<1>6. CASE entry # None /\ Destroy(entry) /\ AfterDestroy(r, gone)
  <2>1. entry \in Containers
    BY <1>6 DEF StoreInv, StoreTypes
  <2>2. /\ ContainersKept /\ cont'[entry].destroyed = cont[entry].destroyed + 1 /\ cont[entry].destroyed \in Nat
        /\ \A d \in Containers : d # entry => cont'[d] = cont[d]
    BY <1>6, <2>1, DestroyEffect
  <2>3. cont'[entry].destroyed > 0
    BY <2>2
  <2>4. old => cont'[a].destroyed > 0
    BY <1>1, <1>4, <2>2, <2>3 DEF old
  <2> QED BY <1>1, <1>2, <1>6, <2>2, <2>4, AfterDestroyRemembers DEF old
<1>7. CASE /\ entry # None /\ cont[entry].st # "ready"
           /\ call' = [call EXCEPT ![r].at = "destroying", ![r].of = entry, ![r].gone = gone, ![r].seen = Blank.seen]
           /\ UNCHANGED <<cont, entry, aliased>>
  <2> DEFINE new == [call[r] EXCEPT !.at = "destroying", !.of = entry, !.gone = gone, !.seen = Blank.seen]
  <2>1. /\ new.at = "destroying" /\ new.gone = gone /\ new.slug = call[r].slug /\ new.avoid = a
        /\ new.absent = call[r].absent /\ new.creates = call[r].creates
    BY DEF StoreInv, StoreTypes, CallStates
  <2>2. call'[r] = new /\ OnlyMoves(r)
    BY <1>7 DEF OnlyMoves, StoreInv, StoreTypes
  <2> HIDE DEF new
  <2>3. Creator(r)'
    BY <1>2, <2>1, <2>2 DEF Creator
  <2>4. KnowsAbsent(r)'
    BY <1>1, <1>2, <2>1, <2>2 DEF KnowsAbsent
  <2>5. old => cont[a].destroyed > 0
    BY <1>2, <1>4, <1>7
  <2>6. Avoids(r)'
    BY <1>1, <1>2, <1>7, <2>1, <2>2, <2>5 DEF Avoids, old
  <2> QED BY <1>1, <1>2, <1>7, <2>1, <2>2, <2>3, <2>4, <2>6, RemembersMoves, UntouchedKept DEF Remembers
<1> QED BY <1>3, <1>5, <1>6, <1>7 DEF StateAnswer, gone

LEMMA DestroyingRemembers ==
  ASSUME StoreInv, History, NEW r \in Calls, Destroying(r)
  PROVE  History'
<1> DEFINE c == call[r].of
           a == call[r].avoid
<1>1. /\ c \in Containers /\ row' = row /\ call[r].gone \in BOOLEAN /\ call[r].at = "destroying"
      /\ a \in Containers \cup {None} /\ Creator(r) /\ KnowsAbsent(r) /\ Avoids(r)
  BY DEF Destroying, StoreInv, AsksMade, StoreTypes, CallStates, History, Remembers
<1>2. ~call[r].creates /\ (call[r].gone => call[r].absent)
      /\ (call[r].slug = "slug" /\ a # None => cont[a].st = "ready" /\ cont[a].destroyed > 0)
  BY <1>1 DEF Creator, KnowsAbsent, Avoids
<1>3. CASE Destroy(c) /\ AfterDestroy(r, call[r].gone)
  <2>1. ContainersKept
    BY <1>1, <1>3, DestroyEffect
  <2>2. call[r].slug = "slug" /\ a # None => cont'[a].destroyed > 0
    BY <1>1, <1>2, <2>1 DEF ContainersKept
  <2> QED BY <1>1, <1>2, <1>3, <2>1, <2>2, AfterDestroyRemembers
<1>4. CASE Returns(r, Failure) /\ UNCHANGED <<cont, entry, aliased>>
  BY <1>1, <1>2, <1>4, ReturnsRemembers
<1> QED BY <1>3, <1>4 DEF Destroying

(* What is joined or made was not destroyed. *)
LEMMA FetchEffect ==
  ASSUME StoreInv, NEW r \in Calls, NEW version \in 0..MaxVersion, NEW alias \in BOOLEAN, NEW seen \in CallStates,
         Fetch(r, version, alias, seen)
  PROVE  /\ OnlyMoves(r) /\ ContainersKept /\ call'[r].at \in {"creating", "joining"} /\ call'[r].of \in Containers
         /\ \A a \in Containers : cont[a].st = "ready" /\ cont[a].destroyed > 0 => call'[r].of # a
         /\ call'[r].slug = seen.slug /\ call'[r].avoid = seen.avoid /\ call'[r].seen = seen.seen
         /\ call'[r].absent = seen.absent /\ call'[r].creates = seen.creates
<1>1. ASSUME NEW at, NEW of PROVE
        LET new == [seen EXCEPT !.at = at, !.of = of]
        IN  /\ new.at = at /\ new.of = of /\ new.slug = seen.slug /\ new.avoid = seen.avoid /\ new.seen = seen.seen
            /\ new.absent = seen.absent /\ new.creates = seen.creates
  BY DEF CallStates
<1>2. CASE /\ entry # None /\ UNCHANGED <<cont, entry, aliased>>
           /\ call' = [call EXCEPT ![r] = [seen EXCEPT !.at = "joining", !.of = entry]]
  <2> DEFINE new == [seen EXCEPT !.at = "joining", !.of = entry]
  <2>1. call'[r] = new /\ OnlyMoves(r)
    BY <1>2 DEF StoreInv, StoreTypes, OnlyMoves
  <2>2. entry \in Containers /\ ContainersKept
    BY <1>2, UntouchedKept DEF StoreInv, StoreTypes
  <2>3. \A a \in Containers : cont[a].st = "ready" /\ cont[a].destroyed > 0 => entry # a
    BY DEF StoreInv, StoreHoldsLive
  <2> HIDE DEF new
  <2>4. /\ new.at = "joining" /\ new.of = entry /\ new.slug = seen.slug /\ new.avoid = seen.avoid /\ new.seen = seen.seen
        /\ new.absent = seen.absent /\ new.creates = seen.creates
    BY <1>1 DEF new
  <2> QED BY <2>1, <2>2, <2>3, <2>4
<1>3. CASE /\ Creates(version, alias)
           /\ call' = [call EXCEPT ![r] = [seen EXCEPT !.at = "creating", !.of = NewContainer]]
  <2> DEFINE n == NewContainer
             made == [st |-> "creating", version |-> version, alias |-> alias, destroyed |-> 0]
             new == [seen EXCEPT !.at = "creating", !.of = n]
  <2>1. n \in Containers /\ cont[n] = Unmade
    BY <1>3 DEF Creates, NewContainer
  <2>2. cont[n].st = "none"
    BY <2>1 DEF Unmade
  <2>3. cont' = [cont EXCEPT ![n] = made]
    BY <1>3 DEF Creates
  <2> HIDE DEF n, made
  <2>4. ContainersKept
    BY <2>1, <2>2, <2>3 DEF ContainersKept, StoreInv, StoreTypes, ContainerStates
  <2>5. call'[r] = new /\ OnlyMoves(r)
    BY <1>3 DEF StoreInv, StoreTypes, OnlyMoves, n
  <2> HIDE DEF new
  <2>6. /\ new.at = "creating" /\ new.of = n /\ new.slug = seen.slug /\ new.avoid = seen.avoid /\ new.seen = seen.seen
        /\ new.absent = seen.absent /\ new.creates = seen.creates
    BY <1>1 DEF new
  <2> QED BY <2>1, <2>2, <2>4, <2>5, <2>6
<1> QED BY <1>2, <1>3 DEF Fetch

LEMMA RowAnswerRemembers ==
  ASSUME StoreInv, History, NEW r \in Calls, RowAnswer(r)
  PROVE  History'
<1> DEFINE a == call[r].avoid
<1>1. /\ row' = row /\ call[r].at = "rowRead" /\ a \in Containers \cup {None} /\ call[r] \in CallStates
      /\ Creator(r) /\ KnowsAbsent(r) /\ Avoids(r)
  BY DEF RowAnswer, StoreInv, StoreTypes, CallStates, History, Remembers
<1>2. /\ ~call[r].creates
      /\ call[r].slug = "slug" /\ a # None =>
           cont[a].st = "ready" /\ cont[a].destroyed > 0 /\ cont[a].version < row.version
  BY <1>1 DEF Creator, Avoids
<1>3. CASE Fetch(r, call[r].seen.version, call[r].seen.alias, [call[r] EXCEPT !.seen = Blank.seen])
  <2> DEFINE seen == [call[r] EXCEPT !.seen = Blank.seen]
  <2>1. call[r].seen.version \in 0..MaxVersion /\ call[r].seen.alias \in BOOLEAN
    BY <1>1 DEF CallStates, Rows
  <2>2. seen \in CallStates /\ seen.slug = call[r].slug /\ seen.avoid = a /\ seen.absent = call[r].absent
        /\ seen.creates = call[r].creates
    BY <1>1, BlankTyped DEF CallStates
  <2> DEFINE version == call[r].seen.version
             alias == call[r].seen.alias
  <2>0. Fetch(r, version, alias, seen)
    BY <1>3
  <2> HIDE DEF seen, version, alias
  <2>3. /\ OnlyMoves(r) /\ ContainersKept /\ call'[r].at \in {"creating", "joining"} /\ call'[r].of \in Containers
        /\ \A d \in Containers : cont[d].st = "ready" /\ cont[d].destroyed > 0 => call'[r].of # d
        /\ call'[r].slug = call[r].slug /\ call'[r].avoid = a
        /\ call'[r].absent = call[r].absent /\ call'[r].creates = call[r].creates
    <3>1. version \in 0..MaxVersion /\ alias \in BOOLEAN
      BY <2>1 DEF version, alias
    <3> QED BY <2>0, <2>2, <3>1, FetchEffect
  <2>4. Creator(r)'
    BY <1>2, <2>3 DEF Creator
  <2>5. KnowsAbsent(r)'
    BY <1>1, <2>3 DEF KnowsAbsent
  <2>6. Avoids(r)'
    BY <1>1, <1>2, <2>3 DEF Avoids, ContainersKept
  <2> QED BY <1>1, <1>2, <2>3, <2>4, <2>5, <2>6, RemembersMoves DEF Remembers
<1>4. CASE ~Matches(r) /\ Returns(r, None) /\ UNCHANGED <<cont, entry, aliased>>
  <2>1. call[r].slug = "slug" => call[r].absent
    BY <1>1, <1>4 DEF Matches, KnowsAbsent
  <2> QED BY <1>1, <1>2, <1>4, <2>1, ReturnsRemembers
<1> QED BY <1>3, <1>4 DEF RowAnswer

LEMMA CreateProjectRemembers ==
  ASSUME StoreInv, History, NEW r \in Calls, CreateProject(r)
  PROVE  History'
<1>1. PICK alias \in BOOLEAN :
        LET new == [exists |-> TRUE, version |-> row.version + 1, alias |-> alias]
        IN  Fetch(r, new.version, alias, [Blank EXCEPT !.creates = TRUE, !.seen = new])
  BY DEF CreateProject
<1> DEFINE new == [exists |-> TRUE, version |-> row.version + 1, alias |-> alias]
           seen == [Blank EXCEPT !.creates = TRUE, !.seen = new]
<1>2. /\ row' = row /\ row.version < MaxVersion /\ row.version \in Nat /\ ~row.exists
      /\ \A q \in Calls : call[q].creates => call[q].at = "done"
  BY DEF CreateProject, StoreInv, StoreTypes, Rows
<1>3. new \in Rows /\ new.version \in 0..MaxVersion /\ new.version > row.version
  BY <1>2 DEF Rows
<1>4. Fetch(r, new.version, alias, seen)
  BY <1>1
<1> HIDE DEF new
<1>5. seen \in CallStates /\ seen.creates = TRUE /\ seen.avoid = None /\ seen.seen = new
  BY <1>3, BlankTyped DEF CallStates, Blank
<1> HIDE DEF seen
<1>6. /\ OnlyMoves(r) /\ ContainersKept /\ call'[r].at \in {"creating", "joining"}
      /\ call'[r].avoid = None /\ call'[r].creates = TRUE /\ call'[r].seen = new
  BY <1>3, <1>4, <1>5, FetchEffect
<1>7. Remembers(r)'
  BY <1>2, <1>3, <1>6 DEF Remembers, Creator, KnowsAbsent, Avoids
<1>8. \A q \in Calls : Remembers(q)'
  BY <1>2, <1>6, <1>7, OtherRemembers DEF History, OnlyMoves
<1>9. OneCreator'
  BY <1>2, <1>6 DEF OneCreator, OnlyMoves
<1> QED BY <1>8, <1>9 DEF History

LEMMA InitializeRemembers ==
  ASSUME StoreInv, History, NEW c \in Containers, Initialize(c)
  PROVE  History'
<1>1. PICK st \in {"ready", "failed"} : cont' = [cont EXCEPT ![c].st = st]
  BY DEF Initialize
<1>2. cont[c].st = "creating" /\ UNCHANGED <<row, call>>
  BY DEF Initialize
<1>3. ContainersKept
  <2>1. \A d \in Containers : d # c => cont'[d] = cont[d]
    BY <1>1 DEF StoreInv, StoreTypes
  <2> QED BY <1>2, <2>1 DEF ContainersKept, StoreInv, StoreTypes, ContainerStates
<1>4. \A q \in Calls : Remembers(q)'
  BY <1>2, <1>3, OtherRemembers DEF History
<1> QED BY <1>2, <1>4 DEF History, OneCreator

LEMMA FetchedRemembers ==
  ASSUME StoreInv, History, NEW r \in Calls, Fetched(r)
  PROVE  History'
<1> DEFINE c == call[r].of
<1>1. /\ row' = row /\ UNCHANGED cont /\ call[r].at \in {"creating", "joining"} /\ c \in Containers
      /\ Creator(r) /\ KnowsAbsent(r) /\ Avoids(r)
  BY DEF Fetched, StoreInv, AsksMade, History, Remembers
<1>2. call[r].slug = "slug" /\ call[r].avoid # None => c # call[r].avoid
  BY <1>1 DEF Avoids
<1>3. call[r].avoid \in Containers \cup {None}
  BY DEF StoreInv, StoreTypes, CallStates
<1>4. CASE call[r].creates /\ Goes(r, "commit", c)
  <2>1. OnlyMoves(r) /\ call'[r].at = "commit" /\ call'[r].of = c /\ call'[r].seen = call[r].seen /\ SameCall(r)
    BY <1>1, <1>4, GoesTyped DEF StoreInv, Places
  <2>2. Creator(r)'
    BY <1>1, <1>4, <2>1 DEF Creator, SameCall
  <2>3. KnowsAbsent(r)'
    BY <1>1, <1>4, <2>1 DEF KnowsAbsent, SameCall
  <2>4. Avoids(r)'
    BY <1>1, <1>4, <2>1 DEF Creator, Avoids, SameCall
  <2> QED BY <1>1, <1>4, <2>1, <2>2, <2>3, <2>4, RemembersMoves, UntouchedKept DEF Remembers
<1>5. CASE Returns(r, c)
  BY <1>1, <1>2, <1>5, ReturnsRemembers
<1>6. CASE Returns(r, Failure)
  BY <1>1, <1>3, <1>6, ReturnsRemembers
<1> QED BY <1>4, <1>5, <1>6 DEF Fetched

(* The row changes, of a version no smaller, or is gone; the calls notice.                    *)
LEMMA NoticedRemembers ==
  ASSUME StoreInv, NEW q \in Calls, Remembers(q), UNCHANGED cont, row.version \in Nat, row'.version \in Nat,
         row'.version >= row.version, call[q].creates /\ call[q].at # "done" => ~row'.exists /\ row'.version = row.version,
         call'[q] = Noticed[q]
  PROVE  Remembers(q)'
<1>1. /\ call'[q].at = call[q].at /\ call'[q].of = call[q].of /\ call'[q].seen = call[q].seen
      /\ call'[q].slug = call[q].slug /\ call'[q].avoid = call[q].avoid /\ call'[q].creates = call[q].creates
      /\ call'[q].gone = call[q].gone
      /\ call'[q].absent <=> call[q].absent \/ (call[q].at # "idle" /\ ~row'.exists)
  <2> DEFINE new == [call[q] EXCEPT !.absent = @ \/ ~row'.exists]
  <2>1. /\ new.at = call[q].at /\ new.of = call[q].of /\ new.seen = call[q].seen /\ new.slug = call[q].slug
        /\ new.avoid = call[q].avoid /\ new.creates = call[q].creates /\ new.gone = call[q].gone
        /\ new.absent <=> call[q].absent \/ ~row'.exists
    BY DEF StoreInv, StoreTypes, CallStates
  <2>2. call'[q] = IF call[q].at = "idle" THEN call[q] ELSE new
    BY DEF Noticed
  <2> HIDE DEF new
  <2> QED BY <2>1, <2>2
<1>2. Creator(q)'
  BY <1>1 DEF Remembers, Creator
<1>3. KnowsAbsent(q)'
  BY <1>1 DEF Remembers, KnowsAbsent
<1>4. Avoids(q)'
  <2>1. call[q].avoid \in Containers => cont[call[q].avoid].version \in Nat
    BY DEF StoreInv, StoreTypes, ContainerStates
  <2>2. call[q].avoid \in Containers \cup {None}
    BY DEF StoreInv, StoreTypes, CallStates
  <2> QED BY <1>1, <2>1, <2>2 DEF Remembers, Avoids
<1> QED BY <1>2, <1>3, <1>4 DEF Remembers

LEMMA NoticedOneCreator ==
  ASSUME StoreInv, History, call' = Noticed
  PROVE  OneCreator'
<1>1. \A q \in Calls : call'[q].at = call[q].at /\ call'[q].creates = call[q].creates
  BY DEF Noticed, StoreInv, StoreTypes, CallStates
<1> QED BY <1>1 DEF History, OneCreator

LEMMA UpdateRemembers ==
  ASSUME StoreInv, History, UpdateProject \/ DeleteProject
  PROVE  History'
<1>0. row.exists /\ call' = Noticed /\ UNCHANGED cont
  BY DEF UpdateProject, DeleteProject, RowBecomes
<1>1. row \in Rows /\ row.version \in Nat /\ row.exists /\ call' = Noticed /\ UNCHANGED cont
  BY <1>0 DEF StoreInv, StoreTypes, Rows
<1>2. row'.version \in Nat /\ row'.version >= row.version
  <2>1. CASE UpdateProject
    <3>1. PICK alias \in BOOLEAN : RowBecomes([row EXCEPT !.version = @ + 1, !.alias = alias])
      BY <2>1 DEF UpdateProject
    <3>2. row'.version = row.version + 1
      BY <1>1, <3>1 DEF RowBecomes, Rows
    <3> QED BY <1>1, <3>2
  <2>2. CASE DeleteProject
    <3>1. row'.version = row.version
      BY <1>1, <2>2 DEF DeleteProject, RowBecomes, Rows
    <3> QED BY <1>1, <3>1
  <2> QED BY <2>1, <2>2
<1>3. ASSUME NEW q \in Calls PROVE Remembers(q)'
  <2>1. Remembers(q) /\ ~(call[q].creates /\ call[q].at # "done")
    BY <1>1 DEF History, Remembers, Creator
  <2> QED BY <1>1, <1>2, <2>1, NoticedRemembers
<1>4. OneCreator'
  BY <1>1, NoticedOneCreator
<1> QED BY <1>3, <1>4 DEF History

LEMMA CommitRemembers ==
  ASSUME StoreInv, History, NEW r \in Calls, Commit(r)
  PROVE  History'
<1>1. /\ call[r].at = "commit" /\ Creator(r) /\ Avoids(r) /\ call[r].creates /\ call[r].of # None /\ call[r].avoid = None
      /\ row.version < call[r].seen.version /\ call[r] \in CallStates /\ row.version \in Nat
      /\ call[r].seen.version \in Nat
  BY DEF Commit, History, Remembers, Creator, StoreInv, StoreTypes, CallStates, Rows
<1>2. CASE RowBecomes(call[r].seen) /\ call' = [Noticed EXCEPT ![r].at = "done"]
  <2>1. row' = call[r].seen /\ UNCHANGED cont
    BY <1>2 DEF RowBecomes
  <2>2. ASSUME NEW q \in Calls, q # r PROVE call'[q] = Noticed[q] /\ ~(call[q].creates /\ call[q].at # "done")
    <3>1. call'[q] = Noticed[q]
      BY <1>2, <2>2 DEF Noticed
    <3> QED BY <1>1, <2>2, <3>1 DEF History, OneCreator
  <2>3. ASSUME NEW q \in Calls, q # r PROVE Remembers(q)'
    <3>1. row'.version \in Nat /\ row'.version >= row.version
      BY <1>1, <2>1
    <3> QED BY <1>1, <2>1, <2>2, <2>3, <3>1, NoticedRemembers DEF History
  <2>4. call'[r].at = "done" /\ call'[r].of = call[r].of /\ call'[r].avoid = None /\ call'[r].creates
    <3> DEFINE k == [call[r] EXCEPT !.absent = @ \/ ~row'.exists]
               new == [k EXCEPT !.at = "done"]
    <3>1. new.at = "done" /\ new.of = call[r].of /\ new.avoid = call[r].avoid /\ new.creates = call[r].creates
      BY <1>1 DEF CallStates
    <3>2. call'[r] = new
      BY <1>1, <1>2 DEF Noticed
    <3> HIDE DEF new
    <3> QED BY <1>1, <3>1, <3>2
  <2>5. KnowsAbsent(r)' /\ Avoids(r)' /\ Creator(r)'
    BY <1>1, <2>4 DEF KnowsAbsent, Avoids, Creator
  <2>6. \A q \in Calls : Remembers(q)'
    BY <2>3, <2>5 DEF Remembers
  <2>7. \A q \in Calls : ~(call'[q].creates /\ call'[q].at # "done")
    <3>1. ASSUME NEW q \in Calls, q # r PROVE Noticed[q].creates = call[q].creates /\ Noticed[q].at = call[q].at
      BY DEF Noticed, StoreInv, StoreTypes, CallStates
    <3> QED BY <2>2, <2>4, <3>1
  <2> QED BY <2>6, <2>7 DEF History, OneCreator
<1>3. CASE Returns(r, Failure) /\ UNCHANGED <<row, cont, entry, aliased>>
  BY <1>1, <1>3, ReturnsRemembers
<1> QED BY <1>2, <1>3 DEF Commit

LEMMA HistoryStep == StoreInv /\ History /\ [ContainersNext]_containerVars => History'
<1> SUFFICES ASSUME StoreInv, History, [ContainersNext]_containerVars PROVE History'
  OBVIOUS
<1>1. CASE \E r \in Calls, s \in Slugs, byAlias \in BOOLEAN : Get(r, s, byAlias)
  BY <1>1, GetRemembers
<1>2. ASSUME NEW r \in Calls, CallStep(r) PROVE History'
  <2>1. CASE Continues(r)
    BY <2>1, FoundRemembers, DestroyingRemembers, FetchedRemembers DEF Continues
  <2>2. CASE StateReads(r)
    BY <2>2, ReadsRemembers DEF StateReads
  <2>3. CASE RowReads(r)
    BY <2>3, ReadsRemembers DEF RowReads
  <2>4. CASE StateAnswer(r) \/ RowAnswer(r) \/ Commit(r)
    BY <2>4, StateAnswerRemembers, RowAnswerRemembers, CommitRemembers
  <2> QED BY <1>2, <2>1, <2>2, <2>3, <2>4 DEF CallStep, Answers
<1>3. CASE \E r \in Calls : CreateProject(r)
  BY <1>3, CreateProjectRemembers
<1>4. CASE \E c \in Containers : Initialize(c)
  BY <1>4, InitializeRemembers
<1>5. CASE UpdateProject \/ DeleteProject
  BY <1>5, UpdateRemembers
<1>6. CASE UNCHANGED containerVars
  BY <1>6 DEF containerVars, History, OneCreator, Remembers, Creator, KnowsAbsent, Avoids
<1> QED BY <1>1, <1>2, <1>3, <1>4, <1>5, <1>6 DEF ContainersNext

(* For any number of calls and containers: no lookup by slug returns a container that was ready *)
(* and older than the project when it began (ProjectContainerResolver.ts:36-46).               *)
THEOREM ServedFreshCorrect == ContainersSpec => []ServedFresh
<1>1. History => ServedFresh
  <2> SUFFICES ASSUME History, NEW r \in Calls, call[r].at = "done", call[r].slug = "slug", call[r].of # None
               PROVE  call[r].of # call[r].avoid
    BY DEF ServedFresh
  <2> QED BY DEF History, Remembers, Avoids
<1> QED BY <1>1, StoreInit, StoreStep, HistoryInit, HistoryStep, PTL DEF ContainersSpec

(* For any number of calls and containers: a lookup by slug answers undefined only if the       *)
(* project was absent meanwhile (ProjectContainerResolver.ts:47-54).                           *)
THEOREM AbsentJustifiedCorrect == ContainersSpec => []AbsentJustified
<1>1. History => AbsentJustified
  BY DEF History, Remembers, KnowsAbsent, AbsentJustified
<1> QED BY <1>1, StoreInit, StoreStep, HistoryInit, HistoryStep, PTL DEF ContainersSpec

-----------------------------------------------------------------------------
(* The composition is a run of the containers, so what is proved of these   *)
(* holds beside the workers, and no worker is forgotten.                     *)
HIDE ContainersAssumption DEF ContainersAssumption

LEMMA HandlersCall == Handlers \subseteq Calls
  BY WorkersAssumption DEF WorkersAssumption

LEMMA HandlerKeepsContainers ==
  ASSUME NEW h \in Handlers, HandlerStep(h)
  PROVE  ContainersNext \/ UNCHANGED containerVars
<1>1. CASE Fetches(h)
  <2>1. CASE Get(h, "slug", FALSE)
    BY <2>1, HandlersCall DEF ContainersNext, Slugs
  <2>2. CASE UNCHANGED containerVars
    BY <2>2
  <2> QED BY <1>1, <2>1, <2>2 DEF Fetches
<1>2. CASE Notification(h) \/ Ended(h)
  BY <1>2 DEF Notification, Ended
<1>3. CASE Refresh(h)
  BY <1>3 DEF Refresh
<1>4. CASE Replaced(h) \/ Started(h)
  BY <1>4 DEF Replaced, Started
<1>5. CASE EndAll(h) \/ EndedAll(h)
  BY <1>5 DEF EndAll, EndedAll
<1> QED BY <1>1, <1>2, <1>3, <1>4, <1>5 DEF HandlerStep

(* Every step of the composition is a step of the containers, or leaves them alone.           *)
LEMMA DispatchKeepsContainers == [WorkersNext]_dispatchVars => [ContainersNext]_containerVars
<1> SUFFICES ASSUME [WorkersNext]_dispatchVars PROVE ContainersNext \/ UNCHANGED containerVars
  OBVIOUS
<1>1. CASE ProjectChanges
  BY <1>1 DEF ProjectChanges, ContainersNext
<1>2. CASE EndCalled \/ TrackerEnds \/ EndReturns
  BY <1>2 DEF EndCalled, TrackerEnds, EndReturns
<1>3. ASSUME NEW r \in Requests, Request(r) PROVE ContainersNext
  <2>1. r \in Calls /\ Get(r, "slug", FALSE) /\ "slug" \in Slugs /\ FALSE \in BOOLEAN
    BY <1>3 DEF Request, Requests, Slugs
  <2> QED BY <2>1 DEF ContainersNext
<1>4. ASSUME NEW r \in Calls, ResolverStep(r) PROVE ContainersNext
  BY <1>4 DEF ResolverStep, CallStep, ContainersNext
<1>5. ASSUME NEW c \in Containers, Initializes(c) PROVE ContainersNext
  BY <1>5 DEF Initializes, ContainersNext
<1>6. ASSUME NEW h \in Handlers, HandlerStep(h) PROVE ContainersNext \/ UNCHANGED containerVars
  BY <1>6, HandlerKeepsContainers
<1>7. ASSUME NEW w \in Workers, WorkerStep(w) PROVE UNCHANGED containerVars
  BY <1>7 DEF WorkerStep, WorkerStarts, WorkerEnds
<1>8. CASE UNCHANGED dispatchVars
  BY <1>8 DEF dispatchVars
<1> QED BY <1>1, <1>2, <1>3, <1>4, <1>5, <1>6, <1>7, <1>8 DEF WorkersNext

(* The dispatch workers use the containers as any request does: every behaviour of theirs is a *)
(* behaviour of ProjectContainers (DispatchWorkerSupervisor.ts:99-107).                         *)
THEOREM ComposedContainers == WorkersSpec => ContainersSpec
<1>1. WorkersInit => ContainersInit
  BY DEF WorkersInit
<1> QED BY <1>1, DispatchKeepsContainers, PTL DEF WorkersSpec, ContainersSpec

(* Beside the workers too, the store holds the containers that are alive, and those only.      *)
THEOREM ComposedStore == WorkersSpec => [](StoreHoldsLive /\ ServedFresh /\ AbsentJustified)
  BY ComposedContainers, StoreHoldsLiveCorrect, ServedFreshCorrect, AbsentJustifiedCorrect, PTL
-----------------------------------------------------------------------------
WorkerStates == [st : {"none", "starting", "running", "ended", "failed"}, of : Containers \cup {None}, mayFail : BOOLEAN]

(* The worker in the map was made, and so was every worker somebody ends; nobody ends the one in the map. *)
Mapped ==
  /\ worker \in [Workers -> WorkerStates] /\ running \in Workers \cup {NoWorker} /\ doomed \subseteq Workers
  /\ listening \in BOOLEAN
  /\ running # NoWorker => worker[running].st # "none" /\ running \notin doomed
  /\ \A w \in doomed : worker[w].st # "none"

WorkersInv == Mapped /\ NoneForgotten

LEMMA WorkersInvInit == WorkersInit => WorkersInv
<1> SUFFICES ASSUME WorkersInit PROVE WorkersInv
  OBVIOUS
<1>1. worker \in [Workers -> WorkerStates] /\ \A w \in Workers : worker[w].st = "none"
  BY DEF WorkersInit, WorkerStates
<1>2. running = NoWorker /\ doomed = {} /\ listening = TRUE
  BY DEF WorkersInit
<1> QED BY <1>1, <1>2 DEF WorkersInv, Mapped, NoneForgotten, Alive

(* The worker in the map stays, or somebody ends it once it is taken. *)
Taken ==
  \/ running' = running /\ doomed' = doomed
  \/ running' = NoWorker /\ doomed' = doomed \cup ({running} \ {NoWorker})

Listens == UNCHANGED listening \/ listening' = FALSE
KnownWorkers == Taken /\ Listens /\ UNCHANGED worker

LEMMA TakenForgetsNone ==
  ASSUME WorkersInv, KnownWorkers
  PROVE  WorkersInv'
<1>1. listening' \in BOOLEAN /\ (listening' => listening)
  <2>1. listening \in BOOLEAN
    BY DEF WorkersInv, Mapped
  <2>2. CASE listening' = listening
    BY <2>1, <2>2
  <2>3. CASE listening' = FALSE
    BY <2>3
  <2> QED BY <2>2, <2>3 DEF KnownWorkers, Listens
<1>2. worker' = worker
  BY DEF KnownWorkers
<1>3. CASE running' = running /\ doomed' = doomed
  <2>1. Mapped'
    BY <1>1, <1>2, <1>3 DEF WorkersInv, Mapped
  <2>2. NoneForgotten'
    BY <1>1, <1>2, <1>3 DEF WorkersInv, NoneForgotten, Alive, Stopped
  <2> QED BY <2>1, <2>2 DEF WorkersInv
<1>4. CASE running' = NoWorker /\ doomed' = doomed \cup ({running} \ {NoWorker})
  <2>1. Mapped'
    BY <1>1, <1>2, <1>4 DEF WorkersInv, Mapped
  <2>2. ASSUME NEW w \in Workers, w = running \/ w \in doomed PROVE w \in doomed'
    BY <1>4, <2>2, WorkersAssumption DEF WorkersAssumption
  <2>3. NoneForgotten'
    BY <1>1, <1>2, <2>2 DEF WorkersInv, NoneForgotten, Alive, Stopped
  <2> QED BY <2>1, <2>3 DEF WorkersInv
<1> QED BY <1>3, <1>4 DEF KnownWorkers, Taken

(* When the supervisor stops, the map may lose a worker. *)
LEMMA StopForgets ==
  ASSUME WorkersInv, running' \in {running, NoWorker}, doomed' = doomed, worker' = worker, listening' = FALSE
  PROVE  WorkersInv'
  BY DEF WorkersInv, Mapped, NoneForgotten, Stopped

LEMMA HeardForgetsNone ==
  ASSUME WorkersInv, Heard
  PROVE  WorkersInv'
<1>1. KnownWorkers
  BY DEF Heard, DestroyListener, KnownWorkers, Listens, Taken
<1> QED BY <1>1, TakenForgetsNone

LEMMA RefreshForgetsNone ==
  ASSUME WorkersInv, NEW h \in Handlers, Refresh(h)
  PROVE  WorkersInv'
<1> DEFINE c == call[h].of
           n == NewWorker
           made == [st |-> "starting", of |-> c, mayFail |-> h = Boot]
<1>1. CASE Fails(h) /\ UNCHANGED <<run, worker, running, doomed>>
  BY <1>1, StopForgets DEF Fails
<1>2. CASE UNCHANGED <<listening, worker, running, doomed>>
  <2>1. KnownWorkers
    BY <1>2 DEF KnownWorkers, Listens, Taken
  <2> QED BY <2>1, TakenForgetsNone
<1>3. CASE /\ c \in Containers /\ UNCHANGED <<run, listening>>
           /\ \E w \in Workers : worker[w].st = "none"
           /\ worker' = [worker EXCEPT ![NewWorker] = [st |-> "starting", of |-> c, mayFail |-> h = Boot]]
           /\ running' = NewWorker /\ doomed' = doomed \cup ({running} \ {NoWorker})
  <2>1. n \in Workers /\ worker[n].st = "none"
    BY <1>3 DEF NewWorker
  <2>2. worker' = [worker EXCEPT ![n] = made] /\ running' = n /\ listening' = listening
    BY <1>3
  <2>3. made \in WorkerStates /\ made.st = "starting"
    BY <1>3 DEF WorkerStates
  <2> HIDE DEF n, made
  <2>4. worker' \in [Workers -> WorkerStates] /\ worker'[n].st = "starting" /\ \A w \in Workers : w # n => worker'[w] = worker[w]
    BY <2>1, <2>2, <2>3 DEF WorkersInv, Mapped
  <2>5. n \notin doomed /\ n # running
    BY <2>1, WorkersAssumption DEF WorkersInv, Mapped, WorkersAssumption
  <2>6. Mapped'
    BY <1>3, <2>1, <2>2, <2>4, <2>5, WorkersAssumption DEF WorkersInv, Mapped, WorkersAssumption
  <2>7. NoneForgotten'
    BY <1>3, <2>2, <2>4, WorkersAssumption DEF WorkersInv, Mapped, NoneForgotten, Alive, Stopped, WorkersAssumption
  <2> QED BY <2>6, <2>7 DEF WorkersInv
<1> QED BY <1>1, <1>2, <1>3 DEF Refresh

LEMMA HandlerForgetsNone ==
  ASSUME WorkersInv, NEW h \in Handlers, HandlerStep(h)
  PROVE  WorkersInv'
<1>1. CASE Notification(h)
  <2>1. KnownWorkers
    BY <1>1 DEF Notification, EndWorkers, KnownWorkers, Listens, Taken
  <2> QED BY <2>1, TakenForgetsNone
<1>2. CASE Ended(h)
  <2>1. KnownWorkers
    BY <1>2 DEF Ended, KnownWorkers, Listens, Taken
  <2> QED BY <2>1, TakenForgetsNone
<1>3. CASE Fetches(h)
  <2>1. UNCHANGED listening \/ listening' = FALSE
    BY <1>3 DEF Fetches, Fails
  <2> QED
    <3>1. KnownWorkers
      BY <1>3, <2>1 DEF Fetches, KnownWorkers, Listens, Taken
    <3> QED BY <3>1, TakenForgetsNone
<1>4. CASE Refresh(h)
  BY <1>4, RefreshForgetsNone
<1>5. CASE Replaced(h)
  <2>1. CASE WorkerFails(h)
    BY <1>5, <2>1, StopForgets DEF Replaced, WorkerFails, Fails
  <2>2. CASE UNCHANGED <<listening, running>>
    <3>1. KnownWorkers
      BY <1>5, <2>2 DEF Replaced, KnownWorkers, Listens, Taken
    <3> QED BY <3>1, TakenForgetsNone
  <2> QED BY <1>5, <2>1, <2>2 DEF Replaced
<1>6. CASE Started(h)
  <2>1. CASE WorkerFails(h)
    BY <1>6, <2>1, StopForgets DEF Started, WorkerFails, Fails
  <2>2. CASE UNCHANGED <<listening, running>>
    <3>1. KnownWorkers
      BY <1>6, <2>2 DEF Started, KnownWorkers, Listens, Taken
    <3> QED BY <3>1, TakenForgetsNone
  <2> QED BY <1>6, <2>1, <2>2 DEF Started
<1>7. CASE EndAll(h)
  <2>1. KnownWorkers
    BY <1>7 DEF EndAll, EndWorkers, KnownWorkers, Listens, Taken
  <2> QED BY <2>1, TakenForgetsNone
<1>8. CASE EndedAll(h)
  <2>1. KnownWorkers
    BY <1>8 DEF EndedAll, KnownWorkers, Listens, Taken
  <2> QED BY <2>1, TakenForgetsNone
<1> QED BY <1>1, <1>2, <1>3, <1>4, <1>5, <1>6, <1>7, <1>8 DEF HandlerStep

(* A worker's start settles, or it ends: it is alive no longer, or was before. *)
LEMMA WorkerForgetsNone ==
  ASSUME WorkersInv, NEW w \in Workers, WorkerStep(w)
  PROVE  WorkersInv'
<1>1. PICK st \in {"running", "failed", "ended"} : worker' = [worker EXCEPT ![w].st = st]
  BY DEF WorkerStep, WorkerStarts, WorkerEnds
<1>2. UNCHANGED <<listening, running, doomed>> /\ worker[w].st \in {"starting", "running"}
  BY DEF WorkerStep, WorkerStarts, WorkerEnds
<1> DEFINE new == [worker[w] EXCEPT !.st = st]
<1>3. new \in WorkerStates /\ new.st = st
  BY DEF WorkersInv, Mapped, WorkerStates
<1>4. worker' = [worker EXCEPT ![w] = new]
  BY <1>1 DEF WorkersInv, Mapped
<1> HIDE DEF new
<1>5. worker' \in [Workers -> WorkerStates] /\ worker'[w].st = st /\ \A v \in Workers : v # w => worker'[v] = worker[v]
  BY <1>3, <1>4 DEF WorkersInv, Mapped
<1>6. Mapped'
  BY <1>2, <1>5 DEF WorkersInv, Mapped
<1>7. NoneForgotten'
  BY <1>2, <1>5 DEF WorkersInv, NoneForgotten, Alive, Stopped
<1> QED BY <1>6, <1>7 DEF WorkersInv

LEMMA WorkersInvStep == WorkersInv /\ [WorkersNext]_dispatchVars => WorkersInv'
<1> SUFFICES ASSUME WorkersInv, [WorkersNext]_dispatchVars PROVE WorkersInv'
  OBVIOUS
<1>1. CASE ProjectChanges
  <2>1. KnownWorkers
    BY <1>1 DEF ProjectChanges, KnownWorkers, Listens, Taken
  <2> QED BY <2>1, TakenForgetsNone
<1>2. CASE EndCalled
  <2>1. KnownWorkers
    BY <1>2 DEF EndCalled, KnownWorkers, Listens, Taken
  <2> QED BY <2>1, TakenForgetsNone
<1>3. CASE TrackerEnds
  <2>1. KnownWorkers
    BY <1>3 DEF TrackerEnds, KnownWorkers, Listens, Taken
  <2> QED BY <2>1, TakenForgetsNone
<1>4. CASE EndReturns
  <2>1. KnownWorkers
    BY <1>4 DEF EndReturns, KnownWorkers, Listens, Taken
  <2> QED BY <2>1, TakenForgetsNone
<1>5. ASSUME NEW r \in Requests, Request(r) PROVE WorkersInv'
  BY <1>5, HeardForgetsNone DEF Request
<1>6. ASSUME NEW r \in Calls, ResolverStep(r) PROVE WorkersInv'
  BY <1>6, HeardForgetsNone DEF ResolverStep
<1>7. ASSUME NEW c \in Containers, Initializes(c) PROVE WorkersInv'
  BY <1>7, HeardForgetsNone DEF Initializes
<1>8. CASE \E h \in Handlers : HandlerStep(h)
  BY <1>8, HandlerForgetsNone
<1>9. CASE \E w \in Workers : WorkerStep(w)
  BY <1>9, WorkerForgetsNone
<1>10. CASE UNCHANGED dispatchVars
  <2>1. KnownWorkers
    BY <1>10 DEF dispatchVars, workerVars, KnownWorkers, Listens, Taken
  <2> QED BY <2>1, TakenForgetsNone
<1> QED BY <1>1, <1>2, <1>3, <1>4, <1>5, <1>6, <1>7, <1>8, <1>9, <1>10 DEF WorkersNext

(* For any number of requests, reloads and workers: until the supervisor stops, a worker that   *)
(* lives is the one in the map, or somebody ends it (DispatchWorkerSupervisor.ts:34-75).        *)
THEOREM NoneForgottenCorrect == WorkersSpec => []NoneForgotten
<1>1. WorkersInv => NoneForgotten
  BY DEF WorkersInv
<1> QED BY <1>1, WorkersInvInit, WorkersInvStep, PTL DEF WorkersSpec

=============================================================================
