------------------------- MODULE ProjectContainers -------------------------
(***************************************************************************)
(* ProjectContainerResolver (engine-http): the containers of the projects,  *)
(* shared by the requests and by the dispatch workers. One project, with a  *)
(* slug and perhaps an alias; concurrent calls of getProjectContainer and   *)
(* of createProject. A step is what runs between two awaits that wait for   *)
(* I/O; an await of a promise that is settled goes on before other I/O.     *)
(***************************************************************************)
EXTENDS Naturals, FiniteSets

CONSTANTS
  Calls,              \* the calls of the resolver, each made once
  Containers, None,   \* the container objects, None stands for undefined
  Failure,            \* what a call that throws returns
  MaxVersion          \* bound: changes of the project row

ASSUME ContainersAssumption ==
  /\ None \notin Containers /\ Failure \notin Containers /\ None # Failure
  /\ Containers # {} /\ MaxVersion \in Nat \ {0}

VARIABLES
  row,      \* the committed row of the project: exists, version (updated_at), alias (in its config)
  cont,     \* each container: st, the version and alias it was made of, times destroy was fired for it
  entry,    \* the container in the store under the slug
  aliased,  \* does the store map the alias to the slug
  call      \* each call: see Blank

containerVars == <<row, cont, entry, aliased, call>>

Slugs == {"slug", "alias"}

(* at: what the call awaits; of: the container it awaits or returns; gone, seen: answers of   *)
(* queries, or the row it inserts; creates: is it a createProject. History: avoid, the ready  *)
(* container that was older than the project when the call began, and whether the project was *)
(* absent at some moment of the call.                                                         *)
Blank == [at |-> "idle", slug |-> "slug", byAlias |-> FALSE, of |-> None, gone |-> FALSE,
          seen |-> [exists |-> FALSE, version |-> 0, alias |-> FALSE],
          creates |-> FALSE, avoid |-> None, absent |-> FALSE]

Places == {"idle", "found", "state", "stateRead", "destroying", "row", "rowRead",
           "creating", "joining", "commit", "done"}
Rows == [exists : BOOLEAN, version : 0..MaxVersion, alias : BOOLEAN]

ContainerStates == [st : {"none", "creating", "ready", "failed"}, version : 0..MaxVersion,
                    alias : BOOLEAN, destroyed : Nat]
CallStates == [at : Places, slug : Slugs, byAlias : BOOLEAN, of : Containers \cup {None, Failure},
               gone : BOOLEAN, seen : Rows, creates : BOOLEAN, avoid : Containers \cup {None}, absent : BOOLEAN]

(* The types, and what the awaits of a call wait for. *)
ContainersTypeOK ==
  /\ row \in Rows /\ cont \in [Containers -> ContainerStates]
  /\ entry \in Containers \cup {None} /\ aliased \in BOOLEAN
  /\ call \in [Calls -> CallStates]
  /\ \A r \in Calls : call[r].at \in {"found", "state", "stateRead", "destroying", "creating", "joining"} =>
       call[r].of \in Containers /\ cont[call[r].of].st # "none"
  /\ \A c, d \in Containers : cont[c].st = "creating" /\ cont[d].st = "creating" => c = d

Unmade == [st |-> "none", version |-> 0, alias |-> FALSE, destroyed |-> 0]

(* The project is there or not yet; its container is ready or there is none. *)
ContainersInit ==
  /\ row \in {[exists |-> e, version |-> 1, alias |-> a] : e, a \in BOOLEAN}
  /\ entry \in {None, CHOOSE c \in Containers : TRUE} /\ (entry # None => row.exists)
  /\ cont = [c \in Containers |->
       IF c = entry THEN [Unmade EXCEPT !.st = "ready", !.version = row.version, !.alias = row.alias]
       ELSE Unmade]
  /\ aliased \in BOOLEAN /\ (aliased => entry # None /\ row.alias)
  /\ call = [r \in Calls |-> Blank]
-----------------------------------------------------------------------------
Awaits(r) == call[r].at \in {"found", "destroying", "creating", "joining"}
Settled(c) == cont[c].st \in {"ready", "failed"}

(* A call awaits a promise that is settled: it goes on before any other I/O is handled. *)
Pending == \E r \in Calls : Awaits(r) /\ Settled(call[r].of)

Goes(r, at, of) == call' = [call EXCEPT ![r].at = at, ![r].of = of]
Returns(r, of) == call' = [call EXCEPT ![r].at = "done", ![r].of = of, ![r].gone = FALSE, ![r].seen = Blank.seen]

(* existing was awaited: getProjectState is asked, or the promise had been rejected. *)
AskState(r, c) == IF cont[c].st = "ready" THEN Goes(r, "state", c) ELSE Returns(r, Failure)

Outdated(c) == c # None /\ cont[c].st = "ready" /\ cont[c].version < row.version

(* getProjectContainer(s, { alias }): the alias is resolved, the store is read. *)
Get(r, s, byAlias) ==
  LET slug == IF s = "alias" /\ aliased THEN "slug" ELSE s
      started == [Blank EXCEPT !.slug = slug, !.byAlias = byAlias, !.absent = ~row.exists,
                               !.avoid = IF Outdated(entry) THEN entry ELSE None]
  IN  /\ ~Pending /\ call[r].at = "idle"
      /\ call' = [call EXCEPT ![r] =
           IF slug = "slug" /\ entry # None
           THEN [started EXCEPT !.at = IF cont[entry].st = "ready" THEN "state" ELSE "found", !.of = entry]
           ELSE [started EXCEPT !.at = "row"]]
      /\ UNCHANGED <<row, cont, entry, aliased>>

Found(r) ==
  /\ call[r].at = "found" /\ Settled(call[r].of) /\ AskState(r, call[r].of)
  /\ UNCHANGED <<row, cont, entry, aliased>>

(* ProjectUpdateTimestampQuery, or ProjectBySlugQuery, reads the row. *)
Reads(r, from, to) ==
  /\ ~Pending /\ call[r].at = from
  /\ call' = [call EXCEPT ![r].at = to, ![r].seen = row]
  /\ UNCHANGED <<row, cont, entry, aliased>>
StateReads(r) == Reads(r, "state", "stateRead")
RowReads(r) == Reads(r, "row", "rowRead")

(* Mutant: destroyContainer forgets to remove the entry. *)
DestroyKeepsEntry(c) ==
  /\ cont' = [cont EXCEPT ![c].destroyed = @ + 1]
  /\ aliased' = (aliased /\ ~cont[c].alias)
  /\ UNCHANGED entry

(* The rest of destroyContainer, c being ready: cleanups, the event, the aliases, the entry. *)
Destroy(c) ==
  /\ cont' = [cont EXCEPT ![c].destroyed = @ + 1]
  /\ aliased' = (aliased /\ ~cont[c].alias)
  /\ entry' = None

(* Mutant: the call ends after destroyContainer whatever the state was. *)
AfterDestroyEnds(r, gone) == Returns(r, None)

(* After destroyContainer: not_found returns undefined, updated goes on with the row. *)
AfterDestroy(r, gone) ==
  call' = [call EXCEPT ![r].gone = FALSE, ![r].of = None, ![r].seen = Blank.seen,
                       ![r].at = IF gone THEN "done" ELSE "row"]

(* Mutant: a row newer by one is taken for the row of the container. *)
ValidLoose(r) == call[r].seen.exists /\ call[r].seen.version <= cont[call[r].of].version + 1

(* getProjectState === 'valid' *)
Valid(r) == call[r].seen.exists /\ call[r].seen.version <= cont[call[r].of].version

(* The answer of getProjectState; destroyContainer reads the store again. *)
StateAnswer(r) ==
  LET gone == ~call[r].seen.exists
  IN  /\ ~Pending /\ call[r].at = "stateRead" /\ UNCHANGED row
      /\ \/ Valid(r) /\ Returns(r, call[r].of) /\ UNCHANGED <<cont, entry, aliased>>
         \/ ~Valid(r) /\ entry = None /\ AfterDestroy(r, gone) /\ UNCHANGED <<cont, entry, aliased>>
         \/ /\ ~Valid(r) /\ entry # None /\ cont[entry].st = "ready"
            /\ Destroy(entry) /\ AfterDestroy(r, gone)
         \/ /\ ~Valid(r) /\ entry # None /\ cont[entry].st # "ready"
            /\ call' = [call EXCEPT ![r].at = "destroying", ![r].of = entry, ![r].gone = gone,
                                    ![r].seen = Blank.seen]
            /\ UNCHANGED <<cont, entry, aliased>>

Destroying(r) ==
  LET c == call[r].of
  IN  /\ call[r].at = "destroying" /\ Settled(c) /\ UNCHANGED row
      /\ \/ cont[c].st = "ready" /\ Destroy(c) /\ AfterDestroy(r, call[r].gone)
         \/ cont[c].st = "failed" /\ Returns(r, Failure) /\ UNCHANGED <<cont, entry, aliased>>

(* setAlias, when the project was found by its alias. *)
SetAlias(r) == aliased' = (aliased \/ call[r].slug = "alias")

(* createContainer of the row, put in the store before it is initialized; a new object. *)
NewContainer == CHOOSE c \in Containers : cont[c] = Unmade
Creates(version, alias) ==
  /\ \E c \in Containers : cont[c] = Unmade
  /\ cont' = [cont EXCEPT ![NewContainer] =
       [st |-> "creating", version |-> version, alias |-> alias, destroyed |-> 0]]
  /\ entry' = NewContainer /\ UNCHANGED aliased

(* PromiseMap.fetch: joins the promise that is there, or creates a container of the row; the *)
(* call goes on from seen.                                                                    *)
Fetch(r, version, alias, seen) ==
  \/ /\ entry # None /\ UNCHANGED <<cont, entry, aliased>>
     /\ call' = [call EXCEPT ![r] = [seen EXCEPT !.at = "joining", !.of = entry]]
  \/ /\ entry = None /\ Creates(version, alias)
     /\ call' = [call EXCEPT ![r] = [seen EXCEPT !.at = "creating", !.of = NewContainer]]

(* Does the row the query found belong to the slug, or to the alias if those are asked for. *)
Matches(r) ==
  call[r].seen.exists /\ (call[r].slug = "slug" \/ (call[r].byAlias /\ call[r].seen.alias))

(* The answer of getProjectWithSecretsBySlug; createProjectContainer. *)
RowAnswer(r) ==
  /\ ~Pending /\ call[r].at = "rowRead" /\ UNCHANGED row
  /\ \/ Matches(r) /\ Fetch(r, call[r].seen.version, call[r].seen.alias, [call[r] EXCEPT !.seen = Blank.seen])
     \/ ~Matches(r) /\ Returns(r, None) /\ UNCHANGED <<cont, entry, aliased>>

(* ProjectManager.createProject: the row is inserted in a transaction, then the container is made. *)
CreateProject(r) ==
  /\ ~Pending /\ call[r].at = "idle" /\ ~row.exists /\ row.version < MaxVersion
  /\ \A o \in Calls : call[o].creates => call[o].at = "done"
  /\ \E alias \in BOOLEAN :
       LET new == [exists |-> TRUE, version |-> row.version + 1, alias |-> alias]
       IN  Fetch(r, new.version, alias, [Blank EXCEPT !.creates = TRUE, !.seen = new])
  /\ UNCHANGED row

(* projectInitializer.initialize of the container settles. *)
Initialize(c) ==
  /\ ~Pending /\ cont[c].st = "creating"
  /\ \E st \in {"ready", "failed"} : cont' = [cont EXCEPT ![c].st = st]
  /\ UNCHANGED <<row, entry, aliased, call>>

(* Mutant: who joined a creation is not told that it failed. *)
FetchedOwn(r) ==
  LET c == call[r].of
  IN  /\ call[r].at \in {"creating", "joining"} /\ Settled(c) /\ UNCHANGED <<row, cont>>
      /\ \/ /\ cont[c].st = "ready" /\ UNCHANGED entry /\ SetAlias(r)
            /\ IF call[r].creates THEN Goes(r, "commit", c) ELSE Returns(r, c)
         \/ /\ cont[c].st = "failed" /\ call[r].at = "creating" /\ UNCHANGED aliased
            /\ Returns(r, Failure) /\ entry' = None

(* The promise of fetch settled: the one that set it deletes a failure. *)
Fetched(r) ==
  LET c == call[r].of
  IN  /\ call[r].at \in {"creating", "joining"} /\ Settled(c) /\ UNCHANGED <<row, cont>>
      /\ \/ /\ cont[c].st = "ready" /\ UNCHANGED entry /\ SetAlias(r)
            /\ IF call[r].creates THEN Goes(r, "commit", c) ELSE Returns(r, c)
         \/ /\ cont[c].st = "failed" /\ UNCHANGED aliased
            /\ Returns(r, Failure) /\ entry' = IF call[r].at = "creating" THEN None ELSE entry

(* The row as the calls remember it changes. *)
RowBecomes(new) ==
  /\ row' = new
  /\ UNCHANGED <<cont, entry, aliased>>
Noticed == [r \in Calls |-> IF call[r].at = "idle" THEN call[r]
                            ELSE [call[r] EXCEPT !.absent = @ \/ ~row'.exists]]

(* The transaction of createProject ends. *)
Commit(r) ==
  /\ ~Pending /\ call[r].at = "commit"
  /\ \/ RowBecomes(call[r].seen) /\ call' = [Noticed EXCEPT ![r].at = "done"]
     \/ Returns(r, Failure) /\ UNCHANGED <<row, cont, entry, aliased>>

(* UpdateProjectCommand, or the trigger of a secret: updated_at grows. *)
UpdateProject ==
  /\ ~Pending /\ row.exists /\ row.version < MaxVersion
  /\ \E alias \in BOOLEAN : RowBecomes([row EXCEPT !.version = @ + 1, !.alias = alias])
  /\ call' = Noticed

(* The row is deleted, in SQL: the trigger project_deleted notifies of it. *)
DeleteProject ==
  /\ ~Pending /\ row.exists
  /\ RowBecomes([row EXCEPT !.exists = FALSE])
  /\ call' = Noticed

(* What follows the settling of a container, and what follows other I/O. *)
Continues(r) == Found(r) \/ Destroying(r) \/ Fetched(r)
Answers(r) == StateReads(r) \/ StateAnswer(r) \/ RowReads(r) \/ RowAnswer(r) \/ Commit(r)
CallStep(r) == Continues(r) \/ Answers(r)

ContainersNext ==
  \/ \E r \in Calls, s \in Slugs, byAlias \in BOOLEAN : Get(r, s, byAlias)
  \/ \E r \in Calls : CallStep(r) \/ CreateProject(r)
  \/ \E c \in Containers : Initialize(c)
  \/ UpdateProject \/ DeleteProject

ContainersSpec == ContainersInit /\ [][ContainersNext]_containerVars

(* Queries answer and initializations settle. *)
ContainersFairness ==
  /\ \A r \in Calls : WF_containerVars(CallStep(r))
  /\ \A c \in Containers : WF_containerVars(Initialize(c))
ContainersFairSpec == ContainersSpec /\ ContainersFairness
-----------------------------------------------------------------------------
(* Every container that was made is in the store until destroy was fired for it, and none is *)
(* after: none leaks its metrics and workers, none is served that was cleaned up              *)
(* (ProjectContainerResolver.ts:74-82, PromiseMap.ts).                                        *)
StoreHoldsLive ==
  \A c \in Containers :
    (cont[c].st \in {"creating", "ready"} /\ cont[c].destroyed = 0) <=> (c = entry /\ cont[c].st # "failed")

(* A call by slug never returns a container that was ready, and older than the project, when  *)
(* the call began (ProjectContainerResolver.ts:36-46): only a creation it joins may be older.  *)
(* A call by an alias that is not mapped yet asks no state, and does return such a container.  *)
ServedFresh ==
  \A r \in Calls : call[r].at = "done" /\ call[r].slug = "slug" /\ call[r].of # None => call[r].of # call[r].avoid

(* A call with the slug answers undefined only if the project was absent at some moment of it *)
(* (ProjectContainerResolver.ts:47-54): a race of destructions never hides a project.         *)
AbsentJustified ==
  \A r \in Calls : call[r].at = "done" /\ call[r].of = None /\ call[r].slug = "slug" => call[r].absent

(* Every call settles: who joins a creation, or waits to destroy it, gets its outcome.         *)
CallsSettle == \A r \in Calls : call[r].at # "idle" ~> call[r].at = "done"
=============================================================================
