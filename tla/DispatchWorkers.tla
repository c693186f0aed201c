-------------------------- MODULE DispatchWorkers --------------------------
(***************************************************************************)
(* DispatchWorkerSupervisor.run (engine-actions) together with the          *)
(* containers it shares with the requests: a worker per project, replaced   *)
(* when project_updated is notified, ended when the container is destroyed. *)
(* One project, found by its slug.                                          *)
(***************************************************************************)
EXTENDS ProjectContainers

CONSTANTS
  Boot,               \* the startWorkers(false) of run()
  Reloads,            \* the handlers of project_updated notifications
  Workers, NoWorker   \* the supervised dispatchers

Handlers == Reloads \cup {Boot}
Requests == Calls \ Handlers

ASSUME WorkersAssumption == Handlers \subseteq Calls /\ Boot \notin Reloads /\ NoWorker \notin Workers

VARIABLES
  run,        \* run(): "starting", "running" or "rejected"
  listening,  \* are destroy events and notifications handled
  notified,   \* notifications that wait
  worker,     \* each worker: st, its container, may its start fail
  running,    \* the worker of the project in the map running
  doomed,     \* the workers somebody ends as soon as they run
  handler,    \* each startWorkers: where it is and the worker it waits for
  ending,     \* endAll() of the caller: "no", "tracker", "workers" or "terminated"; what it waits for
  dropped     \* history: a destroy event took the worker since the last reload began

workerVars == <<run, listening, notified, worker, running, doomed, handler, ending, dropped>>
dispatchVars == <<containerVars, workerVars>>

(* settle: the worker a handler waits for. After a failure endAll is called once by          *)
(* startWorkers and, in a reload, once more: rounds counts those to come.                     *)
Steps == {"idle", "ended", "fetch", "call", "replacing", "starting", "endAll", "endAllWait", "done"}
Alive(w) == worker[w].st \in {"starting", "running"}
Over(w) == worker[w].st \in {"failed", "ended"}

(* The types; the worker in the map was made, and nobody has been told to end it. *)
WorkersTypeOK ==
  /\ run \in {"starting", "running", "rejected"} /\ listening \in BOOLEAN /\ notified \in Nat
  /\ worker \in [Workers -> [st : {"none", "starting", "running", "ended", "failed"},
                             of : Containers \cup {None}, mayFail : BOOLEAN]]
  /\ running \in Workers \cup {NoWorker} /\ doomed \subseteq Workers
  /\ handler \in [Handlers -> [at : Steps, own : Workers \cup {NoWorker},
                               settle : SUBSET Workers, rounds : 0..2]]
  /\ ending \in [at : {"no", "tracker", "workers", "terminated"}, settle : SUBSET Workers] /\ dropped \in BOOLEAN
  /\ running # NoWorker => worker[running].st # "none" /\ running \notin doomed
  /\ \A w \in doomed : worker[w].st # "none"
  /\ \A h \in Handlers : handler[h].at \in {"replacing", "starting"} => handler[h].own # NoWorker

IdleHandler == [at |-> "idle", own |-> NoWorker, settle |-> {}, rounds |-> 0]

(* run() is called: the tracker listens, the workers start. The project has no alias. *)
WorkersInit ==
  /\ ContainersInit /\ row.exists /\ ~row.alias /\ entry = None
  /\ run = "starting" /\ listening = TRUE /\ notified = 0
  /\ worker = [w \in Workers |-> [st |-> "none", of |-> None, mayFail |-> FALSE]]
  /\ running = NoWorker /\ doomed = {}
  /\ handler = [h \in Handlers |-> IF h = Boot THEN [IdleHandler EXCEPT !.at = "fetch"] ELSE IdleHandler]
  /\ ending = [at |-> "no", settle |-> {}] /\ dropped = FALSE
-----------------------------------------------------------------------------
(* The container a handler called for is there: it goes on before other I/O is handled. *)
Resumes == \E h \in Handlers : handler[h].at = "call" /\ call[h].at = "done"

(* Was destroy fired in this step. *)
Destroyed == \E c \in Containers : cont'[c].destroyed # cont[c].destroyed

(* Mutant: the worker that is taken is not ended. *)
DestroyListenerDrops ==
  IF Destroyed /\ listening /\ running # NoWorker
  THEN running' = NoWorker /\ dropped' = TRUE /\ UNCHANGED doomed
  ELSE UNCHANGED <<running, doomed, dropped>>

(* The listener of destroy takes the worker of the slug from the map and ends it. *)
DestroyListener ==
  IF Destroyed /\ listening /\ running # NoWorker
  THEN /\ doomed' = doomed \cup {running} /\ running' = NoWorker /\ dropped' = TRUE
  ELSE UNCHANGED <<running, doomed, dropped>>

Heard == DestroyListener /\ UNCHANGED <<run, listening, notified, worker, handler, ending>>

(* The steps of the resolver, for the requests and for the handlers. *)
Request(r) == ~Resumes /\ Get(r, "slug", FALSE) /\ Heard
ResolverStep(r) == (Continues(r) \/ (~Resumes /\ Answers(r))) /\ Heard
Initializes(c) == ~Resumes /\ Initialize(c) /\ Heard

(* The project changes; its trigger notifies. *)
ProjectChanges ==
  /\ ~Resumes /\ UpdateProject /\ ~row'.alias
  /\ notified' = IF listening THEN notified + 1 ELSE notified
  /\ UNCHANGED <<run, listening, worker, running, doomed, handler, ending, dropped>>

Quiet == ~Pending /\ ~Resumes

(* Mutant: a reload leaves the workers in the map. *)
EndWorkersKeeps(h, at) ==
  /\ handler' = [handler EXCEPT ![h].at = at, ![h].settle = {running} \ {NoWorker}]
  /\ doomed' = doomed \cup ({running} \ {NoWorker}) /\ UNCHANGED running

(* endProjectWorkers: the map is emptied, the handler waits for its workers to end. *)
EndWorkers(h, at) ==
  /\ handler' = [handler EXCEPT ![h].at = at, ![h].settle = {running} \ {NoWorker}]
  /\ doomed' = doomed \cup ({running} \ {NoWorker}) /\ running' = NoWorker

(* A notification is handled; another may be in progress. *)
Notification(h) ==
  /\ Quiet /\ h \in Reloads /\ handler[h].at = "idle" /\ listening /\ notified > 0
  /\ notified' = notified - 1 /\ dropped' = FALSE
  /\ EndWorkers(h, "ended")
  /\ UNCHANGED <<containerVars, run, listening, worker, ending>>

Moves(h, at) == handler' = [handler EXCEPT ![h].at = at]

(* endProjectWorkers of the reload is over: startWorkers. *)
Ended(h) ==
  /\ Quiet /\ handler[h].at = "ended" /\ (\A w \in handler[h].settle : Over(w)) /\ Moves(h, "fetch")
  /\ UNCHANGED <<containerVars, run, listening, notified, worker, running, doomed, ending, dropped>>

(* startWorkers throws: endAll stops the listener and the tracker, then ends the workers. *)
Fails(h) ==
  /\ handler' = [handler EXCEPT ![h].at = "endAll", ![h].rounds = IF h = Boot THEN 1 ELSE 2]
  /\ listening' = FALSE

(* fetchProjects, then getProjectContainer. *)
Fetches(h) ==
  /\ Quiet /\ handler[h].at = "fetch"
  /\ \/ Get(h, "slug", FALSE) /\ Moves(h, "call") /\ UNCHANGED listening
     \/ Fails(h) /\ UNCHANGED containerVars
  /\ UNCHANGED <<run, notified, worker, running, doomed, ending, dropped>>

(* startWorkers is over. *)
Finishes(h) == Moves(h, "done") /\ run' = IF h = Boot THEN "running" ELSE run

(* current.container === container *)
Same(w, c) == w # NoWorker /\ worker[w].of = c

NewWorker == CHOOSE w \in Workers : worker[w].st = "none"

(* refreshProjectWorker: the map has the new worker before the current one is ended. *)
Refresh(h) ==
  LET c == call[h].of
  IN  /\ ~Pending /\ handler[h].at = "call" /\ call[h].at = "done"
      /\ UNCHANGED <<containerVars, notified, ending, dropped>>
      /\ \/ /\ c = Failure /\ Fails(h) /\ UNCHANGED <<run, worker, running, doomed>>
         \/ /\ c = None \/ (c # Failure /\ Same(running, c))
            /\ Finishes(h) /\ UNCHANGED <<listening, worker, running, doomed>>
         \/ /\ c \in Containers /\ ~Same(running, c)
            /\ UNCHANGED <<run, listening>>
            /\ \E w \in Workers : worker[w].st = "none"
            /\ worker' = [worker EXCEPT ![NewWorker] = [st |-> "starting", of |-> c, mayFail |-> h = Boot]]
            /\ running' = NewWorker /\ doomed' = doomed \cup ({running} \ {NoWorker})
            /\ handler' = [handler EXCEPT ![h].own = NewWorker, ![h].settle = {running} \ {NoWorker},
                                          ![h].at = IF running = NoWorker THEN "starting" ELSE "replacing"]

(* The entry is deleted, whatever worker it holds by now, and startWorkers throws. *)
WorkerFails(h) == Fails(h) /\ running' = NoWorker

(* The worker that was replaced has ended, or its start was rejected. *)
Replaced(h) ==
  /\ Quiet /\ handler[h].at = "replacing" /\ \A w \in handler[h].settle : Over(w)
  /\ \/ (\A w \in handler[h].settle : worker[w].st = "ended") /\ Moves(h, "starting")
        /\ UNCHANGED <<listening, running>>
     \/ (\E w \in handler[h].settle : worker[w].st = "failed") /\ WorkerFails(h)
  /\ UNCHANGED <<containerVars, run, notified, worker, doomed, ending, dropped>>

(* Mutant: a start that is rejected is not handled. *)
StartedOk(h) ==
  LET w == handler[h].own
  IN  /\ Quiet /\ handler[h].at = "starting" /\ worker[w].st \notin {"starting", "failed"}
      /\ Finishes(h) /\ UNCHANGED <<listening, running>>
      /\ UNCHANGED <<containerVars, notified, worker, doomed, ending, dropped>>

(* await worker *)
Started(h) ==
  LET w == handler[h].own
  IN  /\ Quiet /\ handler[h].at = "starting" /\ worker[w].st # "starting"
      /\ \/ worker[w].st # "failed" /\ Finishes(h) /\ UNCHANGED <<listening, running>>
         \/ worker[w].st = "failed" /\ WorkerFails(h) /\ UNCHANGED run
      /\ UNCHANGED <<containerVars, notified, worker, doomed, ending, dropped>>

(* endAll: the tracker has ended, then the workers in the map are. *)
EndAll(h) ==
  /\ Quiet /\ handler[h].at = "endAll" /\ EndWorkers(h, "endAllWait")
  /\ UNCHANGED <<containerVars, run, listening, notified, worker, ending, dropped>>
EndedAll(h) ==
  /\ Quiet /\ handler[h].at = "endAllWait" /\ \A w \in handler[h].settle : Over(w)
  /\ handler' = [handler EXCEPT ![h].rounds = @ - 1, ![h].at = IF handler[h].rounds = 1 THEN "done" ELSE "endAll"]
  /\ run' = IF h = Boot THEN "rejected" ELSE run
  /\ UNCHANGED <<containerVars, listening, notified, worker, running, doomed, ending, dropped>>

(* The first start of a worker. That of the boot runs or gives up (startupMax); that of a   *)
(* reload is retried without a limit.                                                        *)
WorkerStarts(w) ==
  /\ Quiet /\ worker[w].st = "starting"
  /\ \E st \in {"running", "failed"} :
       /\ st = "failed" => worker[w].mayFail
       /\ worker' = [worker EXCEPT ![w].st = st]
  /\ UNCHANGED <<containerVars, run, listening, notified, running, doomed, handler, ending, dropped>>

(* (await worker).end(), called once the worker runs, settles. *)
WorkerEnds(w) ==
  /\ Quiet /\ w \in doomed /\ worker[w].st = "running"
  /\ worker' = [worker EXCEPT ![w].st = "ended"]
  /\ UNCHANGED <<containerVars, run, listening, notified, running, doomed, handler, ending, dropped>>

(* end() of the caller of run(), e.g. stopAllWorkers. *)
EndCalled ==
  /\ Quiet /\ run = "running" /\ ending.at = "no"
  /\ listening' = FALSE /\ ending' = [ending EXCEPT !.at = "tracker"]
  /\ UNCHANGED <<containerVars, run, notified, worker, running, doomed, handler, dropped>>
TrackerEnds ==
  /\ Quiet /\ ending.at = "tracker"
  /\ ending' = [at |-> "workers", settle |-> {running} \ {NoWorker}]
  /\ doomed' = doomed \cup ({running} \ {NoWorker}) /\ running' = NoWorker
  /\ UNCHANGED <<containerVars, run, listening, notified, worker, handler, dropped>>
EndReturns ==
  /\ Quiet /\ ending.at = "workers" /\ \A w \in ending.settle : Over(w)
  /\ ending' = [ending EXCEPT !.at = "terminated"]
  /\ UNCHANGED <<containerVars, run, listening, notified, worker, running, doomed, handler, dropped>>

HandlerStep(h) ==
  \/ Notification(h) \/ Ended(h) \/ Fetches(h) \/ Refresh(h) \/ Replaced(h) \/ Started(h)
  \/ EndAll(h) \/ EndedAll(h)
WorkerStep(w) == WorkerStarts(w) \/ WorkerEnds(w)
BootWorkerStarts(w) == worker[w].mayFail /\ WorkerStarts(w)

WorkersNext ==
  \/ ProjectChanges \/ EndCalled \/ TrackerEnds \/ EndReturns
  \/ \E r \in Requests : Request(r)
  \/ \E r \in Calls : ResolverStep(r)
  \/ \E c \in Containers : Initializes(c)
  \/ \E h \in Handlers : HandlerStep(h)
  \/ \E w \in Workers : WorkerStep(w)

WorkersSpec == WorkersInit /\ [][WorkersNext]_dispatchVars

(* The calls settle, handlers go on, a worker that runs can be ended, and a start whose      *)
(* attempts are limited settles. Nothing is said of the start of a reload.                   *)
WorkersFairness ==
  /\ \A r \in Calls : WF_dispatchVars(ResolverStep(r))
  /\ \A c \in Containers : WF_dispatchVars(Initializes(c))
  /\ \A h \in Handlers : WF_dispatchVars(HandlerStep(h))
  /\ \A w \in Workers : WF_dispatchVars(BootWorkerStarts(w)) /\ WF_dispatchVars(WorkerEnds(w))
  /\ WF_dispatchVars(TrackerEnds) /\ WF_dispatchVars(EndReturns)
WorkersFairSpec == WorkersSpec /\ WorkersFairness
-----------------------------------------------------------------------------
Stopped == ~listening

(* Until something fails or end() is called, every worker that lives is in the map, or       *)
(* somebody ends it: a worker is never forgotten, whatever reloads, requests and destructions *)
(* interleave (DispatchWorkerSupervisor.ts:34-75), and none works beside the one in the map.   *)
NoneForgotten == ~Stopped => \A w \in Workers : Alive(w) => w = running \/ w \in doomed

(* No start of a reload fails for ever. *)
ReloadsStart == \A w \in Workers : []<>(worker[w].st # "starting" \/ worker[w].mayFail)

(* If its worker starts at all, a reload brings the project a running worker, unless the      *)
(* supervisor stopped or the worker was taken by the destruction of its container: that of a  *)
(* request that found the container before this one outdated, and destroys the new one in its *)
(* place.                                                                                    *)
ReloadRestores ==
  ReloadsStart =>
    ((\E h \in Reloads : handler[h].at = "fetch") ~>
       \/ Stopped \/ dropped
       \/ running # NoWorker /\ worker[running].st = "running")

(* run() and end() settle, also when the worker they wait for is being replaced, was taken by *)
(* a destroy event or failed to start: unless a worker of a reload fails to start for ever,   *)
(* as both wait for its start.                                                               *)
RunSettles ==
  ReloadsStart =>
    /\ run = "starting" ~> run # "starting"
    /\ ending.at = "tracker" ~> ending.at = "terminated"
=============================================================================
