----------------------------- MODULE Supervisor -----------------------------
(***************************************************************************)
(* Supervisor.run (engine-common): a loop that runs a Runnable, restarts it *)
(* with a growing backoff when it fails, and is ended by end(). Each call   *)
(* of the Runnable's run() is an instance. Where an instance calls onError  *)
(* or onClose, as no Runnable has to, that is after its run() was resolved.  *)
(***************************************************************************)
EXTENDS Naturals, FiniteSets

CONSTANTS
  Instances, NoInstance,
  Closing,                \* the instances that, ended, call onClose in the end
  Max,                    \* options.max, where it is defined
  StartupMax,             \* options.startupMax
  MinBackoff, MaxBackoff  \* options; exponentiationBase is its default, 2

ASSUME SupervisorAssumption ==
  /\ NoInstance \notin Instances /\ Closing \subseteq Instances
  /\ Max \in Nat /\ StartupMax \in Nat
  /\ MinBackoff \in Nat \ {0} /\ MaxBackoff \in Nat

VARIABLES
  limited,      \* is options.max defined
  inst,         \* each instance: "none", "starting", "running", "ending" or "gone"
  loop,         \* the loop: "start", "inner", "backoff", "over", "gaveUp"
  cur,          \* the instance the loop waits for
  innerRunning, \* the instance end() would end
  restartCount, wasHealthy, aborted,
  delay,        \* the last timeoutMs, 0 after a successful start
  ended,        \* end(): "no", "waiting" for innerRunning.end(), "done"
  failures      \* history: failures since the last successful start, up to FailureBound

vars == <<limited, inst, loop, cur, innerRunning, restartCount, wasHealthy, aborted, delay, ended, failures>>

(* Bound: failures beyond it are not told apart; more than RestartsBounded allows. *)
FailureBound == Max + StartupMax + 2

Finished == {"over", "gaveUp"}
Alive(i) == inst[i] \in {"starting", "running", "ending"}

(* The types; the loop waits for one instance, and never has two that start. *)
TypeOK ==
  /\ inst \in [Instances -> {"none", "starting", "running", "ending", "gone"}]
  /\ loop \in {"start", "inner", "backoff"} \cup Finished
  /\ cur \in Instances /\ innerRunning \in Instances \cup {NoInstance}
  /\ restartCount \in Nat /\ failures \in Nat /\ delay \in Nat
  /\ limited \in BOOLEAN /\ wasHealthy \in BOOLEAN /\ aborted \in BOOLEAN /\ ended \in {"no", "waiting", "done"}
  /\ loop = "start" <=> \E i \in Instances : inst[i] = "starting"
  /\ loop = "inner" => inst[cur] \in {"running", "ending"}
  /\ \A i \in Instances : Alive(i) => i = cur

(* run() is called: the first instance starts. *)
Init ==
  /\ cur \in Instances
  /\ inst = [i \in Instances |-> IF i = cur THEN "starting" ELSE "none"]
  /\ limited \in BOOLEAN /\ loop = "start" /\ innerRunning = NoInstance
  /\ restartCount = 0 /\ wasHealthy = FALSE /\ aborted = FALSE
  /\ delay = 0 /\ ended = "no" /\ failures = 0
-----------------------------------------------------------------------------
(* Mutant: the loop does not look at aborted. *)
NextRunAlways(settled) ==
  /\ loop' = "start"
  /\ \E i \in Instances :
       /\ settled[i] \in {"none", "gone"} /\ i # innerRunning /\ i # cur
       /\ cur' = i /\ inst' = [settled EXCEPT ![i] = "starting"]

(* The head of the loop, with the instances as settled: another instance, unless aborted. *)
NextRun(settled) ==
  \/ aborted /\ loop' = "over" /\ inst' = settled /\ UNCHANGED cur
  \/ /\ ~aborted /\ loop' = "start"
     /\ \E i \in Instances :
          /\ settled[i] \in {"none", "gone"} /\ i # innerRunning /\ i # cur
          /\ cur' = i /\ inst' = [settled EXCEPT ![i] = "starting"]

(* restartCount after it is compared with the limit; without a limit nothing counts. *)
Counted == IF wasHealthy /\ ~limited THEN restartCount ELSE restartCount + 1

(* Mutant: one restart too many. *)
ShouldRestartOneMore ==
  IF wasHealthy THEN ~limited \/ restartCount <= Max ELSE restartCount <= StartupMax

ShouldRestart ==
  IF wasHealthy THEN ~limited \/ restartCount < Max ELSE restartCount < StartupMax

(* Mutant: the backoff does not grow. *)
BackoffConstant(count) == IF MinBackoff * count < MaxBackoff THEN MinBackoff ELSE MaxBackoff

(* Math.ceil(Math.min(2 ** (count - 1) * minBackoff, maxBackoff)) *)
Backoff(count) ==
  LET ms == IF count = 0 THEN (MinBackoff + 1) \div 2 ELSE 2 ^ (count - 1) * MinBackoff
  IN  IF ms < MaxBackoff THEN ms ELSE MaxBackoff

(* The catch block: the current instance has failed. *)
Fail ==
  /\ inst' = [inst EXCEPT ![cur] = "gone"]
  /\ innerRunning' = NoInstance
  /\ restartCount' = Counted /\ failures' = IF failures < FailureBound THEN failures + 1 ELSE failures
  /\ \/ ShouldRestart /\ loop' = "backoff" /\ delay' = Backoff(Counted)
     \/ ~ShouldRestart /\ loop' = "gaveUp" /\ UNCHANGED delay
  /\ UNCHANGED <<limited, cur, wasHealthy, aborted, ended>>

(* run() of the instance is resolved. *)
StartOk ==
  /\ loop = "start" /\ loop' = "inner"
  /\ inst' = [inst EXCEPT ![cur] = "running"]
  /\ innerRunning' = cur
  /\ restartCount' = 0 /\ wasHealthy' = TRUE /\ delay' = 0 /\ failures' = 0
  /\ UNCHANGED <<limited, cur, aborted, ended>>

StartFails == loop = "start" /\ Fail

(* The instance calls onError. *)
Crash == loop = "inner" /\ Fail

(* The instance calls onClose, because it was ended or of its own. *)
Close ==
  /\ loop = "inner"
  /\ NextRun([inst EXCEPT ![cur] = "gone"])
  /\ UNCHANGED <<limited, innerRunning, restartCount, wasHealthy, aborted, delay, ended, failures>>

(* Mutant: the timeout is only aborted, it never passes. *)
BackoffOverIfAborted ==
  /\ loop = "backoff" /\ aborted /\ NextRun(inst)
  /\ UNCHANGED <<limited, innerRunning, restartCount, wasHealthy, aborted, delay, ended, failures>>

(* The timeout passes, or end() aborts it. *)
BackoffOver ==
  /\ loop = "backoff" /\ NextRun(inst)
  /\ UNCHANGED <<limited, innerRunning, restartCount, wasHealthy, aborted, delay, ended, failures>>

(* end(), which the caller of run() has once run() is resolved. *)
End ==
  /\ wasHealthy /\ ~aborted /\ aborted' = TRUE
  /\ IF innerRunning = NoInstance THEN ended' = "done" /\ UNCHANGED inst
     ELSE /\ ended' = "waiting"
          /\ inst' = [i \in Instances |->
               IF i = innerRunning /\ inst[i] = "running" THEN "ending" ELSE inst[i]]
  /\ UNCHANGED <<limited, loop, cur, innerRunning, restartCount, wasHealthy, delay, failures>>

(* innerRunning.end() is resolved, if it ever is; onClose may come before or after. *)
EndSettles ==
  /\ ended = "waiting" /\ ended' = "done"
  /\ UNCHANGED <<limited, inst, loop, cur, innerRunning, restartCount, wasHealthy, aborted, delay, failures>>

Start == StartOk \/ StartFails

CloseEnded == cur \in Closing /\ inst[cur] = "ending" /\ Close

Next == Start \/ Crash \/ Close \/ BackoffOver \/ End \/ EndSettles

Spec == Init /\ [][Next]_vars

(* Starts settle and timeouts pass; an instance that is ended closes only if it is one of *)
(* Closing: a dispatcher may sleep on, and a DispatchWorkerSupervisor never calls onClose. *)
Fairness == WF_vars(Start) /\ WF_vars(BackoffOver) /\ WF_vars(CloseEnded)

FairSpec == Spec /\ Fairness
-----------------------------------------------------------------------------
(* A runnable that fails again and again is given up: never more failures in a row than  *)
(* the limit that applies allows (Supervisor.ts:45-47), healthy starts in between forgiven. *)
RestartsBounded ==
  limited \/ ~wasHealthy => failures <= 1 + (IF wasHealthy THEN Max ELSE StartupMax)

(* A restart that fails is repeated later than the one before, until maxBackoff, and never *)
(* before minBackoff.                                                                    *)
FailsLater ==
  loop' = "backoff" /\ loop # "backoff" =>
    \/ delay' = MaxBackoff
    \/ delay' >= MinBackoff /\ (delay > 0 => delay' > delay)

(* With options.max restarts back off, healthy starts in between included                *)
(* (Supervisor.ts:49-52).                                                                *)
BacksOff == [][limited => FailsLater]_vars

(* Where restarts are limited, a failed runnable runs again, or it is given up or ended: *)
(* the loop never hangs. Without options.max only those before the first healthy start   *)
(* are.                                                                                  *)
Recovers ==
  loop = "backoff" /\ (limited \/ ~wasHealthy) ~> loop = "inner" \/ loop \in Finished

(* After end() no instance is started; the one that was just being started when end() was *)
(* called is all that can still run. The loop stops if it was waiting to restart, if the  *)
(* instance that was ended closes, or if what still runs fails, whatever crashes when.    *)
EndStops ==
  /\ [][aborted /\ loop # "start" => loop' # "start"]_vars
  /\ (aborted /\ loop = "backoff") \/ (\E i \in Closing : inst[i] = "ending")
       ~> loop \in Finished
=============================================================================
