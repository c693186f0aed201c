-------------------------- MODULE SupervisorProofs --------------------------
(* A supervised Runnable is given up in time, for every limit and any number of instances. *)
EXTENDS Supervisor, TLAPS, FiniteSetTheorems

Limit == IF wasHealthy THEN Max ELSE StartupMax
Bounding == limited \/ ~wasHealthy

(* The inductive invariant: restartCount counts every failure while a limit applies, and  *)
(* exceeds that limit only when the loop has given up.                                    *)
Counting ==
  /\ restartCount \in Nat /\ failures \in Nat /\ limited \in BOOLEAN /\ wasHealthy \in BOOLEAN
  /\ Bounding => failures <= restartCount
  /\ Bounding => restartCount <= Limit + 1
  /\ Bounding /\ loop # "gaveUp" => restartCount <= Limit

LEMMA CountingInit == Init => Counting
<1> SUFFICES ASSUME Init PROVE Counting
  OBVIOUS
<1>1. restartCount = 0 /\ failures = 0 /\ limited \in BOOLEAN /\ wasHealthy \in BOOLEAN
  BY DEF Init
<1>2. Limit \in Nat
  BY SupervisorAssumption DEF SupervisorAssumption, Limit
<1> QED BY <1>1, <1>2 DEF Counting

(* A failure is counted as long as a limit applies. *)
LEMMA FailCounts ==
  ASSUME Counting, loop # "gaveUp", Fail
  PROVE  Counting'
<1> USE SupervisorAssumption DEF SupervisorAssumption
<1> DEFINE more == IF failures < FailureBound THEN failures + 1 ELSE failures
<1>1. /\ failures' = more /\ restartCount' = Counted /\ UNCHANGED <<limited, wasHealthy>>
      /\ (loop' = "backoff" /\ ShouldRestart) \/ (loop' = "gaveUp" /\ ~ShouldRestart)
  BY DEF Fail
<1>2. more \in Nat /\ more <= failures + 1
  BY DEF Counting, FailureBound
<1>3. CASE Bounding
  <2>1. Counted = restartCount + 1
    BY <1>3 DEF Counted, Bounding
  <2>2. ShouldRestart <=> restartCount < Limit
    BY <1>3 DEF ShouldRestart, Bounding, Limit
  <2>3. Limit \in Nat /\ Limit' = Limit /\ Bounding'
    BY <1>1, <1>3 DEF Limit, Bounding
  <2>4. failures <= restartCount /\ restartCount <= Limit /\ restartCount \in Nat /\ failures \in Nat
    BY <1>3 DEF Counting
  <2> QED BY <1>1, <1>2, <2>1, <2>2, <2>3, <2>4 DEF Counting
<1>4. CASE ~Bounding
  <2>1. ~Bounding' /\ restartCount' \in Nat /\ failures' \in Nat  /\ limited' \in BOOLEAN /\ wasHealthy' \in BOOLEAN
    BY <1>1, <1>2, <1>4 DEF Bounding, Counted, Counting
  <2> QED BY <2>1 DEF Counting
<1> QED BY <1>3, <1>4

LEMMA CountingStep == Counting /\ [Next]_vars => Counting'
<1> SUFFICES ASSUME Counting, [Next]_vars PROVE Counting'
  OBVIOUS
<1> USE SupervisorAssumption DEF SupervisorAssumption
<1>1. CASE StartOk
  BY <1>1 DEF StartOk, Counting, Bounding, Limit
<1>2. CASE StartFails
  BY <1>2, FailCounts DEF StartFails
<1>3. CASE Crash
  BY <1>3, FailCounts DEF Crash
<1>4. CASE Close
  BY <1>4 DEF Close, NextRun, Counting, Bounding, Limit
<1>5. CASE BackoffOver
  BY <1>5 DEF BackoffOver, NextRun, Counting, Bounding, Limit
<1>6. CASE End
  BY <1>6 DEF End, Counting, Bounding, Limit
<1>7. CASE EndSettles
  BY <1>7 DEF EndSettles, Counting, Bounding, Limit
<1>8. CASE UNCHANGED vars
  BY <1>8 DEF vars, Counting, Bounding, Limit
<1> QED BY <1>1, <1>2, <1>3, <1>4, <1>5, <1>6, <1>7, <1>8 DEF Next, Start

(* A runnable that keeps failing is restarted no more often than the limit that applies. *)
THEOREM RestartsBoundedCorrect == Spec => []RestartsBounded
<1>1. Counting => RestartsBounded
  BY SupervisorAssumption DEF SupervisorAssumption, Counting, Bounding, Limit, RestartsBounded
<1> QED BY <1>1, CountingInit, CountingStep, PTL DEF Spec
-----------------------------------------------------------------------------
(* The supervised instances never overlap: the part of TypeOK about the instances, made   *)
(* inductive by where the current one is in each place of the loop.                       *)
Alone ==
  /\ inst \in [Instances -> {"none", "starting", "running", "ending", "gone"}]
  /\ loop \in {"start", "inner", "backoff"} \cup Finished
  /\ cur \in Instances
  /\ \A i \in Instances : Alive(i) => i = cur
  /\ loop = "start" <=> inst[cur] = "starting"
  /\ loop = "inner" <=> inst[cur] \in {"running", "ending"}

LEMMA AloneInit == Init => Alone
BY DEF Init, Alone, Alive, Finished

(* The current instance is over: the next one, if any, is the only one alive. *)
LEMMA NextRunAlone ==
  ASSUME Alone, NEW settled \in [Instances -> {"none", "starting", "running", "ending", "gone"}],
         \A i \in Instances : settled[i] \notin {"starting", "running", "ending"},
         NextRun(settled)
  PROVE  Alone'
<1>1. CASE loop' = "over" /\ inst' = settled /\ cur' = cur
  BY <1>1 DEF Alone, Alive, Finished
<1>2. ASSUME NEW i \in Instances, loop' = "start", cur' = i,
             inst' = [settled EXCEPT ![i] = "starting"]
      PROVE  Alone'
  <2>1. \A j \in Instances : inst'[j] = IF j = i THEN "starting" ELSE settled[j]
    BY <1>2
  <2>2. inst' \in [Instances -> {"none", "starting", "running", "ending", "gone"}]
    BY <1>2
  <2> QED BY <1>2, <2>1, <2>2 DEF Alone, Alive
<1> QED BY <1>1, <1>2 DEF NextRun

LEMMA FailAlone == ASSUME Alone, Fail PROVE Alone'
<1>1. \A i \in Instances : inst'[i] = IF i = cur THEN "gone" ELSE inst[i]
  BY DEF Fail, Alone
<1>2. /\ inst' \in [Instances -> {"none", "starting", "running", "ending", "gone"}]
      /\ cur' = cur /\ loop' \in {"backoff", "gaveUp"}
  BY DEF Fail, Alone
<1> QED BY <1>1, <1>2 DEF Alone, Alive, Finished

LEMMA AloneStep == Alone /\ [Next]_vars => Alone'
<1> SUFFICES ASSUME Alone, [Next]_vars PROVE Alone'
  OBVIOUS
<1>1. CASE StartOk
  BY <1>1 DEF StartOk, Alone, Alive
<1>2. CASE StartFails \/ Crash
  BY <1>2, FailAlone DEF StartFails, Crash
<1>3. CASE Close
  <2> DEFINE settled == [inst EXCEPT ![cur] = "gone"]
  <2>1. \A i \in Instances : settled[i] = IF i = cur THEN "gone" ELSE inst[i]
    BY DEF Alone
  <2>2. /\ settled \in [Instances -> {"none", "starting", "running", "ending", "gone"}]
        /\ NextRun(settled)
    BY <1>3 DEF Close, Alone
  <2>3. \A i \in Instances : settled[i] \notin {"starting", "running", "ending"}
    BY <2>1 DEF Alone, Alive
  <2> HIDE DEF settled
  <2> QED BY <2>2, <2>3, NextRunAlone
<1>4. CASE BackoffOver
  <2>1. inst[cur] \notin {"starting", "running", "ending"}
    BY <1>4 DEF BackoffOver, Alone
  <2>2. \A i \in Instances : inst[i] \notin {"starting", "running", "ending"}
    BY <2>1 DEF Alone, Alive
  <2>3. inst \in [Instances -> {"none", "starting", "running", "ending", "gone"}]
    BY DEF Alone
  <2> QED BY <1>4, <2>2, <2>3, NextRunAlone DEF BackoffOver
<1>5. CASE End
  <2>1. /\ inst' \in [Instances -> {"none", "starting", "running", "ending", "gone"}]
        /\ \A i \in Instances : inst'[i] = inst[i] \/ (inst[i] = "running" /\ inst'[i] = "ending")
        /\ loop' = loop /\ cur' = cur
    BY <1>5 DEF End, Alone
  <2> QED BY <2>1 DEF Alone, Alive
<1>6. CASE EndSettles
  BY <1>6 DEF EndSettles, Alone, Alive
<1>7. CASE UNCHANGED vars
  BY <1>7 DEF vars, Alone, Alive
<1> QED BY <1>1, <1>2, <1>3, <1>4, <1>5, <1>6, <1>7 DEF Next, Start

(* Two runs of a supervised Runnable never overlap, whatever fails, closes or ends. *)
THEOREM AloneCorrect == Spec => []Alone
BY AloneInit, AloneStep, PTL DEF Spec

-----------------------------------------------------------------------------
(* The backoff grows. What is needed of the powers of two follows from the sets of subsets. *)
LEMMA PowersGrow ==
  ASSUME NEW n \in Nat
  PROVE  2 ^ n \in Nat /\ 2 ^ n >= 1 /\ 2 ^ n < 2 ^ (n + 1)
<1> DEFINE S == SUBSET (1 .. n)
           T == SUBSET (1 .. n + 1)
<1>1. /\ IsFiniteSet(1 .. n) /\ Cardinality(1 .. n) = n
      /\ IsFiniteSet(1 .. n + 1) /\ Cardinality(1 .. n + 1) = n + 1
  BY FS_Interval
<1>2. IsFiniteSet(S) /\ Cardinality(S) = 2 ^ n /\ IsFiniteSet(T) /\ Cardinality(T) = 2 ^ (n + 1)
  BY <1>1, FS_SUBSET
<1>3. Cardinality(S) \in Nat /\ Cardinality(T) \in Nat
  BY <1>2, FS_CardinalityType
<1>4. S \subseteq T /\ {n + 1} \in T /\ {n + 1} \notin S /\ {} \in S
  OBVIOUS
<1> HIDE DEF S, T
<1>5. Cardinality(S) <= Cardinality(T) /\ Cardinality(S) # Cardinality(T)
  BY <1>2, <1>4, FS_Subset
<1>6. Cardinality(S) # 0
  BY <1>2, <1>4, FS_EmptySet
<1> QED BY <1>2, <1>3, <1>5, <1>6

(* With options.max the delay says how many restarts failed since the last healthy start. *)
Delayed ==
  /\ restartCount \in Nat
  /\ limited /\ loop # "gaveUp" => delay = IF restartCount = 0 THEN 0 ELSE Backoff(restartCount)

LEMMA DelayedStep == Delayed /\ [Next]_vars => Delayed'
<1> SUFFICES ASSUME Delayed, [Next]_vars PROVE Delayed'
  OBVIOUS
<1>1. CASE StartOk
  BY <1>1 DEF StartOk, Delayed
<1>2. CASE Fail
  <2>1. restartCount' = Counted /\ limited' = limited /\ (loop' = "backoff" => delay' = Backoff(Counted))
    BY <1>2 DEF Fail
  <2>2. Counted \in Nat /\ (limited => Counted = restartCount + 1)
    BY DEF Counted, Delayed
  <2>3. loop' \in {"backoff", "gaveUp"}
    BY <1>2 DEF Fail
  <2>4. limited => Counted # 0
    BY <2>2 DEF Delayed
  <2> HIDE DEF Counted, Backoff
  <2>5. Backoff(Counted) = Backoff(restartCount)'
    BY <2>1 DEF Backoff
  <2> QED BY <2>1, <2>2, <2>3, <2>4, <2>5 DEF Delayed
<1>3. CASE Close \/ BackoffOver \/ End \/ EndSettles \/ UNCHANGED vars
  <2>1. /\ restartCount' = restartCount /\ limited' = limited /\ delay' = delay
        /\ loop' # "gaveUp" => loop # "gaveUp"
    BY <1>3 DEF Close, BackoffOver, NextRun, End, EndSettles, vars
  <2> QED BY <2>1 DEF Delayed, Backoff
<1> QED BY <1>1, <1>2, <1>3 DEF Next, Start, StartFails, Crash

(* The delays of two failures in a row. *)
LEMMA BackoffGrows ==
  ASSUME NEW count \in Nat
  PROVE  \/ Backoff(count + 1) = MaxBackoff
         \/ Backoff(count + 1) >= MinBackoff /\ (count > 0 => Backoff(count + 1) > Backoff(count))
<1> USE SupervisorAssumption DEF SupervisorAssumption
<1> DEFINE q == 2 ^ count
           p == 2 ^ (count - 1)
<1>1. q \in Nat /\ q >= 1
  BY PowersGrow
<1>2. count > 0 => p \in Nat /\ p < q
  <2>1. count > 0 => count - 1 \in Nat /\ (count - 1) + 1 = count
    OBVIOUS
  <2> QED BY <2>1, PowersGrow
<1>3. Backoff(count + 1) = IF q * MinBackoff < MaxBackoff THEN q * MinBackoff ELSE MaxBackoff
  <2>1. count + 1 # 0 /\ (count + 1) - 1 = count
    OBVIOUS
  <2> QED BY <2>1 DEF Backoff
<1>4. count > 0 => Backoff(count) = IF p * MinBackoff < MaxBackoff THEN p * MinBackoff ELSE MaxBackoff
  BY DEF Backoff
<1> HIDE DEF p, q
<1>5. q * MinBackoff >= MinBackoff /\ q * MinBackoff \in Nat
  BY <1>1
<1>6. count > 0 => p * MinBackoff < q * MinBackoff /\ p * MinBackoff \in Nat
  BY <1>1, <1>2
<1> QED BY <1>3, <1>4, <1>5, <1>6

(* Each failure in a row waits longer than the one before, up to maxBackoff (Supervisor.ts:49-52). *)
THEOREM BacksOffCorrect == Spec => BacksOff
<1>1. Init => Delayed
  BY DEF Init, Delayed
<1>2. Delayed /\ [Next]_vars => [limited => FailsLater]_vars
  <2> SUFFICES ASSUME Delayed, Next, limited, loop' = "backoff", loop # "backoff"
               PROVE  \/ delay' = MaxBackoff
                      \/ delay' >= MinBackoff /\ (delay > 0 => delay' > delay)
    BY DEF FailsLater
  <2>1. Fail /\ loop \in {"start", "inner"}
    BY DEF Next, Start, StartOk, StartFails, Crash, Close, BackoffOver, NextRun, End, EndSettles
  <2>2. delay' = Backoff(restartCount + 1)
    BY <2>1 DEF Fail, Counted
  <2>3. restartCount \in Nat /\ delay = IF restartCount = 0 THEN 0 ELSE Backoff(restartCount)
    BY <2>1 DEF Delayed
  <2> HIDE DEF Backoff
  <2> QED BY <2>2, <2>3, BackoffGrows
<1> QED BY <1>1, <1>2, DelayedStep, PTL DEF Spec, BacksOff

=============================================================================
