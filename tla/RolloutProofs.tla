----------------------------- MODULE RolloutProofs -----------------------------
(***************************************************************************)
(* What the rollout wait guarantees for every timeout, grace period and    *)
(* crash threshold, and however long a read takes: the verdicts are about  *)
(* what has lasted, what has lasted is seen, and the calls end in time.    *)
(*                                                                         *)
(* Each part bounds how long something can have been so by the place the   *)
(* thread is at and the time since it came there: a poll that sees it ends *)
(* the wait, so at most one period has passed since one did not.           *)
(***************************************************************************)
EXTENDS Rollout, TLAPS

Waiting == {"status", "pods", "events", "sleep"}

\* How long the thread has been at the poll, or asleep, before this poll.
Elapsed == IF at = "sleep" THEN MaxRead + (now - began) ELSE Period + (now - began)

(* Time passes only within a read or a sleep, and reads begin before the
   deadline.  Before the wait none has passed at all. *)
InTime ==
    /\ at = "apply" => now = 0
    /\ at \in Reading => now <= began + MaxRead
    /\ at \in Sleeping => now <= began + 1
    /\ at \in {"status", "pods", "events"} => began <= deadline
    /\ at = "sleep" => began <= deadline + MaxRead
    /\ at \in Waiting => deadline = Timeout
    /\ at = "service" => began <= deadline
    /\ at = "nap" => began <= deadline + MaxRead
    /\ at \in {"service", "nap"} => deadline <= Timeout + MaxRead + AddressTimeout
    /\ at = "done" => now <= Timeout + Period + AddressTimeout + Period

\* The timer has run since a poll saw the shortage, and every one did since.
TimerIsHonest ==
    /\ quotaSince # None => clearFor >= Grace \/ clearFor >= now - quotaSince
    /\ answer = "quota" => clearFor >= Grace
    /\ at # "done" => answer = "none"

\* What is measured is so at present.
Measured ==
    /\ readyFor > 0 => stage = "ready"
    /\ crashFor > 0 => stage = "backoff" /\ restarts = Threshold
    /\ shortFor > 0 => shortage > 0
    /\ stage = "none" => shortage = 0
    /\ at = "apply" => readyFor = 0 /\ crashFor = 0 /\ shortFor = 0 /\ quotaSince = None
    /\ at = "apply" => applied < Objects

(* Ready since the status of this poll was read, or since that of the last; and
   given up by the poll in which it became so, or after the sleep. *)
ReadySeen ==
    /\ at \in {"status", "sleep"} => readyFor <= Elapsed
    /\ at \in {"pods", "events"} => readyFor <= now - began
    /\ answer \in {"quota", "crash"} => readyFor <= MaxRead
    /\ answer = "timeout" => readyFor <= Period

(* Crashing since the pods of this poll were listed, or those of the last. *)
CrashSeen ==
    /\ at \in Waiting => crashFor <= Elapsed
    /\ at = "events" => PersistentCrashLoop(listed) \/ crashFor <= now - began

\* What one poll can have missed of a shortage, the next one does not.
ShortageSeen ==
    /\ at \in Waiting /\ quotaSince = None => shortFor <= Elapsed
    /\ at = "events" /\ (listed.stage = "none" \/ listed.gone) => shortFor <= now - began
    /\ at \in Waiting /\ quotaSince # None =>
          /\ shortFor <= Sight + (now - quotaSince)
          /\ at = "sleep" => began - quotaSince < Grace
          /\ at # "sleep" => began - quotaSince < Grace + 1

IInv == /\ TypeOK /\ InTime /\ TimerIsHonest
        /\ Measured /\ ReadySeen /\ CrashSeen /\ ShortageSeen

-----------------------------------------------------------------------------

LEMMA Units ==
    /\ Timeout \in Nat /\ AddressTimeout \in Nat /\ MaxRead \in Nat
    /\ Grace \in Nat /\ Threshold \in Nat /\ Recent \in Nat
    /\ Grace > 0 /\ Threshold > 0 /\ Recent > 0
    /\ Period \in Nat /\ Period = 1 + MaxRead
    /\ Sight \in Nat /\ Sight = Period + MaxRead
  BY TimesAreNatural, CountsArePositive DEF Period, Sight

Pods == [stage : StagesOfPod, restarts : 0 .. Threshold, gone : BOOLEAN]

LEMMA PodsAreListed ==
    /\ NoPod \in Pods
    /\ TypeOK => [stage |-> stage, restarts |-> restarts, gone |-> FALSE] \in Pods
    /\ TypeOK => [listed EXCEPT !.gone = TRUE] \in Pods
<1>1. NoPod \in Pods
  BY Units DEF NoPod, Pods, StagesOfPod
<1>2. TypeOK => [stage |-> stage, restarts |-> restarts, gone |-> FALSE] \in Pods
  BY DEF TypeOK, Pods
<1>3. TypeOK => [listed EXCEPT !.gone = TRUE] \in Pods
  BY DEF TypeOK, Pods
<1> QED BY <1>1, <1>2, <1>3

LEMMA InitIInv == Init => IInv
<1> SUFFICES ASSUME Init PROVE IInv
  OBVIOUS
<1> USE Units DEF Init, Reading, Sleeping, Waiting, None
<1>1. TypeOK
  <2>1. listed \in Pods
    BY PodsAreListed
  <2>2. /\ answer \in Answers /\ stage \in StagesOfPod
        /\ applied \in 0 .. Objects /\ restarts \in 0 .. Threshold /\ shortage \in 0 .. Recent
        /\ began \in 0 .. now /\ quotaSince \in {None} \cup (0 .. now)
    BY DEF Answers, StagesOfPod, Objects
  <2> QED BY <2>1, <2>2 DEF TypeOK, Pods
<1>2. InTime /\ TimerIsHonest /\ Measured
  BY DEF InTime, TimerIsHonest, Measured, Objects
<1>3. ReadySeen /\ CrashSeen /\ ShortageSeen
  BY DEF ReadySeen, CrashSeen, ShortageSeen
<1> QED BY <1>1, <1>2, <1>3 DEF IInv

LEMMA PodMovesKeeps ==
    ASSUME IInv, PodMoves
    PROVE  IInv'
<1> USE Units DEF IInv, Reading, Sleeping, Waiting, None, Elapsed
<1>1. TypeOK'
  BY DEF PodMoves, MovesOfPod, DeploymentApplied, threadVars, TypeOK, StagesOfPod,
     Answers, Objects, NoPod
<1>2. InTime'
  BY DEF PodMoves, MovesOfPod, DeploymentApplied, threadVars, TypeOK, InTime
<1>3. TimerIsHonest'
  BY DEF PodMoves, MovesOfPod, DeploymentApplied, threadVars, TypeOK, TimerIsHonest
<1>4. Measured'
  BY DEF PodMoves, MovesOfPod, DeploymentApplied, threadVars, TypeOK, Measured,
     StagesOfPod
<1>5. ReadySeen'
  BY DEF PodMoves, MovesOfPod, DeploymentApplied, threadVars, TypeOK, InTime, Measured,
     ReadySeen
<1>6. CrashSeen'
  BY DEF PodMoves, MovesOfPod, DeploymentApplied, threadVars, TypeOK, InTime, Measured,
     CrashSeen, PersistentCrashLoop
<1>7. ShortageSeen'
  BY DEF PodMoves, MovesOfPod, DeploymentApplied, threadVars, TypeOK, InTime, Measured,
     ShortageSeen
<1> QED BY <1>1, <1>2, <1>3, <1>4, <1>5, <1>6, <1>7

LEMMA PodReplacedKeeps ==
    ASSUME IInv, PodReplaced
    PROVE  IInv'
<1> USE Units DEF IInv, Reading, Sleeping, Waiting, None, Elapsed
<1>1. TypeOK'
  <2>1. listed' \in Pods
    BY PodsAreListed DEF PodReplaced, TypeOK, Pods
  <2> QED BY <2>1 DEF PodReplaced, TypeOK, Pods, StagesOfPod, Answers, Objects
<1>2. InTime'
  BY DEF PodReplaced, NoPod, TypeOK, InTime
<1>3. TimerIsHonest'
  BY DEF PodReplaced, NoPod, TypeOK, TimerIsHonest
<1>4. Measured'
  BY DEF PodReplaced, NoPod, TypeOK, Measured, StagesOfPod
<1>5. ReadySeen'
  BY DEF PodReplaced, NoPod, TypeOK, InTime, Measured, ReadySeen
<1>6. CrashSeen'
  BY DEF PodReplaced, NoPod, TypeOK, InTime, Measured, CrashSeen, PersistentCrashLoop
<1>7. ShortageSeen'
  BY DEF PodReplaced, NoPod, TypeOK, InTime, Measured, ShortageSeen
<1> QED BY <1>1, <1>2, <1>3, <1>4, <1>5, <1>6, <1>7

LEMMA ShortageReportedKeeps ==
    ASSUME IInv, ShortageReported
    PROVE  IInv'
<1> USE Units DEF IInv, Reading, Sleeping, Waiting, None, Elapsed
<1>1. TypeOK'
  BY DEF ShortageReported, threadVars, historyVars, TypeOK, StagesOfPod, Answers,
     Objects, NoPod
<1>2. InTime'
  BY DEF ShortageReported, threadVars, historyVars, TypeOK, InTime
<1>3. TimerIsHonest'
  BY DEF ShortageReported, threadVars, historyVars, TypeOK, TimerIsHonest
<1>4. Measured'
  BY DEF ShortageReported, threadVars, historyVars, TypeOK, Measured, StagesOfPod
<1>5. ReadySeen'
  BY DEF ShortageReported, threadVars, historyVars, TypeOK, InTime, Measured, ReadySeen
<1>6. CrashSeen'
  BY DEF ShortageReported, threadVars, historyVars, TypeOK, InTime, Measured, CrashSeen,
     PersistentCrashLoop
<1>7. ShortageSeen'
  BY DEF ShortageReported, threadVars, historyVars, TypeOK, InTime, Measured,
     ShortageSeen
<1> QED BY <1>1, <1>2, <1>3, <1>4, <1>5, <1>6, <1>7

LEMMA OtherEventKeeps ==
    ASSUME IInv, OtherEvent
    PROVE  IInv'
<1> USE Units DEF IInv, Reading, Sleeping, Waiting, None, Elapsed
<1>1. TypeOK'
  BY DEF OtherEvent, threadVars, TypeOK, StagesOfPod, Answers, Objects, NoPod
<1>2. InTime'
  BY DEF OtherEvent, threadVars, TypeOK, InTime
<1>3. TimerIsHonest'
  BY DEF OtherEvent, threadVars, TypeOK, TimerIsHonest
<1>4. Measured'
  BY DEF OtherEvent, threadVars, TypeOK, Measured, StagesOfPod
<1>5. ReadySeen'
  BY DEF OtherEvent, threadVars, TypeOK, InTime, Measured, ReadySeen
<1>6. CrashSeen'
  BY DEF OtherEvent, threadVars, TypeOK, InTime, Measured, CrashSeen,
     PersistentCrashLoop
<1>7. ShortageSeen'
  BY DEF OtherEvent, threadVars, TypeOK, InTime, Measured, ShortageSeen
<1> QED BY <1>1, <1>2, <1>3, <1>4, <1>5, <1>6, <1>7

LEMMA AddressAssignedKeeps ==
    ASSUME IInv, AddressAssigned
    PROVE  IInv'
<1> USE Units DEF IInv, Reading, Sleeping, Waiting, None, Elapsed
<1>1. TypeOK'
  BY DEF AddressAssigned, threadVars, historyVars, TypeOK, StagesOfPod, Answers,
     Objects, NoPod
<1>2. InTime'
  BY DEF AddressAssigned, threadVars, historyVars, TypeOK, InTime
<1>3. TimerIsHonest'
  BY DEF AddressAssigned, threadVars, historyVars, TypeOK, TimerIsHonest
<1>4. Measured'
  BY DEF AddressAssigned, threadVars, historyVars, TypeOK, Measured, StagesOfPod
<1>5. ReadySeen'
  BY DEF AddressAssigned, threadVars, historyVars, TypeOK, InTime, Measured, ReadySeen
<1>6. CrashSeen'
  BY DEF AddressAssigned, threadVars, historyVars, TypeOK, InTime, Measured, CrashSeen,
     PersistentCrashLoop
<1>7. ShortageSeen'
  BY DEF AddressAssigned, threadVars, historyVars, TypeOK, InTime, Measured,
     ShortageSeen
<1> QED BY <1>1, <1>2, <1>3, <1>4, <1>5, <1>6, <1>7

LEMMA TickKeeps ==
    ASSUME IInv, Tick
    PROVE  IInv'
<1> USE Units DEF IInv, Reading, Sleeping, Waiting, None, Elapsed
<1>1. TypeOK'
  BY DEF Tick, Longer, threadVars, clusterVars, TypeOK, StagesOfPod, Answers, Objects,
     NoPod
<1>2. InTime'
  BY DEF Tick, Longer, threadVars, clusterVars, TypeOK, InTime
<1>3. TimerIsHonest'
  BY DEF Tick, Longer, threadVars, clusterVars, TypeOK, TimerIsHonest
<1>4. Measured'
  BY DEF Tick, Longer, threadVars, clusterVars, TypeOK, Measured, StagesOfPod
<1>5. ReadySeen'
  BY DEF Tick, Longer, threadVars, clusterVars, TypeOK, InTime, TimerIsHonest, Measured,
     ReadySeen
<1>6. CrashSeen'
  BY DEF Tick, Longer, threadVars, clusterVars, TypeOK, InTime, Measured, CrashSeen,
     PersistentCrashLoop
<1>7. ShortageSeen'
  BY DEF Tick, Longer, threadVars, clusterVars, TypeOK, InTime, Measured, ShortageSeen
<1> QED BY <1>1, <1>2, <1>3, <1>4, <1>5, <1>6, <1>7

LEMMA ApplyKeeps ==
    ASSUME IInv, Apply
    PROVE  IInv'
<1> USE Units DEF IInv, Reading, Sleeping, Waiting, None, Elapsed
<1>1. TypeOK'
  BY DEF Apply, historyVars, Measured, TypeOK, Objects
<1>2. InTime'
  BY DEF Apply, historyVars, Objects, TypeOK, InTime
<1>3. TimerIsHonest'
  BY DEF Apply, historyVars, Objects, TypeOK, TimerIsHonest
<1>4. Measured'
  BY DEF Apply, historyVars, Objects, TypeOK, Measured, StagesOfPod
<1>5. ReadySeen'
  BY DEF Apply, historyVars, Objects, TypeOK, InTime, Measured, ReadySeen
<1>6. CrashSeen'
  BY DEF Apply, historyVars, Objects, TypeOK, InTime, Measured, CrashSeen,
     PersistentCrashLoop
<1>7. ShortageSeen'
  BY DEF Apply, historyVars, Objects, TypeOK, InTime, Measured, ShortageSeen
<1> QED BY <1>1, <1>2, <1>3, <1>4, <1>5, <1>6, <1>7

LEMMA ApplyRaisesKeeps ==
    ASSUME IInv, ApplyRaises
    PROVE  IInv'
<1> USE Units DEF IInv, Reading, Sleeping, Waiting, None, Elapsed
<1>1. TypeOK'
  BY DEF ApplyRaises, Answered, historyVars, Measured, TypeOK, Answers, Objects
<1>2. InTime'
  BY DEF ApplyRaises, Answered, historyVars, TypeOK, InTime
<1>3. TimerIsHonest'
  BY DEF ApplyRaises, Answered, historyVars, TypeOK, TimerIsHonest
<1>4. Measured'
  BY DEF ApplyRaises, Answered, historyVars, TypeOK, Measured, StagesOfPod
<1>5. ReadySeen'
  BY DEF ApplyRaises, Answered, historyVars, TypeOK, InTime, Measured, ReadySeen
<1>6. CrashSeen'
  BY DEF ApplyRaises, Answered, historyVars, TypeOK, InTime, Measured, CrashSeen,
     PersistentCrashLoop
<1>7. ShortageSeen'
  BY DEF ApplyRaises, Answered, historyVars, TypeOK, InTime, Measured, ShortageSeen
<1> QED BY <1>1, <1>2, <1>3, <1>4, <1>5, <1>6, <1>7

LEMMA StatusReadKeeps ==
    ASSUME IInv, StatusRead
    PROVE  IInv'
<1> USE Units DEF IInv, Reading, Sleeping, Waiting, None, Elapsed
<1>1. TypeOK'
  BY DEF StatusRead, Available, clusterVars, TypeOK, StagesOfPod, Answers, Objects,
     NoPod
<1>2. InTime'
  BY DEF StatusRead, Available, clusterVars, TypeOK, InTime
<1>3. TimerIsHonest'
  BY DEF StatusRead, Available, clusterVars, TypeOK, TimerIsHonest
<1>4. Measured'
  BY DEF StatusRead, Available, clusterVars, TypeOK, Measured, StagesOfPod
<1>5. ReadySeen'
  BY DEF StatusRead, Available, clusterVars, TypeOK, InTime, Measured, ReadySeen
<1>6. CrashSeen'
  BY DEF StatusRead, Available, clusterVars, TypeOK, InTime, Measured, CrashSeen,
     PersistentCrashLoop
<1>7. ShortageSeen'
  BY DEF StatusRead, Available, clusterVars, TypeOK, InTime, Measured, ShortageSeen
<1> QED BY <1>1, <1>2, <1>3, <1>4, <1>5, <1>6, <1>7

LEMMA PodsListedKeeps ==
    ASSUME IInv, PodsListed
    PROVE  IInv'
<1> USE Units DEF IInv, Reading, Sleeping, Waiting, None, Elapsed
<1>1. TypeOK'
  <2>1. listed' \in Pods
    BY PodsAreListed DEF PodsListed, TypeOK, Pods
  <2> QED BY <2>1 DEF PodsListed, Goes, clusterVars, TypeOK, Pods, StagesOfPod, Answers, Objects
<1>2. InTime'
  BY DEF PodsListed, Goes, NoPod, clusterVars, TypeOK, InTime
<1>3. TimerIsHonest'
  BY DEF PodsListed, Goes, NoPod, clusterVars, TypeOK, TimerIsHonest
<1>4. Measured'
  BY DEF PodsListed, Goes, NoPod, clusterVars, TypeOK, Measured, StagesOfPod
<1>5. ReadySeen'
  BY DEF PodsListed, Goes, NoPod, clusterVars, TypeOK, InTime, Measured, ReadySeen
<1>6. CrashSeen'
  BY DEF PodsListed, Goes, NoPod, clusterVars, TypeOK, InTime, Measured, CrashSeen,
     PersistentCrashLoop
<1>7. ShortageSeen'
  BY DEF PodsListed, Goes, NoPod, clusterVars, TypeOK, InTime, Measured, ShortageSeen
<1> QED BY <1>1, <1>2, <1>3, <1>4, <1>5, <1>6, <1>7

LEMMA WakesKeeps ==
    ASSUME IInv, Wakes
    PROVE  IInv'
<1> USE Units DEF IInv, Reading, Sleeping, Waiting, None, Elapsed
<1>1. TypeOK'
  BY DEF Wakes, Deadline, Answered, clusterVars, historyVars, TypeOK, StagesOfPod,
     Answers, Objects, NoPod
<1>2. InTime'
  BY DEF Wakes, Deadline, Answered, clusterVars, historyVars, TypeOK, InTime
<1>3. TimerIsHonest'
  BY DEF Wakes, Deadline, Answered, clusterVars, historyVars, TypeOK, TimerIsHonest
<1>4. Measured'
  BY DEF Wakes, Deadline, Answered, clusterVars, historyVars, TypeOK, Measured,
     StagesOfPod
<1>5. ReadySeen'
  BY DEF Wakes, Deadline, Answered, clusterVars, historyVars, TypeOK, InTime, Measured,
     ReadySeen
<1>6. CrashSeen'
  BY DEF Wakes, Deadline, Answered, clusterVars, historyVars, TypeOK, InTime, Measured,
     CrashSeen, PersistentCrashLoop
<1>7. ShortageSeen'
  BY DEF Wakes, Deadline, Answered, clusterVars, historyVars, TypeOK, InTime, Measured,
     ShortageSeen
<1> QED BY <1>1, <1>2, <1>3, <1>4, <1>5, <1>6, <1>7

LEMMA ServiceReadKeeps ==
    ASSUME IInv, ServiceRead
    PROVE  IInv'
<1> USE Units DEF IInv, Reading, Sleeping, Waiting, None, Elapsed
<1>1. TypeOK'
  BY DEF ServiceRead, Answered, clusterVars, historyVars, TypeOK, StagesOfPod, Answers,
     Objects, NoPod
<1>2. InTime'
  BY DEF ServiceRead, Answered, clusterVars, historyVars, TypeOK, InTime
<1>3. TimerIsHonest'
  BY DEF ServiceRead, Answered, clusterVars, historyVars, TypeOK, TimerIsHonest
<1>4. Measured'
  BY DEF ServiceRead, Answered, clusterVars, historyVars, TypeOK, Measured, StagesOfPod
<1>5. ReadySeen'
  BY DEF ServiceRead, Answered, clusterVars, historyVars, TypeOK, InTime, Measured,
     ReadySeen
<1>6. CrashSeen'
  BY DEF ServiceRead, Answered, clusterVars, historyVars, TypeOK, InTime, Measured,
     CrashSeen, PersistentCrashLoop
<1>7. ShortageSeen'
  BY DEF ServiceRead, Answered, clusterVars, historyVars, TypeOK, InTime, Measured,
     ShortageSeen
<1> QED BY <1>1, <1>2, <1>3, <1>4, <1>5, <1>6, <1>7

LEMMA NapEndsKeeps ==
    ASSUME IInv, NapEnds
    PROVE  IInv'
<1> USE Units DEF IInv, Reading, Sleeping, Waiting, None, Elapsed
<1>1. TypeOK'
  BY DEF NapEnds, Answered, clusterVars, historyVars, TypeOK, StagesOfPod, Answers,
     Objects, NoPod
<1>2. InTime'
  BY DEF NapEnds, Answered, clusterVars, historyVars, TypeOK, InTime
<1>3. TimerIsHonest'
  BY DEF NapEnds, Answered, clusterVars, historyVars, TypeOK, TimerIsHonest
<1>4. Measured'
  BY DEF NapEnds, Answered, clusterVars, historyVars, TypeOK, Measured, StagesOfPod
<1>5. ReadySeen'
  BY DEF NapEnds, Answered, clusterVars, historyVars, TypeOK, InTime, Measured,
     ReadySeen
<1>6. CrashSeen'
  BY DEF NapEnds, Answered, clusterVars, historyVars, TypeOK, InTime, Measured,
     CrashSeen, PersistentCrashLoop
<1>7. ShortageSeen'
  BY DEF NapEnds, Answered, clusterVars, historyVars, TypeOK, InTime, Measured,
     ShortageSeen
<1> QED BY <1>1, <1>2, <1>3, <1>4, <1>5, <1>6, <1>7

LEMMA EventsListedKeeps ==
    ASSUME IInv, EventsListed
    PROVE  IInv'
<1> USE Units DEF IInv, Reading, Sleeping, Waiting, None, Elapsed
<1>1. TypeOK'
  <2>1. listed' \in Pods
    BY PodsAreListed DEF EventsListed, Diagnose, TypeOK, Pods
  <2> QED
    BY <2>1 DEF EventsListed, Diagnose, QuotaTimer, Exhausted, PersistentCrashLoop, Answered,
       clusterVars, TypeOK, Pods, StagesOfPod, Answers, Objects
<1>2. InTime'
  BY DEF EventsListed, Diagnose, QuotaTimer, Exhausted, PersistentCrashLoop, Answered,
     clusterVars, NoPod, TypeOK, InTime
<1>3. TimerIsHonest'
  BY DEF EventsListed, Diagnose, QuotaTimer, Exhausted, PersistentCrashLoop, Answered,
     clusterVars, NoPod, TypeOK, TimerIsHonest
<1>4. Measured'
  BY DEF EventsListed, Diagnose, QuotaTimer, Exhausted, PersistentCrashLoop, Answered,
     clusterVars, NoPod, TypeOK, Measured, StagesOfPod
<1>5. ReadySeen'
  BY DEF EventsListed, Diagnose, QuotaTimer, Exhausted, PersistentCrashLoop, Answered,
     clusterVars, NoPod, TypeOK, InTime, Measured, ReadySeen
<1>6. CrashSeen'
  BY DEF EventsListed, Diagnose, QuotaTimer, Exhausted, PersistentCrashLoop, Answered,
     clusterVars, NoPod, TypeOK, InTime, Measured, CrashSeen
<1>7. ShortageSeen'
  BY DEF EventsListed, Diagnose, QuotaTimer, Exhausted, PersistentCrashLoop, Answered,
     clusterVars, NoPod, TypeOK, InTime, Measured, ShortageSeen
<1> QED BY <1>1, <1>2, <1>3, <1>4, <1>5, <1>6, <1>7

-----------------------------------------------------------------------------
LEMMA StepIInv == IInv /\ [Next]_vars => IInv'
<1> SUFFICES ASSUME IInv, [Next]_vars PROVE IInv'
  OBVIOUS
<1>1. CASE at # "done" /\ Thread
  BY <1>1, ApplyKeeps, ApplyRaisesKeeps, StatusReadKeeps, PodsListedKeeps, EventsListedKeeps,
     WakesKeeps, ServiceReadKeeps, NapEndsKeeps DEF Thread
<1>2. CASE at # "done" /\ Cluster
  BY <1>2, PodMovesKeeps, PodReplacedKeeps, ShortageReportedKeeps, OtherEventKeeps,
     AddressAssignedKeeps DEF Cluster
<1>3. CASE at # "done" /\ Tick
  BY <1>3, TickKeeps
<1>4. CASE UNCHANGED vars
  BY <1>4 DEF vars, threadVars, clusterVars, historyVars, IInv, TypeOK, InTime, TimerIsHonest,
     Measured, ReadySeen, CrashSeen, ShortageSeen, Elapsed, PersistentCrashLoop
<1> QED BY <1>1, <1>2, <1>3, <1>4 DEF Next, Answering, Finished

LEMMA Invariant == Spec => []IInv
  BY InitIInv, StepIInv, PTL DEF Spec

-----------------------------------------------------------------------------

(* Every reachable state is of the declared type. *)
THEOREM TypeCorrect == Spec => []TypeOK
  BY Invariant, PTL DEF IInv

(* No verdict of quota without a grace period of polls that saw the shortage. *)
THEOREM QuotaOnlyForLasting == Spec => []QuotaIsPersistent
<1>1. IInv => QuotaIsPersistent
  BY DEF IInv, TimerIsHonest, QuotaIsPersistent
<1> QED BY <1>1, Invariant, PTL

(* A shortage or a crash loop that stays ends the wait long before its timeout. *)
THEOREM HopelessIsSeen == Spec => []HopelessEndsEarly
<1>1. IInv => HopelessEndsEarly
  <2> SUFFICES ASSUME IInv, at \in Waiting
               PROVE  shortFor < Grace + Period + Sight /\ crashFor <= Sight
    BY DEF HopelessEndsEarly, Waiting
  <2> USE Units DEF IInv, TypeOK, InTime, Waiting, Reading, Sleeping, Elapsed, None
  <2>1. Elapsed \in Int /\ Elapsed <= Sight
    OBVIOUS
  <2>2. crashFor <= Sight
    BY <2>1 DEF CrashSeen
  <2>3. shortFor < Grace + Period + Sight
    BY <2>1 DEF ShortageSeen
  <2> QED BY <2>2, <2>3
<1> QED BY <1>1, Invariant, PTL

(* A pod that is ready is found ready by the next poll, and a verdict against it
   is given only by a poll that had read its status before it was. *)
THEOREM ReadyIsSeen == Spec => []ReadyIsNotMissed
<1>1. IInv => ReadyIsNotMissed
  BY Units DEF IInv, TypeOK, InTime, ReadySeen, ReadyIsNotMissed, Reading, Sleeping, Elapsed
<1> QED BY <1>1, Invariant, PTL

(* The calls answer within their timeouts and one more poll each. *)
THEOREM WaitIsBounded == Spec => []EndsInTime
<1>1. IInv => EndsInTime
  BY Units DEF IInv, TypeOK, InTime, EndsInTime, Reading, Sleeping, Waiting
<1> QED BY <1>1, Invariant, PTL

================================================================================
