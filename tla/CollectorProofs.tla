---------------------------- MODULE CollectorProofs ----------------------------
(***************************************************************************)
(* What holds of the polls in every state, for any deployments and polls:  *)
(* a poll is at a row exactly while it has something to wait for or to     *)
(* record, and the lock of the SDK has at most one holder.                 *)
(***************************************************************************)
EXTENDS Collector, TLAPS

\* _env_lock: no two threads are inside the SDK at once.
OneInTheSDK ==
    \A p, q \in Polls :
        /\ at[p] \in Gpu /\ answer[p] = "pending"
        /\ at[q] \in Gpu /\ answer[q] = "pending"
        => p = q

\* A GPU row is collected for only with the lock, any other without.
QueueIsForGpu == \A p \in Polls : answer[p] = "queued" => at[p] \in Gpu

CInv == CollectorTypeOK /\ QueueIsForGpu /\ OneInTheSDK

-----------------------------------------------------------------------------

LEMMA InitCInv == Init => CInv
  BY GpuRuns, NoRowIsNone, BoundsAreNatural
     DEF Init, CInv, CollectorTypeOK, QueueIsForGpu, OneInTheSDK, Readings

LEMMA ListsKeep ==
    ASSUME CInv, NEW p \in Polls, Lists(p)
    PROVE  /\ todo' \in [Polls -> SUBSET Deployments]
           /\ at' = at /\ answer' = answer
  BY DEF CInv, CollectorTypeOK, Lists, Listed

LEMMA StepCInv == CInv /\ [Next]_vars => CInv'
<1> SUFFICES ASSUME CInv, [Next]_vars PROVE CInv'
  OBVIOUS
<1> USE GpuRuns, NoRowIsNone, BoundsAreNatural
    DEF CInv, CollectorTypeOK, QueueIsForGpu, OneInTheSDK, Readings
<1>1. ASSUME NEW d \in Deployments, RowMoves(d) PROVE CInv'
  BY <1>1 DEF RowMoves, pollVars
<1>2. ASSUME NEW d \in Deployments, LoadChanges(d) PROVE CInv'
  BY <1>2 DEF LoadChanges, Aged
<1>3. ASSUME NEW p \in Polls, NEW d \in Deployments, Collects(p, d) PROVE CInv'
  BY <1>3 DEF Collects, envVars
<1>4. ASSUME NEW p \in Polls, Acquires(p) PROVE CInv'
  BY <1>4 DEF Acquires, Locked, envVars
<1>5. ASSUME NEW p \in Polls, Returns(p) PROVE CInv'
  BY <1>5 DEF Returns, envVars
<1>6. ASSUME NEW p \in Polls, Resumes(p) PROVE CInv'
  BY <1>6 DEF Resumes, Left, envVars
<1>7. ASSUME NEW p \in Polls, PollsOnTheSide(p) PROVE CInv'
  BY <1>7, ListsKeep DEF PollsOnTheSide, envVars
<1>8. CASE StartPolls
  BY <1>8, ListsKeep DEF StartPolls, envVars, Polls
<1>9. CASE Serve
  BY <1>9 DEF Serve, envVars, pollVars
<1>10. CASE Tick
  BY <1>10, ListsKeep DEF Tick, envVars, Polls
<1>11. CASE Restart
  BY <1>11 DEF Restart, envVars
<1>12. CASE UNCHANGED vars
  BY <1>12 DEF vars, envVars, pollVars
<1> QED
  BY <1>1, <1>2, <1>3, <1>4, <1>5, <1>6, <1>7, <1>8, <1>9, <1>10, <1>11, <1>12 DEF Next

LEMMA Invariant == Spec => []CInv
  BY InitCInv, StepCInv, PTL DEF Spec

-----------------------------------------------------------------------------

(* Every reachable state is of the declared type, and a poll awaits something
   exactly while it is at a row. *)
THEOREM TypeCorrect == Spec => []CollectorTypeOK
  BY Invariant, PTL DEF CInv

(* hardware_metrics_collector through lightning_ai_provider's _env_lock: however
   many polls overlap, at most one call is inside the SDK, whose credentials are
   the environment of the process. *)
THEOREM SDKIsExclusive == Spec => []OneInTheSDK
  BY Invariant, PTL DEF CInv

================================================================================
