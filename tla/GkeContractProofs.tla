-------------------------- MODULE GkeContractProofs --------------------------
(***************************************************************************)
(* GkeDeployment implements DeploymentLife, for any constants.             *)
(*                                                                         *)
(* The invariant of GkeDeploymentProofs says enough about the task, the    *)
(* thread and the teardown, but not which statuses a row may have while    *)
(* its deploy task is at work; AtWork adds that.  Every step of the        *)
(* program then is one step of the contract, or none.                      *)
(*                                                                         *)
(* The last two sections say what the platform may lose hold of, and how:  *)
(* a project left behind, and the cap outrun, only by a thread that has    *)
(* outlived its task or by way of a row that was taken for lost.           *)
(***************************************************************************)
EXTENDS GkeDeploymentProofs, FiniteSetTheorems

(* While the deploy task is at work only the refresh and the user's dismissal
   get at its row; a row that is still queued has no call and no teardown
   behind it; and a dismissed row has lost its address. *)
AtWork(d) ==
    /\ pc[d] \in DeployCalls => status[d] \in {"deploying", "lost", "erased"}
    /\ status[d] = "queued" =>
          /\ pc[d] \in {"idle", "scheduled"} /\ thread[d] = "none"
          /\ \A r \in Requests : req[d][r] \in {"idle", "cancelling"}
    /\ status[d] = "erased" => ~endpoint[d]

CInv == IInv /\ \A d \in Deployments : AtWork(d)

-----------------------------------------------------------------------------
(* Every step keeps AtWork. *)

LEMMA AtWorkFrame ==
    ASSUME NEW e \in Deployments, AtWork(e), Same(e)
    PROVE  AtWork(e)'
  BY DEF AtWork, Same

LEMMA DeployTaskAtWork ==
    ASSUME CInv, NEW d \in Deployments, DeployTask(d)
    PROVE  AtWork(d)'
<1> USE DEF AtWork, rowVars, taskVars, refreshVars
<1>1. TypeOK /\ Coherent(d) /\ AtWork(d)
  BY DEF CInv, IInv
<1>2. CASE Begin(d)
  <2>1. status'[d] = "deploying"
    BY <1>1, <1>2, WrittenRow DEF Begin, Absent
  <2> QED
    BY <2>1
<1>3. CASE CallReturns(d)
  BY <1>1, <1>3 DEF TypeOK, CallReturns
<1>4. CASE Advance(d)
  <2>1. pc[d] \in DeployCalls
    BY <1>4 DEF Advance, NextCall
  <2>2. status'[d] \in {"deploying", status[d]}
    <3>1. CASE pc[d] \in Reported
      BY <1>1, <1>4, <3>1, WrittenRow DEF Advance, Absent
    <3>2. CASE pc[d] \notin Reported
      BY <1>4, <3>2 DEF Advance
    <3> QED
      BY <3>1, <3>2
  <2> QED
    BY <1>1, <1>4, <2>1, <2>2 DEF Advance
<1>5. CASE Finish(d)
  <2>1. pc[d] \in DeployCalls /\ pc'[d] = "idle"
    BY <1>1, <1>5 DEF TypeOK, Finish, FinalCall, Return, DeployCalls
  <2>2. /\ status'[d] = IF status[d] \in Absent THEN status[d] ELSE "running"
        /\ endpoint'[d] = (status[d] \notin Absent)
    BY <1>1, <1>5, WrittenRow DEF TypeOK, Finish
  <2> QED
    BY <1>1, <2>1, <2>2 DEF Absent, DeployCalls
<1>6. CASE Fail(d)
  <2>1. pc[d] \in DeployCalls /\ pc'[d] \notin DeployCalls
    BY <1>1, <1>6 DEF TypeOK, Fail, Call, Return, DeployCalls
  <2>2. /\ status'[d] = IF status[d] \in Absent THEN status[d] ELSE "failed"
        /\ endpoint' = endpoint
    BY <1>1, <1>6, WrittenRow DEF Fail, FailedRow
  <2> QED
    BY <1>1, <2>1, <2>2 DEF Absent
<1>7. CASE RollbackProbed(d) \/ RollbackEnds(d)
  <2>1. /\ pc[d] \in RollbackCalls /\ pc'[d] \notin DeployCalls
        /\ UNCHANGED <<status, endpoint>>
    BY <1>1, <1>7 DEF TypeOK, RollbackProbed, RollbackEnds, Call, Return, DeployCalls,
       RollbackCalls
  <2>2. status[d] # "queued"
    BY <1>1, <2>1 DEF RollbackCalls
  <2> QED
    BY <1>1, <2>1, <2>2
<1> QED
  BY <1>2, <1>3, <1>4, <1>5, <1>6, <1>7 DEF DeployTask

LEMMA HandlerAtWork ==
    ASSUME CInv, NEW d \in Deployments, NEW r \in Requests, DeleteHandler(d, r)
    PROVE  AtWork(d)'
<1> USE DEF AtWork, rowVars, taskVars, refreshVars
<1>1. TypeOK /\ Coherent(d) /\ AtWork(d)
  BY DEF CInv, IInv
<1>2. CASE DeleteCancels(d, r)
  <2>1. pc'[d] = "idle" /\ thread'[d] \in {thread[d], "none"}
    BY <1>1, <1>2 DEF TypeOK, DeleteCancels
  <2>2. \A q \in Requests : req'[d][q] \in {req[d][q], "cancelling"}
    BY <1>1, <1>2 DEF TypeOK, DeleteCancels
  <2> QED
    BY <1>1, <1>2, <2>1, <2>2 DEF DeleteCancels, DeployCalls
<1>3. CASE ~DeleteCancels(d, r)
  <2>1. pc[d] = "idle" /\ UNCHANGED <<pc, thread, endpoint>>
    <3>1. TearingDown(d) => pc[d] = "idle"
      BY <1>1 DEF Coherent, TeardownAlone
    <3>2. CASE DeleteTearsDown(d, r)
      BY <3>1, <3>2 DEF DeleteTearsDown, NothingToCancel, TearingDown
    <3>3. CASE TeardownReturns(d, r)
      BY <3>1, <3>3 DEF TeardownReturns, TearingDown
    <3>4. CASE TeardownEnds(d, r)
      BY <3>1, <3>4 DEF TeardownEnds, TearingDown, Answers
    <3> QED
      BY <1>3, <3>2, <3>3, <3>4 DEF DeleteHandler
  <2>2. CASE DeleteTearsDown(d, r)
    <3>1. status'[d] = IF status[d] \in Absent THEN status[d] ELSE "deleting"
      BY <1>1, <2>2, WrittenRow DEF DeleteTearsDown
    <3> QED
      BY <1>1, <2>1, <3>1 DEF Absent, DeployCalls
  <2>3. CASE TeardownReturns(d, r)
    <3>1. status[d] # "queued" /\ status' = status
      BY <1>1, <2>3 DEF TeardownReturns
    <3> QED
      BY <1>1, <2>1, <3>1 DEF DeployCalls
  <2>4. CASE TeardownEnds(d, r)
    <3>1. status[d] # "queued"
      BY <1>1, <2>4 DEF TeardownEnds, Answers
    <3>2. status'[d] \in {status[d], "deleted", "failed"}
      BY <1>1, <2>4, WrittenRow DEF TeardownEnds, SettledRow
    <3> QED
      BY <1>1, <2>1, <3>1, <3>2 DEF DeployCalls
  <2> QED
    BY <1>3, <2>2, <2>3, <2>4 DEF DeleteHandler
<1> QED
  BY <1>2, <1>3

LEMMA OtherStepsAtWork ==
    ASSUME CInv, NEW d \in Deployments,
           \/ Preflight(d) \/ Refuse(d) \/ Admit(d) \/ LiveStatus(d)
           \/ EraseLost(d) \/ Poll(d) \/ PollEnds(d) \/ OutsideDelete(d)
    PROVE  AtWork(d)'
<1> USE DEF AtWork, rowVars, taskVars, refreshVars
<1>1. TypeOK /\ Coherent(d) /\ AtWork(d)
  BY DEF CInv, IInv
<1>2. CASE Preflight(d) \/ Refuse(d) \/ Poll(d) \/ OutsideDelete(d)
  BY <1>1, <1>2 DEF Preflight, Refuse, Poll, OutsideDelete
<1>3. CASE Admit(d)
  <2>1. status'[d] = "queued" /\ pc'[d] = "scheduled"
    BY <1>1, <1>3 DEF TypeOK, Admit
  <2>2. thread[d] = "none" /\ \A r \in Requests : req[d][r] = "idle"
    BY <1>1, <1>3 DEF Admit, Coherent, NothingBeforeRow, TearingDown
  <2> QED
    BY <1>3, <2>1, <2>2 DEF Admit, DeployCalls
<1>4. CASE LiveStatus(d)
  <2>1. status'[d] = IF status[d] \in Absent THEN status[d] ELSE "deploying"
    BY <1>1, <1>4, WrittenRow DEF LiveStatus, LiveRow
  <2> QED
    BY <1>1, <1>4, <2>1 DEF LiveStatus, Absent
<1>5. CASE EraseLost(d)
  <2>1. status'[d] = "erased" /\ endpoint'[d] = FALSE
    BY <1>1, <1>5 DEF TypeOK, EraseLost
  <2> QED
    BY <1>1, <1>5, <2>1 DEF EraseLost
<1>6. CASE PollEnds(d)
  <2>1. status'[d] \in {status[d], "lost"} /\ status[d] # "queued"
    BY <1>1, <1>6, WrittenRow DEF PollEnds, Coherent, RefreshIsLate
  <2> QED
    BY <1>1, <1>6, <2>1 DEF PollEnds
<1> QED
  BY <1>2, <1>3, <1>4, <1>5, <1>6

LEMMA CInvInit == Init => CInv
<1>1. Init => IInv
  BY InvInit
<1>2. ASSUME Init, NEW d \in Deployments
      PROVE  AtWork(d)
  BY <1>2 DEF Init, AtWork, DeployCalls
<1> QED
  BY <1>1, <1>2 DEF CInv

LEMMA CInvNext == CInv /\ [Next]_vars => CInv'
<1> SUFFICES ASSUME CInv, [Next]_vars
             PROVE  IInv' /\ \A e \in Deployments : AtWork(e)'
  BY DEF CInv
<1>1. IInv /\ IInv' /\ TypeOK
  BY InvNext DEF CInv, IInv
<1>2. ASSUME NEW d \in Deployments, AtWork(d)',
             \A e \in Deployments \ {d} : Same(e)
      PROVE  \A e \in Deployments : AtWork(e)'
  BY <1>2, AtWorkFrame DEF CInv
<1>3. ASSUME NEW d \in Deployments, DeployTask(d)
      PROVE  \A e \in Deployments : AtWork(e)'
  BY <1>1, <1>2, <1>3, OthersSame, DeployTaskAtWork
<1>4. ASSUME NEW d \in Deployments, NEW r \in Requests, DeleteHandler(d, r)
      PROVE  \A e \in Deployments : AtWork(e)'
  BY <1>1, <1>2, <1>4, OthersSame, HandlerAtWork
<1>5. ASSUME NEW d \in Deployments,
             \/ Preflight(d) \/ Refuse(d) \/ Admit(d) \/ LiveStatus(d)
             \/ EraseLost(d) \/ Poll(d) \/ PollEnds(d) \/ OutsideDelete(d)
      PROVE  \A e \in Deployments : AtWork(e)'
  BY <1>1, <1>2, <1>5, OthersSame, OtherStepsAtWork
<1>6. ASSUME StartTick \/ SaveCredentials \/ DeleteCredentials \/ UNCHANGED vars,
             NEW e \in Deployments
      PROVE  AtWork(e)'
  BY <1>6 DEF CInv, AtWork, StartTick, SaveCredentials, DeleteCredentials, vars,
     rowVars, taskVars
<1>7. ASSUME Restart, NEW e \in Deployments
      PROVE  AtWork(e)'
  BY <1>7 DEF CInv, AtWork, Restart, DeployCalls, rowVars
<1> QED
  BY <1>1, <1>3, <1>4, <1>5, <1>6, <1>7 DEF Next

-----------------------------------------------------------------------------
(* Every step is a step of the contract. *)

\* The contract's "task", and the shape of a step that acts on one deployment.
Deploying(e) == pc[e] \in {"scheduled"} \cup DeployCalls

Tasks == [e \in Deployments |-> Deploying(e)]

LEMMA TasksAfter ==
    ASSUME NEW d \in Deployments,
           \A e \in Deployments \ {d} : pc'[e] = pc[e]
    PROVE  Tasks' = [Tasks EXCEPT ![d] = Deploying(d)']
  BY DEF Tasks, Deploying

LEMMA TaskOver ==
    ASSUME NEW d \in Deployments, ~Deploying(d)',
           \A e \in Deployments \ {d} : pc'[e] = pc[e]
    PROVE  Tasks' = [Tasks EXCEPT ![d] = FALSE]
<1>1. Deploying(d)' = FALSE
  BY SMT DEF Deploying
<1>2. Tasks' = [Tasks EXCEPT ![d] = Deploying(d)']
  BY TasksAfter
<1> QED
  BY <1>1, <1>2, Zenon

LEMMA TasksSame ==
    ASSUME NEW d \in Deployments, Deploying(d)' <=> Deploying(d),
           \A e \in Deployments \ {d} : pc'[e] = pc[e]
    PROVE  Tasks' = Tasks
  BY DEF Tasks, Deploying

\* update_status on a row that is there, and on one that is not.
LEMMA WrittenPresent ==
    ASSUME TypeOK, NEW d \in Deployments, NEW new
    PROVE  Written(status, d, new) =
              IF status[d] \in Absent THEN status ELSE [status EXCEPT ![d] = new]
  BY DEF Written, TypeOK

LEMMA NoStep ==
    ASSUME status' = status, endpoint' = endpoint, Tasks' = Tasks
    PROVE  UNCHANGED Life!lifeVars
  BY DEF Life!lifeVars, Tasks, Deploying

LEMMA TaskEndsStep ==
    ASSUME NEW d \in Deployments, Deploying(d), status' = status, endpoint' = endpoint,
           Tasks' = [Tasks EXCEPT ![d] = FALSE]
    PROVE  Life!TaskEnds(d)
  BY DEF Life!TaskEnds, Tasks, Deploying

LEMMA ReportStep ==
    ASSUME NEW d \in Deployments, NEW new \in {"deploying", "failed"},
           status[d] \in ColumnStatuses \ {"queued", "running"},
           status' = [status EXCEPT ![d] = new], endpoint' = endpoint,
           Tasks' = Tasks \/ Tasks' = [Tasks EXCEPT ![d] = FALSE]
    PROVE  Life!Report(d)
  BY DEF Life!Report, Life!Goes, Life!Begun, Tasks, Deploying, ColumnStatuses,
     Life!ColumnStatuses

-----------------------------------------------------------------------------
(* The steps of the program, one by one. *)

ContractStep == Life!LifeNext \/ UNCHANGED Life!lifeVars

LEMMA OneOfThem ==
    ASSUME NEW d \in Deployments,
           \/ Life!Insert(d) \/ Life!Start(d) \/ Life!GoLive(d) \/ Life!TaskEnds(d)
           \/ Life!Report(d) \/ Life!BeginTeardown(d) \/ Life!Confirm(d)
           \/ Life!Lose(d) \/ Life!Erase(d)
    PROVE  ContractStep
  BY DEF ContractStep, Life!LifeNext

LEMMA AdmitContract ==
    ASSUME CInv, NEW d \in Deployments, Admit(d)
    PROVE  ContractStep
<1>1. TypeOK /\ status[d] = "none"
  BY DEF CInv, IInv, Coherent, NothingBeforeRow, Admit
<1>2. Deploying(d)' /\ \A e \in Deployments \ {d} : pc'[e] = pc[e]
  BY <1>1 DEF TypeOK, Admit, Deploying
<1>3. Tasks' = [Tasks EXCEPT ![d] = TRUE]
  BY <1>2, TasksAfter DEF Deploying
<1>4. Life!Insert(d)
  BY <1>1, <1>3 DEF Admit, Life!Insert, Life!Goes, Tasks, Deploying
<1> QED
  BY <1>4, OneOfThem

LEMMA BeginContract ==
    ASSUME CInv, NEW d \in Deployments, Begin(d)
    PROVE  ContractStep
<1>1. TypeOK /\ status' = [status EXCEPT ![d] = "deploying"]
  BY WrittenPresent DEF CInv, IInv, Begin, Absent
<1>2. Tasks' = Tasks
  BY <1>1, TasksSame DEF TypeOK, Begin, Call, Deploying, DeployCalls
<1>3. Life!Start(d)
  BY <1>1, <1>2 DEF Begin, Life!Start, Life!Goes, Tasks, Deploying
<1> QED
  BY <1>3, OneOfThem

LEMMA AdvanceContract ==
    ASSUME CInv, NEW d \in Deployments, Advance(d)
    PROVE  ContractStep
<1>1. TypeOK /\ pc[d] \in DeployCalls /\ status[d] \in {"deploying", "lost", "erased"}
  BY DEF CInv, IInv, AtWork, Advance, NextCall
<1>2. NextCall[pc[d]] \in DeployCalls
  BY <1>1 DEF Advance, NextCall, DeployCalls
<1>3. Tasks' = Tasks /\ endpoint' = endpoint
  BY <1>1, <1>2, TasksSame DEF TypeOK, Advance, Call, Deploying
<1>4. CASE status' = status
  BY <1>3, <1>4, NoStep DEF ContractStep
<1>5. CASE status' # status
  <2>1. status' = [status EXCEPT ![d] = "deploying"] /\ status[d] \notin Absent
    BY <1>1, <1>5, WrittenPresent DEF Advance
  <2> QED
    BY <1>1, <1>3, <2>1, ReportStep, OneOfThem DEF Absent, ColumnStatuses
<1> QED
  BY <1>4, <1>5

LEMMA FinishContract ==
    ASSUME CInv, NEW d \in Deployments, Finish(d)
    PROVE  ContractStep
<1>1. TypeOK /\ Deploying(d) /\ ~Deploying(d)'
  BY DEF CInv, IInv, TypeOK, Finish, FinalCall, Return, Deploying, DeployCalls
<1>2. status[d] \in {"deploying", "lost", "erased"} /\ (status[d] = "erased" => ~endpoint[d])
  BY <1>1 DEF CInv, AtWork, Finish, Deploying, FinalCall, DeployCalls
<1>3. Tasks' = [Tasks EXCEPT ![d] = FALSE]
  BY <1>1, TaskOver DEF TypeOK, Finish, Return
<1>4. CASE status[d] = "erased"
  <2>1. status' = status
    BY <1>1, <1>4, WrittenPresent DEF Finish, Absent
  <2>2. endpoint' = endpoint
    BY <1>1, <1>2, <1>4 DEF TypeOK, Finish, Absent
  <2> QED
    BY <1>1, <1>3, <2>1, <2>2, TaskEndsStep, OneOfThem
<1>5. CASE status[d] # "erased"
  <2>1. status' = [status EXCEPT ![d] = "running"]
    BY <1>1, <1>2, <1>5, WrittenPresent DEF Finish, Absent
  <2>2. endpoint' = [endpoint EXCEPT ![d] = TRUE]
    BY <1>1, <1>2, <1>5 DEF TypeOK, Finish, Absent
  <2>3. Life!GoLive(d)
    BY <1>1, <1>2, <1>3, <1>5, <2>1, <2>2 DEF Life!GoLive, Life!Goes, Tasks, Deploying
  <2> QED
    BY <2>3, OneOfThem
<1> QED
  BY <1>4, <1>5

LEMMA FailContract ==
    ASSUME CInv, NEW d \in Deployments, Fail(d)
    PROVE  ContractStep
<1>1. TypeOK /\ Deploying(d) /\ status[d] \in {"deploying", "lost", "erased"}
  BY DEF CInv, IInv, AtWork, Fail, Deploying
<1>2. ~Deploying(d)' /\ \A e \in Deployments \ {d} : pc'[e] = pc[e]
  BY <1>1 DEF TypeOK, Fail, Call, Return, Deploying, DeployCalls
<1>3. Tasks' = [Tasks EXCEPT ![d] = FALSE] /\ endpoint' = endpoint
  BY <1>2, TaskOver DEF Fail
<1>4. status' = IF status[d] \in Absent THEN status ELSE [status EXCEPT ![d] = "failed"]
  BY <1>1, WrittenPresent DEF Fail, FailedRow
<1> QED
  BY <1>1, <1>3, <1>4, TaskEndsStep, ReportStep, OneOfThem DEF Absent, ColumnStatuses

LEMMA LiveStatusContract ==
    ASSUME CInv, NEW d \in Deployments, LiveStatus(d)
    PROVE  ContractStep
<1>1. TypeOK /\ status[d] \notin {"none", "queued", "running"}
  BY DEF CInv, IInv, AtWork, Coherent, NothingBeforeRow, Serving, LiveStatus
<1>2. Tasks' = Tasks /\ endpoint' = endpoint
  BY DEF LiveStatus, Tasks, Deploying, taskVars
<1>3. status' = IF status[d] \in Absent THEN status ELSE [status EXCEPT ![d] = "deploying"]
  BY <1>1, WrittenPresent DEF LiveStatus, LiveRow
<1>4. CASE status[d] \in Absent
  BY <1>2, <1>3, <1>4, NoStep DEF ContractStep
<1>5. CASE status[d] \notin Absent
  <2>1. status[d] \in ColumnStatuses \ {"queued", "running"}
    BY <1>1, <1>5 DEF TypeOK, Statuses
  <2> QED
    BY <1>2, <1>3, <1>5, <2>1, ReportStep, OneOfThem
<1> QED
  BY <1>4, <1>5

LEMMA DeleteCancelsContract ==
    ASSUME CInv, NEW d \in Deployments, NEW r \in Requests, DeleteCancels(d, r)
    PROVE  ContractStep
<1>1. status' = status /\ endpoint' = endpoint
  BY DEF DeleteCancels, rowVars
<1>2. ~Deploying(d)' /\ \A e \in Deployments \ {d} : pc'[e] = pc[e]
  BY DEF CInv, IInv, TypeOK, DeleteCancels, Deploying, DeployCalls
<1>3. CASE Deploying(d)
  BY <1>1, <1>2, <1>3, TaskOver, TaskEndsStep, OneOfThem
<1>4. CASE ~Deploying(d)
  BY <1>1, <1>2, <1>4, TasksSame, NoStep DEF ContractStep
<1> QED
  BY <1>3, <1>4

LEMMA DeleteTearsDownContract ==
    ASSUME CInv, NEW d \in Deployments, NEW r \in Requests, DeleteTearsDown(d, r)
    PROVE  ContractStep
<1>1. TypeOK /\ ~Deploying(d)
  <2>1. TypeOK /\ (TearingDown(d) => pc[d] = "idle")
    BY DEF CInv, IInv, Coherent, TeardownAlone
  <2>2. pc[d] = "idle"
    BY <2>1 DEF DeleteTearsDown, NothingToCancel, TearingDown
  <2> QED
    BY <2>1, <2>2 DEF Deploying, DeployCalls
<1>2. Tasks' = Tasks /\ endpoint' = endpoint
  BY DEF DeleteTearsDown, Tasks, Deploying, taskVars
<1>3. status' = IF status[d] \in Absent THEN status ELSE [status EXCEPT ![d] = "deleting"]
  BY <1>1, WrittenPresent DEF DeleteTearsDown
<1>4. CASE status[d] \in Absent
  BY <1>2, <1>3, <1>4, NoStep DEF ContractStep
<1>5. CASE status[d] \notin Absent
  <2>1. status[d] \in ColumnStatuses
    BY <1>1, <1>5 DEF TypeOK, Statuses
  <2>2. Life!BeginTeardown(d)
    BY <1>1, <1>2, <1>3, <1>5, <2>1
       DEF Life!BeginTeardown, Life!Goes, Life!ColumnStatuses, ColumnStatuses, Tasks, Deploying
  <2> QED
    BY <2>2, OneOfThem
<1> QED
  BY <1>4, <1>5

LEMMA TeardownEndsContract ==
    ASSUME CInv, NEW d \in Deployments, NEW r \in Requests, TeardownEnds(d, r)
    PROVE  ContractStep
<1>1. TypeOK /\ req[d][r] \in Answers /\ TearingDown(d)
  BY DEF CInv, IInv, TeardownEnds, TearingDown, Answers
<1>2. ~Deploying(d) /\ status[d] \notin {"none", "queued", "running"}
  BY <1>1 DEF CInv, IInv, AtWork, Coherent, NothingBeforeRow, TeardownAlone, Serving,
     Deploying, DeployCalls, Answers
<1>3. Tasks' = Tasks /\ endpoint' = endpoint
  BY DEF TeardownEnds, Tasks, Deploying, taskVars
<1>4. CASE status' = status
  BY <1>3, <1>4, NoStep DEF ContractStep
<1>5. CASE status' # status
  <2>1. PICK new \in {"deleted", "failed"} : status' = Written(status, d, new)
    BY <1>5 DEF TeardownEnds, SettledRow
  <2>2. status[d] \notin Absent /\ status' = [status EXCEPT ![d] = new]
    BY <1>1, <1>5, <2>1, WrittenPresent
  <2>3. status[d] \in ColumnStatuses \ {"queued", "running"}
    BY <1>1, <1>2, <2>2 DEF TypeOK, Statuses
  <2>4. CASE new = "deleted"
    <3>1. Life!Confirm(d)
      BY <1>2, <1>3, <2>2, <2>3, <2>4
         DEF Life!Confirm, Life!Goes, Life!Begun, Life!ColumnStatuses, ColumnStatuses,
             Tasks, Deploying
    <3> QED
      BY <3>1, OneOfThem
  <2>5. CASE new = "failed"
    BY <1>3, <2>2, <2>3, <2>5, ReportStep, OneOfThem
  <2> QED
    BY <2>4, <2>5
<1> QED
  BY <1>4, <1>5

LEMMA RefreshContract ==
    ASSUME CInv, NEW d \in Deployments, EraseLost(d) \/ PollEnds(d)
    PROVE  ContractStep
<1>1. TypeOK /\ Tasks' = Tasks
  BY DEF CInv, IInv, EraseLost, PollEnds, Tasks, Deploying, taskVars
<1>2. CASE EraseLost(d)
  <2>1. Life!Erase(d)
    BY <1>1, <1>2 DEF EraseLost, Life!Erase, Life!Goes, Tasks, Deploying
  <2> QED
    BY <2>1, OneOfThem
<1>3. CASE PollEnds(d)
  <2>1. status[d] \notin {"none", "queued"} /\ endpoint' = endpoint
    BY <1>3 DEF CInv, IInv, Coherent, RefreshIsLate, PollEnds
  <2>2. CASE status' = status
    BY <1>1, <2>1, <2>2, NoStep DEF ContractStep
  <2>3. CASE status' # status
    <3>1. status[d] \notin Absent /\ status' = [status EXCEPT ![d] = "lost"]
      BY <1>1, <1>3, <2>3, WrittenPresent DEF PollEnds
    <3>2. status[d] \in ColumnStatuses \ {"queued"}
      BY <1>1, <2>1, <3>1 DEF TypeOK, Statuses
    <3>3. Life!Lose(d)
      BY <1>1, <2>1, <3>1, <3>2
         DEF Life!Lose, Life!Goes, Life!Begun, Life!ColumnStatuses, ColumnStatuses,
             Tasks, Deploying
    <3> QED
      BY <3>3, OneOfThem
  <2> QED
    BY <2>2, <2>3
<1> QED
  BY <1>2, <1>3

\* Steps that leave the two columns and the deploy tasks alone.
LEMMA SilentContract ==
    ASSUME CInv,
           \/ \E d \in Deployments :
                \/ Preflight(d) \/ Refuse(d) \/ CallReturns(d)
                \/ RollbackProbed(d) \/ RollbackEnds(d)
                \/ \E r \in Requests : TeardownReturns(d, r)
                \/ Poll(d) \/ OutsideDelete(d)
           \/ StartTick \/ SaveCredentials \/ DeleteCredentials \/ UNCHANGED vars
    PROVE  ContractStep
<1> USE DEF rowVars, taskVars
<1>1. ASSUME NEW d \in Deployments, RollbackProbed(d) \/ RollbackEnds(d)
      PROVE  ContractStep
  <2>1. ~Deploying(d) /\ ~Deploying(d)' /\ \A e \in Deployments \ {d} : pc'[e] = pc[e]
    BY <1>1 DEF CInv, IInv, TypeOK, RollbackProbed, RollbackEnds, Call, Return,
       Deploying, DeployCalls
  <2> QED
    BY <1>1, <2>1, TasksSame, NoStep DEF RollbackProbed, RollbackEnds, ContractStep
<1>2. ASSUME UNCHANGED <<status, endpoint, pc>>
      PROVE  ContractStep
  BY <1>2, NoStep DEF Tasks, Deploying, ContractStep
<1> QED
  BY <1>1, <1>2 DEF Preflight, Refuse, CallReturns, TeardownReturns, Poll, OutsideDelete,
     StartTick, SaveCredentials, DeleteCredentials, vars

LEMMA RestartContract ==
    ASSUME Restart
    PROVE  ContractStep
<1>1. Tasks' = [d \in Deployments |-> FALSE]
  <2>1. \A d \in Deployments : Deploying(d)' = FALSE
    <3>1. \A d \in Deployments : pc'[d] \notin {"scheduled"} \cup DeployCalls
      BY DEF Restart, DeployCalls
    <3> QED
      BY <3>1, SMT DEF Deploying
  <2>2. Tasks' = [d \in Deployments |-> Deploying(d)']
    BY Zenon DEF Tasks
  <2> QED
    BY <2>1, <2>2, Zenon
<1>2. Life!TasksLost
  BY <1>1 DEF Restart, Life!TasksLost, Tasks, Deploying, rowVars
<1> QED
  BY <1>2 DEF ContractStep, Life!LifeNext

LEMMA ContractNext == CInv /\ [Next]_vars => ContractStep
<1> SUFFICES ASSUME CInv, [Next]_vars
             PROVE  ContractStep
  OBVIOUS
<1>1. ASSUME NEW d \in Deployments, DeployTask(d)
      PROVE  ContractStep
  BY <1>1, BeginContract, AdvanceContract, FinishContract, FailContract, SilentContract
     DEF DeployTask
<1>2. ASSUME NEW d \in Deployments, NEW r \in Requests, DeleteHandler(d, r)
      PROVE  ContractStep
  BY <1>2, DeleteCancelsContract, DeleteTearsDownContract, TeardownEndsContract,
     SilentContract DEF DeleteHandler
<1>3. ASSUME NEW d \in Deployments,
             \/ Preflight(d) \/ Refuse(d) \/ Admit(d) \/ LiveStatus(d)
             \/ EraseLost(d) \/ Poll(d) \/ PollEnds(d) \/ OutsideDelete(d)
      PROVE  ContractStep
  BY <1>3, AdmitContract, LiveStatusContract, RefreshContract, SilentContract
<1>4. CASE StartTick \/ SaveCredentials \/ DeleteCredentials \/ UNCHANGED vars
  BY <1>4, SilentContract
<1>5. CASE Restart
  BY <1>5, RestartContract
<1> QED
  BY <1>1, <1>2, <1>3, <1>4, <1>5 DEF Next

(* GkeDeployment implements DeploymentLife: whatever deploy tasks, abandoned
   threads, concurrent DELETEs, stale polls and restarts do, a row gets its
   address once, in the step that makes it running, from its deploy task; no
   teardown begins or is confirmed while that task is on its way; and nothing
   else makes a row running. *)
THEOREM Contract == Spec => KeepsContract
<1>1. Init => CInv
  BY CInvInit
<1>2. CInv /\ [Next]_vars => CInv'
  BY CInvNext
<1>3. Init => Life!LifeInit
  <2> SUFFICES ASSUME Init
               PROVE  Life!LifeInit
    OBVIOUS
  <2>1. \A d \in Deployments : pc[d] \notin {"scheduled"} \cup DeployCalls
    BY DEF Init, DeployCalls
  <2>2. \A d \in Deployments : (pc[d] \in {"scheduled"} \cup DeployCalls) = FALSE
    BY <2>1, SMT
  <2>3. [d \in Deployments |-> pc[d] \in {"scheduled"} \cup DeployCalls]
           = [d \in Deployments |-> FALSE]
    BY <2>2, Zenon
  <2> QED
    BY <2>3, Zenon DEF Init, Life!LifeInit
<1>4. CInv /\ [Next]_vars => [Life!LifeNext]_(Life!lifeVars)
  BY ContractNext DEF ContractStep
<1> QED
  BY <1>1, <1>2, <1>3, <1>4, PTL DEF Spec, KeepsContract, Life!LifeSpec

-----------------------------------------------------------------------------
(* Projects left behind. *)

\* A deletion answered "ok" or "notfound" leaves a project only where it has no row.
LEMMA DeletionAnswered ==
    ASSUME NEW d \in Deployments, NEW o \in Outcomes(d, "delete_project"),
           o[1] \in {"project", "cluster", "workload"}, o[2] \in {"ok", "notfound"}
    PROVE  status[d] = "erased" /\ Exists(d)
<1>1. \/ status[d] = "erased" /\ o = <<cloud[d], "notfound">>
      \/ o \in {<<cloud[d], f>> : f \in {"error", "auth", "unexpected"}}
      \/ o \in {"gone"} \X {"ok", "error"}
      \/ ~Exists(d) /\ o = <<cloud[d], "ok">>
  BY DEF Outcomes, RowMissing, KeyMissing, Failures, Leaves, KubeCalls
<1> QED
  BY <1>1 DEF Exists

\* Only create_project brings a project about.
LEMMA OnlyCreates ==
    ASSUME TypeOK, NEW d \in Deployments, CallReturns(d), ~Exists(d), Exists(d)'
    PROVE  thread[d] = "create_project"
<1>1. /\ thread[d] \in DeployCalls \cup RollbackCalls
      /\ cloud[d] \in {"absent", "gone"} /\ cloud'[d] # cloud[d]
  BY DEF TypeOK, CallReturns, Exists, Stages
<1>2. thread[d] # "project_exists"
  BY <1>1 DEF TypeOK, CallReturns
<1>3. cloud[d] \in Needs(thread[d])
  <2>1. PICK o \in Outcomes(d, thread[d]) : cloud'[d] = o[1]
    BY <1>2 DEF TypeOK, CallReturns
  <2>2. cloud[d] \notin Needs(thread[d]) => o[1] = cloud[d]
    BY DEF Outcomes
  <2> QED
    BY <1>1, <2>1, <2>2
<1> QED
  BY <1>1, <1>2, <1>3 DEF Needs, DeployCalls, RollbackCalls

\* What a step does to the deployment it is about.
LEMMA HandlerLeaves ==
    ASSUME TypeOK, NEW d \in Deployments, NEW r \in Requests, DeleteHandler(d, r),
           LeftBehind(d)'
    PROVE  LeftBehind(d)
<1>1. \A new : Written(status, d, new)[d] \in {status[d], new}
  BY WrittenRow
<1>2. CASE DeleteCancels(d, r)
  <2>1. \A q \in Requests : req'[d][q] \in {req[d][q], "cancelling"}
    BY <1>2 DEF TypeOK, DeleteCancels
  <2> QED
    BY <1>2, <2>1 DEF DeleteCancels, LeftBehind, Exists, rowVars
<1>3. CASE DeleteTearsDown(d, r)
  <2>1. \A q \in Requests : req'[d][q] \in {req[d][q], "tearing"}
    BY <1>3 DEF TypeOK, DeleteTearsDown
  <2> QED
    BY <1>1, <1>3, <2>1 DEF DeleteTearsDown, LeftBehind, Exists
<1>4. CASE TeardownReturns(d, r)
  <2>1. PICK o \in Outcomes(d, "delete_project") :
          /\ cloud'[d] = o[1]
          /\ \A q \in Requests : req'[d][q] = IF q = r THEN o[2] ELSE req[d][q]
    BY <1>4 DEF TypeOK, TeardownReturns
  <2>2. status' = status /\ o[1] \in {"project", "cluster", "workload"}
    BY <1>4, <2>1 DEF TeardownReturns, rowVars, LeftBehind, Exists
  <2>3. Exists(d)
    BY <2>2 DEF Outcomes, Needs, Leaves, Exists
  <2>4. CASE o[2] \in {"ok", "notfound"}
    BY <2>2, <2>4, DeletionAnswered DEF LeftBehind
  <2>5. CASE o[2] \notin {"ok", "notfound"}
    BY <2>1, <2>2, <2>3, <2>5 DEF LeftBehind
  <2> QED
    BY <2>4, <2>5
<1>5. CASE TeardownEnds(d, r)
  <2>1. status'[d] = "deleted" => status[d] = "deleted" \/ req[d][r] \in {"ok", "notfound"}
    BY <1>1, <1>5 DEF TeardownEnds, SettledRow
  <2>2. status'[d] = "erased" => status[d] = "erased"
    BY <1>1, <1>5 DEF TeardownEnds, SettledRow
  <2>3. \A q \in Requests : req'[d][q] \in {req[d][q], "idle"}
    BY <1>5 DEF TypeOK, TeardownEnds
  <2> QED
    BY <1>5, <2>1, <2>2, <2>3 DEF TeardownEnds, LeftBehind, Exists
<1> QED
  BY <1>2, <1>3, <1>4, <1>5 DEF DeleteHandler

LEMMA OtherStepsLeave ==
    ASSUME TypeOK, NEW d \in Deployments,
           \/ Preflight(d) \/ Refuse(d) \/ Admit(d) \/ DeployTask(d) \/ LiveStatus(d)
           \/ EraseLost(d) \/ Poll(d) \/ PollEnds(d) \/ OutsideDelete(d),
           LeftBehind(d)', ~LeftBehind(d)
    PROVE  thread[d] = "create_project" \/ status[d] = "lost"
<1>1. \A new : Written(status, d, new)[d] \in {status[d], new}
  BY WrittenRow
<1>2. req' = req
  BY DEF Preflight, Refuse, Admit, DeployTask, Begin, CallReturns, Advance, Finish, Fail,
     RollbackProbed, RollbackEnds, LiveStatus, EraseLost, Poll, PollEnds, OutsideDelete
<1>3. CASE EraseLost(d)
  BY <1>3 DEF EraseLost
<1>4. CASE ~EraseLost(d)
  <2>1. status'[d] \in {"deleted", "erased"} => status[d] \in {"deleted", "erased"}
    BY <1>1, <1>4 DEF TypeOK, Preflight, Refuse, Admit, DeployTask, Begin, CallReturns, Advance,
       Finish, Fail, FailedRow, RollbackProbed, RollbackEnds, LiveStatus, LiveRow, Poll,
       PollEnds, OutsideDelete, rowVars
  <2>2. ~Exists(d)
    BY <1>2, <2>1 DEF LeftBehind
  <2>3. ~CallReturns(d) => cloud'[d] \in {cloud[d], "gone"}
    BY <1>4 DEF TypeOK, Preflight, Refuse, Admit, DeployTask, Begin, Advance, Finish, Fail,
       RollbackProbed, RollbackEnds, LiveStatus, Poll, PollEnds, OutsideDelete
  <2>4. CallReturns(d)
    BY <2>2, <2>3 DEF LeftBehind, Exists
  <2> QED
    BY <2>2, <2>4, OnlyCreates DEF LeftBehind
<1> QED
  BY <1>3, <1>4

(* FR-007: whatever fails, and however DELETEs, polls and restarts interleave,
   a project is left behind by the thread that creates it after its teardown,
   or by the dismissal of a row that was taken for lost, and by nothing else. *)
THEOREM ProjectsLeftBehind == Spec => LeftBehindByThreadOrDismissal
<1> DEFINE Known(d) ==
      ~LeftBehind(d) /\ LeftBehind(d)' => thread[d] = "create_project" \/ status[d] = "lost"
<1>1. ASSUME IInv, [Next]_vars, NEW d \in Deployments
      PROVE  Known(d)
  <2>1. TypeOK
    BY <1>1 DEF IInv
  <2>2. ASSUME NEW e \in Deployments \ {d},
               \/ Preflight(e) \/ Refuse(e) \/ Admit(e) \/ DeployTask(e) \/ LiveStatus(e)
               \/ \E r \in Requests : DeleteHandler(e, r)
               \/ EraseLost(e) \/ Poll(e) \/ PollEnds(e) \/ OutsideDelete(e)
        PROVE  Known(d)
    BY <2>1, <2>2, OthersSame DEF Same, LeftBehind, Exists
  <2>3. ASSUME \/ Preflight(d) \/ Refuse(d) \/ Admit(d) \/ DeployTask(d) \/ LiveStatus(d)
               \/ EraseLost(d) \/ Poll(d) \/ PollEnds(d) \/ OutsideDelete(d)
        PROVE  Known(d)
    BY <2>1, <2>3, OtherStepsLeave
  <2>4. ASSUME NEW r \in Requests, DeleteHandler(d, r)
        PROVE  Known(d)
    BY <2>1, <2>4, HandlerLeaves
  <2>5. CASE StartTick \/ SaveCredentials \/ DeleteCredentials \/ UNCHANGED vars
    BY <2>5 DEF StartTick, SaveCredentials, DeleteCredentials, vars, rowVars, LeftBehind, Exists
  <2>6. CASE Restart
    BY <2>6 DEF Restart, rowVars, LeftBehind, Exists
  <2> QED
    BY <1>1, <2>2, <2>3, <2>4, <2>5, <2>6 DEF Next
<1>2. IInv /\ [Next]_vars => [\A d \in Deployments : Known(d)]_vars
  BY <1>1
<1> QED
  BY <1>2, Invariant, PTL DEF Spec, LeftBehindByThreadOrDismissal

-----------------------------------------------------------------------------
(* The cap. *)

LiveStatuses == {"queued", "deploying", "running"}

\* Rows that hold or are about to hold a running model.
Live == {d \in Deployments : status[d] \in LiveStatuses}

(* A row that was over and is live again: the thread waiting for its workload
   has written it, or its task has gone on after it was taken for lost. *)
BroughtBack(d) ==
    /\ d \in Live' /\ d \notin Live
    /\ \/ thread[d] = "wait_deployment_available"
       \/ status[d] = "lost" /\ pc[d] \in DeployCalls

(* A deployment's steps other than its admission. *)
LEMMA LiveOnlyByAdmission ==
    ASSUME CInv, NEW d \in Deployments,
           \/ Preflight(d) \/ Refuse(d) \/ DeployTask(d) \/ LiveStatus(d)
           \/ \E r \in Requests : DeleteHandler(d, r)
           \/ EraseLost(d) \/ Poll(d) \/ PollEnds(d) \/ OutsideDelete(d)
    PROVE  Live' \subseteq Live \/ BroughtBack(d)
<1> USE DEF rowVars
<1>1. TypeOK /\ AtWork(d)
  BY DEF CInv, IInv
<1>2. \A new : Written(status, d, new)[d] = IF status[d] \in Absent THEN status[d] ELSE new
  BY <1>1, WrittenRow
<1>3. \A e \in Deployments \ {d} : status'[e] = status[e]
  BY <1>1, OthersSame DEF Same
<1>4. ASSUME status'[d] \in LiveStatuses, status[d] \notin LiveStatuses
      PROVE  \/ thread[d] = "wait_deployment_available"
             \/ status[d] = "lost" /\ pc[d] \in DeployCalls
  <2>1. CASE Advance(d) \/ Finish(d)
    <3>1. pc[d] \in DeployCalls
      BY <2>1 DEF Advance, NextCall, Finish, FinalCall, DeployCalls
    <3>2. status[d] \in {"deploying", "lost", "erased"}
      BY <1>1, <3>1 DEF AtWork
    <3>3. status[d] = "erased" => status'[d] = "erased"
      BY <1>2, <2>1 DEF Advance, Finish, Absent
    <3> QED
      BY <1>4, <3>1, <3>2, <3>3 DEF LiveStatuses
  <2>2. CASE LiveStatus(d)
    BY <2>2 DEF LiveStatus
  <2>3. CASE Begin(d)
    BY <1>4, <2>3 DEF Begin, LiveStatuses
  <2>4. CASE Fail(d)
    BY <1>2, <1>4, <2>4 DEF Fail, FailedRow, LiveStatuses, Absent
  <2>5. CASE EraseLost(d) \/ PollEnds(d)
    BY <1>1, <1>2, <1>4, <2>5 DEF TypeOK, EraseLost, PollEnds, LiveStatuses, Absent
  <2>6. ASSUME NEW r \in Requests, DeleteHandler(d, r)
        PROVE  FALSE
    <3>1. status'[d] \in {status[d], "deleting", "deleted", "failed"}
      BY <1>2, <2>6 DEF DeleteHandler, DeleteCancels, DeleteTearsDown, TeardownReturns,
         TeardownEnds, SettledRow
    <3> QED
      BY <1>4, <3>1 DEF LiveStatuses
  <2>7. CASE \/ CallReturns(d) \/ RollbackProbed(d) \/ RollbackEnds(d)
             \/ Preflight(d) \/ Refuse(d) \/ Poll(d) \/ OutsideDelete(d)
    BY <1>4, <2>7 DEF CallReturns, RollbackProbed, RollbackEnds, Preflight, Refuse, Poll,
       OutsideDelete
  <2> QED
    BY <2>1, <2>2, <2>3, <2>4, <2>5, <2>6, <2>7 DEF DeployTask
<1> QED
  BY <1>3, <1>4 DEF Live, BroughtBack

FiniteOccupied == IsFiniteSet(Occupied)

LEMMA OccupiedFinite == Spec => []FiniteOccupied
<1>1. Init => FiniteOccupied
  <2>1. Init => Occupied = {}
    BY DEF Init, Occupied, NonTerminal
  <2> QED
    BY <2>1, FS_EmptySet DEF FiniteOccupied
<1>2. ASSUME IInv, FiniteOccupied, [Next]_vars
      PROVE  FiniteOccupied'
  <2>1. ASSUME NEW d \in Deployments, \A e \in Deployments \ {d} : Same(e)
        PROVE  FiniteOccupied'
    <3>1. Occupied' \subseteq Occupied \cup {d}
      BY <2>1 DEF Occupied, Same
    <3> QED
      BY <1>2, <3>1, FS_AddElement, FS_Subset DEF FiniteOccupied
  <2>2. ASSUME NEW d \in Deployments,
               \/ Preflight(d) \/ Refuse(d) \/ Admit(d) \/ DeployTask(d) \/ LiveStatus(d)
               \/ \E r \in Requests : DeleteHandler(d, r)
               \/ EraseLost(d) \/ Poll(d) \/ PollEnds(d) \/ OutsideDelete(d)
        PROVE  FiniteOccupied'
    BY <1>2, <2>1, <2>2, OthersSame DEF IInv
  <2>3. CASE \/ StartTick \/ SaveCredentials \/ DeleteCredentials \/ Restart
             \/ UNCHANGED vars
    BY <1>2, <2>3 DEF StartTick, SaveCredentials, DeleteCredentials, Restart, vars, rowVars,
       Occupied, FiniteOccupied
  <2> QED
    BY <1>2, <2>2, <2>3 DEF Next
<1>3. IInv /\ FiniteOccupied /\ [Next]_vars => FiniteOccupied'
  BY <1>2
<1> QED
  BY <1>1, <1>3, Invariant, PTL DEF Spec

(* FR-013: no admission takes the live rows beyond the cap, although it is
   looked at only when a row is created.  What does is a row that was over and
   is live again. *)
THEOREM CapOutrun ==
    Spec => [][\/ Live' \subseteq Live
               \/ Cardinality(Live') <= Cap
               \/ \E d \in Deployments : BroughtBack(d)]_vars
<1>1. ASSUME CInv, FiniteOccupied, [Next]_vars
      PROVE  \/ Live' \subseteq Live
             \/ Cardinality(Live') <= Cap
             \/ \E d \in Deployments : BroughtBack(d)
  <2>1. ASSUME NEW d \in Deployments, Admit(d)
        PROVE  Cardinality(Live') <= Cap
    <3>1. \A e \in Deployments \ {d} : Same(e)
      BY <1>1, <2>1, OthersSame DEF CInv, IInv
    <3>2. Live' \subseteq Occupied \cup {d} /\ Cardinality(Occupied) < Cap
      BY <2>1, <3>1 DEF Live, LiveStatuses, Occupied, NonTerminal, Same, Admit, SlotLeft
    <3>3. /\ IsFiniteSet(Occupied \cup {d})
          /\ Cardinality(Occupied) \in Nat
          /\ Cardinality(Occupied \cup {d}) \in {Cardinality(Occupied), Cardinality(Occupied) + 1}
      BY <1>1, FS_AddElement, FS_CardinalityType DEF FiniteOccupied
    <3>4. Cardinality(Live') <= Cardinality(Occupied \cup {d}) /\ Cardinality(Live') \in Nat
      BY <3>2, <3>3, FS_Subset, FS_CardinalityType
    <3> QED
      BY <3>2, <3>3, <3>4, BoundsAreNatural
  <2>2. CASE \/ StartTick \/ SaveCredentials \/ DeleteCredentials \/ Restart
             \/ UNCHANGED vars
    BY <2>2 DEF StartTick, SaveCredentials, DeleteCredentials, Restart, vars, rowVars, Live
  <2> QED
    BY <1>1, <2>1, <2>2, LiveOnlyByAdmission DEF Next
<1>2. Spec => []CInv
  BY CInvInit, CInvNext, PTL DEF Spec
<1>3. CInv /\ FiniteOccupied /\ [Next]_vars
         => [\/ Live' \subseteq Live
             \/ Cardinality(Live') <= Cap
             \/ \E d \in Deployments : BroughtBack(d)]_vars
  BY <1>1
<1> QED
  BY <1>2, <1>3, OccupiedFinite, PTL DEF Spec

===============================================================================
