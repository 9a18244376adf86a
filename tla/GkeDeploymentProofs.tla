------------------------- MODULE GkeDeploymentProofs -------------------------
(***************************************************************************)
(* Theorems about GkeDeployment, for any sets of deployments and of DELETE *)
(* handlers, any cap and either kind of provider.                          *)
(*                                                                         *)
(* The invariants of GkeDeployment are not inductive on their own.  IInv   *)
(* adds what they rest on: how the deploy task, its pending answer and its *)
(* thread go together; that a row that does not exist yet has nothing      *)
(* running; and how far the project is at each call of the task.  Every    *)
(* part of it speaks of one deployment, and every action but three touches *)
(* only one deployment, so each action is examined at the deployment it    *)
(* acts on and a frame lemma covers the others.                            *)
(***************************************************************************)
EXTENDS GkeDeployment, TLAPS

(* A task that awaits a call has either the call in progress or its answer
   pending; a task that awaits nothing has no answer pending, and only a task
   that is gone may leave a thread behind. *)
TaskAndThread(d) ==
    /\ pc[d] \in {"idle", "scheduled"} => reply[d] = "none"
    /\ pc[d] = "scheduled" => thread[d] = "none" /\ status[d] = "queued"
    /\ pc[d] \notin {"idle", "scheduled"} =>
          \/ thread[d] = pc[d] /\ reply[d] = "none"
          \/ thread[d] = "none" /\ reply[d] # "none"

\* Nothing runs on behalf of a row before it exists.
NothingBeforeRow(d) ==
    /\ status[d] = "none" =>
          pc[d] = "idle" /\ thread[d] = "none" /\ cloud[d] = "absent" /\ ~TearingDown(d)
    /\ d \in admitting => status[d] = "none"

\* The teardown of a deployment and its deploy task exclude each other.
TeardownAlone(d) ==
    TearingDown(d) \/ status[d] \in {"deleting", "deleted"} => pc[d] = "idle"

\* A project runs the workload only once the task is past applying it.
WorkloadIsLate(d) ==
    cloud[d] = "workload" =>
        /\ pc[d] \in {"idle"} \cup KubeCalls
        /\ thread[d] \in {"none", "wait_deployment_available", "get_service_lb_ip"}

\* The stages a project may be in when a late call is made or answered.
StageOfCall(d) ==
    /\ pc[d] \in {"wait_deployment_available", "get_service_lb_ip"}
          => cloud[d] \in {"workload", "gone"}
    /\ pc[d] = "apply_objects" /\ reply[d] = "ok" => cloud[d] \in {"workload", "gone"}
    /\ pc[d] = "get_kube_config" /\ reply[d] = "ok" => cloud[d] \in {"cluster", "gone"}

\* A running deployment is served, and left alone.
Serving(d) ==
    status[d] = "running" =>
        /\ endpoint[d]
        /\ cloud[d] \in {"workload", "gone"}
        /\ pc[d] = "idle" /\ thread[d] = "none" /\ ~TearingDown(d)

\* The refresh loop deals only with rows past queued.
RefreshIsLate(d) ==
    d \in todo \/ verdict[d] # "none" => status[d] \notin {"none", "queued"}

Coherent(d) ==
    /\ TaskAndThread(d)
    /\ NothingBeforeRow(d)
    /\ TeardownAlone(d)
    /\ WorkloadIsLate(d)
    /\ StageOfCall(d)
    /\ Serving(d)
    /\ RefreshIsLate(d)

IInv == TypeOK /\ \A d \in Deployments : Coherent(d)

-----------------------------------------------------------------------------
(* What a provider call may do to the project, and answer. *)

LEMMA OutcomeShape ==
    ASSUME TypeOK, NEW d \in Deployments,
           NEW c \in DeployCalls \cup {"delete_project"}, NEW o \in Outcomes(d, c)
    PROVE  /\ o[1] \in Stages /\ o[2] \in Answers
           /\ o[1] = "workload" => cloud[d] = "workload" \/ c = "apply_objects"
           /\ c \in {"get_kube_config", "wait_deployment_available", "get_service_lb_ip"}
                 => o[1] = cloud[d]
           /\ c = "apply_objects" /\ o[2] = "ok" => o[1] = "workload"
           /\ c = "get_kube_config" /\ o[2] = "ok" => o[1] = "cluster"
<1>1. cloud[d] \in Stages
  BY DEF TypeOK
<1>2. CASE RowMissing(d, c)
  BY <1>1, <1>2 DEF Outcomes, Stages, Answers
<1>3. CASE ~RowMissing(d, c) /\ KeyMissing(c)
  BY <1>1, <1>3 DEF Outcomes, Stages, Answers
<1>4. CASE ~RowMissing(d, c) /\ ~KeyMissing(c)
  <2>1. \/ o \in {<<cloud[d], f>> : f \in Failures(c)}
        \/ cloud[d] \in Needs(c) /\ o \in {Leaves(c, cloud[d])} \X {"ok", "error"}
        \/ /\ c = "delete_project"
           /\ o \in {<<cloud[d], "ok">>, <<cloud[d], "notfound">>}
    BY <1>4 DEF Outcomes
  <2>2. CASE o \in {<<cloud[d], f>> : f \in Failures(c)}
    BY <1>1, <2>2 DEF Failures, Answers, DeployCalls
  <2>3. CASE cloud[d] \in Needs(c) /\ o \in {Leaves(c, cloud[d])} \X {"ok", "error"}
    BY <1>1, <2>3 DEF Needs, Leaves, Stages, Answers, DeployCalls
  <2>4. CASE c = "delete_project" /\ o \in {<<cloud[d], "ok">>, <<cloud[d], "notfound">>}
    BY <1>1, <2>4 DEF Stages, Answers
  <2> QED
    BY <2>1, <2>2, <2>3, <2>4
<1> QED
  BY <1>2, <1>3, <1>4

\* update_status keeps the column within its values.
LEMMA WrittenType ==
    ASSUME NEW rows \in [Deployments -> Statuses], NEW d \in Deployments,
           NEW new \in ColumnStatuses
    PROVE  Written(rows, d, new) \in [Deployments -> Statuses]
  BY DEF Written, Statuses

LEMMA CredsAfterType ==
    ASSUME TypeOK, NEW answer
    PROVE  CredsAfter(answer) \in {"none", "valid", "invalid"}
  BY DEF CredsAfter, TypeOK

-----------------------------------------------------------------------------
(* Every action keeps the type of the state. *)

LEMMA TypeInit == Init => TypeOK
  BY BoundsAreNatural DEF Init, TypeOK, Statuses, Absent, PcStates, ReqStates, Stages

LEMMA CallType ==
    ASSUME TypeOK, NEW d \in Deployments,
           \/ \E c \in DeployCalls \cup RollbackCalls : Call(d, c)
           \/ Return(d)
    PROVE  /\ pc' \in [Deployments -> PcStates]
           /\ thread' \in [Deployments -> DeployCalls \cup RollbackCalls \cup {"none"}]
           /\ reply' \in [Deployments -> Answers \cup {"none"}]
<1>1. ASSUME NEW c \in DeployCalls \cup RollbackCalls, Call(d, c)
      PROVE  /\ pc' \in [Deployments -> PcStates]
             /\ thread' \in [Deployments -> DeployCalls \cup RollbackCalls \cup {"none"}]
             /\ reply' \in [Deployments -> Answers \cup {"none"}]
  BY <1>1 DEF TypeOK, Call, PcStates
<1>2. CASE Return(d)
  BY <1>2 DEF TypeOK, Return, PcStates
<1> QED
  BY <1>1, <1>2

LEMMA TypeNext == TypeOK /\ [Next]_vars => TypeOK'
<1> SUFFICES ASSUME TypeOK, [Next]_vars
             PROVE  TypeOK'
  OBVIOUS
<1> USE DEF rowVars, taskVars, refreshVars
<1>1. ASSUME NEW d \in Deployments, Preflight(d) \/ Refuse(d) \/ Admit(d)
      PROVE  TypeOK'
  BY <1>1 DEF TypeOK, Preflight, Refuse, Admit, Statuses, ColumnStatuses, PcStates
<1>2. ASSUME NEW d \in Deployments, Begin(d)
      PROVE  TypeOK'
  <2>1. status' \in [Deployments -> Statuses]
    BY <1>2, WrittenType DEF TypeOK, Begin, ColumnStatuses
  <2> QED
    BY <1>2, <2>1 DEF TypeOK, Begin, Call, PcStates, DeployCalls
<1>3. ASSUME NEW d \in Deployments, CallReturns(d)
      PROVE  TypeOK'
  <2>1. PICK o \in IF thread[d] = "project_exists"
                   THEN {cloud[d]} \X ExistsAnswers(d) ELSE Outcomes(d, thread[d]) :
            /\ cloud' = [cloud EXCEPT ![d] = o[1]]
            /\ reply' = [reply EXCEPT ![d] = IF pc[d] = "idle" THEN "none" ELSE o[2]]
    BY <1>3 DEF CallReturns
  <2>2. o[1] \in Stages /\ o[2] \in Answers
    <3>1. CASE thread[d] = "project_exists"
      BY <2>1, <3>1 DEF TypeOK, ExistsAnswers, Answers
    <3>2. CASE thread[d] # "project_exists"
      <4>1. thread[d] \in DeployCalls \cup {"delete_project"}
        BY <1>3, <3>2 DEF TypeOK, CallReturns, RollbackCalls
      <4> QED
        BY <2>1, <3>2, <4>1, OutcomeShape
    <3> QED
      BY <3>1, <3>2
  <2> QED
    BY <1>3, <2>1, <2>2 DEF TypeOK, CallReturns
<1>4. ASSUME NEW d \in Deployments, Advance(d)
      PROVE  TypeOK'
  <2>1. NextCall[pc[d]] \in DeployCalls
    BY <1>4 DEF Advance, NextCall, DeployCalls, FinalCall
  <2>2. status' \in [Deployments -> Statuses]
    <3>1. CASE pc[d] \in Reported
      BY <1>4, <3>1, WrittenType DEF TypeOK, Advance, ColumnStatuses
    <3>2. CASE pc[d] \notin Reported
      BY <1>4, <3>2 DEF TypeOK, Advance
    <3> QED
      BY <3>1, <3>2
  <2>3. Call(d, NextCall[pc[d]])
    BY <1>4 DEF Advance
  <2>4. \E c \in DeployCalls \cup RollbackCalls : Call(d, c)
    BY <2>1, <2>3
  <2>5. /\ pc' \in [Deployments -> PcStates]
        /\ thread' \in [Deployments -> DeployCalls \cup RollbackCalls \cup {"none"}]
        /\ reply' \in [Deployments -> Answers \cup {"none"}]
    BY <2>4, CallType
  <2> QED
    BY <1>4, <2>2, <2>5 DEF TypeOK, Advance
<1>5. ASSUME NEW d \in Deployments, Finish(d)
      PROVE  TypeOK'
  <2>1. status' \in [Deployments -> Statuses]
    BY <1>5, WrittenType DEF TypeOK, Finish, ColumnStatuses
  <2> QED
    BY <1>5, <2>1 DEF TypeOK, Finish, Return, PcStates
<1>6. ASSUME NEW d \in Deployments, Fail(d)
      PROVE  TypeOK'
  <2>1. status' \in [Deployments -> Statuses]
    BY <1>6, WrittenType DEF TypeOK, Fail, FailedRow, ColumnStatuses
  <2>2. creds' \in {"none", "valid", "invalid"}
    BY <1>6, CredsAfterType DEF Fail
  <2> QED
    BY <1>6, <2>1, <2>2, CallType DEF TypeOK, Fail, RollbackCalls
<1>7. ASSUME NEW d \in Deployments, RollbackProbed(d) \/ RollbackEnds(d)
      PROVE  TypeOK'
  BY <1>7 DEF TypeOK, RollbackProbed, RollbackEnds, Call, Return, PcStates, RollbackCalls
<1>8. ASSUME NEW d \in Deployments, LiveStatus(d)
      PROVE  TypeOK'
  <2>1. status' \in [Deployments -> Statuses]
    BY <1>8, WrittenType DEF TypeOK, LiveStatus, LiveRow, ColumnStatuses
  <2> QED
    BY <1>8, <2>1 DEF TypeOK, LiveStatus
<1>9. ASSUME NEW d \in Deployments, NEW r \in Requests, DeleteCancels(d, r)
      PROVE  TypeOK'
  BY <1>9 DEF TypeOK, DeleteCancels, PcStates, ReqStates
<1>10. ASSUME NEW d \in Deployments, NEW r \in Requests, DeleteTearsDown(d, r)
       PROVE  TypeOK'
  <2>1. status' \in [Deployments -> Statuses]
    BY <1>10, WrittenType DEF TypeOK, DeleteTearsDown, ColumnStatuses
  <2> QED
    BY <1>10, <2>1 DEF TypeOK, DeleteTearsDown, ReqStates
<1>11. ASSUME NEW d \in Deployments, NEW r \in Requests, TeardownReturns(d, r)
       PROVE  TypeOK'
  <2>1. PICK o \in Outcomes(d, "delete_project") :
            /\ cloud' = [cloud EXCEPT ![d] = o[1]]
            /\ req' = [req EXCEPT ![d][r] = o[2]]
    BY <1>11 DEF TeardownReturns
  <2>2. o[1] \in Stages /\ o[2] \in Answers
    BY OutcomeShape
  <2> QED
    BY <1>11, <2>1, <2>2 DEF TypeOK, TeardownReturns, ReqStates
<1>12. ASSUME NEW d \in Deployments, NEW r \in Requests, TeardownEnds(d, r)
       PROVE  TypeOK'
  <2>1. status' \in [Deployments -> Statuses]
    BY <1>12, WrittenType DEF TypeOK, TeardownEnds, SettledRow, ColumnStatuses
  <2>2. creds' \in {"none", "valid", "invalid"}
    BY <1>12, CredsAfterType DEF TeardownEnds
  <2> QED
    BY <1>12, <2>1, <2>2 DEF TypeOK, TeardownEnds, ReqStates
<1>13. ASSUME NEW d \in Deployments, EraseLost(d)
       PROVE  TypeOK'
  BY <1>13 DEF TypeOK, EraseLost, Statuses, Absent
<1>14. ASSUME NEW d \in Deployments, Poll(d)
       PROVE  TypeOK'
  <2>1. ExistsAnswers(d) \subseteq Answers
    BY DEF ExistsAnswers, Answers
  <2> QED
    BY <1>14, <2>1 DEF TypeOK, Poll
<1>15. ASSUME NEW d \in Deployments, PollEnds(d)
       PROVE  TypeOK'
  <2>1. status' \in [Deployments -> Statuses]
    BY <1>15, WrittenType DEF TypeOK, PollEnds, ColumnStatuses
  <2>2. creds' \in {"none", "valid", "invalid"}
    BY <1>15, CredsAfterType DEF PollEnds
  <2> QED
    BY <1>15, <2>1, <2>2 DEF TypeOK, PollEnds
<1>16. ASSUME NEW d \in Deployments, OutsideDelete(d)
       PROVE  TypeOK'
  BY <1>16 DEF TypeOK, OutsideDelete, Stages
<1>17. CASE StartTick \/ SaveCredentials \/ DeleteCredentials
  BY <1>17 DEF TypeOK, StartTick, SaveCredentials, DeleteCredentials
<1>18. CASE Restart
  BY <1>18, BoundsAreNatural DEF TypeOK, Restart, PcStates, ReqStates
<1>19. CASE UNCHANGED vars
  BY <1>19 DEF TypeOK, vars
<1> QED
  BY <1>1, <1>2, <1>3, <1>4, <1>5, <1>6, <1>7, <1>8, <1>9, <1>10, <1>11, <1>12,
     <1>13, <1>14, <1>15, <1>16, <1>17, <1>18, <1>19
     DEF Next, DeployTask, DeleteHandler

(* The type invariant of GkeDeployment. *)
THEOREM TypeCorrect == Spec => []TypeOK
<1>1. Init => TypeOK
  BY TypeInit
<1>2. TypeOK /\ [Next]_vars => TypeOK'
  BY TypeNext
<1> QED
  BY <1>1, <1>2, PTL DEF Spec

-----------------------------------------------------------------------------
(* The deployments a step does not act on stay coherent. *)

\* Nothing of e changes, except that the refresh may drop it from its tick.
Same(e) ==
    /\ status'[e] = status[e]
    /\ endpoint'[e] = endpoint[e]
    /\ e \in admitting' => e \in admitting
    /\ pc'[e] = pc[e]
    /\ reply'[e] = reply[e]
    /\ thread'[e] = thread[e]
    /\ req'[e] = req[e]
    /\ cloud'[e] = cloud[e]
    /\ e \in todo' => e \in todo
    /\ verdict'[e] = verdict[e]

LEMMA Frame ==
    ASSUME NEW e \in Deployments, Coherent(e), Same(e)
    PROVE  Coherent(e)'
<1>1. TearingDown(e)' <=> TearingDown(e)
  BY DEF Same, TearingDown
<1> QED
  BY <1>1 DEF Coherent, Same, TaskAndThread, NothingBeforeRow, TeardownAlone,
     WorkloadIsLate, StageOfCall, Serving, RefreshIsLate

\* update_status changes its row, if there is one, and no other.
LEMMA WrittenRow ==
    ASSUME TypeOK, NEW d \in Deployments, NEW new
    PROVE  /\ Written(status, d, new)[d] = IF status[d] \in Absent THEN status[d] ELSE new
           /\ \A e \in Deployments \ {d} : Written(status, d, new)[e] = status[e]
  BY DEF Written, TypeOK

LEMMA OthersSame ==
    ASSUME TypeOK, NEW d \in Deployments,
           \/ Preflight(d) \/ Refuse(d) \/ Admit(d)
           \/ DeployTask(d) \/ LiveStatus(d)
           \/ \E r \in Requests : DeleteHandler(d, r)
           \/ EraseLost(d) \/ Poll(d) \/ PollEnds(d) \/ OutsideDelete(d)
    PROVE  \A e \in Deployments \ {d} : Same(e)
<1> SUFFICES ASSUME NEW e \in Deployments \ {d}
             PROVE  Same(e)
  OBVIOUS
<1> USE DEF Same, TypeOK, rowVars, taskVars, refreshVars
<1>1. \A new : Written(status, d, new)[e] = status[e]
  BY WrittenRow
<1>2. CASE Preflight(d) \/ Refuse(d) \/ Admit(d)
  BY <1>2 DEF Preflight, Refuse, Admit
<1>3. CASE Begin(d)
  BY <1>1, <1>3 DEF Begin, Call
<1>4. CASE CallReturns(d)
  BY <1>4 DEF CallReturns
<1>5. CASE Advance(d)
  BY <1>1, <1>5 DEF Advance, Call
<1>6. CASE Finish(d)
  BY <1>1, <1>6 DEF Finish, Return
<1>7. CASE Fail(d)
  BY <1>1, <1>7 DEF Fail, FailedRow, Call, Return
<1>8. CASE RollbackProbed(d) \/ RollbackEnds(d)
  BY <1>8 DEF RollbackProbed, RollbackEnds, Call, Return
<1>9. CASE LiveStatus(d)
  BY <1>1, <1>9 DEF LiveStatus, LiveRow
<1>10. ASSUME NEW r \in Requests, DeleteCancels(d, r)
       PROVE  Same(e)
  BY <1>10 DEF DeleteCancels
<1>11. ASSUME NEW r \in Requests, DeleteTearsDown(d, r)
       PROVE  Same(e)
  BY <1>1, <1>11 DEF DeleteTearsDown
<1>12. ASSUME NEW r \in Requests, TeardownReturns(d, r)
       PROVE  Same(e)
  BY <1>12 DEF TeardownReturns
<1>13. ASSUME NEW r \in Requests, TeardownEnds(d, r)
       PROVE  Same(e)
  BY <1>1, <1>13 DEF TeardownEnds, SettledRow
<1>14. CASE EraseLost(d) \/ Poll(d) \/ OutsideDelete(d)
  BY <1>14 DEF EraseLost, Poll, OutsideDelete
<1>15. CASE PollEnds(d)
  BY <1>1, <1>15 DEF PollEnds
<1> QED
  BY <1>2, <1>3, <1>4, <1>5, <1>6, <1>7, <1>8, <1>9, <1>10, <1>11, <1>12, <1>13,
     <1>14, <1>15 DEF DeployTask, DeleteHandler

-----------------------------------------------------------------------------
(* The deployment a step acts on stays coherent. *)

LEMMA AdmissionCoherent ==
    ASSUME IInv, NEW d \in Deployments, Preflight(d) \/ Refuse(d) \/ Admit(d)
    PROVE  Coherent(d)'
<1> USE DEF Coherent, TaskAndThread, NothingBeforeRow, TeardownAlone, WorkloadIsLate,
            StageOfCall, Serving, RefreshIsLate, rowVars, taskVars, refreshVars
<1>1. TypeOK /\ Coherent(d)
  BY DEF IInv
<1>2. CASE Preflight(d) \/ Refuse(d)
  BY <1>1, <1>2 DEF Preflight, Refuse, TearingDown
<1>3. CASE Admit(d)
  <2>1. status'[d] = "queued" /\ pc'[d] = "scheduled" /\ d \notin admitting'
    BY <1>1, <1>3 DEF TypeOK, Admit
  <2>2. /\ thread'[d] = "none" /\ reply'[d] = "none" /\ cloud'[d] = "absent"
        /\ d \notin todo' /\ verdict'[d] = "none"
    BY <1>1, <1>3 DEF Admit
  <2>3. ~TearingDown(d)'
    BY <1>1, <1>3 DEF Admit, TearingDown
  <2> QED
    BY <2>1, <2>2, <2>3
<1> QED
  BY <1>2, <1>3

LEMMA BeginCoherent ==
    ASSUME IInv, NEW d \in Deployments, Begin(d)
    PROVE  Coherent(d)'
<1> USE DEF Coherent, TaskAndThread, NothingBeforeRow, TeardownAlone, WorkloadIsLate,
            StageOfCall, Serving, RefreshIsLate, rowVars, taskVars, refreshVars
<1>1. TypeOK /\ Coherent(d)
  BY DEF IInv
<1>2. status[d] = "queued" /\ status'[d] = "deploying"
  BY <1>1, WrittenRow DEF Begin, Absent
<1>3. /\ pc'[d] = "create_project" /\ thread'[d] = "create_project"
      /\ reply'[d] = "none"
  BY <1>1 DEF TypeOK, Begin, Call
<1>4. cloud[d] # "workload" /\ ~TearingDown(d)
  BY <1>1 DEF Begin, KubeCalls
<1> QED
  BY <1>1, <1>2, <1>3, <1>4 DEF Begin, TearingDown

LEMMA CallReturnsCoherent ==
    ASSUME IInv, NEW d \in Deployments, CallReturns(d)
    PROVE  Coherent(d)'
<1> USE DEF Coherent, TaskAndThread, NothingBeforeRow, TeardownAlone, WorkloadIsLate,
            StageOfCall, Serving, RefreshIsLate, rowVars, taskVars, refreshVars
<1>1. TypeOK /\ Coherent(d)
  BY DEF IInv
<1>2. PICK o \in IF thread[d] = "project_exists"
                 THEN {cloud[d]} \X ExistsAnswers(d) ELSE Outcomes(d, thread[d]) :
          /\ cloud' = [cloud EXCEPT ![d] = o[1]]
          /\ reply' = [reply EXCEPT ![d] = IF pc[d] = "idle" THEN "none" ELSE o[2]]
  BY DEF CallReturns
<1>3. /\ cloud'[d] = o[1]
      /\ reply'[d] = IF pc[d] = "idle" THEN "none" ELSE o[2]
      /\ thread'[d] = "none" /\ pc'[d] = pc[d]
  BY <1>1, <1>2 DEF TypeOK, CallReturns
<1>4. /\ thread[d] \in DeployCalls \cup RollbackCalls
      /\ status[d] \notin {"none", "running"} /\ pc[d] # "scheduled"
      /\ pc[d] # "idle" => thread[d] = pc[d]
  BY <1>1 DEF TypeOK, CallReturns
<1>5. /\ o[2] \in Answers
      /\ o[1] = "workload" => cloud[d] = "workload" \/ thread[d] = "apply_objects"
      /\ thread[d] \in {"get_kube_config", "wait_deployment_available", "get_service_lb_ip"}
            => o[1] = cloud[d]
      /\ thread[d] = "apply_objects" /\ o[2] = "ok" => o[1] = "workload"
      /\ thread[d] = "get_kube_config" /\ o[2] = "ok" => o[1] = "cluster"
  <2>1. CASE thread[d] = "project_exists"
    BY <1>2, <2>1 DEF ExistsAnswers, Answers
  <2>2. CASE thread[d] # "project_exists"
    BY <1>1, <1>2, <1>4, <2>2, OutcomeShape DEF RollbackCalls
  <2> QED
    BY <2>1, <2>2
<1>6. /\ o[2] # "none"
      /\ UNCHANGED <<status[d], endpoint[d], req[d], verdict[d], admitting, todo>>
  BY <1>5 DEF CallReturns, Answers
<1>7. TearingDown(d)' <=> TearingDown(d)
  BY <1>6 DEF TearingDown
<1> QED
  BY <1>1, <1>3, <1>4, <1>5, <1>6, <1>7 DEF KubeCalls

LEMMA AdvanceCoherent ==
    ASSUME IInv, NEW d \in Deployments, Advance(d)
    PROVE  Coherent(d)'
<1> USE DEF Coherent, TaskAndThread, NothingBeforeRow, TeardownAlone, WorkloadIsLate,
            StageOfCall, Serving, RefreshIsLate, rowVars, taskVars, refreshVars
<1>1. TypeOK /\ Coherent(d)
  BY DEF IInv
<1>2. pc[d] \in DeployCalls \ {"get_service_lb_ip"} /\ reply[d] = "ok"
  BY DEF Advance, NextCall
<1>3. ~TearingDown(d) /\ status[d] \notin {"none", "running", "deleting", "deleted"}
  BY <1>1, <1>2 DEF DeployCalls
<1>4. status'[d] \in {status[d], "deploying"} /\ (status'[d] = "none" <=> status[d] = "none")
  <2>1. CASE pc[d] \in Reported
    BY <1>1, <1>3, <2>1, WrittenRow DEF Advance, Absent
  <2>2. CASE pc[d] \notin Reported
    BY <2>2 DEF Advance
  <2> QED
    BY <2>1, <2>2
<1>5. /\ pc'[d] = NextCall[pc[d]] /\ thread'[d] = NextCall[pc[d]]
      /\ reply'[d] = "none"
  BY <1>1 DEF TypeOK, Advance, Call
<1>6. /\ NextCall[pc[d]] \in DeployCalls \ {"create_project"}
      /\ NextCall[pc[d]] = "wait_deployment_available" => pc[d] = "apply_objects"
      /\ NextCall[pc[d]] = "get_service_lb_ip" => pc[d] = "wait_deployment_available"
      /\ pc[d] \in {"get_kube_config"} \cup KubeCalls <=> NextCall[pc[d]] \in KubeCalls
  BY <1>2 DEF NextCall, DeployCalls, KubeCalls
<1>7. /\ cloud[d] \in {"workload"} => thread'[d] \in {"wait_deployment_available", "get_service_lb_ip"}
      /\ NextCall[pc[d]] \in {"wait_deployment_available", "get_service_lb_ip"}
            => cloud[d] \in {"workload", "gone"}
  BY <1>1, <1>2, <1>5, <1>6 DEF NextCall, DeployCalls, KubeCalls
<1> QED
  BY <1>1, <1>3, <1>4, <1>5, <1>6, <1>7 DEF Advance, TearingDown, DeployCalls, KubeCalls

LEMMA FinishCoherent ==
    ASSUME IInv, NEW d \in Deployments, Finish(d)
    PROVE  Coherent(d)'
<1> USE DEF Coherent, TaskAndThread, NothingBeforeRow, TeardownAlone, WorkloadIsLate,
            StageOfCall, Serving, RefreshIsLate, rowVars, taskVars, refreshVars
<1>1. TypeOK /\ Coherent(d)
  BY DEF IInv
<1>2. /\ ~TearingDown(d) /\ thread[d] = "none"
      /\ cloud[d] \in {"workload", "gone"}
      /\ status[d] # "none"
  BY <1>1 DEF Finish, FinalCall
<1>3. /\ status'[d] = IF status[d] \in Absent THEN status[d] ELSE "running"
      /\ endpoint'[d] = (status[d] \notin Absent)
      /\ pc'[d] = "idle" /\ reply'[d] = "none"
  BY <1>1, WrittenRow DEF TypeOK, Finish, Return
<1>4. ~TearingDown(d)' /\ UNCHANGED <<thread, cloud, admitting, todo, verdict>>
  BY <1>2 DEF Finish, Return, TearingDown
<1> QED
  BY <1>1, <1>2, <1>3, <1>4 DEF Absent

LEMMA FailCoherent ==
    ASSUME IInv, NEW d \in Deployments, Fail(d)
    PROVE  Coherent(d)'
<1> USE DEF Coherent, TaskAndThread, NothingBeforeRow, TeardownAlone, WorkloadIsLate,
            StageOfCall, Serving, RefreshIsLate, rowVars, taskVars, refreshVars
<1>1. TypeOK /\ Coherent(d)
  BY DEF IInv
<1>2. ~TearingDown(d) /\ thread[d] = "none" /\ status[d] # "none"
  BY <1>1 DEF Fail, DeployCalls
<1>3. /\ status'[d] = IF status[d] \in Absent THEN status[d] ELSE "failed"
      /\ ~TearingDown(d)' /\ UNCHANGED <<cloud, admitting, todo, verdict>>
  BY <1>1, <1>2, WrittenRow DEF Fail, FailedRow, TearingDown
<1>4. CASE pc[d] \in RolledBack \/ reply[d] = "ok"
  <2>1. Call(d, "project_exists") /\ cloud[d] # "workload"
    BY <1>1, <1>4 DEF Fail, RolledBack, BillingAccountGone, KubeCalls
  <2>2. /\ pc'[d] = "project_exists" /\ thread'[d] = "project_exists"
        /\ reply'[d] = "none"
    BY <1>1, <2>1 DEF TypeOK, Call
  <2> QED
    BY <1>1, <1>2, <1>3, <2>1, <2>2 DEF Absent
<1>5. CASE ~(pc[d] \in RolledBack \/ reply[d] = "ok")
  <2>1. pc'[d] = "idle" /\ reply'[d] = "none" /\ thread'[d] = "none"
    BY <1>1, <1>2, <1>5 DEF TypeOK, Fail, Return
  <2> QED
    BY <1>1, <1>2, <1>3, <2>1 DEF Absent
<1> QED
  BY <1>4, <1>5

LEMMA RollbackCoherent ==
    ASSUME IInv, NEW d \in Deployments, RollbackProbed(d) \/ RollbackEnds(d)
    PROVE  Coherent(d)'
<1> USE DEF Coherent, TaskAndThread, NothingBeforeRow, TeardownAlone, WorkloadIsLate,
            StageOfCall, Serving, RefreshIsLate, rowVars, taskVars, refreshVars
<1>1. TypeOK /\ Coherent(d)
  BY DEF IInv
<1>2. pc[d] \in RollbackCalls /\ reply[d] # "none" /\ (Return(d) \/ Call(d, "delete_project"))
  BY DEF RollbackProbed, RollbackEnds, RollbackCalls
<1>3. /\ UNCHANGED <<status, endpoint, admitting, req, cloud, todo, verdict>>
      /\ TearingDown(d)' <=> TearingDown(d)
  BY DEF RollbackProbed, RollbackEnds, TearingDown
<1>4. /\ thread[d] = "none" /\ cloud[d] # "workload"
      /\ ~TearingDown(d) /\ status[d] \notin {"none", "running", "deleting", "deleted"}
  BY <1>1, <1>2 DEF RollbackCalls, KubeCalls
<1>5. CASE Return(d)
  <2>1. pc'[d] = "idle" /\ reply'[d] = "none" /\ thread'[d] = "none"
    BY <1>1, <1>4, <1>5 DEF TypeOK, Return
  <2> QED
    BY <1>1, <1>3, <1>4, <2>1
<1>6. CASE Call(d, "delete_project")
  <2>1. /\ pc'[d] = "delete_project" /\ thread'[d] = "delete_project"
        /\ reply'[d] = "none"
    BY <1>1, <1>6 DEF TypeOK, Call
  <2> QED
    BY <1>1, <1>3, <1>4, <2>1
<1> QED
  BY <1>2, <1>5, <1>6

LEMMA LiveStatusCoherent ==
    ASSUME IInv, NEW d \in Deployments, LiveStatus(d)
    PROVE  Coherent(d)'
<1> USE DEF Coherent, TaskAndThread, NothingBeforeRow, TeardownAlone, WorkloadIsLate,
            StageOfCall, Serving, RefreshIsLate, rowVars, taskVars, refreshVars
<1>1. TypeOK /\ Coherent(d)
  BY DEF IInv
<1>2. status'[d] = IF status[d] \in Absent THEN status[d] ELSE "deploying"
  BY <1>1, WrittenRow DEF LiveStatus, LiveRow
<1>3. /\ UNCHANGED <<endpoint, admitting, pc, reply, thread, req, cloud, todo, verdict>>
      /\ TearingDown(d)' <=> TearingDown(d)
  BY DEF LiveStatus, TearingDown
<1>4. thread[d] = "wait_deployment_available"
  BY DEF LiveStatus
<1> QED
  BY <1>1, <1>2, <1>3, <1>4 DEF Absent

LEMMA DeleteCancelsCoherent ==
    ASSUME IInv, NEW d \in Deployments, NEW r \in Requests, DeleteCancels(d, r)
    PROVE  Coherent(d)'
<1> USE DEF Coherent, TaskAndThread, NothingBeforeRow, TeardownAlone, WorkloadIsLate,
            StageOfCall, Serving, RefreshIsLate, rowVars, taskVars, refreshVars
<1>1. TypeOK /\ Coherent(d)
  BY DEF IInv
<1>2. pc[d] # "idle" /\ status[d] \notin {"none", "running"}
  BY <1>1 DEF DeleteCancels, NothingToCancel
<1>3. /\ pc'[d] = "idle" /\ reply'[d] = "none" /\ thread'[d] \in {thread[d], "none"}
      /\ UNCHANGED <<status, endpoint, admitting, cloud, todo, verdict>>
  BY <1>1 DEF TypeOK, DeleteCancels
<1> QED
  BY <1>1, <1>2, <1>3

LEMMA DeleteTearsDownCoherent ==
    ASSUME IInv, NEW d \in Deployments, NEW r \in Requests, DeleteTearsDown(d, r)
    PROVE  Coherent(d)'
<1> USE DEF Coherent, TaskAndThread, NothingBeforeRow, TeardownAlone, WorkloadIsLate,
            StageOfCall, Serving, RefreshIsLate, rowVars, taskVars, refreshVars
<1>1. TypeOK /\ Coherent(d)
  BY DEF IInv
<1>2. pc[d] = "idle" /\ status[d] # "none"
  <2>1. CASE req[d][r] = "cancelling"
    BY <1>1, <2>1 DEF TearingDown
  <2>2. CASE Deletable(d) /\ NothingToCancel(d)
    BY <2>2 DEF Deletable, NothingToCancel, Absent
  <2> QED
    BY <2>1, <2>2 DEF DeleteTearsDown
<1>3. /\ status'[d] = IF status[d] \in Absent THEN status[d] ELSE "deleting"
      /\ UNCHANGED <<endpoint, admitting, pc, reply, thread, cloud, todo, verdict>>
  BY <1>1, WrittenRow DEF DeleteTearsDown
<1> QED
  BY <1>1, <1>2, <1>3 DEF Absent

LEMMA TeardownReturnsCoherent ==
    ASSUME IInv, NEW d \in Deployments, NEW r \in Requests, TeardownReturns(d, r)
    PROVE  Coherent(d)'
<1> USE DEF Coherent, TaskAndThread, NothingBeforeRow, TeardownAlone, WorkloadIsLate,
            StageOfCall, Serving, RefreshIsLate, rowVars, taskVars, refreshVars
<1>1. TypeOK /\ Coherent(d)
  BY DEF IInv
<1>2. pc[d] = "idle" /\ status[d] \notin {"none", "running"}
  BY <1>1 DEF TeardownReturns, TearingDown
<1>3. PICK o \in Outcomes(d, "delete_project") : cloud' = [cloud EXCEPT ![d] = o[1]]
  BY DEF TeardownReturns
<1>4. cloud'[d] = "workload" => cloud[d] = "workload"
  BY <1>1, <1>3, OutcomeShape DEF TypeOK
<1>5. UNCHANGED <<status, endpoint, admitting, pc, reply, thread, todo, verdict>>
  BY DEF TeardownReturns
<1> QED
  BY <1>1, <1>2, <1>4, <1>5

LEMMA TeardownEndsCoherent ==
    ASSUME IInv, NEW d \in Deployments, NEW r \in Requests, TeardownEnds(d, r)
    PROVE  Coherent(d)'
<1> USE DEF Coherent, TaskAndThread, NothingBeforeRow, TeardownAlone, WorkloadIsLate,
            StageOfCall, Serving, RefreshIsLate, rowVars, taskVars, refreshVars
<1>1. TypeOK /\ Coherent(d)
  BY DEF IInv
<1>2. pc[d] = "idle" /\ status[d] \notin {"none", "running"}
  BY <1>1 DEF TeardownEnds, TearingDown, Answers
<1>3. /\ status'[d] \in {status[d], "deleted", "failed"}
      /\ UNCHANGED <<endpoint, admitting, pc, reply, thread, cloud, todo, verdict>>
  BY <1>1, WrittenRow DEF TeardownEnds, SettledRow
<1> QED
  BY <1>1, <1>2, <1>3

LEMMA RefreshCoherent ==
    ASSUME IInv, NEW d \in Deployments, EraseLost(d) \/ Poll(d) \/ PollEnds(d)
    PROVE  Coherent(d)'
<1> USE DEF Coherent, TaskAndThread, NothingBeforeRow, TeardownAlone, WorkloadIsLate,
            StageOfCall, Serving, RefreshIsLate, rowVars, taskVars, refreshVars
<1>1. TypeOK /\ Coherent(d)
  BY DEF IInv
<1>2. TearingDown(d)' <=> TearingDown(d)
  BY DEF EraseLost, Poll, PollEnds, TearingDown
<1>3. CASE EraseLost(d)
  <2>1. status[d] = "lost" /\ status'[d] = "erased"
    BY <1>1, <1>3 DEF TypeOK, EraseLost
  <2> QED
    BY <1>1, <1>2, <1>3, <2>1 DEF EraseLost
<1>4. CASE Poll(d)
  BY <1>1, <1>2, <1>4 DEF Poll
<1>5. CASE PollEnds(d)
  <2>1. /\ status[d] \notin {"none", "queued"} /\ status'[d] \in {status[d], "lost"}
        /\ d \notin todo' /\ verdict'[d] = "none"
    BY <1>1, <1>5, WrittenRow DEF TypeOK, PollEnds
  <2> QED
    BY <1>1, <1>2, <1>5, <2>1 DEF PollEnds
<1> QED
  BY <1>3, <1>4, <1>5

LEMMA OutsideDeleteCoherent ==
    ASSUME IInv, NEW d \in Deployments, OutsideDelete(d)
    PROVE  Coherent(d)'
<1> USE DEF Coherent, TaskAndThread, NothingBeforeRow, TeardownAlone, WorkloadIsLate,
            StageOfCall, Serving, RefreshIsLate, rowVars, taskVars, refreshVars
<1>1. TypeOK /\ Coherent(d)
  BY DEF IInv
<1>2. cloud[d] # "absent" /\ cloud'[d] = "gone"
  BY <1>1 DEF TypeOK, OutsideDelete, Exists
<1>3. /\ UNCHANGED <<status, endpoint, admitting, pc, reply, thread, todo, verdict>>
      /\ TearingDown(d)' <=> TearingDown(d)
  BY DEF OutsideDelete, TearingDown
<1> QED
  BY <1>1, <1>2, <1>3

-----------------------------------------------------------------------------
(* The inductive invariant. *)

LEMMA InvInit == Init => IInv
<1> SUFFICES ASSUME Init
             PROVE  TypeOK /\ \A d \in Deployments : Coherent(d)
  BY DEF IInv
<1>1. TypeOK
  BY TypeInit
<1>2. ASSUME NEW d \in Deployments
      PROVE  Coherent(d)
  BY <1>2 DEF Init, Coherent, TaskAndThread, NothingBeforeRow, TeardownAlone,
     WorkloadIsLate, StageOfCall, Serving, RefreshIsLate, TearingDown
<1> QED
  BY <1>1, <1>2

LEMMA InvNext == IInv /\ [Next]_vars => IInv'
<1> SUFFICES ASSUME IInv, [Next]_vars
             PROVE  TypeOK' /\ \A e \in Deployments : Coherent(e)'
  BY DEF IInv
<1>1. TypeOK /\ TypeOK'
  BY TypeNext DEF IInv
<1>2. ASSUME NEW d \in Deployments, Coherent(d)',
             \A e \in Deployments \ {d} : Same(e)
      PROVE  \A e \in Deployments : Coherent(e)'
  BY <1>2, Frame DEF IInv
<1>3. ASSUME NEW d \in Deployments, Preflight(d) \/ Refuse(d) \/ Admit(d)
      PROVE  \A e \in Deployments : Coherent(e)'
  BY <1>1, <1>2, <1>3, OthersSame, AdmissionCoherent
<1>4. ASSUME NEW d \in Deployments, DeployTask(d)
      PROVE  \A e \in Deployments : Coherent(e)'
  <2>1. Coherent(d)'
    BY <1>4, BeginCoherent, CallReturnsCoherent, AdvanceCoherent, FinishCoherent,
       FailCoherent, RollbackCoherent DEF DeployTask
  <2> QED
    BY <1>1, <1>2, <1>4, <2>1, OthersSame
<1>5. ASSUME NEW d \in Deployments, LiveStatus(d)
      PROVE  \A e \in Deployments : Coherent(e)'
  BY <1>1, <1>2, <1>5, OthersSame, LiveStatusCoherent
<1>6. ASSUME NEW d \in Deployments, NEW r \in Requests, DeleteHandler(d, r)
      PROVE  \A e \in Deployments : Coherent(e)'
  <2>1. Coherent(d)'
    BY <1>6, DeleteCancelsCoherent, DeleteTearsDownCoherent, TeardownReturnsCoherent,
       TeardownEndsCoherent DEF DeleteHandler
  <2> QED
    BY <1>1, <1>2, <1>6, <2>1, OthersSame
<1>7. ASSUME NEW d \in Deployments, EraseLost(d) \/ Poll(d) \/ PollEnds(d)
      PROVE  \A e \in Deployments : Coherent(e)'
  BY <1>1, <1>2, <1>7, OthersSame, RefreshCoherent
<1>8. ASSUME NEW d \in Deployments, OutsideDelete(d)
      PROVE  \A e \in Deployments : Coherent(e)'
  BY <1>1, <1>2, <1>8, OthersSame, OutsideDeleteCoherent
<1>9. ASSUME StartTick, NEW e \in Deployments
      PROVE  Coherent(e)'
  <2>1. Coherent(e) /\ (TearingDown(e)' <=> TearingDown(e))
    BY <1>9 DEF IInv, StartTick, TearingDown
  <2> QED
    BY <1>9, <2>1 DEF StartTick, Polled, Coherent, TaskAndThread, NothingBeforeRow,
       TeardownAlone, WorkloadIsLate, StageOfCall, Serving, RefreshIsLate,
       rowVars, taskVars
<1>10. ASSUME SaveCredentials \/ DeleteCredentials \/ UNCHANGED vars, NEW e \in Deployments
       PROVE  Coherent(e)'
  <2>1. Same(e)
    BY <1>10 DEF SaveCredentials, DeleteCredentials, Same, vars, rowVars, taskVars, refreshVars
  <2> QED
    BY <2>1, Frame DEF IInv
<1>11. ASSUME Restart, NEW e \in Deployments
       PROVE  Coherent(e)'
  <2>1. Coherent(e) /\ ~TearingDown(e)'
    BY <1>11 DEF IInv, Restart, TearingDown
  <2> QED
    BY <1>11, <2>1 DEF Restart, Coherent, TaskAndThread, NothingBeforeRow,
       TeardownAlone, WorkloadIsLate, StageOfCall, Serving, RefreshIsLate, rowVars
<1> QED
  BY <1>1, <1>3, <1>4, <1>5, <1>6, <1>7, <1>8, <1>9, <1>10, <1>11 DEF Next

(* Every reachable state satisfies the inductive invariant. *)
THEOREM Invariant == Spec => []IInv
<1>1. Init => IInv
  BY InvInit
<1>2. IInv /\ [Next]_vars => IInv'
  BY InvNext
<1> QED
  BY <1>1, <1>2, PTL DEF Spec

(* No step of a deploy task runs while a DELETE handler is at work on the
   deployment or once the row says deleting or deleted: request_deletion has
   cancelled and awaited the task by then. *)
THEOREM TeardownAfterDeploy == Spec => []TeardownExcludesDeploy
<1>1. IInv => TeardownExcludesDeploy
  BY DEF IInv, Coherent, TeardownAlone, TeardownExcludesDeploy
<1> QED
  BY <1>1, Invariant, PTL

(* A deploy task that starts finds its row queued: the guards at the top of
   run_to_terminal never turn it away. *)
THEOREM TaskFindsRowQueued == Spec => []ScheduledIsQueued
<1>1. IInv => ScheduledIsQueued
  BY DEF IInv, Coherent, TaskAndThread, ScheduledIsQueued
<1> QED
  BY <1>1, Invariant, PTL

(* A running row has its address, and its workload is there unless the project
   was destroyed. *)
THEOREM RunningServed == Spec => []RunningIsServed
<1>1. IInv => RunningIsServed
  BY DEF IInv, Coherent, Serving, RunningIsServed
<1> QED
  BY <1>1, Invariant, PTL

(* No task, thread or handler of the backend acts on a running deployment. *)
THEOREM RunningUntouched == Spec => []RunningIsUntouched
<1>1. IInv => RunningIsUntouched
  BY DEF IInv, Coherent, Serving, RunningIsUntouched
<1> QED
  BY <1>1, Invariant, PTL

(* The rollback of a failed deploy never runs on a project whose workload has
   been applied, whichever call failed and whoever still executes it. *)
THEOREM RollbackSpares == Spec => []RollbackSparesWorkload
<1>1. IInv => RollbackSparesWorkload
  BY DEF IInv, Coherent, WorkloadIsLate, RollbackSparesWorkload, KubeCalls, RollbackCalls
<1> QED
  BY <1>1, Invariant, PTL

-----------------------------------------------------------------------------
(* A deployment whose teardown began never serves again. *)

\* The row exists, is not running, and no task is left that could set it running.
Retired(d) == pc[d] = "idle" /\ status[d] \notin {"none", "running"}

LEMMA RetiredStable ==
    ASSUME IInv, [Next]_vars, NEW d \in Deployments, Retired(d)
    PROVE  Retired(d)'
<1> USE DEF Retired, rowVars, taskVars, refreshVars
<1>1. TypeOK /\ Coherent(d) /\ d \notin admitting
  BY DEF IInv, Coherent, NothingBeforeRow
<1>2. ASSUME NEW e \in Deployments \ {d},
             \/ Preflight(e) \/ Refuse(e) \/ Admit(e)
             \/ DeployTask(e) \/ LiveStatus(e)
             \/ \E r \in Requests : DeleteHandler(e, r)
             \/ EraseLost(e) \/ Poll(e) \/ PollEnds(e) \/ OutsideDelete(e)
      PROVE  Retired(d)'
  BY <1>1, <1>2, OthersSame DEF Same
<1>3. CASE Preflight(d) \/ Refuse(d) \/ Admit(d)
  BY <1>1, <1>3 DEF Preflight, Refuse, Admit
<1>4. CASE DeployTask(d)
  <2>1. CallReturns(d)
    BY <1>4 DEF DeployTask, Begin, Advance, NextCall, Finish, FinalCall, Fail,
       RollbackProbed, RollbackEnds, DeployCalls
  <2> QED
    BY <2>1 DEF CallReturns
<1>5. CASE LiveStatus(d)
  BY <1>1, <1>5, WrittenRow DEF LiveStatus, LiveRow, Absent
<1>6. ASSUME NEW r \in Requests, DeleteHandler(d, r)
      PROVE  Retired(d)'
  <2>1. CASE DeleteCancels(d, r) \/ TeardownReturns(d, r)
    BY <1>1, <2>1 DEF TypeOK, DeleteCancels, TeardownReturns
  <2>2. CASE DeleteTearsDown(d, r)
    BY <1>1, <2>2, WrittenRow DEF DeleteTearsDown, Absent
  <2>3. CASE TeardownEnds(d, r)
    BY <1>1, <2>3, WrittenRow DEF TeardownEnds, SettledRow, Absent
  <2> QED
    BY <1>6, <2>1, <2>2, <2>3 DEF DeleteHandler
<1>7. CASE EraseLost(d) \/ Poll(d) \/ OutsideDelete(d)
  BY <1>1, <1>7 DEF TypeOK, EraseLost, Poll, OutsideDelete
<1>8. CASE PollEnds(d)
  BY <1>1, <1>8, WrittenRow DEF PollEnds, Absent
<1>9. CASE StartTick \/ SaveCredentials \/ DeleteCredentials \/ Restart \/ UNCHANGED vars
  BY <1>9 DEF StartTick, SaveCredentials, DeleteCredentials, Restart, vars
<1> QED
  BY <1>2, <1>3, <1>4, <1>5, <1>6, <1>7, <1>8, <1>9 DEF Next

(* Once a row has been set deleting it is never set running again, whatever
   the abandoned threads, the refresh loop, other DELETEs and restarts do. *)
THEOREM NoReturn == Spec => NoReturnToService
<1>1. ASSUME NEW d \in Deployments
      PROVE  Spec => [](status[d] = "deleting" => [](status[d] # "running"))
  <2>1. IInv /\ status[d] = "deleting" => Retired(d)
    BY DEF IInv, Coherent, TeardownAlone, Retired
  <2>2. IInv /\ [Next]_vars /\ Retired(d) => Retired(d)'
    BY RetiredStable
  <2>3. Retired(d) => status[d] # "running"
    BY DEF Retired
  <2> QED
    BY <2>1, <2>2, <2>3, Invariant, PTL DEF Spec
<1> QED
  BY <1>1 DEF NoReturnToService

-----------------------------------------------------------------------------
(* A row being deleted keeps its handler. *)

\* What a DELETE handler is answered: delete_project never reports "missing".
HandlerAnswered == \A d \in Deployments, r \in Requests : req[d][r] # "missing"

LEMMA TeardownAnswer ==
    ASSUME NEW d \in Deployments, NEW o \in Outcomes(d, "delete_project")
    PROVE  o[2] \in Answers \ {"missing"}
<1>1. CASE RowMissing(d, "delete_project") \/ KeyMissing("delete_project")
  BY <1>1 DEF Outcomes, Answers
<1>2. CASE ~RowMissing(d, "delete_project") /\ ~KeyMissing("delete_project")
  <2>1. \/ o \in {<<cloud[d], f>> : f \in Failures("delete_project")}
        \/ o \in {Leaves("delete_project", cloud[d])} \X {"ok", "error"}
        \/ o \in {<<cloud[d], "ok">>, <<cloud[d], "notfound">>}
    BY <1>2 DEF Outcomes
  <2> QED
    BY <2>1 DEF Failures, Answers
<1> QED
  BY <1>1, <1>2

LEMMA HandlerAnsweredNext ==
    ASSUME TypeOK, HandlerAnswered, [Next]_vars
    PROVE  HandlerAnswered'
<1> USE DEF HandlerAnswered
<1>1. CASE \E d \in Deployments, r \in Requests : DeleteHandler(d, r)
  <2>1. PICK d \in Deployments, r \in Requests : DeleteHandler(d, r)
    BY <1>1
  <2>2. \E new \in ReqStates \ {"missing"} : req' = [req EXCEPT ![d][r] = new]
    <3>1. CASE TeardownReturns(d, r)
      BY <3>1, TeardownAnswer DEF TeardownReturns, ReqStates
    <3> QED
      BY <2>1, <3>1 DEF DeleteHandler, DeleteCancels, DeleteTearsDown, TeardownEnds, ReqStates
  <2> QED
    BY <2>2 DEF TypeOK
<1>2. CASE Restart
  BY <1>2 DEF Restart
<1>3. CASE UNCHANGED req
  BY <1>3
<1> QED
  BY <1>1, <1>2, <1>3 DEF Next, Preflight, Refuse, Admit, DeployTask, Begin, CallReturns,
     Advance, Finish, Fail, RollbackProbed, RollbackEnds, LiveStatus, EraseLost, Poll,
     PollEnds, OutsideDelete, StartTick, SaveCredentials, DeleteCredentials, vars

\* Only its DELETE handler sets a row deleting.
LEMMA OthersDoNotDelete ==
    ASSUME IInv, NEW d \in Deployments,
           \/ Preflight(d) \/ Refuse(d) \/ Admit(d) \/ DeployTask(d) \/ LiveStatus(d)
           \/ EraseLost(d) \/ Poll(d) \/ PollEnds(d) \/ OutsideDelete(d)
    PROVE  /\ req' = req
           /\ status'[d] = "deleting" => status[d] = "deleting"
<1>1. TypeOK
  BY DEF IInv
<1>2. \A new \in {"deploying", "running", "failed", "lost"} :
         Written(status, d, new)[d] = "deleting" => status[d] = "deleting"
  BY <1>1, WrittenRow
<1> USE DEF rowVars
<1>3. CASE DeployTask(d) \/ LiveStatus(d)
  BY <1>2, <1>3 DEF DeployTask, Begin, CallReturns, Advance, Finish, Fail, FailedRow,
     RollbackProbed, RollbackEnds, LiveStatus, LiveRow
<1>4. CASE EraseLost(d) \/ Admit(d)
  BY <1>1, <1>4 DEF TypeOK, EraseLost, Admit
<1>5. CASE Preflight(d) \/ Refuse(d) \/ Poll(d) \/ OutsideDelete(d)
  BY <1>5 DEF Preflight, Refuse, Poll, OutsideDelete
<1>6. CASE PollEnds(d)
  BY <1>2, <1>6 DEF PollEnds
<1> QED
  BY <1>3, <1>4, <1>5, <1>6

(* The handler that sets the row deleting is then awaiting the teardown, and
   the one that stops being at work has settled the row. *)
LEMMA HandlerSettles ==
    ASSUME IInv, HandlerAnswered, NEW d \in Deployments, NEW r \in Requests,
           DeleteHandler(d, r), status'[d] = "deleting", ~TearingDown(d)'
    PROVE  req[d][r] = "unexpected"
<1>1. TypeOK
  BY DEF IInv
<1>2. req'[d][r] = "idle"
  BY DEF TearingDown
<1>3. TeardownEnds(d, r)
  <2>1. CASE TeardownReturns(d, r)
    BY <1>1, <1>2, <2>1, TeardownAnswer DEF TypeOK, TeardownReturns, Answers
  <2>2. CASE DeleteCancels(d, r) \/ DeleteTearsDown(d, r)
    BY <1>1, <1>2, <2>2 DEF TypeOK, DeleteCancels, DeleteTearsDown
  <2> QED
    BY <2>1, <2>2 DEF DeleteHandler
<1>4. status'[d] = SettledRow(d, req[d][r])[d] /\ req[d][r] \in Answers \ {"missing"}
  BY <1>3 DEF TeardownEnds, HandlerAnswered
<1>5. \A new \in {"deleted", "failed"} :
         Written(status, d, new)[d] = IF status[d] \in Absent THEN status[d] ELSE new
  BY <1>1, WrittenRow
<1> QED
  BY <1>4, <1>5 DEF SettledRow, Answers, Absent

(* A row gets into "deleting" with a handler, and keeps one until it has left
   it, unless the backend restarts or the teardown raises what the handler does
   not catch. *)
THEOREM DeletingHandled == Spec => DeletingHasHandler
<1> DEFINE Kept(d) ==
      status'[d] = "deleting" /\ ~TearingDown(d)'
          => \/ status[d] = "deleting" /\ ~TearingDown(d)
             \/ restarts' # restarts
             \/ \E r \in Requests : req[d][r] = "unexpected"
<1>1. ASSUME IInv, HandlerAnswered, [Next]_vars, NEW d \in Deployments
      PROVE  Kept(d)
  <2>1. ASSUME req'[d] = req[d], status'[d] = "deleting" => status[d] = "deleting"
        PROVE  Kept(d)
    BY <2>1 DEF TearingDown
  <2>2. ASSUME NEW e \in Deployments \ {d},
               \/ Preflight(e) \/ Refuse(e) \/ Admit(e) \/ DeployTask(e) \/ LiveStatus(e)
               \/ \E r \in Requests : DeleteHandler(e, r)
               \/ EraseLost(e) \/ Poll(e) \/ PollEnds(e) \/ OutsideDelete(e)
        PROVE  Kept(d)
    <3>1. Same(d)
      BY <1>1, <2>2, OthersSame DEF IInv
    <3> QED
      BY <2>1, <3>1 DEF Same
  <2>3. CASE \/ Preflight(d) \/ Refuse(d) \/ Admit(d) \/ DeployTask(d) \/ LiveStatus(d)
             \/ EraseLost(d) \/ Poll(d) \/ PollEnds(d) \/ OutsideDelete(d)
    BY <1>1, <2>1, <2>3, OthersDoNotDelete
  <2>4. ASSUME NEW r \in Requests, DeleteHandler(d, r)
        PROVE  Kept(d)
    BY <1>1, <2>4, HandlerSettles
  <2>5. CASE Restart
    BY <1>1, <2>5 DEF IInv, TypeOK, Restart
  <2>6. CASE StartTick \/ SaveCredentials \/ DeleteCredentials \/ UNCHANGED vars
    BY <2>1, <2>6 DEF StartTick, SaveCredentials, DeleteCredentials, vars, rowVars
  <2> QED
    BY <1>1, <2>2, <2>3, <2>4, <2>5, <2>6 DEF Next
<1>2. Init => HandlerAnswered
  BY DEF Init, HandlerAnswered
<1>3. IInv /\ HandlerAnswered /\ [Next]_vars => HandlerAnswered'
  BY HandlerAnsweredNext DEF IInv
<1>4. IInv /\ HandlerAnswered /\ [Next]_vars => [\A d \in Deployments : Kept(d)]_vars
  BY <1>1
<1> QED
  BY <1>2, <1>3, <1>4, Invariant, PTL DEF Spec, DeletingHasHandler

===============================================================================
