---------------------- MODULE LightningDeploymentProofs ----------------------
(***************************************************************************)
(* Theorems about LightningDeployment, for any deployments, names, DELETE  *)
(* handlers, accounts, cap and number of restarts.                         *)
(*                                                                         *)
(* What the invariants rest on is when a row has the id of its submission: *)
(* from the step in which its deploy task ends, so that neither the        *)
(* refresh, which passes over rows without one, nor a running row ever     *)
(* meets the task.  As for GKE every part speaks of one deployment.        *)
(*                                                                         *)
(* The last sections add what an answer from Lightning AI is worth when it *)
(* is acted upon (Informed), and show that the module implements           *)
(* DeploymentLife.                                                         *)
(***************************************************************************)
EXTENDS LightningDeployment, TLAPS

(* A task that has called awaits its thread or has the answer; another has
   neither; and one that has not begun finds its row as it was inserted. *)
TaskAndThread(d) ==
    /\ pc[d] \in {"idle", "scheduled"} => reply[d] = "none"
    /\ pc[d] = "scheduled" => status[d] = "queued" /\ ~thread[d]
    /\ reply[d] # "none" => ~thread[d]

TearingDown(d) == \E r \in Requests : req[d][r] # "idle"

\* Nothing runs on behalf of a row before it exists.
NothingBeforeRow(d) ==
    /\ status[d] = "none" =>
          pc[d] = "idle" /\ ~thread[d] /\ ~submitted[d] /\ ~TearingDown(d)
    /\ d \in admitting => status[d] = "none"

TeardownAlone(d) ==
    TearingDown(d) \/ status[d] \in {"deleting", "deleted"} => pc[d] = "idle"

\* With the id the task and its thread are over.
IdIsLast(d) == submitted[d] => pc[d] = "idle" /\ ~thread[d]

\* The refresh deals only with rows that have their id.
RefreshFollowsId(d) ==
    /\ snapshot[d] # "none" => submitted[d]
    /\ verdict[d] # "none" => snapshot[d] # "none"

\* Nobody can see a running row, or an address, before the id.
ReachableHasId(d) == status[d] = "running" \/ endpoint[d] => submitted[d]

Attended(d) ==
    status[d] \in {"queued", "deploying"} =>
        \/ pc[d] # "idle" \/ submitted[d]
        \/ \E r \in Requests : req[d][r] = "cancelling"
        \/ restarts > 0

Coherent(d) ==
    /\ TaskAndThread(d) /\ NothingBeforeRow(d) /\ TeardownAlone(d)
    /\ IdIsLast(d) /\ RefreshFollowsId(d) /\ ReachableHasId(d) /\ Attended(d)

IInv == TypeOK /\ \A d \in Deployments : Coherent(d)

-----------------------------------------------------------------------------

LEMMA InitIInv == Init => IInv
<1> SUFFICES ASSUME Init PROVE IInv
  OBVIOUS
<1>1. TypeOK
  BY BoundsAreNatural DEF Init, TypeOK, Statuses, ColumnStatuses, Absent, Remotes
<1>2. ASSUME NEW d \in Deployments PROVE Coherent(d)
  BY DEF Init, Coherent, TaskAndThread, NothingBeforeRow, TearingDown, TeardownAlone, IdIsLast,
         RefreshFollowsId, ReachableHasId, Attended
<1> QED BY <1>1, <1>2 DEF IInv

LEMMA WrittenType ==
    ASSUME TypeOK, NEW d \in Deployments, NEW new \in Statuses
    PROVE  Written(status, d, new) \in [Deployments -> Statuses]
  BY DEF Written, TypeOK

LEMMA RefreshedType ==
    ASSUME TypeOK, NEW d \in Deployments
    PROVE  RefreshedRows(d) \subseteq [Deployments -> Statuses]
<1>1. status \in [Deployments -> Statuses] /\ verdict[d] \in Verdicts \cup {"none"}
  BY DEF TypeOK
<1>2. /\ {"deleted", "running"} \subseteq Statuses
      /\ verdict[d] \notin {"other", "notfound", "missed", "auth", "error"}
            => verdict[d] \in Statuses
  BY <1>1 DEF Verdicts, Statuses, ColumnStatuses, Absent
<1>3. {Written(status, d, "deleted"), Written(status, d, "running")}
          \subseteq [Deployments -> Statuses]
  BY <1>2, WrittenType
<1>4. verdict[d] \notin {"other", "notfound", "missed", "auth", "error"}
          => Written(status, d, verdict[d]) \in [Deployments -> Statuses]
  BY <1>1, <1>2, WrittenType
<1> QED BY <1>1, <1>2, <1>3, <1>4 DEF RefreshedRows

(* What a call can bring about.  A deletion that answers "ok" has removed the
   deployment of its own row; whatever it removes was there. *)
LEMMA DeletionEffect ==
    ASSUME NEW d \in Deployments, NEW acct, NEW o \in DeleteOutcomes(d, acct)
    PROVE  /\ o[2] \in TeardownAnswers
           /\ \/ o[1] = remote /\ o[2] \notin {"ok", "other"}
              \/ \E e \in Deployments :
                    /\ Present(e) /\ o[1] = [remote EXCEPT ![e] = "gone"]
                    /\ o[2] = "ok" => e = d
           /\ o[2] = "notfound" => o[1] = remote /\ ~Present(d)
  BY DEF DeleteOutcomes, TeardownAnswers, Unseen, Found

LEMMA ReportType ==
    ASSUME NEW d \in Deployments
    PROVE  Reports(d) \subseteq Verdicts
  BY DEF Reports, Verdicts, Unseen

(* The deployments a step does not act on stay coherent. *)

\* Nothing of e changes, except that a request for it may be turned down.
Same(e) ==
    /\ status'[e] = status[e]
    /\ endpoint'[e] = endpoint[e]
    /\ submitted'[e] = submitted[e]
    /\ e \in admitting' => e \in admitting
    /\ pc'[e] = pc[e]
    /\ reply'[e] = reply[e]
    /\ thread'[e] = thread[e]
    /\ req'[e] = req[e]
    /\ snapshot'[e] = snapshot[e]
    /\ verdict'[e] = verdict[e]
    /\ restarts' = restarts

LEMMA Frame ==
    ASSUME NEW e \in Deployments, Coherent(e), Same(e)
    PROVE  Coherent(e)'
<1>1. TearingDown(e)' <=> TearingDown(e)
  BY DEF Same, TearingDown
<1> QED
  BY <1>1 DEF Coherent, Same, TaskAndThread, NothingBeforeRow, TeardownAlone, IdIsLast,
     RefreshFollowsId, ReachableHasId, Attended

LEMMA StepType == TypeOK /\ [Next]_vars => TypeOK'
<1> SUFFICES ASSUME TypeOK, [Next]_vars PROVE TypeOK'
  OBVIOUS
<1>w. \A d \in Deployments :
         {Written(status, d, "queued"), Written(status, d, "deploying"),
          Written(status, d, "failed"), Written(status, d, "deleting"),
          Written(status, d, "deleted")} \subseteq [Deployments -> Statuses]
  BY WrittenType DEF Statuses, ColumnStatuses
<1>z. \A d \in Deployments : RefreshedRows(d) \subseteq [Deployments -> Statuses]
  BY RefreshedType
<1> USE BoundsAreNatural DEF TypeOK, Statuses, ColumnStatuses, Absent, Polled
<1>1. ASSUME NEW d \in Deployments, Preflight(d) \/ Refuse(d) \/ Admit(d) PROVE TypeOK'
  BY <1>1 DEF Preflight, Refuse, Admit, rowVars, taskVars, reqVars, remoteVars, credVars,
              refreshVars
<1>2. ASSUME NEW d \in Deployments, Begin(d) PROVE TypeOK'
  <2>1. status' \in [Deployments -> Statuses]
    BY <1>2, <1>w DEF Begin
  <2>2. CASE key = "none"
    BY <1>2, <2>1, <2>2 DEF Begin, Return, reqVars, credVars, refreshVars
  <2>3. CASE key # "none"
    BY <1>2, <2>1, <2>3 DEF Begin, reqVars, credVars, refreshVars
  <2> QED BY <2>2, <2>3
<1>3. ASSUME NEW d \in Deployments, Submitted(d) PROVE TypeOK'
  BY <1>3 DEF Submitted, Written, Return, reqVars, remoteVars, credVars, refreshVars
<1>4. ASSUME NEW d \in Deployments, Rejected(d) PROVE TypeOK'
  BY <1>4 DEF Rejected, KeyAfter, Written, Return, reqVars, remoteVars, refreshVars
<1>5. ASSUME NEW d \in Deployments, CallReturns(d) PROVE TypeOK'
  BY <1>5 DEF CallReturns, DeployOutcomes, Replies, Remotes, rowVars, reqVars, credVars,
              refreshVars
<1>6. ASSUME NEW d \in Deployments, NEW r \in Requests, DeleteCancels(d, r) PROVE TypeOK'
  BY <1>6 DEF DeleteCancels, Return, rowVars, remoteVars, credVars, refreshVars
<1>7. ASSUME NEW d \in Deployments, NEW r \in Requests, DeleteTearsDown(d, r) PROVE TypeOK'
  <2>1. status' \in [Deployments -> Statuses]
    BY <1>7, <1>w DEF DeleteTearsDown
  <2>2. /\ \E stage \in {"idle", "tearing"} : req' = [req EXCEPT ![d][r] = stage]
        /\ \/ UNCHANGED teardownAs
           \/ teardownAs' = [teardownAs EXCEPT ![d][r] = account]
    BY <1>7 DEF DeleteTearsDown
  <2>3. req' \in [Deployments -> [Requests ->
                   {"idle", "cancelling", "tearing"} \cup TeardownAnswers]]
    BY <2>2
  <2>4. teardownAs' \in [Deployments -> [Requests -> Accounts]]
    <3>1. [teardownAs[d] EXCEPT ![r] = account] \in [Requests -> Accounts]
      OBVIOUS
    <3>2. \/ UNCHANGED teardownAs
          \/ teardownAs' = [teardownAs EXCEPT ![d] = [teardownAs[d] EXCEPT ![r] = account]]
      BY <2>2
    <3> QED BY <3>1, <3>2
  <2>5. UNCHANGED <<endpoint, submitted, admitting, taskVars, remoteVars, credVars,
                    refreshVars, restarts>>
    BY <1>7 DEF DeleteTearsDown
  <2> QED BY <2>1, <2>3, <2>4, <2>5 DEF taskVars, remoteVars, credVars, refreshVars
<1>8. ASSUME NEW d \in Deployments, NEW r \in Requests, TeardownReturns(d, r) PROVE TypeOK'
  <2>1. PICK o \in DeleteOutcomes(d, teardownAs[d][r]) :
          remote' = o[1] /\ req' = [req EXCEPT ![d][r] = o[2]]
    BY <1>8 DEF TeardownReturns
  <2>2. /\ o[2] \in TeardownAnswers
        /\ o[1] = remote \/ \E e \in Deployments : o[1] = [remote EXCEPT ![e] = "gone"]
    BY DeletionEffect
  <2>3. remote' \in [Deployments -> Remotes]
    BY <2>1, <2>2 DEF Remotes
  <2> QED
    BY <1>8, <2>1, <2>2, <2>3 DEF TeardownReturns, rowVars, taskVars, credVars, refreshVars
<1>9. ASSUME NEW d \in Deployments, NEW r \in Requests, TeardownEnds(d, r) PROVE TypeOK'
  BY <1>9 DEF TeardownEnds, SettledRow, Written, TeardownAnswers, taskVars, remoteVars,
              credVars, refreshVars
<1>10. ASSUME NEW d \in Deployments, Poll(d) PROVE TypeOK'
  BY <1>10, ReportType DEF Poll, rowVars, taskVars, reqVars, remoteVars, credVars
<1>11. ASSUME NEW d \in Deployments, SkipPoll(d) PROVE TypeOK'
  BY <1>11 DEF SkipPoll, rowVars, taskVars, reqVars, remoteVars, credVars
<1>12. ASSUME NEW d \in Deployments, PollEnds(d) PROVE TypeOK'
  <2>1. status' \in [Deployments -> Statuses]
    BY <1>12, <1>z DEF PollEnds
  <2> QED BY <1>12, <2>1 DEF PollEnds, KeyAfter, taskVars, reqVars, remoteVars
<1>13. ASSUME NEW d \in Deployments, RemoteMove(d) PROVE TypeOK'
  BY <1>13 DEF RemoteMove, rowVars, taskVars, reqVars, credVars, refreshVars
<1>14. CASE StartTick
  BY <1>14 DEF StartTick, Pollable, rowVars, taskVars, reqVars, remoteVars, credVars
<1>15. CASE SaveCredentials \/ DeleteCredentials
  BY <1>15 DEF SaveCredentials, DeleteCredentials, rowVars, taskVars, reqVars, remoteVars,
               refreshVars
<1>16. CASE Restart
  BY <1>16 DEF Restart, rowVars, remoteVars, credVars
<1>17. CASE UNCHANGED vars
  BY <1>17 DEF vars, rowVars, taskVars, reqVars, remoteVars, credVars, refreshVars
<1> QED
  BY <1>1, <1>2, <1>3, <1>4, <1>5, <1>6, <1>7, <1>8, <1>9, <1>10, <1>11, <1>12, <1>13, <1>14,
     <1>15, <1>16, <1>17 DEF Next, DeployTask, DeleteHandler, Refresh

-----------------------------------------------------------------------------
(* Each action at the deployment it acts on, and the others. *)

LEMMA WrittenRow ==
    ASSUME TypeOK, NEW d \in Deployments, NEW new
    PROVE  /\ Written(status, d, new)[d] = IF status[d] \in Absent THEN status[d] ELSE new
           /\ \A e \in Deployments \ {d} : Written(status, d, new)[e] = status[e]
  BY DEF Written, TypeOK

LEMMA AdmissionKeeps ==
    ASSUME IInv, NEW d \in Deployments, Preflight(d) \/ Refuse(d) \/ Admit(d)
    PROVE  Coherent(d)' /\ \A e \in Deployments \ {d} : Same(e)
<1> USE DEF IInv, TypeOK, Preflight, Refuse, Admit, rowVars, taskVars, reqVars, refreshVars
<1>1. \A e \in Deployments \ {d} : Same(e)
  BY DEF Same
<1>2. Coherent(d)'
  BY DEF Coherent, TaskAndThread, NothingBeforeRow, TearingDown, TeardownAlone, IdIsLast,
         RefreshFollowsId, ReachableHasId, Attended
<1> QED BY <1>1, <1>2

LEMMA TaskKeeps ==
    ASSUME IInv, NEW d \in Deployments, DeployTask(d) \/ CallReturns(d)
    PROVE  Coherent(d)' /\ \A e \in Deployments \ {d} : Same(e)
<1> USE DEF IInv, TypeOK, rowVars, taskVars, reqVars, refreshVars
<1>w. \A new : /\ Written(status, d, new)[d] = IF status[d] \in Absent THEN status[d] ELSE new
               /\ \A e \in Deployments \ {d} : Written(status, d, new)[e] = status[e]
  BY WrittenRow
<1>1. CASE Begin(d)
  <2>1. \A e \in Deployments \ {d} : Same(e)
    BY <1>1, <1>w DEF Begin, Return, Same
  <2>2. Coherent(d)'
    BY <1>1, <1>w DEF Begin, Return, Coherent, TaskAndThread, NothingBeforeRow, TearingDown,
       TeardownAlone, IdIsLast, RefreshFollowsId, ReachableHasId, Attended, Absent
  <2> QED BY <2>1, <2>2
<1>2. CASE Submitted(d)
  <2>1. \A e \in Deployments \ {d} : Same(e)
    BY <1>2, <1>w DEF Submitted, Return, Same
  <2>2. Coherent(d)'
    BY <1>2, <1>w DEF Submitted, Return, Coherent, TaskAndThread, NothingBeforeRow, TearingDown,
       TeardownAlone, IdIsLast, RefreshFollowsId, ReachableHasId, Attended, Absent
  <2> QED BY <2>1, <2>2
<1>3. CASE Rejected(d)
  <2>1. \A e \in Deployments \ {d} : Same(e)
    BY <1>3, <1>w DEF Rejected, Return, Same
  <2>2. Coherent(d)'
    BY <1>3, <1>w DEF Rejected, Return, Coherent, TaskAndThread, NothingBeforeRow, TearingDown,
       TeardownAlone, IdIsLast, RefreshFollowsId, ReachableHasId, Attended, Absent
  <2> QED BY <2>1, <2>2
<1>4. CASE CallReturns(d)
  <2>1. \A e \in Deployments \ {d} : Same(e)
    BY <1>4 DEF CallReturns, Same
  <2>2. Coherent(d)'
    BY <1>4 DEF CallReturns, Coherent, TaskAndThread, NothingBeforeRow, TearingDown,
       TeardownAlone, IdIsLast, RefreshFollowsId, ReachableHasId, Attended
  <2> QED BY <2>1, <2>2
<1> QED BY <1>1, <1>2, <1>3, <1>4 DEF DeployTask

LEMMA HandlerKeeps ==
    ASSUME IInv, NEW d \in Deployments, NEW r \in Requests, DeleteHandler(d, r)
    PROVE  Coherent(d)' /\ \A e \in Deployments \ {d} : Same(e)
<1> USE DEF IInv, TypeOK, rowVars, taskVars, reqVars, refreshVars
<1>w. \A new : /\ Written(status, d, new)[d] = IF status[d] \in Absent THEN status[d] ELSE new
               /\ \A e \in Deployments \ {d} : Written(status, d, new)[e] = status[e]
  BY WrittenRow
<1>1. CASE DeleteCancels(d, r)
  <2>1. \A e \in Deployments \ {d} : Same(e)
    BY <1>1 DEF DeleteCancels, Return, Same
  <2>2. Coherent(d)'
    BY <1>1 DEF DeleteCancels, Deletable, NothingToCancel, Return, Coherent, TaskAndThread,
       NothingBeforeRow, TearingDown, TeardownAlone, IdIsLast, RefreshFollowsId,
       ReachableHasId, Attended, Absent
  <2> QED BY <2>1, <2>2
<1>2. CASE DeleteTearsDown(d, r)
  <2>1. \E new \in {"deleted", "deleting"}, stage \in {"idle", "tearing"} :
           status' = Written(status, d, new) /\ req' = [req EXCEPT ![d][r] = stage]
    BY <1>2 DEF DeleteTearsDown
  <2>2. /\ UNCHANGED <<endpoint, submitted, admitting, taskVars, refreshVars, restarts>>
        /\ pc[d] = "idle" /\ status[d] # "none"
    BY <1>2 DEF DeleteTearsDown, Deletable, NothingToCancel, Absent, Coherent, TearingDown,
       TeardownAlone, NothingBeforeRow
  <2>3. \A e \in Deployments \ {d} : Same(e)
    BY <2>1, <2>2, <1>w DEF Same
  <2>4. status'[d] \in {"deleted", "deleting", "erased"}
    BY <2>1, <2>2, <1>w DEF Absent
  <2>5. Coherent(d)'
    BY <2>2, <2>4
       DEF Coherent, TaskAndThread, NothingBeforeRow, TearingDown, TeardownAlone, IdIsLast,
           RefreshFollowsId, ReachableHasId, Attended
  <2> QED BY <2>3, <2>5
<1>3. CASE TeardownReturns(d, r)
  <2>o. \A o \in DeleteOutcomes(d, teardownAs[d][r]) : o[2] \in TeardownAnswers
    BY DeletionEffect
  <2>1. /\ req[d][r] = "tearing"
        /\ \E a \in TeardownAnswers : req' = [req EXCEPT ![d][r] = a]
        /\ UNCHANGED <<rowVars, admitting, taskVars, refreshVars, restarts>>
    BY <1>3, <2>o DEF TeardownReturns
  <2>2. \A e \in Deployments \ {d} : Same(e)
    BY <2>1 DEF Same
  <2>3. Coherent(d)'
    BY <2>1 DEF TeardownAnswers, Coherent, TaskAndThread, NothingBeforeRow, TearingDown,
       TeardownAlone, IdIsLast, RefreshFollowsId, ReachableHasId, Attended
  <2> QED BY <2>2, <2>3
<1>4. CASE TeardownEnds(d, r)
  <2>1. /\ req[d][r] \notin {"idle", "cancelling"} /\ req' = [req EXCEPT ![d][r] = "idle"]
        /\ \E new \in {"deleted", "failed"} : status' = Written(status, d, new)
        /\ UNCHANGED <<endpoint, submitted, admitting, taskVars, refreshVars, restarts>>
    BY <1>4 DEF TeardownEnds, SettledRow, TeardownAnswers
  <2>2. \A e \in Deployments \ {d} : Same(e)
    BY <2>1, <1>w DEF Same
  <2>3. pc[d] = "idle" /\ status[d] # "none"
    BY <2>1 DEF Coherent, TearingDown, TeardownAlone, NothingBeforeRow
  <2>4. status'[d] \in {"deleted", "failed", "erased"}
    BY <2>1, <2>3, <1>w DEF Absent
  <2>5. Coherent(d)'
    BY <2>1, <2>3, <2>4
       DEF Coherent, TaskAndThread, NothingBeforeRow, TearingDown, TeardownAlone, IdIsLast,
           RefreshFollowsId, ReachableHasId, Attended
  <2> QED BY <2>2, <2>5
<1> QED BY <1>1, <1>2, <1>3, <1>4 DEF DeleteHandler

LEMMA RefreshKeeps ==
    ASSUME IInv, NEW d \in Deployments, Refresh(d)
    PROVE  Coherent(d)' /\ \A e \in Deployments \ {d} : Same(e)
<1> USE DEF IInv, TypeOK, rowVars, taskVars, reqVars, refreshVars
<1>1. CASE Poll(d) \/ SkipPoll(d)
  <2>1. \A e \in Deployments \ {d} : Same(e)
    BY <1>1 DEF Poll, SkipPoll, Same
  <2>2. Coherent(d)'
    BY <1>1 DEF Poll, SkipPoll, Coherent, TaskAndThread, NothingBeforeRow, TearingDown,
       TeardownAlone, IdIsLast, RefreshFollowsId, ReachableHasId, Attended
  <2> QED BY <2>1, <2>2
<1>2. CASE PollEnds(d)
  <2>1. submitted[d] /\ pc[d] = "idle" /\ ~thread[d] /\ status[d] # "none"
    BY <1>2 DEF PollEnds, Coherent, RefreshFollowsId, IdIsLast, NothingBeforeRow
  <2>2. \/ UNCHANGED status
        \/ \E new \in Verdicts : status' = Written(status, d, new)
        \/ status' = Written(status, d, "deleted") \/ status' = Written(status, d, "running")
    BY <1>2 DEF PollEnds, RefreshedRows
  <2>3. /\ \A e \in Deployments \ {d} : status'[e] = status[e]
        /\ status'[d] # "none"
    BY <2>1, <2>2, WrittenRow DEF Verdicts
  <2>4. \A e \in Deployments \ {d} : Same(e)
    BY <1>2, <2>3 DEF PollEnds, Same
  <2>5. Coherent(d)'
    BY <1>2, <2>1, <2>3
       DEF PollEnds, Coherent, TaskAndThread, NothingBeforeRow, TearingDown, TeardownAlone,
           IdIsLast, RefreshFollowsId, ReachableHasId, Attended
  <2> QED BY <2>4, <2>5
<1> QED BY <1>1, <1>2 DEF Refresh

LEMMA StepIInv == IInv /\ [Next]_vars => IInv'
<1> SUFFICES ASSUME IInv, [Next]_vars PROVE IInv'
  OBVIOUS
<1>t. TypeOK /\ TypeOK'
  BY StepType DEF IInv
<1>1. ASSUME NEW d \in Deployments, Coherent(d)', \A e \in Deployments \ {d} : Same(e)
      PROVE  IInv'
  BY <1>1, <1>t, Frame DEF IInv
<1>2. ASSUME \A e \in Deployments : Same(e) PROVE IInv'
  BY <1>2, <1>t, Frame DEF IInv
<1>3. ASSUME NEW d \in Deployments, RemoteMove(d) PROVE IInv'
  BY <1>2, <1>3 DEF RemoteMove, Same, rowVars, taskVars, reqVars, refreshVars
<1>4. CASE StartTick
  <2>1. ASSUME NEW e \in Deployments PROVE Coherent(e)'
    BY <1>4, <1>t DEF StartTick, Pollable, IInv, TypeOK, Coherent, TaskAndThread,
       NothingBeforeRow, TearingDown, TeardownAlone, IdIsLast, RefreshFollowsId,
       ReachableHasId, Attended, rowVars, taskVars, reqVars
  <2> QED BY <2>1, <1>t DEF IInv
<1>5. CASE SaveCredentials \/ DeleteCredentials
  BY <1>2, <1>5 DEF SaveCredentials, DeleteCredentials, Same, rowVars, taskVars, reqVars,
                    refreshVars
<1>6. CASE Restart
  <2>1. ASSUME NEW e \in Deployments PROVE Coherent(e)'
    <3>1. restarts' > 0
      BY <1>6, <1>t DEF Restart, TypeOK
    <3> QED
      BY <1>6, <1>t, <3>1 DEF Restart, IInv, TypeOK, Coherent, TaskAndThread,
         NothingBeforeRow, TearingDown, TeardownAlone, IdIsLast, RefreshFollowsId,
         ReachableHasId, Attended, rowVars
  <2> QED BY <2>1, <1>t DEF IInv
<1>7. CASE UNCHANGED vars
  BY <1>2, <1>7 DEF vars, Same, rowVars, taskVars, reqVars, refreshVars
<1> QED
  BY <1>1, <1>3, <1>4, <1>5, <1>6, <1>7, AdmissionKeeps, TaskKeeps, HandlerKeeps, RefreshKeeps
     DEF Next

LEMMA Invariant == Spec => []IInv
  BY InitIInv, StepIInv, PTL DEF Spec

-----------------------------------------------------------------------------

(* Every reachable state is of the declared type. *)
THEOREM TypeCorrect == Spec => []TypeOK
  BY Invariant, PTL DEF IInv

(* A teardown never overlaps the deploy task. *)
THEOREM TeardownAfterDeploy == Spec => []TeardownExcludesDeploy
<1>1. IInv => TeardownExcludesDeploy
  BY DEF IInv, Coherent, TeardownAlone, TearingDown, TeardownExcludesDeploy
<1> QED BY <1>1, Invariant, PTL

(* What users can reach has the id by which it can be taken down. *)
THEOREM ReachableIsTracked == Spec => []RunningIsTracked
<1>1. IInv => RunningIsTracked
  BY DEF IInv, Coherent, IdIsLast, ReachableHasId, RunningIsTracked
<1> QED BY <1>1, Invariant, PTL

(* Only a restart leaves a deploying row that nobody will write. *)
THEOREM NoneAbandoned == Spec => []DeployingIsAttended
<1>1. IInv => DeployingIsAttended
  BY DEF IInv, Coherent, Attended, DeployingIsAttended
<1> QED BY <1>1, Invariant, PTL

-----------------------------------------------------------------------------
(* What the answers on their way say. *)

(* While the call is made the task alone writes the row, and no handler that
   is past the cancelling touches a deployment without an id. *)
AtWork(d) ==
    /\ status[d] \notin {"lost", "erased"}
    /\ pc[d] = "deploy" => status[d] = "deploying"
    /\ submitted[d] => status[d] \notin {"none", "queued"}
    /\ \A r \in Requests :
         /\ req[d][r] \notin {"idle", "cancelling"} => submitted[d]
         /\ req[d][r] = "cancelling" => ~submitted[d]

(* An answer by which a row is marked deleted stays true until it is acted
   upon, if it was about the row's own deployment and did not miss it. *)
Informed(d) ==
    /\ submitted[d] \/ reply[d] \in {"url", "nourl"} => remote[d] # "absent"
    /\ \A r \in Requests : req[d][r] \in {"ok", "notfound"} => remote[d] = "gone"
    /\ verdict[d] = "notfound" => remote[d] = "gone"
    /\ verdict[d] = "deleted" => remote[d] \in {"stopped", "gone"}

LInv == IInv /\ \A d \in Deployments : AtWork(d) /\ Informed(d)

\* Nothing of e changes, except that another row's DELETE may remove its deployment.
Steady(e) ==
    /\ Same(e)
    /\ remote'[e] = remote[e] \/ (Present(e) /\ remote'[e] = "gone")

LEMMA SteadyFrame ==
    ASSUME NEW e \in Deployments, AtWork(e), Informed(e), Steady(e)
    PROVE  AtWork(e)' /\ Informed(e)'
  BY DEF AtWork, Informed, Steady, Same, Present

LEMMA OthersSteady ==
    ASSUME IInv, NEW d \in Deployments,
           \/ Preflight(d) \/ Refuse(d) \/ Admit(d) \/ DeployTask(d) \/ CallReturns(d)
           \/ \E r \in Requests : DeleteHandler(d, r)
           \/ Refresh(d) \/ RemoteMove(d)
    PROVE  \A e \in Deployments \ {d} : Steady(e)
<1> USE DEF rowVars, taskVars, reqVars, remoteVars, refreshVars
<1>1. \A e \in Deployments \ {d} : Same(e)
  <2>1. CASE RemoteMove(d)
    BY <2>1 DEF RemoteMove, Same
  <2> QED
    BY <2>1, AdmissionKeeps, TaskKeeps, HandlerKeeps, RefreshKeeps
<1>2. ASSUME NEW e \in Deployments \ {d}
      PROVE  remote'[e] = remote[e] \/ (Present(e) /\ remote'[e] = "gone")
  <2> USE DEF IInv, TypeOK
  <2>1. CASE Preflight(d) \/ Refuse(d) \/ Admit(d)
    BY <2>1 DEF Preflight, Refuse, Admit
  <2>2. CASE DeployTask(d) \/ CallReturns(d)
    BY <2>2 DEF DeployTask, Begin, Submitted, Rejected, CallReturns
  <2>3. ASSUME NEW r \in Requests, DeleteHandler(d, r)
        PROVE  remote'[e] = remote[e] \/ (Present(e) /\ remote'[e] = "gone")
    <3>1. CASE TeardownReturns(d, r)
      <4>1. PICK o \in DeleteOutcomes(d, teardownAs[d][r]) : remote' = o[1]
        BY <3>1 DEF TeardownReturns
      <4>2. \/ o[1] = remote
            \/ \E f \in Deployments : Present(f) /\ o[1] = [remote EXCEPT ![f] = "gone"]
        BY DeletionEffect
      <4> QED
        BY <4>1, <4>2
    <3> QED
      BY <2>3, <3>1 DEF DeleteHandler, DeleteCancels, DeleteTearsDown, TeardownEnds
  <2>4. CASE Refresh(d)
    BY <2>4 DEF Refresh, Poll, SkipPoll, PollEnds
  <2>5. CASE RemoteMove(d)
    BY <2>5 DEF RemoteMove
  <2> QED
    BY <2>1, <2>2, <2>3, <2>4, <2>5
<1> QED
  BY <1>1, <1>2 DEF Steady

LEMMA AdmissionInformed ==
    ASSUME LInv, NEW d \in Deployments, Preflight(d) \/ Refuse(d) \/ Admit(d)
    PROVE  AtWork(d)' /\ Informed(d)'
<1> USE DEF AtWork, Informed, rowVars, taskVars, reqVars, remoteVars, refreshVars
<1>1. TypeOK /\ NothingBeforeRow(d) /\ AtWork(d) /\ Informed(d)
  BY DEF LInv, IInv, Coherent
<1>2. CASE Preflight(d) \/ Refuse(d)
  BY <1>1, <1>2 DEF Preflight, Refuse
<1>3. CASE Admit(d)
  <2>1. ~submitted[d] /\ status'[d] = "queued" /\ pc'[d] = "scheduled"
    BY <1>1, <1>3 DEF TypeOK, Admit, NothingBeforeRow
  <2> QED
    BY <1>1, <1>3, <2>1 DEF Admit
<1> QED
  BY <1>2, <1>3

LEMMA TaskInformed ==
    ASSUME LInv, NEW d \in Deployments, DeployTask(d) \/ CallReturns(d)
    PROVE  AtWork(d)' /\ Informed(d)'
<1> USE DEF AtWork, Informed, rowVars, taskVars, reqVars, remoteVars, refreshVars
<1>1. /\ TypeOK /\ AtWork(d) /\ Informed(d)
      /\ TaskAndThread(d) /\ TeardownAlone(d) /\ IdIsLast(d) /\ RefreshFollowsId(d)
  BY DEF LInv, IInv, Coherent
<1>2. \A new : Written(status, d, new)[d] = IF status[d] \in Absent THEN status[d] ELSE new
  BY <1>1, WrittenRow
<1>3. ASSUME ~submitted[d]
      PROVE  /\ verdict[d] = "none"
             /\ \A r \in Requests : req[d][r] \in {"idle", "cancelling"}
  BY <1>1, <1>3 DEF RefreshFollowsId
<1>4. CASE Begin(d)
  <2>1. /\ ~submitted[d] /\ status'[d] \in {"deploying", "failed"} /\ reply[d] = "none"
        /\ pc'[d] = "deploy" => status'[d] = "deploying"
        /\ reply'[d] = "none"
    BY <1>1, <1>2, <1>4 DEF TypeOK, Begin, Return, IdIsLast, TaskAndThread, Absent
  <2> QED
    BY <1>1, <1>3, <1>4, <2>1 DEF Begin
<1>5. CASE Submitted(d)
  <2>1. /\ pc[d] = "deploy" /\ ~TearingDown(d) /\ ~submitted[d]
    BY <1>1, <1>5 DEF TypeOK, Submitted, TaskAndThread, TeardownAlone, IdIsLast
  <2>2. /\ status'[d] \in {"running", "deploying"} /\ pc'[d] = "idle" /\ reply'[d] = "none"
        /\ UNCHANGED <<req, remote, verdict>>
    BY <1>1, <1>2, <1>5, <2>1 DEF TypeOK, Submitted, Return, Absent
  <2> QED
    BY <1>1, <1>5, <2>1, <2>2 DEF TearingDown, Submitted
<1>6. CASE Rejected(d)
  <2>1. pc[d] = "deploy" /\ ~submitted[d]
    BY <1>1, <1>6 DEF TypeOK, Rejected, TaskAndThread, IdIsLast
  <2>2. status'[d] = "failed" /\ pc'[d] = "idle" /\ reply'[d] = "none"
    BY <1>1, <1>2, <1>6, <2>1 DEF TypeOK, Rejected, Return, Absent
  <2> QED
    BY <1>1, <1>3, <1>6, <2>1, <2>2 DEF Rejected
<1>7. CASE CallReturns(d)
  <2>1. ~submitted[d]
    BY <1>1, <1>7 DEF CallReturns, IdIsLast
  <2>2. reply'[d] \in {"url", "nourl"} => remote'[d] # "absent"
    BY <1>1, <1>7 DEF TypeOK, CallReturns, DeployOutcomes
  <2> QED
    BY <1>1, <1>3, <1>7, <2>1, <2>2 DEF CallReturns
<1> QED
  BY <1>4, <1>5, <1>6, <1>7 DEF DeployTask

LEMMA HandlerInformed ==
    ASSUME LInv, NEW d \in Deployments, NEW r \in Requests, DeleteHandler(d, r)
    PROVE  AtWork(d)' /\ Informed(d)'
<1> USE DEF AtWork, Informed, rowVars, taskVars, reqVars, remoteVars, refreshVars
<1>1. /\ TypeOK /\ AtWork(d) /\ Informed(d)
      /\ TaskAndThread(d) /\ TeardownAlone(d) /\ IdIsLast(d) /\ NothingBeforeRow(d)
  BY DEF LInv, IInv, Coherent
<1>2. \A new : Written(status, d, new)[d] = IF status[d] \in Absent THEN status[d] ELSE new
  BY <1>1, WrittenRow
<1>3. CASE DeleteCancels(d, r)
  <2>1. ~submitted[d]
    BY <1>1, <1>3 DEF DeleteCancels, NothingToCancel, IdIsLast
  <2>2. /\ pc'[d] = "idle" /\ reply'[d] = "none"
        /\ \A q \in Requests : req'[d][q] \in {req[d][q], "cancelling"}
    BY <1>1, <1>3 DEF TypeOK, DeleteCancels, Return
  <2> QED
    BY <1>1, <1>3, <2>1, <2>2 DEF DeleteCancels
<1>4. CASE DeleteTearsDown(d, r)
  <2>1. pc[d] = "idle" /\ status[d] # "none"
    BY <1>1, <1>4 DEF DeleteTearsDown, Deletable, NothingToCancel, Absent, TeardownAlone,
       TearingDown, NothingBeforeRow
  <2>2. status'[d] \in {"deleted", "deleting"}
    BY <1>1, <1>2, <1>4, <2>1 DEF DeleteTearsDown, Absent
  <2>3. /\ \A q \in Requests \ {r} : req'[d][q] = req[d][q]
        /\ req'[d][r] \in {"idle", "tearing"}
        /\ req'[d][r] = "tearing" => submitted[d]
    BY <1>1, <1>4 DEF TypeOK, DeleteTearsDown, NoIdRead
  <2> QED
    BY <1>1, <1>4, <2>1, <2>2, <2>3 DEF DeleteTearsDown
<1>5. CASE TeardownReturns(d, r)
  <2>1. submitted[d] /\ remote[d] # "absent"
    BY <1>1, <1>5 DEF TeardownReturns
  <2>2. PICK o \in DeleteOutcomes(d, teardownAs[d][r]) :
          /\ remote' = o[1] /\ req'[d][r] = o[2]
          /\ \A q \in Requests \ {r} : req'[d][q] = req[d][q]
    BY <1>1, <1>5 DEF TypeOK, TeardownReturns
  <2>3. /\ o[2] \in TeardownAnswers
        /\ \/ o[1] = remote /\ o[2] \notin {"ok", "other"}
           \/ \E e \in Deployments :
                 o[1] = [remote EXCEPT ![e] = "gone"] /\ (o[2] = "ok" => e = d)
        /\ o[2] = "notfound" => o[1] = remote /\ ~Present(d)
    BY DeletionEffect
  <2>4. remote'[d] \in {remote[d], "gone"}
    BY <1>1, <2>2, <2>3 DEF TypeOK
  <2>5. o[2] = "ok" => remote'[d] = "gone"
    BY <1>1, <2>2, <2>3 DEF TypeOK
  <2>6. o[2] = "notfound" => remote'[d] = "gone"
    BY <1>1, <2>1, <2>2, <2>3 DEF TypeOK, Remotes, Present
  <2> QED
    BY <1>1, <1>5, <2>1, <2>2, <2>3, <2>4, <2>5, <2>6 DEF TeardownReturns, TeardownAnswers
<1>6. CASE TeardownEnds(d, r)
  <2>1. submitted[d] /\ status'[d] \in {"deleted", "failed"} /\ pc[d] = "idle"
    BY <1>1, <1>2, <1>6 DEF TeardownEnds, TeardownAnswers, SettledRow, IdIsLast, Absent
  <2>2. \A q \in Requests : req'[d][q] \in {req[d][q], "idle"}
    BY <1>1, <1>6 DEF TypeOK, TeardownEnds
  <2> QED
    BY <1>1, <1>6, <2>1, <2>2 DEF TeardownEnds
<1> QED
  BY <1>3, <1>4, <1>5, <1>6 DEF DeleteHandler

LEMMA RefreshInformed ==
    ASSUME LInv, NEW d \in Deployments, Refresh(d) \/ RemoteMove(d)
    PROVE  AtWork(d)' /\ Informed(d)'
<1> USE DEF AtWork, Informed, rowVars, taskVars, reqVars, remoteVars, refreshVars
<1>1. /\ TypeOK /\ AtWork(d) /\ Informed(d)
      /\ IdIsLast(d) /\ RefreshFollowsId(d)
  BY DEF LInv, IInv, Coherent
<1>2. CASE Poll(d)
  <2>1. submitted[d] /\ remote[d] # "absent"
    BY <1>1, <1>2 DEF Poll, RefreshFollowsId
  <2>2. verdict'[d] \in Reports(d)
    BY <1>1, <1>2 DEF TypeOK, Poll
  <2>3. /\ verdict'[d] = "notfound" => remote[d] = "gone"
        /\ verdict'[d] = "deleted" => remote[d] = "stopped"
    BY <1>1, <2>1, <2>2 DEF TypeOK, Remotes, Reports, Unseen, Present
  <2> QED
    BY <1>1, <1>2, <2>2, <2>3 DEF Poll
<1>3. CASE SkipPoll(d)
  BY <1>1, <1>3 DEF SkipPoll
<1>4. CASE PollEnds(d)
  <2>1. submitted[d] /\ pc[d] = "idle" /\ verdict[d] \in Verdicts
    BY <1>1, <1>4 DEF TypeOK, PollEnds, RefreshFollowsId, IdIsLast
  <2>2. status'[d] \in {status[d], "deploying", "running", "failed", "deleted"}
    <3>1. \A new : Written(status, d, new)[d] \in {status[d], new}
      BY <1>1, WrittenRow
    <3> QED
      BY <1>4, <2>1, <3>1 DEF PollEnds, RefreshedRows, Verdicts
  <2> QED
    BY <1>1, <1>4, <2>1, <2>2 DEF TypeOK, PollEnds
<1>5. CASE RemoteMove(d)
  <2>1. PICK stage \in Remotes :
          <<remote[d], stage>> \in RemoteMoves /\ remote'[d] = stage
    BY <1>1, <1>5 DEF TypeOK, RemoteMove
  <2>2. /\ remote[d] # "gone" /\ stage # "absent"
        /\ remote[d] = "stopped" => stage = "gone"
    BY <2>1 DEF RemoteMoves
  <2> QED
    BY <1>1, <1>5, <2>1, <2>2 DEF RemoteMove
<1> QED
  BY <1>2, <1>3, <1>4, <1>5 DEF Refresh

LEMMA InitLInv == Init => LInv
<1>1. ASSUME Init, NEW d \in Deployments
      PROVE  AtWork(d) /\ Informed(d)
  BY <1>1 DEF Init, AtWork, Informed
<1> QED
  BY <1>1, InitIInv DEF LInv

LEMMA StepLInv == LInv /\ [Next]_vars => LInv'
<1> SUFFICES ASSUME LInv, [Next]_vars
             PROVE  LInv'
  OBVIOUS
<1>1. IInv /\ IInv'
  BY StepIInv DEF LInv
<1>2. ASSUME NEW d \in Deployments, AtWork(d)' /\ Informed(d)',
             \A e \in Deployments \ {d} : Steady(e)
      PROVE  LInv'
  BY <1>1, <1>2, SteadyFrame DEF LInv
<1>3. ASSUME NEW d \in Deployments,
             \/ Preflight(d) \/ Refuse(d) \/ Admit(d) \/ DeployTask(d) \/ CallReturns(d)
             \/ \E r \in Requests : DeleteHandler(d, r)
             \/ Refresh(d) \/ RemoteMove(d)
      PROVE  LInv'
  <2>1. \A e \in Deployments \ {d} : Steady(e)
    BY <1>1, <1>3, OthersSteady
  <2>2. AtWork(d)' /\ Informed(d)'
    BY <1>3, AdmissionInformed, TaskInformed, HandlerInformed, RefreshInformed
  <2> QED
    BY <1>2, <2>1, <2>2
<1>4. CASE StartTick \/ SaveCredentials \/ DeleteCredentials \/ UNCHANGED vars
  <2>1. UNCHANGED <<status, submitted, pc, reply, req, remote, verdict>>
    BY <1>4 DEF StartTick, SaveCredentials, DeleteCredentials, vars, rowVars, taskVars,
       reqVars, remoteVars, refreshVars
  <2> QED
    BY <1>1, <2>1 DEF LInv, AtWork, Informed
<1>5. CASE Restart
  <2>1. UNCHANGED <<status, submitted, remote>>
    BY <1>5 DEF Restart, rowVars, remoteVars
  <2>2. ASSUME NEW d \in Deployments
        PROVE  /\ pc'[d] = "idle" /\ reply'[d] = "none" /\ verdict'[d] = "none"
               /\ \A r \in Requests : req'[d][r] = "idle"
    BY <1>5 DEF Restart
  <2> QED
    BY <1>1, <2>1, <2>2 DEF LInv, AtWork, Informed
<1> QED
  BY <1>3, <1>4, <1>5 DEF Next

LEMMA InformedInvariant == Spec => []LInv
  BY InitLInv, StepLInv, PTL DEF Spec

(* FR-017, as far as the code keeps it: no failed call marks a submitted
   deployment deleted, and no answer that has grown old.  What does it is an
   answer that still holds when the row is written, one that missed the
   deployment, or one about another deployment of the name. *)
THEOREM DeletionConfirmed == Spec => TeardownIsConfirmed
<1> DEFINE Confirmed(d) ==
      status[d] # "deleted" /\ status'[d] = "deleted" /\ submitted[d]
          => \/ remote[d] \in {"stopped", "gone"}
             \/ key = "none"
             \/ ActsOn(d, {"missed", "other"})
<1>1. ASSUME LInv, [Next]_vars, NEW d \in Deployments
      PROVE  Confirmed(d)
  <2> SUFFICES ASSUME status[d] # "deleted", status'[d] = "deleted", submitted[d],
                      key # "none", ~ActsOn(d, {"missed", "other"})
               PROVE  remote[d] \in {"stopped", "gone"}
    OBVIOUS
  <2>1. TypeOK /\ AtWork(d) /\ Informed(d)
    BY <1>1 DEF LInv, IInv
  <2>2. \A new : Written(status, d, new)[d] \in {status[d], new}
    BY <2>1, WrittenRow
  <2>3. ASSUME NEW e \in Deployments \ {d},
               \/ Preflight(e) \/ Refuse(e) \/ Admit(e) \/ DeployTask(e) \/ CallReturns(e)
               \/ \E r \in Requests : DeleteHandler(e, r)
               \/ Refresh(e) \/ RemoteMove(e)
        PROVE  FALSE
    BY <1>1, <2>3, OthersSteady DEF Steady, Same, LInv
  <2>4. CASE Preflight(d) \/ Refuse(d) \/ Admit(d) \/ CallReturns(d) \/ RemoteMove(d)
    BY <2>1, <2>4 DEF TypeOK, Preflight, Refuse, Admit, CallReturns, RemoteMove, rowVars
  <2>5. CASE DeployTask(d)
    BY <2>2, <2>5 DEF DeployTask, Begin, Submitted, Rejected
  <2>6. ASSUME NEW r \in Requests, DeleteHandler(d, r)
        PROVE  remote[d] \in {"stopped", "gone"}
    <3>1. CASE DeleteTearsDown(d, r)
      BY <2>1, <2>2, <3>1 DEF AtWork, DeleteTearsDown, NoIdRead
    <3>2. CASE TeardownEnds(d, r)
      <4>1. req[d][r] \in TeardownAnswers /\ req'[d][r] = "idle"
        BY <2>1, <3>2 DEF TypeOK, TeardownEnds
      <4>2. req[d][r] \notin {"auth", "error"}
        BY <2>2, <3>2 DEF TeardownEnds, SettledRow
      <4>3. req[d][r] \in {"ok", "notfound"}
        BY <4>1, <4>2 DEF TeardownAnswers, ActsOn
      <4> QED
        BY <2>1, <4>3 DEF Informed
    <3> QED
      BY <2>6, <3>1, <3>2 DEF DeleteHandler, DeleteCancels, TeardownReturns, rowVars
  <2>7. CASE Refresh(d)
    <3>1. PollEnds(d)
      BY <2>7 DEF Refresh, Poll, SkipPoll, rowVars
    <3>2. verdict[d] \in Verdicts /\ verdict'[d] = "none"
      BY <2>1, <3>1 DEF TypeOK, PollEnds
    <3>3. verdict[d] \in {"other", "notfound", "missed", "deleted"}
      BY <2>2, <3>1 DEF PollEnds, RefreshedRows
    <3>4. verdict[d] \in {"notfound", "deleted"}
      BY <3>2, <3>3 DEF ActsOn
    <3> QED
      BY <2>1, <3>4 DEF Informed
  <2>8. CASE StartTick \/ SaveCredentials \/ DeleteCredentials \/ Restart \/ UNCHANGED vars
    BY <2>8 DEF StartTick, SaveCredentials, DeleteCredentials, Restart, vars, rowVars
  <2> QED
    BY <1>1, <2>3, <2>4, <2>5, <2>6, <2>7, <2>8 DEF Next
<1>2. LInv /\ [Next]_vars => [\A d \in Deployments : Confirmed(d)]_vars
  BY <1>1
<1> QED
  BY <1>2, InformedInvariant, PTL DEF Spec, TeardownIsConfirmed

-----------------------------------------------------------------------------
(* Every step is a step of the contract. *)

\* The contract's "task", and how it changes with a step about one deployment.
Deploying(e) == pc[e] # "idle"

Tasks == [e \in Deployments |-> Deploying(e)]

LEMMA TaskBegins ==
    ASSUME NEW d \in Deployments, Deploying(d)',
           \A e \in Deployments \ {d} : pc'[e] = pc[e]
    PROVE  Tasks' = [Tasks EXCEPT ![d] = TRUE]
  BY DEF Tasks, Deploying

LEMMA TaskOver ==
    ASSUME NEW d \in Deployments, pc'[d] = "idle",
           \A e \in Deployments \ {d} : pc'[e] = pc[e]
    PROVE  Tasks' = [Tasks EXCEPT ![d] = FALSE]
  BY DEF Tasks, Deploying

LEMMA TasksSame ==
    ASSUME NEW d \in Deployments, Deploying(d)' <=> Deploying(d),
           \A e \in Deployments \ {d} : pc'[e] = pc[e]
    PROVE  Tasks' = Tasks
  BY DEF Tasks, Deploying

\* A row that has been inserted is there, as no GPU row is taken for lost.
LEMMA WrittenPresent ==
    ASSUME TypeOK, NEW d \in Deployments, NEW new, status[d] \notin Absent
    PROVE  Written(status, d, new) = [status EXCEPT ![d] = new]
  BY DEF Written, TypeOK

ContractStep == Life!LifeNext \/ UNCHANGED Life!lifeVars

LEMMA NoStep ==
    ASSUME status' = status, endpoint' = endpoint, pc' = pc
    PROVE  ContractStep
  BY DEF ContractStep, Life!lifeVars

LEMMA OneOfThem ==
    ASSUME NEW d \in Deployments,
           \/ Life!Insert(d) \/ Life!Start(d) \/ Life!GoLive(d) \/ Life!TaskEnds(d)
           \/ Life!Report(d) \/ Life!BeginTeardown(d) \/ Life!Confirm(d) \/ Life!Copy(d)
    PROVE  ContractStep
  BY DEF ContractStep, Life!LifeNext

\* A row past queued, which a GPU deployment's reports may overwrite.
Begun(d) == status[d] \in ColumnStatuses \ {"queued"}

LEMMA ReportStep ==
    ASSUME NEW d \in Deployments, Begun(d), NEW new \in {"deploying", "failed"},
           status' = [status EXCEPT ![d] = new], endpoint' = endpoint,
           Tasks' = Tasks \/ Tasks' = [Tasks EXCEPT ![d] = FALSE]
    PROVE  ContractStep
<1>1. Life!Report(d)
  BY DEF Begun, Life!Report, Life!Goes, Life!Begun, Tasks, Deploying, ColumnStatuses,
     Life!ColumnStatuses
<1> QED
  BY <1>1, OneOfThem

LEMMA ConfirmStep ==
    ASSUME NEW d \in Deployments, status[d] \in ColumnStatuses, ~Deploying(d),
           status' = [status EXCEPT ![d] = "deleted"], endpoint' = endpoint, Tasks' = Tasks
    PROVE  ContractStep
<1>1. Life!Confirm(d)
  BY DEF Life!Confirm, Life!Goes, Tasks, Deploying, ColumnStatuses, Life!ColumnStatuses
<1> QED
  BY <1>1, OneOfThem

LEMMA AdmitContract ==
    ASSUME LInv, NEW d \in Deployments, Admit(d)
    PROVE  ContractStep
<1>1. TypeOK /\ status[d] = "none"
  BY DEF LInv, IInv, Coherent, NothingBeforeRow, Admit
<1>2. Tasks' = [Tasks EXCEPT ![d] = TRUE]
  BY <1>1, TaskBegins DEF TypeOK, Admit, Deploying
<1>3. Life!Insert(d)
  BY <1>1, <1>2 DEF Admit, Life!Insert, Life!Goes, Tasks, Deploying
<1> QED
  BY <1>3, OneOfThem

LEMMA BeginContract ==
    ASSUME LInv, NEW d \in Deployments, Begin(d)
    PROVE  ContractStep
<1>1. /\ TypeOK /\ endpoint' = endpoint /\ Deploying(d)
      /\ \A e \in Deployments \ {d} : pc'[e] = pc[e]
  BY DEF LInv, IInv, TypeOK, Begin, Return, Deploying
<1>2. \A new : Written(status, d, new) = [status EXCEPT ![d] = new]
  BY <1>1, WrittenPresent DEF Begin, Absent
<1>3. CASE key = "none"
  <2>1. Tasks' = [Tasks EXCEPT ![d] = FALSE]
    BY <1>1, <1>3, TaskOver DEF TypeOK, Begin, Return
  <2>2. Life!Start(d)
    BY <1>1, <1>2, <1>3, <2>1 DEF Begin, Life!Start, Life!Goes, Tasks, Deploying
  <2> QED
    BY <2>2, OneOfThem
<1>4. CASE key # "none"
  <2>1. Tasks' = Tasks
    BY <1>1, <1>4, TasksSame DEF TypeOK, Begin, Deploying
  <2>2. Life!Start(d)
    BY <1>1, <1>2, <1>4, <2>1 DEF Begin, Life!Start, Life!Goes, Tasks, Deploying
  <2> QED
    BY <2>2, OneOfThem
<1> QED
  BY <1>3, <1>4

(* The task ends: before it had an id the row had no address, so the one it
   gets now, with "running", is the first. *)
LEMMA TaskEndsContract ==
    ASSUME LInv, NEW d \in Deployments, Submitted(d) \/ Rejected(d)
    PROVE  ContractStep
<1>1. /\ TypeOK /\ pc[d] = "deploy" /\ status[d] = "deploying" /\ endpoint[d] = FALSE
  <2>1. TypeOK /\ TaskAndThread(d) /\ IdIsLast(d) /\ ReachableHasId(d) /\ AtWork(d)
    BY DEF LInv, IInv, Coherent
  <2>2. pc[d] = "deploy"
    BY <2>1 DEF TypeOK, TaskAndThread, Submitted, Rejected
  <2> QED
    BY <2>1, <2>2 DEF TypeOK, IdIsLast, ReachableHasId, AtWork
<1>2. Tasks' = [Tasks EXCEPT ![d] = FALSE]
  BY <1>1, TaskOver DEF TypeOK, Submitted, Rejected, Return
<1>3. \A new : Written(status, d, new) = [status EXCEPT ![d] = new]
  BY <1>1, WrittenPresent DEF Absent
<1>4. CASE Submitted(d) /\ reply[d] = "url"
  <2>1. Life!GoLive(d)
    BY <1>1, <1>2, <1>3, <1>4 DEF Submitted, Life!GoLive, Life!Goes, Tasks, Deploying
  <2> QED
    BY <2>1, OneOfThem
<1>5. CASE ~(Submitted(d) /\ reply[d] = "url")
  <2>1. endpoint' = endpoint
    BY <1>1, <1>5 DEF TypeOK, Submitted, Rejected
  <2>2. \E new \in {"deploying", "failed"} : status' = [status EXCEPT ![d] = new]
    BY <1>3, <1>5 DEF Submitted, Rejected
  <2> QED
    BY <1>1, <1>2, <2>1, <2>2, ReportStep DEF Begun, ColumnStatuses
<1> QED
  BY <1>4, <1>5

LEMMA DeleteCancelsContract ==
    ASSUME LInv, NEW d \in Deployments, NEW r \in Requests, DeleteCancels(d, r)
    PROVE  ContractStep
<1>1. TypeOK /\ Deploying(d) /\ status' = status /\ endpoint' = endpoint
  BY DEF LInv, IInv, DeleteCancels, NothingToCancel, Deploying, rowVars
<1>2. Tasks' = [Tasks EXCEPT ![d] = FALSE]
  BY <1>1, TaskOver DEF TypeOK, DeleteCancels, Return
<1>3. Life!TaskEnds(d)
  BY <1>1, <1>2 DEF Life!TaskEnds, Tasks, Deploying
<1> QED
  BY <1>3, OneOfThem

LEMMA TeardownContract ==
    ASSUME LInv, NEW d \in Deployments, NEW r \in Requests,
           DeleteTearsDown(d, r) \/ TeardownEnds(d, r)
    PROVE  ContractStep
<1>1. /\ TypeOK /\ AtWork(d) /\ NothingBeforeRow(d) /\ TeardownAlone(d)
      /\ Tasks' = Tasks /\ endpoint' = endpoint
  BY DEF LInv, IInv, Coherent, DeleteTearsDown, TeardownEnds, taskVars, Tasks, Deploying
<1>2. ~Deploying(d) /\ status[d] # "none"
  BY <1>1 DEF DeleteTearsDown, TeardownEnds, TeardownAnswers, Deletable, NothingToCancel,
     NothingBeforeRow, TeardownAlone, TearingDown, Deploying, Absent
<1>3. status[d] \in ColumnStatuses
  BY <1>1, <1>2 DEF TypeOK, AtWork, Statuses, Absent
<1>4. \A new : Written(status, d, new) = [status EXCEPT ![d] = new]
  BY <1>1, <1>3, WrittenPresent DEF Absent, ColumnStatuses
<1>5. CASE status' = [status EXCEPT ![d] = "deleted"]
  BY <1>1, <1>2, <1>3, <1>5, ConfirmStep
<1>6. CASE status' = [status EXCEPT ![d] = "deleting"]
  <2>1. Life!BeginTeardown(d)
    BY <1>1, <1>2, <1>3, <1>6
       DEF Life!BeginTeardown, Life!Goes, Tasks, Deploying, ColumnStatuses, Life!ColumnStatuses
  <2> QED
    BY <2>1, OneOfThem
<1>7. CASE TeardownEnds(d, r) /\ status' = [status EXCEPT ![d] = "failed"]
  <2>1. Begun(d)
    BY <1>1, <1>3, <1>7 DEF TeardownEnds, TeardownAnswers, AtWork, Begun
  <2> QED
    BY <1>1, <1>7, <2>1, ReportStep
<1> QED
  BY <1>4, <1>5, <1>6, <1>7 DEF DeleteTearsDown, TeardownEnds, SettledRow

LEMMA PollEndsContract ==
    ASSUME LInv, NEW d \in Deployments, PollEnds(d)
    PROVE  ContractStep
<1>1. TypeOK /\ AtWork(d) /\ submitted[d] /\ ~Deploying(d) /\ verdict[d] \in Verdicts
  BY DEF LInv, IInv, TypeOK, Coherent, RefreshFollowsId, IdIsLast, PollEnds, Deploying
<1>2. Begun(d) /\ pc' = pc /\ endpoint' = endpoint
  BY <1>1 DEF TypeOK, AtWork, Statuses, Absent, Begun, PollEnds, taskVars
<1>3. \A new : Written(status, d, new) = [status EXCEPT ![d] = new]
  BY <1>1, <1>2, WrittenPresent DEF Begun, Absent, ColumnStatuses
<1>4. CASE status' = status
  BY <1>2, <1>4, NoStep
<1>5. CASE status' # status
  <2>1. PICK new \in {"deploying", "running", "failed", "deleted"} :
           status' = [status EXCEPT ![d] = new]
    BY <1>1, <1>3, <1>5 DEF PollEnds, RefreshedRows, Verdicts
  <2>2. Life!Copy(d)
    BY <1>1, <1>2, <2>1 DEF Begun, Life!Copy, Life!Goes, Life!Begun, Tasks, Deploying,
       ColumnStatuses, Life!ColumnStatuses
  <2> QED
    BY <2>2, OneOfThem
<1> QED
  BY <1>4, <1>5

LEMMA RestartContract ==
    ASSUME Restart
    PROVE  ContractStep
<1>1. Tasks' = [d \in Deployments |-> FALSE]
  BY DEF Restart, Tasks, Deploying
<1>2. Life!TasksLost
  BY <1>1 DEF Restart, Life!TasksLost, Tasks, Deploying, rowVars
<1> QED
  BY <1>2 DEF ContractStep, Life!LifeNext

LEMMA ContractNext == LInv /\ [Next]_vars => ContractStep
<1> SUFFICES ASSUME LInv, [Next]_vars
             PROVE  ContractStep
  OBVIOUS
<1>1. ASSUME NEW d \in Deployments, NEW r \in Requests, DeleteHandler(d, r)
      PROVE  ContractStep
  BY <1>1, DeleteCancelsContract, TeardownContract, NoStep
     DEF DeleteHandler, TeardownReturns, rowVars, taskVars
<1>2. ASSUME NEW d \in Deployments, Admit(d) \/ DeployTask(d) \/ PollEnds(d)
      PROVE  ContractStep
  BY <1>2, AdmitContract, BeginContract, TaskEndsContract, PollEndsContract DEF DeployTask
<1>3. ASSUME NEW d \in Deployments,
             \/ Preflight(d) \/ Refuse(d) \/ CallReturns(d) \/ Poll(d) \/ SkipPoll(d)
             \/ RemoteMove(d)
      PROVE  ContractStep
  BY <1>3, NoStep DEF Preflight, Refuse, CallReturns, Poll, SkipPoll, RemoteMove,
     rowVars, taskVars
<1>4. CASE StartTick \/ SaveCredentials \/ DeleteCredentials \/ UNCHANGED vars
  BY <1>4, NoStep DEF StartTick, SaveCredentials, DeleteCredentials, vars, rowVars, taskVars
<1>5. CASE Restart
  BY <1>5, RestartContract
<1> QED
  BY <1>1, <1>2, <1>3, <1>4, <1>5 DEF Next, Refresh

(* LightningDeployment implements DeploymentLife: whatever the refresh copies
   into a row, however late and of whichever deployment, the row gets its
   address once, in the step that makes it running, from its deploy task, and
   nothing is copied, torn down or confirmed while that task is on its way. *)
THEOREM Contract == Spec => KeepsContract
<1>1. Init => Life!LifeInit
  <2> SUFFICES ASSUME Init
               PROVE  Life!LifeInit
    OBVIOUS
  <2>1. \A d \in Deployments : (pc[d] # "idle") = FALSE
    BY DEF Init
  <2>2. [d \in Deployments |-> pc[d] # "idle"] = [d \in Deployments |-> FALSE]
    BY <2>1, Zenon
  <2> QED
    BY <2>2, Zenon DEF Init, Life!LifeInit
<1>2. LInv /\ [Next]_vars => [Life!LifeNext]_(Life!lifeVars)
  BY ContractNext DEF ContractStep
<1> QED
  BY <1>1, <1>2, InformedInvariant, PTL DEF Spec, KeepsContract, Life!LifeSpec

===============================================================================
