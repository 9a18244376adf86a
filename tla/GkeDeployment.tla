----------------------------- MODULE GkeDeployment -----------------------------
(***************************************************************************)
(* The life of the CPU deployments of one user: the `deployments` rows,    *)
(* the orchestrator's deploy tasks, the DELETE handlers, the 30-second     *)
(* status refresh, the user's GCP credentials, and the GCP projects the    *)
(* calls act upon.                                                         *)
(*                                                                         *)
(* The backend is one asyncio event loop with synchronous database         *)
(* sections, so one action here is one uninterrupted stretch of a          *)
(* coroutine, from the answer it was awaiting to the next call it awaits.  *)
(* The calls are those of RealGCPProvider and kube_client: each runs in a  *)
(* thread of the default executor, which task.cancel() abandons and which  *)
(* carries on.                                                             *)
(***************************************************************************)
EXTENDS DeploymentRows, Naturals, FiniteSets

CONSTANTS
    Deployments,     \* identities the user's deployments may take
    Requests,        \* concurrent DELETE handlers a deployment may have
    Cap,             \* _MAX_CONCURRENT_PER_USER
    StatusRefresh,   \* FALSE: LLMOPS_DISABLE_STATUS_REFRESH=1
    OutsideDeletes,  \* TRUE: projects may be deleted from the GCP console
    MaxRestarts      \* bound on backend restarts

ASSUME SwitchesAreBoolean ==
    /\ StatusRefresh \in BOOLEAN
    /\ OutsideDeletes \in BOOLEAN

ASSUME BoundsAreNatural == Cap \in Nat /\ MaxRestarts \in Nat

VARIABLES
    status,     \* status column of the row
    endpoint,   \* endpoint_url is set
    admitting,  \* POST handlers between preflight and deployment_store.create
    pc,         \* what the deploy task awaits; "idle": no entry in _active_tasks
    reply,      \* answer the awaiting deploy task has not resumed on yet
    thread,     \* provider call being executed for the deploy task, or "none"
    req,        \* per deployment and DELETE handler: what the handler awaits
    cloud,      \* how far the GCP project got
    creds,      \* the gcp_credentials row
    todo,       \* rows of the refresh tick's snapshot still to be polled
    verdict,    \* answer of the poll the refresh loop has not resumed on yet
    restarts

rowVars     == <<status, endpoint>>
taskVars    == <<pc, reply, thread>>
refreshVars == <<todo, verdict>>
vars == <<rowVars, admitting, taskVars, req, cloud, creds, refreshVars, restarts>>

-----------------------------------------------------------------------------
(* The calls of the deploy task, in order. *)

DeployCalls == {"create_project", "attach_billing", "enable_services",
                "create_gke_cluster", "get_kube_config",
                "apply_objects", "wait_deployment_available",
                "get_service_lb_ip"}

RollbackCalls == {"project_exists", "delete_project"}

KubeCalls == {"apply_objects", "wait_deployment_available", "get_service_lb_ip"}

\* Mutant: the row is set running before the manifests are applied.
FinalCallBeforeApply == "get_kube_config"

FinalCall == "get_service_lb_ip"

NextCall == [c \in DeployCalls \ {"get_service_lb_ip"} |->
    CASE c = "create_project"            -> "attach_billing"
      [] c = "attach_billing"            -> "enable_services"
      [] c = "enable_services"           -> "create_gke_cluster"
      [] c = "create_gke_cluster"        -> "get_kube_config"
      [] c = "get_kube_config"           -> "apply_objects"
      [] c = "apply_objects"             -> "wait_deployment_available"
      [] c = "wait_deployment_available" -> "get_service_lb_ip"]

\* Calls after which run_to_terminal calls set_status("deploying", ...).
Reported == {"create_project", "attach_billing", "enable_services",
             "create_gke_cluster", "get_kube_config"}

\* Mutant: cluster_created is not consulted before rolling back.
RolledBackAlways == DeployCalls \ {"create_project"}

\* project_created and not cluster_created, when one of these fails.
RolledBack == {"attach_billing", "enable_services", "create_gke_cluster"}

(* The GCP project: nothing, an empty project, one with a cluster, one whose
   cluster runs the inference workload, and one that has been deleted. *)
Stages == {"absent", "project", "cluster", "workload", "gone"}

Exists(d) == cloud[d] \in {"project", "cluster", "workload"}

\* The stages a call can succeed in, and the stage it leaves behind.
Needs(c) ==
    CASE c = "create_project"                        -> {"absent"}
      [] c \in {"attach_billing", "enable_services"} -> {"project"}
      [] c = "create_gke_cluster"                    -> {"project"}
      [] c \in {"get_kube_config", "apply_objects"}  -> {"cluster"}
      [] c \in {"wait_deployment_available",
                "get_service_lb_ip"}                 -> {"workload"}
      [] c = "delete_project" -> {"project", "cluster", "workload"}

Leaves(c, stage) ==
    CASE c = "create_project"     -> "project"
      [] c = "create_gke_cluster" -> "cluster"
      [] c = "apply_objects"      -> "workload"
      [] c = "delete_project"     -> "gone"
      [] OTHER                    -> stage


-----------------------------------------------------------------------------
(* What a provider call can answer.  A call is a pair <<stage it leaves the
   project in, answer>>; the answers are the classes of exception the callers
   tell apart: "auth" GCPAuthError, "notfound" GCPNotFoundError, "error" any
   other GCPProviderError (and, in a deploy task, any other exception),
   "unexpected" an exception that is not a GCPProviderError. *)

\* RealGCPProvider finds the credentials through the row of the project.
RowMissing(d, c) ==
    status[d] = "erased" /\ c \notin KubeCalls \cup {"create_project"}

KeyMissing(c) == creds = "none" /\ c \notin KubeCalls

Failures(c) ==
    {"error"}
      \cup (IF c \in KubeCalls \cup {"create_project"} THEN {} ELSE {"auth"})
      \cup (IF c = "delete_project" THEN {"unexpected"} ELSE {})

(* A call may take effect and still fail: the project or the cluster is
   there but waiting for the operation timed out, or the deletion was accepted
   but its confirmation was lost. *)
Outcomes(d, c) ==
    IF RowMissing(d, c) THEN {<<cloud[d], "notfound">>}
    ELSE IF KeyMissing(c) THEN {<<cloud[d], "auth">>}
    ELSE {<<cloud[d], f>> : f \in Failures(c)}
         \cup (IF cloud[d] \in Needs(c)
               THEN {Leaves(c, cloud[d])} \X {"ok", "error"}
               ELSE {})
         \cup (IF c = "delete_project" /\ ~Exists(d)
               THEN {<<cloud[d], "ok">>} ELSE {})

(* project_exists: GCP hides a project it does not have behind the same
   PermissionDenied as one the caller may not see, so that a missing project may
   be reported as existing. *)
ExistsAnswers(d) ==
    IF RowMissing(d, "project_exists") THEN {"error"}
    ELSE IF KeyMissing("project_exists") THEN {"auth"}
    ELSE {"unexpected", "ok"} \cup (IF Exists(d) THEN {} ELSE {"missing"})

Answers == {"ok", "missing", "notfound", "auth", "error", "unexpected"}

-----------------------------------------------------------------------------
(* The type of the state, and the initial state: nothing deployed, and the
   credentials saved or not. *)

PcStates  == {"idle", "scheduled"} \cup DeployCalls \cup RollbackCalls
ReqStates == {"idle", "cancelling", "tearing"} \cup Answers

TypeOK ==
    /\ status    \in [Deployments -> Statuses]
    /\ endpoint  \in [Deployments -> BOOLEAN]
    /\ admitting \in SUBSET Deployments
    /\ pc        \in [Deployments -> PcStates]
    /\ reply     \in [Deployments -> Answers \cup {"none"}]
    /\ thread    \in [Deployments -> DeployCalls \cup RollbackCalls \cup {"none"}]
    /\ req       \in [Deployments -> [Requests -> ReqStates]]
    /\ cloud     \in [Deployments -> Stages]
    /\ creds     \in {"none", "valid", "invalid"}
    /\ todo      \in SUBSET Deployments
    /\ verdict   \in [Deployments -> Answers \cup {"none"}]
    /\ restarts  \in 0 .. MaxRestarts

Init ==
    /\ status    = [d \in Deployments |-> "none"]
    /\ endpoint  = [d \in Deployments |-> FALSE]
    /\ admitting = {}
    /\ pc        = [d \in Deployments |-> "idle"]
    /\ reply     = [d \in Deployments |-> "none"]
    /\ thread    = [d \in Deployments |-> "none"]
    /\ req       = [d \in Deployments |-> [r \in Requests |-> "idle"]]
    /\ cloud     = [d \in Deployments |-> "absent"]
    /\ creds     \in {"none", "valid"}
    /\ todo      = {}
    /\ verdict   = [d \in Deployments |-> "none"]
    /\ restarts  = 0

\* _wrap: an authentication failure marks whatever credentials are stored now.
CredsAfter(answer) ==
    IF answer = "auth" /\ creds # "none" THEN "invalid" ELSE creds

-----------------------------------------------------------------------------
(* POST /api/deployments *)

Preflight(d) ==
    /\ status[d] = "none"
    /\ d \notin admitting
    /\ creds = "valid"
    /\ admitting' = admitting \cup {d}
    /\ UNCHANGED <<rowVars, taskVars, req, cloud, creds, refreshVars, restarts>>

\* The Hugging Face gate, the cap or the duplicate check turns the request down.
Refuse(d) ==
    /\ d \in admitting
    /\ admitting' = admitting \ {d}
    /\ UNCHANGED <<rowVars, taskVars, req, cloud, creds, refreshVars, restarts>>

Occupied == {e \in Deployments : status[e] \in NonTerminal}

SlotLeft == Cardinality(Occupied) < Cap

\* deployment_store.create and schedule, with no await between them.
Admit(d) ==
    /\ d \in admitting
    /\ SlotLeft
    /\ admitting' = admitting \ {d}
    /\ status' = [status EXCEPT ![d] = "queued"]
    /\ pc' = [pc EXCEPT ![d] = "scheduled"]
    /\ UNCHANGED <<endpoint, reply, thread, req, cloud, creds, refreshVars, restarts>>

-----------------------------------------------------------------------------
(* The deploy task: run_to_terminal.  schedule runs in the step that inserts
   the row and a DELETE cancels a task that has not started, so the early
   returns for a missing row and for a row that is not queued are never taken
   (ScheduledIsQueued below). *)

\* Start call c: the task awaits it and a thread executes it.
Call(d, c) ==
    /\ pc'     = [pc EXCEPT ![d] = c]
    /\ thread' = [thread EXCEPT ![d] = c]
    /\ reply'  = [reply EXCEPT ![d] = "none"]

\* The task returns; its done callback drops it from _active_tasks.
Return(d) ==
    /\ pc'    = [pc EXCEPT ![d] = "idle"]
    /\ reply' = [reply EXCEPT ![d] = "none"]
    /\ UNCHANGED thread

Begin(d) ==
    /\ pc[d] = "scheduled"
    /\ status[d] = "queued"
    /\ status' = Written(status, d, "deploying")
    /\ Call(d, "create_project")
    /\ UNCHANGED <<endpoint, admitting, req, cloud, creds, refreshVars, restarts>>

(* The executor finishes the call.  Its answer reaches the task only if the
   task still awaits it: the thread of a cancelled task answers nobody. *)
CallReturns(d) ==
    /\ thread[d] # "none"
    /\ \E o \in IF thread[d] = "project_exists"
                THEN {cloud[d]} \X ExistsAnswers(d)
                ELSE Outcomes(d, thread[d]) :
         /\ cloud' = [cloud EXCEPT ![d] = o[1]]
         /\ reply' = [reply EXCEPT ![d] = IF pc[d] = "idle" THEN "none" ELSE o[2]]
    /\ thread' = [thread EXCEPT ![d] = "none"]
    /\ UNCHANGED <<rowVars, admitting, pc, req, creds, refreshVars, restarts>>

\* get_billing_account_id finds nothing: the credentials were removed meanwhile.
BillingAccountGone(d) == pc[d] = "create_project" /\ creds = "none"

Advance(d) ==
    /\ pc[d] \in DOMAIN NextCall \ {FinalCall}
    /\ reply[d] = "ok"
    /\ ~BillingAccountGone(d)
    /\ status' = IF pc[d] \in Reported THEN Written(status, d, "deploying") ELSE status
    /\ Call(d, NextCall[pc[d]])
    /\ UNCHANGED <<endpoint, admitting, req, cloud, creds, refreshVars, restarts>>

Finish(d) ==
    /\ pc[d] = FinalCall
    /\ reply[d] = "ok"
    /\ status' = Written(status, d, "running")
    /\ endpoint' = [endpoint EXCEPT ![d] = status[d] \notin Absent]
    /\ Return(d)
    /\ UNCHANGED <<admitting, req, cloud, creds, refreshVars, restarts>>

\* Mutant: the exception is logged and the row left as it is.
FailedRowUnwritten(d) == status

FailedRow(d) == Written(status, d, "failed")

\* except GCPProviderError / except Exception.
Fail(d) ==
    /\ pc[d] \in DeployCalls
    /\ reply[d] # "none"
    /\ reply[d] = "ok" => BillingAccountGone(d)
    /\ creds' = CredsAfter(reply[d])
    /\ status' = FailedRow(d)
    /\ IF pc[d] \in RolledBack \/ reply[d] = "ok"
       THEN Call(d, "project_exists")
       ELSE Return(d)
    /\ UNCHANGED <<endpoint, admitting, req, cloud, refreshVars, restarts>>

\* _best_effort_rollback: a probe that fails counts as a project that exists.
RollbackProbed(d) ==
    /\ pc[d] = "project_exists"
    /\ reply[d] # "none"
    /\ IF reply[d] = "missing" THEN Return(d) ELSE Call(d, "delete_project")
    /\ UNCHANGED <<rowVars, admitting, req, cloud, creds, refreshVars, restarts>>

\* Whatever the deletion answers, the rollback ends silently.
RollbackEnds(d) ==
    /\ pc[d] = "delete_project"
    /\ reply[d] # "none"
    /\ Return(d)
    /\ UNCHANGED <<rowVars, admitting, req, cloud, creds, refreshVars, restarts>>

\* Mutant: the callback reports a ready pod as a running deployment.
LiveRowRunning(d) == Written(status, d, "running")

LiveRow(d) == Written(status, d, "deploying")

(* _live_status_update: called from the thread that waits for the workload,
   each time the pod's summary changes, for as long as that thread lives. *)
LiveStatus(d) ==
    /\ thread[d] = "wait_deployment_available"
    /\ status' = LiveRow(d)
    /\ UNCHANGED <<endpoint, admitting, taskVars, req, cloud, creds, refreshVars, restarts>>

-----------------------------------------------------------------------------
(* DELETE /api/deployments/{id}: request_deletion and _delete_gcp. *)

\* The checks of the handler and of request_deletion that let it go on.
Deletable(d) ==
    /\ status[d] \notin Absent \cup {"deleted", "deleting", "lost"}
    /\ creds # "invalid"

\* Mutant: no task is cancelled.
NothingToCancelEver(d) == TRUE

NothingToCancel(d) == pc[d] = "idle"

(* The deploy task is cancelled and awaited.  A cancelled task writes nothing
   more, so it ends here; its thread does not. *)
DeleteCancels(d, r) ==
    /\ req[d][r] = "idle"
    /\ Deletable(d)
    /\ ~NothingToCancel(d)
    /\ pc' = [pc EXCEPT ![d] = "idle"]
    /\ reply' = [reply EXCEPT ![d] = "none"]
    /\ req' = [req EXCEPT ![d][r] = "cancelling"]
    /\ UNCHANGED <<rowVars, admitting, thread, cloud, creds, refreshVars, restarts>>

\* No task to cancel, or the await of the cancelled task is over.
DeleteTearsDown(d, r) ==
    /\ \/ req[d][r] = "idle" /\ Deletable(d) /\ NothingToCancel(d)
       \/ req[d][r] = "cancelling"
    /\ status' = Written(status, d, "deleting")
    /\ req' = [req EXCEPT ![d][r] = "tearing"]
    /\ UNCHANGED <<endpoint, admitting, taskVars, cloud, creds, refreshVars, restarts>>

TeardownReturns(d, r) ==
    /\ req[d][r] = "tearing"
    /\ \E o \in Outcomes(d, "delete_project") :
         /\ cloud' = [cloud EXCEPT ![d] = o[1]]
         /\ req' = [req EXCEPT ![d][r] = o[2]]
    /\ UNCHANGED <<rowVars, admitting, taskVars, creds, refreshVars, restarts>>

\* Mutant: a status the column does not have.
SettledRowUnlisted(d, answer) == Written(status, d, "removed")

\* Mutant: every answer counts as a confirmed teardown.
SettledRowDeleted(d, answer) == Written(status, d, "deleted")

\* Mutant: a failed teardown is not caught.
SettledRowUncaught(d, answer) ==
    IF answer \in {"ok", "notfound"} THEN Written(status, d, "deleted") ELSE status

\* An exception that is not a GCPProviderError leaves the row as it is.
SettledRow(d, answer) ==
    CASE answer \in {"ok", "notfound"} -> Written(status, d, "deleted")
      [] answer \in {"auth", "error"}  -> Written(status, d, "failed")
      [] OTHER                         -> status

TeardownEnds(d, r) ==
    /\ req[d][r] \in Answers
    /\ status' = SettledRow(d, req[d][r])
    /\ creds' = CredsAfter(req[d][r])
    /\ req' = [req EXCEPT ![d][r] = "idle"]
    /\ UNCHANGED <<endpoint, admitting, taskVars, cloud, refreshVars, restarts>>

(* A lost row is removed by POST .../dismiss and by DELETE alike; the deploy
   task, if one is still alive, is not cancelled. *)
EraseLost(d) ==
    /\ status[d] = "lost"
    /\ status' = [status EXCEPT ![d] = "erased"]
    /\ endpoint' = [endpoint EXCEPT ![d] = FALSE]
    /\ UNCHANGED <<admitting, taskVars, req, cloud, creds, refreshVars, restarts>>

-----------------------------------------------------------------------------
(* The status refresh loop: a snapshot of the rows, then one project_exists
   call at a time, each judged by the status the snapshot holds. *)

StartTick ==
    /\ StatusRefresh
    /\ todo = {}
    /\ todo' = {d \in Deployments : status[d] \in Polled}
    /\ UNCHANGED <<rowVars, admitting, taskVars, req, cloud, creds, verdict, restarts>>

Poll(d) ==
    /\ d \in todo
    /\ \A e \in Deployments : verdict[e] = "none"
    /\ \E a \in ExistsAnswers(d) : verdict' = [verdict EXCEPT ![d] = a]
    /\ UNCHANGED <<rowVars, admitting, taskVars, req, cloud, creds, todo, restarts>>

(* A missing project writes "lost" over whatever the row says by now; an
   exception that is not a GCPProviderError abandons the rest of the tick. *)
PollEnds(d) ==
    /\ verdict[d] # "none"
    /\ status' = IF verdict[d] = "missing" THEN Written(status, d, "lost") ELSE status
    /\ creds' = CredsAfter(verdict[d])
    /\ todo' = IF verdict[d] = "unexpected" THEN {} ELSE todo \ {d}
    /\ verdict' = [verdict EXCEPT ![d] = "none"]
    /\ UNCHANGED <<endpoint, admitting, taskVars, req, cloud, restarts>>

-----------------------------------------------------------------------------
(* The credentials, the GCP console, and the process. *)

\* credentials_store.save, once the provider has validated the new key.
SaveCredentials ==
    /\ creds' = "valid"
    /\ UNCHANGED <<rowVars, admitting, taskVars, req, cloud, refreshVars, restarts>>

DeleteCredentials ==
    /\ Occupied = {}
    /\ creds' = "none"
    /\ UNCHANGED <<rowVars, admitting, taskVars, req, cloud, refreshVars, restarts>>

OutsideDelete(d) ==
    /\ OutsideDeletes
    /\ Exists(d)
    /\ cloud' = [cloud EXCEPT ![d] = "gone"]
    /\ UNCHANGED <<rowVars, admitting, taskVars, req, creds, refreshVars, restarts>>

(* The process stops and starts again: tasks, handlers and threads are lost,
   the rows stay, and nothing at start-up looks for rows left in progress. *)
Restart ==
    /\ restarts < MaxRestarts
    /\ restarts' = restarts + 1
    /\ admitting' = {}
    /\ pc' = [d \in Deployments |-> "idle"]
    /\ reply' = [d \in Deployments |-> "none"]
    /\ thread' = [d \in Deployments |-> "none"]
    /\ req' = [d \in Deployments |-> [r \in Requests |-> "idle"]]
    /\ todo' = {}
    /\ verdict' = [d \in Deployments |-> "none"]
    /\ UNCHANGED <<rowVars, cloud, creds>>


-----------------------------------------------------------------------------
(* The specification. *)

DeployTask(d) ==
    \/ Begin(d) \/ CallReturns(d) \/ Advance(d) \/ Finish(d) \/ Fail(d)
    \/ RollbackProbed(d) \/ RollbackEnds(d)

DeleteHandler(d, r) ==
    \/ DeleteCancels(d, r) \/ DeleteTearsDown(d, r)
    \/ TeardownReturns(d, r) \/ TeardownEnds(d, r)

Next ==
    \/ \E d \in Deployments :
         \/ Preflight(d) \/ Refuse(d) \/ Admit(d)
         \/ DeployTask(d) \/ LiveStatus(d)
         \/ \E r \in Requests : DeleteHandler(d, r)
         \/ EraseLost(d)
         \/ Poll(d) \/ PollEnds(d)
         \/ OutsideDelete(d)
    \/ StartTick
    \/ SaveCredentials \/ DeleteCredentials
    \/ Restart

Spec == Init /\ [][Next]_vars

(* The event loop runs every coroutine whose await is over, and a DELETE
   handler that has begun runs on: the one call it awaits, delete_project, is
   bounded by a timeout.  Nothing is assumed of the calls of a deploy task, some
   of which have none: that they return is an antecedent.  Users, the console
   and the process owe nothing, and neither does the refresh loop, which a call
   that hangs would stop. *)
Fairness ==
    \A d \in Deployments :
        /\ WF_vars(thread[d] = "none" /\ DeployTask(d))
        /\ \A r \in Requests :
             WF_vars(req[d][r] # "idle" /\ DeleteHandler(d, r))

FairSpec == Spec /\ Fairness

-----------------------------------------------------------------------------
(* Safety. *)

\* A DELETE handler is at work on the deployment.
TearingDown(d) == \E r \in Requests : req[d][r] # "idle"

(* A deployment being torn down, or already deleted, has no deploy task: the
   handler cancels and awaits the task before it touches the project
   (request_deletion), so no step of the task follows the teardown. *)
TeardownExcludesDeploy ==
    \A d \in Deployments :
        TearingDown(d) \/ status[d] \in {"deleting", "deleted"} => pc[d] = "idle"

(* A task that starts always finds its row queued: nothing can change or
   remove the row between schedule and the task's first step, so the early
   returns of run_to_terminal are never taken. *)
ScheduledIsQueued ==
    \A d \in Deployments : pc[d] = "scheduled" => status[d] = "queued"

(* A running row has the address users are given, and the workload behind it
   is there unless the project was destroyed from outside. *)
RunningIsServed ==
    \A d \in Deployments :
        status[d] = "running" =>
            /\ endpoint[d]
            /\ cloud[d] \in {"workload", "gone"}

(* Nothing the backend does is under way on a running deployment: no deploy
   task, no abandoned thread, no rollback, no teardown.  Only a new DELETE or
   the console can take it down. *)
RunningIsUntouched ==
    \A d \in Deployments :
        status[d] = "running" =>
            pc[d] = "idle" /\ thread[d] = "none" /\ ~TearingDown(d)

(* Rollback spares a cluster that came up: once the workload is applied, no
   rollback of the project is under way, by the task or by a thread the task
   left behind. *)
RollbackSparesWorkload ==
    \A d \in Deployments :
        cloud[d] = "workload" =>
            pc[d] \notin RollbackCalls /\ thread[d] \notin RollbackCalls

(* Once a teardown has begun the deployment never serves again, whatever
   threads, refreshes, second DELETEs and restarts write over the row. *)
NoReturnToService ==
    \A d \in Deployments :
        [](status[d] = "deleting" => [](status[d] # "running"))


(* Every project the platform created can still be taken down through the
   platform: its row is there, and it is not marked deleted, the two cases in
   which DELETE does nothing (FR-007, quickstart.md:77). *)
EveryProjectTracked ==
    \A d \in Deployments : Exists(d) => status[d] \notin {"deleted", "erased"}

(* A project the platform loses hold of: it is there, and its row is deleted or
   dismissed, or a teardown that found it gone is about to mark it deleted. *)
LeftBehind(d) ==
    /\ Exists(d)
    /\ \/ status[d] \in {"deleted", "erased"}
       \/ \E r \in Requests : req[d][r] \in {"ok", "notfound"}

(* FR-007: two things leave a project behind, the thread of a cancelled task
   that creates it after its teardown, and the dismissal of a row that was
   taken for lost; no failed teardown, no failed rollback and no overlap of
   DELETEs does. *)
LeftBehindByThreadOrDismissal ==
    [][\A d \in Deployments :
          ~LeftBehind(d) /\ LeftBehind(d)'
              => thread[d] = "create_project" \/ status[d] = "lost"]_vars

(* A row marked as being deleted does not lose the handler that will settle it,
   nor does a row become so without one: nothing else takes a row out of
   "deleting", and DELETE itself ignores such a row.  Only a restart and a
   teardown that raises what the handler does not catch leave one behind. *)
DeletingHasHandler ==
    [][\A d \in Deployments :
          status'[d] = "deleting" /\ ~TearingDown(d)'
              => \/ status[d] = "deleting" /\ ~TearingDown(d)
                 \/ restarts' # restarts
                 \/ \E r \in Requests : req[d][r] = "unexpected"]_vars

-----------------------------------------------------------------------------
(* The contract with the rest of the platform. *)

Life == INSTANCE DeploymentLife
            WITH Gpu <- {},
                 task <- [d \in Deployments |-> pc[d] \in {"scheduled"} \cup DeployCalls]

(* The rows keep the contract of DeploymentLife in spite of abandoned threads,
   stale polls, concurrent DELETEs and restarts: the address is set once, with
   "running", by the deploy task, no teardown overlaps the task, and no other
   step makes the row running. *)
KeepsContract == Life!LifeSpec

-----------------------------------------------------------------------------
(* Liveness. *)

\* The backend is not restarted and no teardown raises what nobody catches.
StaysUp ==
    [](restarts = 0 /\ \A d \in Deployments, r \in Requests : req[d][r] # "unexpected")

(* No call of a deploy task hangs: neither those to the cluster, made of a
   Kubernetes client that is given no timeout, nor the requests to GCP that are
   made without one. *)
CallsReturn == \A d \in Deployments : []<>(thread[d] = "none")

(* If the backend stays up and calls return, no deployment stays queued or
   deploying for ever, unless a wait for the workload outlives its task: its
   thread goes on writing "deploying", also over a row that has failed
   meanwhile, which no task of the deployment is left to settle. *)
DeploySettles ==
    StaysUp /\ CallsReturn /\ [](\A d \in Deployments :
                    thread[d] = "wait_deployment_available" => pc[d] = thread[d]) =>
        \A d \in Deployments :
            status[d] \in {"queued", "deploying"} ~> status[d] \notin {"queued", "deploying"}

(* If the backend stays up, no teardown stays in progress for ever
   (data-model.md:93-94), whatever abandoned threads and polls do meanwhile. *)
TeardownSettles ==
    StaysUp =>
        \A d \in Deployments : status[d] = "deleting" ~> status[d] # "deleting"

===============================================================================
