---------------------------- MODULE DeploymentLife ----------------------------
(***************************************************************************)
(* What the rest of the platform may rely on about a deployment's row: the *)
(* abstract specification GkeDeployment and LightningDeployment implement  *)
(* and Monitoring builds on.  It keeps the two columns the others read,    *)
(* the status and the address, and whether a deploy task is on its way,    *)
(* and forgets calls, handlers, threads and clouds.  Stale writes are part *)
(* of the contract: a row that has left "queued" may go from almost        *)
(* anywhere to almost anywhere.  What it does promise is that a row gets   *)
(* its address once, in the step that makes it running, from its deploy    *)
(* task; that no teardown begins or ends while the task is on its way; and *)
(* that nothing else makes a CPU deployment running.                       *)
(***************************************************************************)
EXTENDS DeploymentRows

CONSTANTS
    Deployments,
    Gpu             \* those on Lightning AI, whose reported status is copied

ASSUME GpuAreDeployments == Gpu \subseteq Deployments

VARIABLES
    status,
    endpoint,
    task            \* a deploy task is scheduled or on its way

lifeVars == <<status, endpoint, task>>

\* The row goes from one of the statuses "from" to one of the statuses "to".
Goes(d, from, to) ==
    /\ status[d] \in from
    /\ \E new \in to : status' = [status EXCEPT ![d] = new]

LifeInit ==
    /\ status   = [d \in Deployments |-> "none"]
    /\ endpoint = [d \in Deployments |-> FALSE]
    /\ task     = [d \in Deployments |-> FALSE]

\* deployment_store.create and schedule.
Insert(d) ==
    /\ Goes(d, {"none"}, {"queued"})
    /\ task' = [task EXCEPT ![d] = TRUE]
    /\ UNCHANGED endpoint

\* The deploy task starts; without Lightning AI credentials it ends there.
Start(d) ==
    /\ task[d]
    /\ \/ Goes(d, {"queued"}, {"deploying"}) /\ UNCHANGED task
       \/ /\ d \in Gpu
          /\ Goes(d, {"queued"}, {"failed"})
          /\ task' = [task EXCEPT ![d] = FALSE]
    /\ UNCHANGED endpoint

(* The deploy task ends with an address.  The refresh may have taken the row
   for lost in the meantime, nothing else can have touched it. *)
GoLive(d) ==
    /\ task[d]
    /\ Goes(d, {"deploying", "lost"}, {"running"})
    /\ endpoint' = [endpoint EXCEPT ![d] = TRUE]
    /\ task' = [task EXCEPT ![d] = FALSE]

\* The deploy task is cancelled, or ends without touching the row.
TaskEnds(d) ==
    /\ task[d]
    /\ task' = [task EXCEPT ![d] = FALSE]
    /\ UNCHANGED <<status, endpoint>>

\* The backend restarts: tasks are not started again.
TasksLost ==
    /\ task' = [d \in Deployments |-> FALSE]
    /\ UNCHANGED <<status, endpoint>>

Begun == ColumnStatuses \ {"queued"}

\* The deploy task, its abandoned thread or a teardown reports over a row.
Report(d) ==
    /\ Goes(d, IF d \in Gpu THEN Begun ELSE Begun \ {"running"}, {"deploying", "failed"})
    /\ task' \in {task, [task EXCEPT ![d] = FALSE]}
    /\ UNCHANGED endpoint

\* A DELETE handler starts the teardown, perhaps not the first one.
BeginTeardown(d) ==
    /\ ~task[d]
    /\ Goes(d, ColumnStatuses, {"deleting"})
    /\ UNCHANGED <<endpoint, task>>

\* A teardown is over, or there was nothing to tear down on Lightning AI.
Confirm(d) ==
    /\ ~task[d]
    /\ Goes(d, IF d \in Gpu THEN ColumnStatuses ELSE Begun \ {"running"}, {"deleted"})
    /\ UNCHANGED <<endpoint, task>>

\* A poll does not find the project.
Lose(d) ==
    /\ d \notin Gpu
    /\ Goes(d, Begun, {"lost"})
    /\ UNCHANGED <<endpoint, task>>

\* The user dismisses a lost row.
Erase(d) ==
    /\ Goes(d, {"lost"}, {"erased"})
    /\ endpoint' = [endpoint EXCEPT ![d] = FALSE]
    /\ UNCHANGED task

\* The refresh copies what Lightning AI reports.
Copy(d) ==
    /\ d \in Gpu
    /\ ~task[d]
    /\ Goes(d, Begun, {"deploying", "running", "failed", "deleted"})
    /\ UNCHANGED <<endpoint, task>>

LifeNext ==
    \/ \E d \in Deployments :
         \/ Insert(d) \/ Start(d) \/ GoLive(d) \/ TaskEnds(d) \/ Report(d)
         \/ BeginTeardown(d) \/ Confirm(d)
         \/ Lose(d) \/ Erase(d) \/ Copy(d)
    \/ TasksLost

LifeSpec == LifeInit /\ [][LifeNext]_lifeVars

===============================================================================
