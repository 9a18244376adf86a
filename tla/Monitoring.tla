------------------------------ MODULE Monitoring ------------------------------
(***************************************************************************)
(* The monitoring of deployments, composed with the life of their rows:    *)
(* the deployment_monitoring rows, the tasks that provision and            *)
(* decommission them, the decommission loop, and the reconciliation at     *)
(* start-up.                                                               *)
(*                                                                         *)
(* The rows move as DeploymentLife says.  Two of its steps also create a   *)
(* task: GoLive calls _schedule_monitoring_provision and Confirm calls     *)
(* _schedule_monitoring_decommission.  No other step does, and neither     *)
(* does Copy, even when it copies "running" or "deleted".                  *)
(***************************************************************************)
EXTENDS DeploymentLife, Naturals

CONSTANT MaxRestarts    \* bound on backend restarts

ASSUME RestartsAreNatural == MaxRestarts \in Nat

VARIABLES
    mon,        \* status of the monitoring row, "none" without one
    expired,    \* decommission_at, seven days after the deletion, has passed
    aged,       \* history: seven days have passed since the row was last active
    panel,      \* its data source and dashboard in Grafana; "stray" once lost sight of
    prov,       \* the task that provisions the deployment
    retiring,   \* the task that will mark the monitoring row is created
    sweep,      \* rows the decommission cycle has still to do
    boot,       \* running rows reconcile_on_startup has still to do
    up,         \* start-up is over: requests are served, the loop runs
    restarts

monVars   == <<mon, expired, aged>>
bootVars  == <<boot, up>>
vars == <<lifeVars, monVars, panel, prov, retiring, sweep, bootVars, restarts>>

-----------------------------------------------------------------------------

MonitoringTypeOK ==
    /\ status    \in [Deployments -> Statuses]
    /\ endpoint  \in [Deployments -> BOOLEAN]
    /\ task      \in [Deployments -> BOOLEAN]
    /\ mon       \in [Deployments -> {"none", "active", "decommissioning"}]
    /\ expired   \in [Deployments -> BOOLEAN]
    /\ aged      \in [Deployments -> BOOLEAN]
    /\ panel     \in [Deployments -> {"none", "there", "stray"}]
    /\ prov      \in [Deployments -> {"idle", "scheduled", "calling", "raised"}]
    /\ retiring  \in [Deployments -> BOOLEAN]
    /\ sweep     \in SUBSET Deployments
    /\ boot      \in SUBSET Deployments
    /\ up        \in BOOLEAN
    /\ restarts  \in 0 .. MaxRestarts

Init ==
    /\ LifeInit
    /\ mon       = [d \in Deployments |-> "none"]
    /\ expired   = [d \in Deployments |-> FALSE]
    /\ aged      = [d \in Deployments |-> FALSE]
    /\ panel     = [d \in Deployments |-> "none"]
    /\ prov      = [d \in Deployments |-> "idle"]
    /\ retiring  = [d \in Deployments |-> FALSE]
    /\ sweep     = {}
    /\ boot      = {}
    /\ up        = TRUE
    /\ restarts  = 0

-----------------------------------------------------------------------------
(* The rows.  During start-up only the status refresh loop is at work: it can
   lose a row, copy a status, and find that a deployment has gone. *)

RowMoves(d) ==
    /\ \/ /\ up
          /\ \/ Insert(d) \/ Start(d) \/ TaskEnds(d) \/ Report(d)
             \/ BeginTeardown(d) \/ Erase(d)
       \/ Lose(d) \/ Copy(d)
    /\ UNCHANGED <<monVars, panel, prov, retiring, sweep, bootVars, restarts>>

RowGoesLive(d) ==
    /\ up
    /\ GoLive(d)
    /\ prov' = [prov EXCEPT ![d] = "scheduled"]
    /\ UNCHANGED <<monVars, panel, retiring, sweep, bootVars, restarts>>

RowIsConfirmedDeleted(d) ==
    /\ up \/ d \in Gpu
    /\ Confirm(d)
    /\ retiring' = [retiring EXCEPT ![d] = TRUE]
    /\ UNCHANGED <<monVars, panel, prov, sweep, bootVars, restarts>>

-----------------------------------------------------------------------------
(* provision_for_running_deployment. *)

Unmonitored(d) == mon[d] # "active"

\* The task reads the row again before it goes on.
ProvisionStarts(d) ==
    /\ prov[d] = "scheduled"
    /\ prov' = [prov EXCEPT ![d] =
                  IF status[d] = "running" /\ endpoint[d] /\ Unmonitored(d)
                  THEN "calling" ELSE "idle"]
    /\ UNCHANGED <<lifeVars, monVars, panel, retiring, sweep, bootVars, restarts>>

\* Grafana creates the data source or the dashboard; whether it did is not checked.
GrafanaCreates(d) ==
    /\ prov[d] = "calling"
    /\ panel[d] # "there"
    /\ panel' = [panel EXCEPT ![d] = "there"]
    /\ UNCHANGED <<lifeVars, monVars, prov, retiring, sweep, bootVars, restarts>>

\* What was created for a provisioning that ends without a monitoring row.
Strayed(d) == IF panel[d] = "there" /\ mon[d] = "none" THEN "stray" ELSE panel[d]

(* Grafana has answered, whatever it answered: create_active, whatever has
   become of the deployment meanwhile. *)
ProvisionEnds(d) ==
    /\ prov[d] = "calling"
    /\ prov' = [prov EXCEPT ![d] = "idle"]
    /\ mon' = [mon EXCEPT ![d] = "active"]
    /\ expired' = [expired EXCEPT ![d] = FALSE]
    /\ aged' = [aged EXCEPT ![d] = FALSE]
    /\ UNCHANGED <<lifeVars, panel, retiring, sweep, bootVars, restarts>>

\* Grafana cannot be reached: logged, and not tried again before a restart.
ProvisionRaises(d) ==
    /\ prov[d] = "calling"
    /\ prov' = [prov EXCEPT ![d] = "raised"]
    /\ panel' = [panel EXCEPT ![d] = Strayed(d)]
    /\ UNCHANGED <<lifeVars, monVars, retiring, sweep, bootVars, restarts>>

-----------------------------------------------------------------------------
(* schedule_decommission and run_decommission_cycle. *)

\* mark_decommissioning: nothing when there is no monitoring row (yet).
Retire(d) ==
    /\ retiring[d]
    /\ retiring' = [retiring EXCEPT ![d] = FALSE]
    /\ mon' = [mon EXCEPT ![d] = IF @ = "none" THEN @ ELSE "decommissioning"]
    /\ expired' = [expired EXCEPT ![d] = FALSE]
    /\ UNCHANGED <<lifeVars, aged, panel, prov, sweep, bootVars, restarts>>

\* Seven days go by.
RetentionPasses(d) ==
    /\ mon[d] = "decommissioning"
    /\ ~expired[d]
    /\ expired' = [expired EXCEPT ![d] = TRUE]
    /\ aged' = [aged EXCEPT ![d] = TRUE]
    /\ UNCHANGED <<lifeVars, mon, panel, prov, retiring, sweep, bootVars, restarts>>

\* Mutant: the date is not compared with now.
DueRegardlessOfDate(d) == mon[d] = "decommissioning"

Due(d) == mon[d] = "decommissioning" /\ expired[d]

SweepStarts ==
    /\ up
    /\ sweep = {}
    /\ sweep' = {d \in Deployments : Due(d)}
    /\ UNCHANGED <<lifeVars, monVars, panel, prov, retiring, bootVars, restarts>>

\* Mutant: the monitoring row is kept although everything is removed.
SweptRowKept(d) == mon

\* Mutant: the monitoring row is kept and marked, with a status of its own.
SweptRowMarked(d) == [mon EXCEPT ![d] = "removed"]

SweptRow(d) == [mon EXCEPT ![d] = "none"]

\* Mutant: Grafana is not told.
LeftInGrafanaAll(d) == {panel[d]}

\* Nothing, unless a failure of Grafana has been swallowed.
LeftInGrafana(d) == IF panel[d] = "none" THEN {"none"} ELSE {"none", "stray"}

\* Prometheus and Grafana have answered, or Grafana has not.
SweepEnds(d) ==
    /\ d \in sweep
    /\ \E left \in LeftInGrafana(d) : panel' = [panel EXCEPT ![d] = left]
    /\ mon' = SweptRow(d)
    /\ expired' = [expired EXCEPT ![d] = FALSE]
    /\ aged' = [aged EXCEPT ![d] = FALSE]
    /\ sweep' = sweep \ {d}
    /\ UNCHANGED <<lifeVars, prov, retiring, bootVars, restarts>>

\* Removing the scrape file raises: the row is left to the next cycle.
SweepRaises(d) ==
    /\ d \in sweep
    /\ sweep' = sweep \ {d}
    /\ UNCHANGED <<lifeVars, monVars, panel, prov, retiring, bootVars, restarts>>

-----------------------------------------------------------------------------
(* The process stops and starts again; lifespan reconciles before it serves. *)

\* Mutant: start-up provisions nothing.
UnreconciledNone == {}

\* list_by_status("running").
Unreconciled == {d \in Deployments : status[d] = "running"}

Restart ==
    /\ restarts < MaxRestarts
    /\ restarts' = restarts + 1
    /\ prov' = [d \in Deployments |-> "idle"]
    /\ retiring' = [d \in Deployments |-> FALSE]
    /\ sweep' = {}
    /\ boot' = Unreconciled
    /\ up' = FALSE
    /\ panel' = [d \in Deployments |->
                    IF prov[d] = "calling" THEN Strayed(d) ELSE panel[d]]
    /\ TasksLost
    /\ UNCHANGED monVars

\* No provisioning of start-up is on its way.
NoneProvisioned == \A d \in Deployments : prov[d] # "calling"

\* One row after the other, each as the list read it: still running.
Reconcile(d) ==
    /\ d \in boot
    /\ NoneProvisioned
    /\ boot' = boot \ {d}
    /\ prov' = [prov EXCEPT ![d] =
                  IF endpoint[d] /\ Unmonitored(d) THEN "calling" ELSE "idle"]
    /\ UNCHANGED <<lifeVars, monVars, panel, retiring, sweep, up, restarts>>

Serve ==
    /\ ~up
    /\ boot = {}
    /\ NoneProvisioned
    /\ up' = TRUE
    /\ UNCHANGED <<lifeVars, monVars, panel, prov, retiring, sweep, boot, restarts>>

-----------------------------------------------------------------------------
(* The specification. *)

ProvisionTask(d) == ProvisionStarts(d) \/ ProvisionEnds(d) \/ ProvisionRaises(d)

Sweep(d) == SweepEnds(d) \/ SweepRaises(d)

Next ==
    \/ \E d \in Deployments :
         \/ RowMoves(d) \/ RowGoesLive(d) \/ RowIsConfirmedDeleted(d)
         \/ ProvisionTask(d) \/ GrafanaCreates(d)
         \/ Retire(d) \/ RetentionPasses(d) \/ Sweep(d)
         \/ Reconcile(d)
    \/ SweepStarts
    \/ Restart
    \/ Serve

Spec == Init /\ [][Next]_vars

(* Tasks run, calls have timeouts (15 s for Grafana, 5 s for Prometheus), the
   loop ticks every minute and catches whatever a cycle raises, time passes,
   and a file that could not be removed is removed in the end.  The hardware
   poll that start-up awaits last has no timeout: it is assumed to return.
   Nothing is assumed of the rows. *)
Fairness ==
    /\ WF_vars(SweepStarts)
    /\ WF_vars(Serve)
    /\ \A d \in Deployments :
         /\ WF_vars(ProvisionTask(d))
         /\ WF_vars(Retire(d))
         /\ WF_vars(RetentionPasses(d))
         /\ WF_vars(Sweep(d))
         /\ SF_vars(SweepEnds(d))
         /\ WF_vars(Reconcile(d))

FairSpec == Spec /\ Fairness

-----------------------------------------------------------------------------
(* Properties. *)

(* FR-014: a monitoring row is removed only in retention and seven days after
   it was last active, although the cycle acts on a list it read before it
   awaited Prometheus and Grafana, and the deployment may be deleted again or
   monitored again in the meantime. *)
RetentionHonoured ==
    [][\A d \in Deployments :
          mon[d] # "none" /\ mon'[d] = "none"
              => mon[d] = "decommissioning" /\ aged[d]]_vars

(* FR-004b: as long as calls to Grafana succeed and no restart interrupts them,
   a data source or dashboard in Grafana has a monitoring row, by which alone
   it is found again to be removed, or is just being provisioned: neither the
   cycle nor a provisioning that comes after it loses sight of it. *)
GrafanaIsTracked ==
    \A d \in Deployments :
        panel[d] = "there" => mon[d] # "none" \/ prov[d] = "calling"

\* The row stays deleted, and no further DELETE starts the retention anew.
StaysDeleted(d) == <>[](status[d] = "deleted" /\ ~retiring[d])

(* FR-004b: a deployment that stays deleted does not stay in retention for
   ever: its monitoring is taken down in the end, across restarts and cycles
   that fail. *)
RetentionEnds ==
    \A d \in Deployments : StaysDeleted(d) => <>[](mon[d] # "decommissioning")

(* FR-004a: a CPU deployment that reaches running is monitored in the end,
   also when a restart falls between the two, provided Grafana can be reached. *)
LiveIsMonitored ==
    [](\A d \in Deployments : prov[d] # "raised") =>
        \A d \in Deployments \ Gpu :
            status[d] = "running" ~> status[d] # "running" \/ mon[d] = "active"

(* FR-008, FR-004b: a deployment that stays deleted is not monitored for ever. *)
DeletedIsUnmonitored ==
    \A d \in Deployments : StaysDeleted(d) => <>[](mon[d] = "none")

===============================================================================
