--------------------------- MODULE MonitoringProofs ---------------------------
(***************************************************************************)
(* Theorems about Monitoring, for any deployments, on either cloud, and    *)
(* any number of restarts.  Of the rows they use what DeploymentLife says  *)
(* and nothing else, so they hold whichever program keeps that contract.   *)
(*                                                                         *)
(* What the decommission cycle may do with a list it read before its       *)
(* awaits rests on who can make a monitoring row active again: only a      *)
(* provisioning, which start-up ends before the cycles begin, and which    *)
(* afterwards is that of a row that goes live, once, and has no monitoring *)
(* row yet.                                                                *)
(***************************************************************************)
EXTENDS Monitoring, TLAPS

\* A row whose deploy task has not ended yet, or that is not there yet.
Fresh(d) == status[d] = "none" \/ task[d]

(* Nothing has been provisioned or retired for a fresh row; and since a task
   that is over does not come back, a row goes live once. *)
FreshIsUnmonitored(d) ==
    Fresh(d) =>
        /\ mon[d] = "none" /\ panel[d] = "none" /\ prov[d] = "idle"
        /\ ~retiring[d] /\ ~endpoint[d]

\* Once requests are served only a row that went live is provisioned.
ProvisionedOnce(d) ==
    /\ prov[d] = "scheduled" => up /\ mon[d] = "none"
    /\ prov[d] = "calling" /\ up => mon[d] = "none"

\* Start-up reconciles before the decommission loop runs.
StartUpIsAlone ==
    /\ up => boot = {}
    /\ ~up => sweep = {}

(* Retention is over for what a cycle has listed, and it stays so until the
   cycle comes to it. *)
ListedIsDue(d) ==
    /\ expired[d] => aged[d]
    /\ d \in sweep => mon[d] = "decommissioning" /\ aged[d]

Tracked(d) == panel[d] = "there" => mon[d] # "none" \/ prov[d] = "calling"

MInv ==
    /\ MonitoringTypeOK
    /\ StartUpIsAlone
    /\ \A d \in Deployments :
         FreshIsUnmonitored(d) /\ ProvisionedOnce(d) /\ ListedIsDue(d) /\ Tracked(d)

-----------------------------------------------------------------------------
(* What the contract allows a row to do, seen from its monitoring. *)

LifeTypeOK ==
    /\ status   \in [Deployments -> Statuses]
    /\ endpoint \in [Deployments -> BOOLEAN]
    /\ task     \in [Deployments -> BOOLEAN]

RowStep(d) ==
    \/ Insert(d) \/ Start(d) \/ GoLive(d) \/ TaskEnds(d) \/ Report(d)
    \/ BeginTeardown(d) \/ Confirm(d) \/ Lose(d) \/ Erase(d) \/ Copy(d)

(* A row that is fresh after a step was so before, and has no new address. *)
LEMMA RowStepFresh ==
    ASSUME LifeTypeOK, NEW d \in Deployments, RowStep(d)
    PROVE  /\ LifeTypeOK'
           /\ \A e \in Deployments : Fresh(e)' => Fresh(e) /\ (endpoint'[e] => endpoint[e])
<1> USE DEF LifeTypeOK, Fresh, Goes, Statuses, ColumnStatuses, Absent, Begun
<1>1. CASE Insert(d)
  BY <1>1 DEF Insert
<1>2. CASE Start(d)
  BY <1>2 DEF Start
<1>3. CASE GoLive(d)
  BY <1>3 DEF GoLive
<1>4. CASE TaskEnds(d)
  BY <1>4 DEF TaskEnds
<1>5. CASE Report(d)
  BY <1>5 DEF Report
<1>6. CASE BeginTeardown(d)
  BY <1>6 DEF BeginTeardown
<1>7. CASE Confirm(d)
  BY <1>7 DEF Confirm
<1>8. CASE Lose(d)
  BY <1>8 DEF Lose
<1>9. CASE Erase(d)
  BY <1>9 DEF Erase
<1>10. CASE Copy(d)
  BY <1>10 DEF Copy
<1> QED
  BY <1>1, <1>2, <1>3, <1>4, <1>5, <1>6, <1>7, <1>8, <1>9, <1>10 DEF RowStep

\* A row that goes live or is confirmed deleted is fresh no more.
LEMMA NoLongerFresh ==
    ASSUME LifeTypeOK, NEW d \in Deployments, GoLive(d) \/ Confirm(d)
    PROVE  ~Fresh(d)' /\ (GoLive(d) => Fresh(d))
  BY DEF LifeTypeOK, Fresh, Goes, GoLive, Confirm, Begun, ColumnStatuses

-----------------------------------------------------------------------------
(* Every step keeps the invariant. *)

LEMMA InitMInv == Init => MInv
<1> SUFFICES ASSUME Init PROVE MInv
  OBVIOUS
<1>1. MonitoringTypeOK
  BY RestartsAreNatural DEF Init, LifeInit, MonitoringTypeOK, Statuses, Absent
<1> QED
  BY <1>1 DEF Init, LifeInit, MInv, StartUpIsAlone, FreshIsUnmonitored, ProvisionedOnce,
     ListedIsDue, Tracked, Fresh

\* The steps that leave the rows alone.
LEMMA QuietFresh ==
    ASSUME UNCHANGED lifeVars
    PROVE  \A e \in Deployments : (Fresh(e)' <=> Fresh(e)) /\ endpoint'[e] = endpoint[e]
  BY DEF lifeVars, Fresh

LEMMA RowsKeep ==
    ASSUME MInv, NEW d \in Deployments,
           RowMoves(d) \/ RowGoesLive(d) \/ RowIsConfirmedDeleted(d)
    PROVE  MInv'
<1>0. MonitoringTypeOK /\ LifeTypeOK
  BY DEF MInv, MonitoringTypeOK, LifeTypeOK
<1>1. RowStep(d)
  BY DEF RowStep, RowMoves, RowGoesLive, RowIsConfirmedDeleted
<1>2. /\ LifeTypeOK'
      /\ \A e \in Deployments : Fresh(e)' => Fresh(e) /\ (endpoint'[e] => endpoint[e])
  BY <1>0, <1>1, RowStepFresh
<1> USE DEF MInv, StartUpIsAlone, FreshIsUnmonitored, ProvisionedOnce, ListedIsDue, Tracked,
            monVars, bootVars
<1>3. CASE RowMoves(d)
  <2>1. MonitoringTypeOK'
    BY <1>0, <1>2, <1>3 DEF RowMoves, MonitoringTypeOK, LifeTypeOK
  <2> QED BY <1>2, <1>3, <2>1 DEF RowMoves
<1>4. CASE RowGoesLive(d)
  <2>1. MonitoringTypeOK'
    BY <1>0, <1>2, <1>4 DEF RowGoesLive, MonitoringTypeOK, LifeTypeOK
  <2>2. Fresh(d) /\ ~Fresh(d)'
    BY <1>0, <1>4, NoLongerFresh DEF RowGoesLive
  <2>3. prov'[d] = "scheduled" /\ \A e \in Deployments \ {d} : prov'[e] = prov[e]
    BY <1>0, <1>4 DEF RowGoesLive, MonitoringTypeOK
  <2> QED BY <1>2, <1>4, <2>1, <2>2, <2>3 DEF RowGoesLive
<1>5. CASE RowIsConfirmedDeleted(d)
  <2>1. MonitoringTypeOK'
    BY <1>0, <1>2, <1>5 DEF RowIsConfirmedDeleted, MonitoringTypeOK, LifeTypeOK
  <2>2. ~Fresh(d)'
    BY <1>0, <1>5, NoLongerFresh DEF RowIsConfirmedDeleted
  <2>3. \A e \in Deployments \ {d} : retiring'[e] = retiring[e]
    BY <1>0, <1>5 DEF RowIsConfirmedDeleted, MonitoringTypeOK
  <2> QED BY <1>2, <1>5, <2>1, <2>2, <2>3 DEF RowIsConfirmedDeleted
<1> QED BY <1>3, <1>4, <1>5

LEMMA TasksKeep ==
    ASSUME MInv, NEW d \in Deployments,
           \/ ProvisionTask(d) \/ GrafanaCreates(d) \/ Retire(d) \/ RetentionPasses(d)
           \/ Sweep(d) \/ Reconcile(d)
    PROVE  MInv'
<1>0. UNCHANGED lifeVars
  BY DEF ProvisionTask, ProvisionStarts, ProvisionEnds, ProvisionRaises, GrafanaCreates, Retire,
     RetentionPasses, Sweep, SweepEnds, SweepRaises, Reconcile
<1>f. \A e \in Deployments : (Fresh(e)' <=> Fresh(e)) /\ endpoint'[e] = endpoint[e]
  BY <1>0, QuietFresh
<1> USE DEF MInv, StartUpIsAlone, FreshIsUnmonitored, ProvisionedOnce, ListedIsDue, Tracked,
            MonitoringTypeOK, lifeVars, monVars, bootVars
<1>1. CASE ProvisionStarts(d)
  BY <1>1, <1>f DEF ProvisionStarts, Unmonitored
<1>2. CASE ProvisionEnds(d)
  BY <1>2, <1>f DEF ProvisionEnds
<1>3. CASE ProvisionRaises(d)
  BY <1>3, <1>f DEF ProvisionRaises, Strayed
<1>4. CASE GrafanaCreates(d)
  BY <1>4, <1>f DEF GrafanaCreates
<1>5. CASE Retire(d)
  BY <1>5, <1>f DEF Retire
<1>6. CASE RetentionPasses(d)
  BY <1>6, <1>f DEF RetentionPasses
<1>7. CASE SweepEnds(d)
  BY <1>7, <1>f DEF SweepEnds, LeftInGrafana, SweptRow
<1>8. CASE SweepRaises(d)
  BY <1>8, <1>f DEF SweepRaises
<1>9. CASE Reconcile(d)
  BY <1>9, <1>f DEF Reconcile, NoneProvisioned, Unmonitored
<1> QED
  BY <1>1, <1>2, <1>3, <1>4, <1>5, <1>6, <1>7, <1>8, <1>9 DEF ProvisionTask, Sweep

LEMMA ProcessKeeps ==
    ASSUME MInv, SweepStarts \/ Serve \/ Restart \/ UNCHANGED vars
    PROVE  MInv'
<1> USE DEF MInv, StartUpIsAlone, FreshIsUnmonitored, ProvisionedOnce, ListedIsDue, Tracked,
            MonitoringTypeOK, lifeVars, monVars, bootVars
<1>1. CASE SweepStarts
  BY <1>1, QuietFresh DEF SweepStarts, Due
<1>2. CASE Serve
  BY <1>2, QuietFresh DEF Serve, NoneProvisioned
<1>3. CASE Restart
  <2>1. \A e \in Deployments : Fresh(e)' => Fresh(e) /\ endpoint'[e] = endpoint[e]
    BY <1>3 DEF Restart, TasksLost, Fresh
  <2>2. /\ status' \in [Deployments -> Statuses]
        /\ endpoint' = endpoint
        /\ task' \in [Deployments -> BOOLEAN]
        /\ restarts' \in 0 .. MaxRestarts
        /\ boot' \in SUBSET Deployments
    BY <1>3, RestartsAreNatural DEF Restart, TasksLost, Unreconciled
  <2>3. panel' \in [Deployments -> {"none", "there", "stray"}]
    BY <1>3 DEF Restart, Strayed
  <2>4. MonitoringTypeOK'
    BY <1>3, <2>2, <2>3 DEF Restart
  <2>5. ASSUME NEW e \in Deployments
        PROVE  (FreshIsUnmonitored(e) /\ ProvisionedOnce(e) /\ ListedIsDue(e) /\ Tracked(e))'
    <3> USE <1>3, <2>1 DEF Restart
    <3>1. panel'[e] = IF prov[e] = "calling" THEN Strayed(e) ELSE panel[e]
      OBVIOUS
    <3>2. /\ mon' = mon /\ prov'[e] = "idle" /\ retiring'[e] = FALSE /\ sweep' = {}
          /\ expired' = expired /\ aged' = aged
      OBVIOUS
    <3>3. FreshIsUnmonitored(e)'
      BY <3>1, <3>2
    <3> QED BY <3>1, <3>2, <3>3 DEF Strayed
  <2> QED BY <1>3, <2>4, <2>5 DEF Restart
<1>4. CASE UNCHANGED vars
  BY <1>4, QuietFresh DEF vars
<1> QED BY <1>1, <1>2, <1>3, <1>4

LEMMA StepMInv == MInv /\ [Next]_vars => MInv'
<1> SUFFICES ASSUME MInv, [Next]_vars PROVE MInv'
  OBVIOUS
<1> QED BY RowsKeep, TasksKeep, ProcessKeeps DEF Next

LEMMA Invariant == Spec => []MInv
  BY InitMInv, StepMInv, PTL DEF Spec

-----------------------------------------------------------------------------

(* Every reachable state is of the declared type. *)
THEOREM TypeCorrect == Spec => []MonitoringTypeOK
  BY Invariant, PTL DEF MInv

(* FR-004b: what is in Grafana is known by a monitoring row, unless a call to
   Grafana failed or a restart cut one off. *)
THEOREM GrafanaTracked == Spec => []GrafanaIsTracked
<1>1. MInv => GrafanaIsTracked
  BY DEF MInv, Tracked, GrafanaIsTracked
<1> QED BY <1>1, Invariant, PTL

(* FR-014: no monitoring row is removed before its retention is over, whatever
   happened to it and to the deployment since the cycle read its list. *)
THEOREM RetentionIsHonoured == Spec => RetentionHonoured
<1>1. ASSUME MInv, [Next]_vars, NEW d \in Deployments, mon[d] # "none", mon'[d] = "none"
      PROVE  mon[d] = "decommissioning" /\ aged[d]
  <2> USE DEF MInv, MonitoringTypeOK, monVars
  <2>1. \E e \in Deployments : SweepEnds(e)
    BY <1>1 DEF Next, RowMoves, RowGoesLive, RowIsConfirmedDeleted, ProvisionTask,
       ProvisionStarts, ProvisionEnds, ProvisionRaises, GrafanaCreates, Retire, RetentionPasses,
       Sweep, SweepRaises, Reconcile, SweepStarts, Restart, Serve, vars
  <2>2. SweepEnds(d)
    BY <1>1, <2>1 DEF SweepEnds, SweptRow
  <2> QED BY <1>1, <2>2 DEF SweepEnds, ListedIsDue
<1>2. MInv /\ [Next]_vars =>
         [\A d \in Deployments :
            mon[d] # "none" /\ mon'[d] = "none" => mon[d] = "decommissioning" /\ aged[d]]_vars
  BY <1>1
<1> QED BY <1>2, Invariant, PTL DEF Spec, RetentionHonoured

(* The rows of Monitoring do what the contract allows, and nothing else: what is
   shown of them here holds of any program that keeps it. *)
THEOREM RowsKeepContract == Spec => LifeSpec
<1>1. Init => LifeInit
  BY DEF Init
<1>2. [Next]_vars => [LifeNext]_lifeVars
  <2> SUFFICES ASSUME [Next]_vars PROVE LifeNext \/ UNCHANGED lifeVars
    OBVIOUS
  <2> QED
    BY DEF Next, RowMoves, RowGoesLive, RowIsConfirmedDeleted, ProvisionTask,
       ProvisionStarts, ProvisionEnds, ProvisionRaises, GrafanaCreates, Retire, RetentionPasses,
       Sweep, SweepEnds, SweepRaises, Reconcile, SweepStarts, Restart, Serve, vars, LifeNext
<1> QED BY <1>1, <1>2, PTL DEF Spec, LifeSpec

-----------------------------------------------------------------------------
(* Two consequences of the contract, for whichever program keeps it. *)

LEMMA ContractTyped == LifeSpec => []LifeTypeOK
<1>1. LifeInit => LifeTypeOK
  BY DEF LifeInit, LifeTypeOK, Statuses, Absent
<1>2. LifeTypeOK /\ [LifeNext]_lifeVars => LifeTypeOK'
  <2> SUFFICES ASSUME LifeTypeOK, [LifeNext]_lifeVars PROVE LifeTypeOK'
    OBVIOUS
  <2>1. CASE \E d \in Deployments : RowStep(d)
    BY <2>1, RowStepFresh
  <2>2. CASE TasksLost \/ UNCHANGED lifeVars
    BY <2>2 DEF TasksLost, LifeTypeOK, lifeVars
  <2> QED
    BY <2>1, <2>2 DEF LifeNext, RowStep
<1> QED
  BY <1>1, <1>2, PTL DEF LifeSpec

\* The deploy task of a row is over, whether it ended or was cancelled.
Over(d) == status[d] # "none" /\ ~task[d]

(* No deploy task comes back; without one there is no address to come; and a
   row of a CPU deployment does not turn running. *)
LEMMA OverStays ==
    ASSUME LifeTypeOK, [LifeNext]_lifeVars, NEW d \in Deployments, Over(d)
    PROVE  /\ Over(d)'
           /\ endpoint'[d] => endpoint[d]
           /\ d \notin Gpu /\ status'[d] = "running" => status[d] = "running"
<1> USE DEF LifeTypeOK, Over, Goes, ColumnStatuses, Begun
<1>1. ASSUME NEW e \in Deployments, RowStep(e)
      PROVE  /\ Over(d)'
             /\ endpoint'[d] => endpoint[d]
             /\ d \notin Gpu /\ status'[d] = "running" => status[d] = "running"
  <2>1. CASE Insert(e) \/ Start(e) \/ GoLive(e) \/ TaskEnds(e)
    BY <2>1 DEF Insert, Start, GoLive, TaskEnds
  <2>2. CASE Report(e)
    BY <2>2 DEF Report
  <2>3. CASE BeginTeardown(e) \/ Confirm(e)
    BY <2>3 DEF BeginTeardown, Confirm
  <2>4. CASE Lose(e) \/ Erase(e) \/ Copy(e)
    BY <2>4 DEF Lose, Erase, Copy
  <2> QED
    BY <1>1, <2>1, <2>2, <2>3, <2>4 DEF RowStep
<1>2. CASE TasksLost \/ UNCHANGED lifeVars
  BY <1>2 DEF TasksLost, lifeVars
<1> QED
  BY <1>1, <1>2 DEF LifeNext, RowStep

(* A row whose deploy task is over has the address it will ever have: what turns
   running without one, as the Lightning AI refresh can make it, keeps none. *)
THEOREM NoLateAddress ==
    LifeSpec => \A d \in Deployments : [](Over(d) /\ ~endpoint[d] => []~endpoint[d])
<1>1. ASSUME NEW d \in Deployments
      PROVE  LifeSpec => [](Over(d) /\ ~endpoint[d] => []~endpoint[d])
  <2>1. LifeTypeOK /\ [LifeNext]_lifeVars /\ (Over(d) /\ ~endpoint[d])
          => (Over(d) /\ ~endpoint[d])'
    BY OverStays
  <2> QED
    BY <2>1, ContractTyped, PTL DEF LifeSpec
<1> QED
  BY <1>1

(* Once a teardown of a CPU deployment has begun its row never says running
   again, whatever is reported over it. *)
THEOREM DeletionIsFinal ==
    LifeSpec => \A d \in Deployments \ Gpu :
        [](status[d] \in {"deleting", "deleted"} => [](status[d] # "running"))
<1> DEFINE NotAtWork(d) == status[d] \in {"deleting", "deleted"} => ~task[d]
           Retired(d)   == Over(d) /\ status[d] # "running"
<1>1. ASSUME NEW d \in Deployments \ Gpu
      PROVE  LifeSpec => [](status[d] \in {"deleting", "deleted"} => [](status[d] # "running"))
  <2>1. LifeInit => NotAtWork(d)
    BY DEF LifeInit
  <2>2. LifeTypeOK /\ [LifeNext]_lifeVars /\ NotAtWork(d) => NotAtWork(d)'
    <3> SUFFICES ASSUME LifeTypeOK, [LifeNext]_lifeVars, NotAtWork(d) PROVE NotAtWork(d)'
      OBVIOUS
    <3> USE DEF LifeTypeOK, Goes, ColumnStatuses, Begun
    <3>1. ASSUME NEW e \in Deployments, Insert(e) \/ Start(e) \/ GoLive(e) \/ TaskEnds(e) \/ Report(e)
          PROVE  NotAtWork(d)'
      BY <3>1 DEF Insert, Start, GoLive, TaskEnds, Report
    <3>2. ASSUME NEW e \in Deployments,
                 BeginTeardown(e) \/ Confirm(e) \/ Lose(e) \/ Erase(e) \/ Copy(e)
          PROVE  NotAtWork(d)'
      BY <3>2 DEF BeginTeardown, Confirm, Lose, Erase, Copy
    <3>3. CASE TasksLost \/ UNCHANGED lifeVars
      BY <3>3 DEF TasksLost, lifeVars
    <3> QED
      BY <3>1, <3>2, <3>3 DEF LifeNext
  <2>3. NotAtWork(d) /\ status[d] \in {"deleting", "deleted"} => Retired(d)
    BY DEF Over
  <2>4. LifeTypeOK /\ [LifeNext]_lifeVars /\ Retired(d) => Retired(d)'
    BY OverStays
  <2>5. Retired(d) => status[d] # "running"
    OBVIOUS
  <2> HIDE DEF NotAtWork, Retired
  <2> QED
    BY <2>1, <2>2, <2>3, <2>4, <2>5, ContractTyped, PTL DEF LifeSpec
<1> QED
  BY <1>1

===============================================================================
