------------------------------- MODULE Collector -------------------------------
(***************************************************************************)
(* The hardware gauges of /metrics and the polls that set them: the one    *)
(* that start-up awaits, the loop that goes on with it every 15 seconds,   *)
(* and the one each provisioning of monitoring creates on the side.        *)
(*                                                                         *)
(* A poll reads the rows that are running once, then awaits the platform   *)
(* for one row after the other and writes each answer into the gauge of    *)
(* its labels without looking at the row again.  Of the rows it matters    *)
(* only which are running; DeploymentLife lets that change at any time.    *)
(* Of the readings it matters only whether they are what the platform      *)
(* reports at present.                                                     *)
(***************************************************************************)
EXTENDS Naturals

CONSTANTS
    Deployments,
    Gpu,            \* those on Lightning AI, whose calls share _env_lock
    Extra,          \* the polls created on the side that are told apart
    NoRow,          \* where a poll is between two rows
    MaxChanges,     \* bound on changes of what the platforms report
    MaxRestarts     \* bound on backend restarts

ASSUME GpuRuns == Gpu \subseteq Deployments
ASSUME NoRowIsNone == NoRow \notin Deployments
ASSUME LoopIsNotExtra == "loop" \notin Extra
ASSUME BoundsAreNatural == MaxChanges \in Nat /\ MaxRestarts \in Nat

VARIABLES
    running,        \* rows with status "running"
    server,         \* start-up has to poll, awaits its poll, or is over
    todo,           \* rows a poll has listed and not come to
    at,             \* the row a poll is collecting for
    answer,         \* how far that is
    gauge,
    changes,
    restarts

envVars  == <<running, changes>>
pollVars == <<todo, at, answer>>
vars == <<envVars, server, pollVars, gauge, restarts>>

\* The poll of start-up and those of the loop follow one another.
Polls == {"loop"} \cup Extra

Readings == {"current", "old"}

-----------------------------------------------------------------------------

CollectorTypeOK ==
    /\ running  \in SUBSET Deployments
    /\ server   \in {"starting", "polling", "serving"}
    /\ todo     \in [Polls -> SUBSET Deployments]
    /\ at       \in [Polls -> Deployments \cup {NoRow}]
    /\ answer   \in [Polls -> {"none", "queued", "pending", "nothing", "raises"} \cup Readings]
    /\ gauge    \in [Deployments -> {"unset"} \cup Readings]
    /\ changes  \in 0 .. MaxChanges
    /\ restarts \in 0 .. MaxRestarts
    /\ \A p \in Polls : at[p] = NoRow <=> answer[p] = "none"

Init ==
    /\ running  \in SUBSET Deployments
    /\ server   = "starting"
    /\ todo     = [p \in Polls |-> {}]
    /\ at       = [p \in Polls |-> NoRow]
    /\ answer   = [p \in Polls |-> "none"]
    /\ gauge    = [d \in Deployments |-> "unset"]
    /\ changes  = 0
    /\ restarts = 0

Over(p) == at[p] = NoRow /\ todo[p] = {}

-----------------------------------------------------------------------------
(* Rows and platforms. *)

RowMoves(d) ==
    /\ running' = IF d \in running THEN running \ {d} ELSE running \cup {d}
    /\ UNCHANGED <<changes, server, pollVars, gauge, restarts>>

\* What was current is no longer.
Aged(reading) == IF reading = "current" THEN "old" ELSE reading

LoadChanges(d) ==
    /\ changes < MaxChanges
    /\ changes' = changes + 1
    /\ gauge' = [gauge EXCEPT ![d] = Aged(@)]
    /\ answer' = [p \in Polls |-> IF at[p] = d THEN Aged(answer[p]) ELSE answer[p]]
    /\ UNCHANGED <<running, server, todo, at, restarts>>

-----------------------------------------------------------------------------
(* poll_running_deployments. *)

\* Mutant: every row is polled.
ListedAll == Deployments

\* list_by_status("running").
Listed == running

Lists(p) ==
    /\ Over(p)
    /\ todo' = [todo EXCEPT ![p] = Listed]
    /\ UNCHANGED <<at, answer>>

(* The next row: nothing to ask without credentials or without its ids in the
   row; a thread that must have the lock of the SDK first; or a call. *)
Collects(p, d) ==
    /\ at[p] = NoRow
    /\ d \in todo[p]
    /\ todo' = [todo EXCEPT ![p] = @ \ {d}]
    /\ at' = [at EXCEPT ![p] = d]
    /\ \E how \in {"nothing", IF d \in Gpu THEN "queued" ELSE "pending"} :
         answer' = [answer EXCEPT ![p] = how]
    /\ UNCHANGED <<envVars, server, gauge, restarts>>

\* Some call of a poll holds _env_lock.
Locked == \E p \in Polls : at[p] \in Gpu /\ answer[p] = "pending"

Acquires(p) ==
    /\ answer[p] = "queued"
    /\ ~Locked
    /\ answer' = [answer EXCEPT ![p] = "pending"]
    /\ UNCHANGED <<envVars, server, todo, at, gauge, restarts>>

\* The platform answers, knows nothing (yet), or the call raises.  No timeout.
Returns(p) ==
    /\ answer[p] = "pending"
    /\ \E how \in {"current", "nothing", "raises"} :
         answer' = [answer EXCEPT ![p] = how]
    /\ UNCHANGED <<envVars, server, todo, at, gauge, restarts>>

\* Mutant: what a row raises ends the poll.
LeftAfterFirst(p) == IF answer[p] = "raises" THEN {} ELSE todo[p]

\* Whatever the row raises, the others are still collected for.
Left(p) == todo[p]

\* record_hardware_metrics, whatever has become of the row.
Resumes(p) ==
    /\ answer[p] \in {"nothing", "raises"} \cup Readings
    /\ gauge' = IF answer[p] \in Readings THEN [gauge EXCEPT ![at[p]] = answer[p]] ELSE gauge
    /\ todo' = [todo EXCEPT ![p] = Left(p)]
    /\ at' = [at EXCEPT ![p] = NoRow]
    /\ answer' = [answer EXCEPT ![p] = "none"]
    /\ UNCHANGED <<envVars, server, restarts>>

-----------------------------------------------------------------------------
(* lifespan. *)

StartPolls ==
    /\ server = "starting"
    /\ server' = "polling"
    /\ Lists("loop")
    /\ UNCHANGED <<envVars, gauge, restarts>>

\* Mutant: start-up waits until every running row has a reading.
StartedWithReadings ==
    Over("loop") /\ \A d \in running : gauge[d] # "unset"

Started == Over("loop")

Serve ==
    /\ server = "polling"
    /\ Started
    /\ server' = "serving"
    /\ UNCHANGED <<envVars, pollVars, gauge, restarts>>

\* The loop: 15 seconds after the last poll, and again if the list raises.
Tick ==
    /\ server = "serving"
    /\ Lists("loop")
    /\ UNCHANGED <<envVars, server, gauge, restarts>>

\* Monitoring has been provisioned, by start-up or by a deploy task.
PollsOnTheSide(p) ==
    /\ p \in Extra
    /\ Lists(p)
    /\ UNCHANGED <<envVars, server, gauge, restarts>>

\* The gauges are in the memory of the process.
Restart ==
    /\ restarts < MaxRestarts
    /\ restarts' = restarts + 1
    /\ server' = "starting"
    /\ todo' = [p \in Polls |-> {}]
    /\ at' = [p \in Polls |-> NoRow]
    /\ answer' = [p \in Polls |-> "none"]
    /\ gauge' = [d \in Deployments |-> "unset"]
    /\ UNCHANGED envVars

-----------------------------------------------------------------------------
(* The specification. *)

Next ==
    \/ \E d \in Deployments : RowMoves(d) \/ LoadChanges(d)
    \/ \E p \in Polls :
         \/ \E d \in Deployments : Collects(p, d)
         \/ Acquires(p) \/ Returns(p) \/ Resumes(p) \/ PollsOnTheSide(p)
    \/ StartPolls \/ Serve \/ Tick
    \/ Restart

Spec == Init /\ [][Next]_vars

(* Coroutines go on when what they await is there, and a list of the loop that
   is read again every 15 seconds can be read in the end.  That calls return is
   assumed by the properties that need it, and nowhere else. *)
Fairness ==
    /\ WF_vars(StartPolls) /\ WF_vars(Serve) /\ WF_vars(Tick)
    /\ \A p \in Polls :
         /\ WF_vars(\E d \in Deployments : Collects(p, d))
         /\ WF_vars(Resumes(p))

FairSpec == Spec /\ Fairness

-----------------------------------------------------------------------------
(* Properties. *)

(* No call is waited for in vain, neither by its poll nor by the thread that
   wants the lock after it. *)
CallsReturn == \A p \in Polls : []<>(answer[p] \notin {"queued", "pending"})

(* 010 research.md:146: start-up, which awaits a poll of every running row,
   gets to serve requests, whatever the platforms answer or raise, as long as
   they answer at all: one Lightning AI call that does not return keeps the
   platform from starting, whosever deployment it is about. *)
StartServes == CallsReturn => <>[](server = "serving")

(* FR-008: the metrics of a deployment that is running no more are not collected
   for ever.  A poll that listed it before still asks for it and writes its
   gauge, even after the deployment was deleted, but no later poll does. *)
CollectionStops ==
    CallsReturn =>
        \A d \in Deployments :
            <>[](d \notin running) => <>[](\A p \in Polls : at[p] # d)

\* The platform's answers about d have a reading from some point on.
Answers(d) ==
    <>[](\A p \in Polls : at[p] = d => answer[p] \notin {"nothing", "raises"})

(* FR-003, SC-002: the gauge of a deployment that stays running comes to show
   what its platform reports, and keeps it, although overlapping polls can
   write an older reading over a newer one, and although the calls for every
   other deployment may fail for ever. *)
LoadIsShown ==
    CallsReturn =>
        \A d \in Deployments :
            <>[](d \in running) /\ Answers(d) => <>[](gauge[d] = "current")

===============================================================================
