-------------------------------- MODULE Rollout --------------------------------
(***************************************************************************)
(* The three kube_client calls a deploy task makes once its cluster is up, *)
(* against a cluster that moves on its own: apply_objects,                 *)
(* wait_deployment_available, get_service_lb_ip.                           *)
(*                                                                         *)
(* Time is counted in polling intervals (5 s).  The thread sleeps one      *)
(* between two polls.  The Kubernetes client sets no timeout on a read;    *)
(* MaxRead is what the reads of one poll are assumed to take at most.      *)
(***************************************************************************)
EXTENDS Integers

CONSTANTS
    Timeout,           \* timeout_seconds of the wait for the workload
    Grace,             \* quota_failure_grace_seconds
    AddressTimeout,    \* timeout_seconds of the wait for the address
    Threshold,         \* _CRASH_LOOP_RESTART_THRESHOLD
    Recent,            \* how many events of a pod are looked at
    MaxRead            \* assumed: the longest the reads of one poll take

ASSUME TimesAreNatural == {Timeout, AddressTimeout, MaxRead} \subseteq Nat

ASSUME CountsArePositive == {Grace, Threshold, Recent} \subseteq Nat \ {0}

VARIABLES
    at,            \* the call of the Kubernetes client the thread is at
    applied,       \* how many objects are in the cluster
    answer,        \* what the deploy task gets
    now,
    began,         \* when the poll began, or the sleep
    deadline,
    quotaSince,    \* quota_first_seen_at
    listed,        \* the pod as the list of the poll showed it
    stage,         \* of the pod
    restarts,      \* of its container, up to Threshold
    shortage,      \* place of the GPU shortage among the pod's latest events
    address,       \* the load balancer has an ingress
    readyFor,      \* history: how long the pod has been ready in view
    shortFor,      \* history: how long the shortage has been in view
    crashFor,      \* history: how long the container has been given up in view
    clearFor       \* history: the time since a poll did not find the shortage

threadVars  == <<at, answer, began, deadline, quotaSince, listed>>
clusterVars == <<applied, stage, restarts, shortage, address>>
historyVars == <<readyFor, shortFor, crashFor, clearFor>>
vars == <<threadVars, clusterVars, now, historyVars>>

-----------------------------------------------------------------------------

None == -1

\* What generate() makes, in its order: Secret, Deployment, Service.
Objects == 3
DeploymentApplied == applied >= 2
ServiceApplied == applied >= 3

(* Without a pod; Pending; Running with a container that starts or runs; ready;
   waiting in CrashLoopBackOff; Failed. *)
StagesOfPod == {"none", "pending", "up", "ready", "backoff", "failed"}

NoPod == [stage |-> "none", restarts |-> 0, gone |-> FALSE]

\* A poll and the sleep before it.
Period == 1 + MaxRead

\* How long it takes until a poll has read what has changed.
Sight == Period + MaxRead

Reading == {"status", "pods", "events", "service"}
Sleeping == {"sleep", "nap"}

\* "timeout" is that of the wait, "noaddress" that of get_service_lb_ip.
Answers == {"none", "ok", "quota", "crash", "timeout", "noaddress", "error"}

TypeOK ==
    /\ at         \in {"apply", "done"} \cup Reading \cup Sleeping
    /\ applied    \in 0 .. Objects
    /\ answer     \in Answers
    /\ now        \in Nat
    /\ began      \in 0 .. now
    /\ deadline   \in Nat
    /\ quotaSince \in {None} \cup (0 .. now)
    /\ listed     \in [stage : StagesOfPod, restarts : 0 .. Threshold, gone : BOOLEAN]
    /\ stage      \in StagesOfPod
    /\ restarts   \in 0 .. Threshold
    /\ shortage   \in 0 .. Recent
    /\ address    \in BOOLEAN
    /\ readyFor   \in Nat
    /\ shortFor   \in Nat
    /\ crashFor   \in Nat
    /\ clearFor   \in Nat

Init ==
    /\ at         = "apply"
    /\ applied    = 0
    /\ answer     = "none"
    /\ now        = 0
    /\ began      = 0
    /\ deadline   = 0
    /\ quotaSince = None
    /\ listed     = NoPod
    /\ stage      = "none"
    /\ restarts   = 0
    /\ shortage   = 0
    /\ address    = FALSE
    /\ readyFor   = 0
    /\ shortFor   = 0
    /\ crashFor   = 0
    /\ clearFor   = 0

Goes(from, to) == at = from /\ at' = to

Answered(a) == at' = "done" /\ answer' = a

-----------------------------------------------------------------------------
(* The cluster. *)

MovesOfPod ==
    { <<"none", "pending">>, <<"pending", "up">>, <<"up", "ready">>, <<"ready", "up">>,
      <<"up", "backoff">>, <<"ready", "backoff">>, <<"backoff", "up">>,
      <<"pending", "failed">>, <<"up", "failed">> }

\* The pod moves on; when its container ends, Kubernetes restarts it.
PodMoves ==
    \E s \in StagesOfPod :
        /\ DeploymentApplied
        /\ <<stage, s>> \in MovesOfPod
        /\ stage' = s
        /\ restarts' = IF s = "backoff" /\ restarts < Threshold THEN restarts + 1 ELSE restarts
        /\ readyFor' = IF s = "ready" THEN readyFor ELSE 0
        /\ crashFor' = IF s = "backoff" THEN crashFor ELSE 0
        /\ UNCHANGED <<threadVars, applied, shortage, address, now, shortFor, clearFor>>

\* A pod that was evicted is replaced, and its events are not the new one's.
PodReplaced ==
    /\ stage = "failed"
    /\ stage' = "pending"
    /\ restarts' = 0
    /\ shortage' = 0
    /\ shortFor' = 0
    /\ listed' = IF listed = NoPod THEN NoPod ELSE [listed EXCEPT !.gone = TRUE]
    /\ UNCHANGED <<at, answer, began, deadline, quotaSince, applied, address, now,
                   readyFor, crashFor, clearFor>>

\* FailedScheduling for want of nvidia.com/gpu, reported again and again ...
ShortageReported ==
    /\ stage = "pending"
    /\ shortage' = 1
    /\ UNCHANGED <<threadVars, applied, stage, restarts, address, now, historyVars>>

\* ... and pushed back by other events.
OtherEvent ==
    /\ shortage > 0
    /\ shortage' = IF shortage = Recent THEN 0 ELSE shortage + 1
    /\ shortFor' = IF shortage = Recent THEN 0 ELSE shortFor
    /\ UNCHANGED <<threadVars, applied, stage, restarts, address, now,
                   readyFor, crashFor, clearFor>>

AddressAssigned ==
    /\ ServiceApplied
    /\ ~address
    /\ address' = TRUE
    /\ UNCHANGED <<threadVars, applied, stage, restarts, shortage, now, historyVars>>

\* How long something has been in view: up to where it makes no difference.
Longer(age, limit) == IF age < limit THEN age + 1 ELSE age

Tick ==
    /\ \/ at \in Reading /\ now < began + MaxRead
       \/ at \in Sleeping /\ now < began + 1
    /\ now' = now + 1
    /\ readyFor' = IF stage = "ready" THEN Longer(readyFor, Sight + 1) ELSE 0
    /\ shortFor' = IF shortage > 0 THEN Longer(shortFor, Grace + Period + Sight) ELSE 0
    /\ crashFor' = IF stage = "backoff" /\ restarts = Threshold
                   THEN Longer(crashFor, Sight + 1) ELSE 0
    /\ clearFor' = Longer(clearFor, Grace)
    /\ UNCHANGED <<threadVars, clusterVars>>

-----------------------------------------------------------------------------
(* apply_objects: the objects one after the other, read and then replaced or
   created.  A failure may come after the object is in the cluster. *)

Apply ==
    /\ at = "apply"
    /\ applied' = applied + 1
    /\ IF applied' = Objects
       THEN /\ at' = "status"
            /\ began' = now
            /\ deadline' = now + Timeout
       ELSE UNCHANGED <<at, began, deadline>>
    /\ UNCHANGED <<answer, quotaSince, listed, stage, restarts, shortage, address,
                   now, historyVars>>

ApplyRaises ==
    /\ at = "apply"
    /\ applied' \in {applied, applied + 1}
    /\ Answered("error")
    /\ UNCHANGED <<began, deadline, quotaSince, listed, stage, restarts, shortage,
                   address, now, historyVars>>

-----------------------------------------------------------------------------
(* wait_deployment_available. *)

\* Mutant: one replica is not enough.
AvailableOffByOne == FALSE

Available == stage = "ready"

\* A failed read counts as a deployment that is not available.
StatusRead ==
    /\ at = "status"
    /\ \/ /\ Available
          /\ at' = "service"
          /\ began' = now
          /\ deadline' = now + AddressTimeout
          /\ UNCHANGED readyFor
       \/ /\ ~Available
          /\ at' = "pods"
          /\ UNCHANGED <<began, deadline, readyFor>>
       \/ /\ at' = "pods"
          /\ readyFor' = 0
          /\ UNCHANGED <<began, deadline>>
    /\ UNCHANGED <<answer, quotaSince, listed, clusterVars, now, shortFor, crashFor, clearFor>>

\* The first part of _collect_pod_diagnostics; a list that fails shows no pod.
PodsListed ==
    /\ Goes("pods", "events")
    /\ \/ /\ listed' = [stage |-> stage, restarts |-> restarts, gone |-> FALSE]
          /\ UNCHANGED <<shortFor, crashFor>>
       \/ /\ listed' = NoPod
          /\ shortFor' = 0
          /\ crashFor' = 0
    /\ UNCHANGED <<answer, began, deadline, quotaSince, clusterVars, now, readyFor, clearFor>>

\* Mutant: the timer starts when the shortage is first seen, and is never reset.
QuotaTimerKept(short) ==
    IF short /\ quotaSince = None THEN now ELSE quotaSince

\* Mutant: every sighting starts the timer anew.
QuotaTimerRestarted(short) == IF short THEN now ELSE None

QuotaTimer(short) ==
    IF ~short THEN None ELSE IF quotaSince = None THEN now ELSE quotaSince

Exhausted(short) == short /\ quotaSince # None /\ now - quotaSince >= Grace

\* Mutant: the container has to be restarted once more.
PersistentCrashLoopLate(pod) == pod.stage = "backoff" /\ pod.restarts > Threshold

\* _is_persistent_crash_loop.
PersistentCrashLoop(pod) == pod.stage = "backoff" /\ pod.restarts >= Threshold

(* The second part, and the verdict: the phase of the pod does not count.  What
   the list of events leaves out is not there, and the events of a pod that is
   gone by now may still be. *)
Diagnose(short) ==
    /\ at = "events"
    /\ quotaSince' = QuotaTimer(short)
    /\ clearFor' = IF short THEN clearFor ELSE 0
    /\ CASE Exhausted(short)            -> Answered("quota") /\ UNCHANGED began
         [] ~Exhausted(short) /\ PersistentCrashLoop(listed)
                                        -> Answered("crash") /\ UNCHANGED began
         [] OTHER                       -> at' = "sleep" /\ began' = now /\ UNCHANGED answer
    /\ listed' = NoPod
    /\ UNCHANGED <<deadline, clusterVars, now, readyFor, crashFor>>

EventsListed ==
    \/ /\ Diagnose(listed.stage # "none" /\ ~listed.gone /\ shortage > 0)
       /\ UNCHANGED shortFor
    \/ Diagnose(FALSE) /\ shortFor' = 0
    \/ listed.gone /\ Diagnose(TRUE) /\ UNCHANGED shortFor

\* Mutant: the deadline is that of the poll.
DeadlineMoved == now + Timeout

Deadline == deadline

\* The head of the loop, after the sleep.
Wakes ==
    /\ at = "sleep"
    /\ now = began + 1
    /\ deadline' = Deadline
    /\ IF now < Deadline
       THEN at' = "status" /\ began' = now /\ UNCHANGED answer
       ELSE Answered("timeout") /\ UNCHANGED began
    /\ UNCHANGED <<quotaSince, listed, clusterVars, now, historyVars>>

-----------------------------------------------------------------------------
(* get_service_lb_ip: a read that fails ends it. *)

ServiceRead ==
    /\ at = "service"
    /\ \/ address /\ Answered("ok") /\ UNCHANGED began
       \/ ~address /\ at' = "nap" /\ began' = now /\ UNCHANGED answer
       \/ Answered("error") /\ UNCHANGED began
    /\ UNCHANGED <<deadline, quotaSince, listed, clusterVars, now, historyVars>>

NapEnds ==
    /\ at = "nap"
    /\ now = began + 1
    /\ IF now < deadline
       THEN at' = "service" /\ began' = now /\ UNCHANGED answer
       ELSE Answered("noaddress") /\ UNCHANGED began
    /\ UNCHANGED <<deadline, quotaSince, listed, clusterVars, now, historyVars>>

-----------------------------------------------------------------------------

Thread ==
    \/ Apply \/ ApplyRaises
    \/ StatusRead \/ PodsListed \/ EventsListed \/ Wakes
    \/ ServiceRead \/ NapEnds

Cluster == PodMoves \/ PodReplaced \/ ShortageReported \/ OtherEvent \/ AddressAssigned

\* Once the calls have answered, nobody looks.
Answering == at # "done" /\ (Thread \/ Cluster \/ Tick)

Finished == at = "done" /\ UNCHANGED vars

Next == Answering \/ Finished

Spec == Init /\ [][Next]_vars

-----------------------------------------------------------------------------
(* Properties. *)

(* The wait gives up for want of quota only if every poll of the grace period
   found the shortage. *)
QuotaIsPersistent == answer = "quota" => clearFor >= Grace

(* kube_client.py:146-150 and its _is_persistent_crash_loop: what will not
   recover does not use up the timeout.  If the lists are answered, a shortage
   that stays in view for the grace period, and a container that Kubernetes
   keeps backing off from, end the wait by the next poll that sees them. *)
HopelessEndsEarly ==
    at \in {"status", "pods", "events", "sleep"} =>
        /\ shortFor < Grace + Period + Sight
        /\ crashFor <= Sight

(* A pod that is ready, and whose status can be read, ends the wait as available
   at the next poll: it is not kept waiting, and it is given up only by the poll
   in the course of which it became ready.  That poll, and the sleep before a
   timeout, look no second time: such a pod is failed for a shortage or for
   crashes that are over, but never one that has been ready for longer. *)
ReadyIsNotMissed ==
    /\ at \in {"status", "pods", "events", "sleep"} => readyFor <= Sight
    /\ answer \in {"quota", "crash"} => readyFor <= MaxRead
    /\ answer = "timeout" => readyFor <= Period

(* The calls answer within their timeouts and one more poll each. *)
EndsInTime == now <= Timeout + Period + AddressTimeout + Period

================================================================================
