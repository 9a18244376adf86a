-------------------------- MODULE LightningDeployment --------------------------
(***************************************************************************)
(* The life of the GPU deployments of one user: the same `deployments`     *)
(* rows and handlers as GkeDeployment, a deploy task of a single call, a   *)
(* refresh loop that copies the status Lightning AI reports into the row,  *)
(* and credentials that can be replaced or removed at any time, by those   *)
(* of another Lightning AI account too.                                    *)
(*                                                                         *)
(* As in GkeDeployment one action is one uninterrupted stretch of a        *)
(* coroutine.  The calls are those of RealLightningAIProvider: each runs   *)
(* in a thread (asyncio.to_thread), which task.cancel() does not stop, and *)
(* none has a timeout.                                                     *)
(*                                                                         *)
(* A row knows its deployment by name only.  The name is cut from the      *)
(* model's, so that rows share it, and it is looked up in the account of   *)
(* the key at hand: what is found may be the deployment of another row,    *)
(* and one that is there may be missed.                                    *)
(***************************************************************************)
EXTENDS DeploymentRows, Naturals, FiniteSets

CONSTANTS
    Deployments,     \* identities the user's deployments may take
    Requests,        \* concurrent DELETE handlers a deployment may have
    AppName,         \* the name a deployment is submitted under and looked up by
    Accounts,        \* Lightning AI accounts the user has keys of
    Cap,             \* _MAX_CONCURRENT_PER_USER
    StatusRefresh,   \* FALSE: LLMOPS_DISABLE_STATUS_REFRESH=1
    MaxRestarts      \* bound on backend restarts

ASSUME RefreshIsBoolean == StatusRefresh \in BOOLEAN

ASSUME BoundsAreNatural == Cap \in Nat /\ MaxRestarts \in Nat

VARIABLES
    status,      \* status column of the row
    endpoint,    \* endpoint_url is set
    submitted,   \* lightning_ai_deployment_id is set
    admitting,   \* POST handlers between preflight and deployment_store.create
    pc,          \* what the deploy task awaits; "idle": no entry in _active_tasks
    reply,       \* answer the awaiting deploy task has not resumed on yet
    thread,      \* a thread executes _sync_deploy
    req,         \* per deployment and DELETE handler: what the handler awaits
    teardownAs,  \* the account whose key a handler's delete call uses
    remote,      \* the deployment on Lightning AI
    owner,       \* the account it was submitted with
    key,         \* validation_status of the credentials row, "none" without one
    account,     \* the account of the credentials row
    snapshot,    \* rows of the refresh tick still to be polled, as it read them
    verdict,     \* answer of the poll the refresh loop has not resumed on yet
    restarts

rowVars     == <<status, endpoint, submitted>>
taskVars    == <<pc, reply, thread>>
reqVars     == <<req, teardownAs>>
remoteVars  == <<remote, owner>>
credVars    == <<key, account>>
refreshVars == <<snapshot, verdict>>
vars == <<rowVars, admitting, taskVars, reqVars, remoteVars, credVars,
          refreshVars, restarts>>

-----------------------------------------------------------------------------
(* Lightning AI. *)

\* Replicas that start, serve, crash or are there no more; scaled to zero; removed.
Remotes == {"absent", "live", "stopped", "gone"}

\* What happens to a deployment without the platform asking for it; nobody is
\* taken to start one again that was scaled to zero.
RemoteMoves == {<<"live", "stopped">>, <<"live", "gone">>, <<"stopped", "gone">>}

(* A call is a pair <<what it leaves on Lightning AI, answer>>.  The answers
   are the outcomes the callers tell apart: "url" and "nourl" a submission
   whose address is known or not yet, "auth" LightningAIAuthError, "error" any
   other exception.  start() may take effect and the call still fail; what it
   does where the name is taken is left open too. *)
DeployOutcomes ==
    ({"live"} \X {"url", "nourl", "auth", "error"})
      \cup ({"absent"} \X {"auth", "error"})

Present(d) == remote[d] \in {"live", "stopped"}

(* The deployments a look-up for d with the key of acct can come upon.  Which of
   them the account's default teamspace holds at that moment is left open. *)
Found(d, acct) ==
    {e \in Deployments : AppName[e] = AppName[d] /\ owner[e] = acct /\ Present(e)}

(* LightningAINotFoundError: there is no such deployment, or it was missed: the
   key is another account's, the default teamspace has changed, or an error of
   any kind contains "not found" or "404". *)
Unseen(d) == IF Present(d) THEN "missed" ELSE "notfound"

\* A deletion is a pair <<what it leaves of all deployments, answer>>; it may take
\* effect and still fail.
DeleteOutcomes(d, acct) ==
    ({remote} \X {Unseen(d), "auth", "error"})
      \cup UNION {{[remote EXCEPT ![e] = "gone"]}
                    \X {IF e = d THEN "ok" ELSE "other", "error"} : e \in Found(d, acct)}

(* get_status: what the replicas report of the deployment found, as a status of
   the row; "other" when a deployment of another row was found stopped. *)
Reports(d) ==
    {Unseen(d), "auth", "error"}
      \cup (IF \E e \in Found(d, account) : remote[e] = "live"
            THEN {"deploying", "running", "failed"} ELSE {})
      \cup {IF e = d THEN "deleted" ELSE "other" :
              e \in {f \in Found(d, account) : remote[f] = "stopped"}}

Verdicts == {"deploying", "running", "failed", "deleted", "other", "notfound", "missed",
             "auth", "error"}

-----------------------------------------------------------------------------
(* The type of the state, and the initial state. *)

Replies == {"url", "nourl", "auth", "error"}
TeardownAnswers == {"ok", "other", "notfound", "missed", "auth", "error"}

TypeOK ==
    /\ status     \in [Deployments -> Statuses]
    /\ endpoint   \in [Deployments -> BOOLEAN]
    /\ submitted  \in [Deployments -> BOOLEAN]
    /\ admitting  \in SUBSET Deployments
    /\ pc         \in [Deployments -> {"idle", "scheduled", "deploy"}]
    /\ reply      \in [Deployments -> Replies \cup {"none"}]
    /\ thread     \in [Deployments -> BOOLEAN]
    /\ req        \in [Deployments -> [Requests ->
                        {"idle", "cancelling", "tearing"} \cup TeardownAnswers]]
    /\ teardownAs \in [Deployments -> [Requests -> Accounts]]
    /\ remote     \in [Deployments -> Remotes]
    /\ owner      \in [Deployments -> Accounts]
    /\ key        \in {"none", "valid", "invalid"}
    /\ account    \in Accounts
    /\ snapshot   \in [Deployments -> Polled \cup {"none"}]
    /\ verdict    \in [Deployments -> Verdicts \cup {"none"}]
    /\ restarts   \in 0 .. MaxRestarts

\* Where there is no key or no call, its account is any: nothing reads it.
Init ==
    /\ status    = [d \in Deployments |-> "none"]
    /\ endpoint  = [d \in Deployments |-> FALSE]
    /\ submitted = [d \in Deployments |-> FALSE]
    /\ admitting = {}
    /\ pc        = [d \in Deployments |-> "idle"]
    /\ reply     = [d \in Deployments |-> "none"]
    /\ thread    = [d \in Deployments |-> FALSE]
    /\ req       = [d \in Deployments |-> [r \in Requests |-> "idle"]]
    /\ remote    = [d \in Deployments |-> "absent"]
    /\ key       = "none"
    /\ account   \in Accounts
    /\ owner     = [d \in Deployments |-> account]
    /\ teardownAs = [d \in Deployments |-> [r \in Requests |-> account]]
    /\ snapshot  = [d \in Deployments |-> "none"]
    /\ verdict   = [d \in Deployments |-> "none"]
    /\ restarts  = 0

\* record_key_invalid marks whatever key is stored now.
KeyAfter(answer) == IF answer = "auth" /\ key # "none" THEN "invalid" ELSE key

-----------------------------------------------------------------------------
(* POST /api/deployments *)

Preflight(d) ==
    /\ status[d] = "none"
    /\ d \notin admitting
    /\ key = "valid"
    /\ admitting' = admitting \cup {d}
    /\ UNCHANGED <<rowVars, taskVars, reqVars, remoteVars, credVars, refreshVars, restarts>>

\* The Hugging Face gate, the cap or the duplicate check turns the request down.
Refuse(d) ==
    /\ d \in admitting
    /\ admitting' = admitting \ {d}
    /\ UNCHANGED <<rowVars, taskVars, reqVars, remoteVars, credVars, refreshVars, restarts>>

SlotLeft == Cardinality({e \in Deployments : status[e] \in NonTerminal}) < Cap

Admit(d) ==
    /\ d \in admitting
    /\ SlotLeft
    /\ admitting' = admitting \ {d}
    /\ status' = [status EXCEPT ![d] = "queued"]
    /\ pc' = [pc EXCEPT ![d] = "scheduled"]
    /\ UNCHANGED <<endpoint, submitted, reply, thread, reqVars, remoteVars, credVars,
                   refreshVars, restarts>>

-----------------------------------------------------------------------------
(* The deploy task: run_to_terminal, which hands a GPU row to
   _run_lightning_ai. *)

Return(d) ==
    /\ pc'    = [pc EXCEPT ![d] = "idle"]
    /\ reply' = [reply EXCEPT ![d] = "none"]

\* Credentials removed since the preflight fail the row at once.
Begin(d) ==
    /\ pc[d] = "scheduled"
    /\ status[d] = "queued"
    /\ IF key = "none"
       THEN /\ status' = Written(status, d, "failed")
            /\ Return(d)
            /\ UNCHANGED <<thread, owner>>
       ELSE /\ status' = Written(status, d, "deploying")
            /\ pc' = [pc EXCEPT ![d] = "deploy"]
            /\ thread' = [thread EXCEPT ![d] = TRUE]
            /\ owner' = [owner EXCEPT ![d] = account]
            /\ UNCHANGED reply
    /\ UNCHANGED <<endpoint, submitted, admitting, reqVars, remote, credVars,
                   refreshVars, restarts>>

\* The thread of a cancelled task answers nobody, but it does submit.
CallReturns(d) ==
    /\ thread[d]
    /\ \E o \in DeployOutcomes :
         /\ remote' = [remote EXCEPT ![d] = o[1]]
         /\ reply' = [reply EXCEPT ![d] = IF pc[d] = "idle" THEN "none" ELSE o[2]]
    /\ thread' = [thread EXCEPT ![d] = FALSE]
    /\ UNCHANGED <<rowVars, admitting, pc, reqVars, owner, credVars, refreshVars, restarts>>

\* store_lightning_deployment_id and the status, with no await between them.
Submitted(d) ==
    /\ reply[d] \in {"url", "nourl"}
    /\ submitted' = [submitted EXCEPT ![d] = TRUE]
    /\ endpoint' = [endpoint EXCEPT ![d] = reply[d] = "url"]
    /\ status' = Written(status, d, IF reply[d] = "url" THEN "running" ELSE "deploying")
    /\ Return(d)
    /\ UNCHANGED <<admitting, thread, reqVars, remoteVars, credVars, refreshVars, restarts>>

\* Mutant: an error that is not about the key is only logged.
RejectedUncaught(d) ==
    /\ reply[d] \in {"auth", "error"}
    /\ key' = KeyAfter(reply[d])
    /\ status' = IF reply[d] = "auth" THEN Written(status, d, "failed") ELSE status
    /\ Return(d)
    /\ UNCHANGED <<endpoint, submitted, admitting, thread, reqVars, remoteVars, account,
                   refreshVars, restarts>>

Rejected(d) ==
    /\ reply[d] \in {"auth", "error"}
    /\ key' = KeyAfter(reply[d])
    /\ status' = Written(status, d, "failed")
    /\ Return(d)
    /\ UNCHANGED <<endpoint, submitted, admitting, thread, reqVars, remoteVars, account,
                   refreshVars, restarts>>

-----------------------------------------------------------------------------
(* DELETE /api/deployments/{id}: request_deletion and _delete_lightning_ai. *)

Deletable(d) ==
    /\ status[d] \notin Absent \cup {"deleted", "deleting"}
    /\ key # "invalid"

\* Mutant: no task is cancelled.
NothingToCancelEver(d) == TRUE

NothingToCancel(d) == pc[d] = "idle"

DeleteCancels(d, r) ==
    /\ req[d][r] = "idle"
    /\ Deletable(d)
    /\ ~NothingToCancel(d)
    /\ Return(d)
    /\ req' = [req EXCEPT ![d][r] = "cancelling"]
    /\ UNCHANGED <<rowVars, admitting, thread, teardownAs, remoteVars, credVars,
                   refreshVars, restarts>>

(* A handler that cancelled the task read the row before, without an id: a
   task that is still to be cancelled has stored none. *)
NoIdRead(d, r) == req[d][r] = "cancelling" \/ ~submitted[d]

\* The row is deleted at once when no id or no credentials are there.
DeleteTearsDown(d, r) ==
    /\ \/ req[d][r] = "idle" /\ Deletable(d) /\ NothingToCancel(d)
       \/ req[d][r] = "cancelling"
    /\ IF NoIdRead(d, r) \/ key = "none"
       THEN /\ status' = Written(status, d, "deleted")
            /\ req' = [req EXCEPT ![d][r] = "idle"]
            /\ UNCHANGED teardownAs
       ELSE /\ status' = Written(status, d, "deleting")
            /\ req' = [req EXCEPT ![d][r] = "tearing"]
            /\ teardownAs' = [teardownAs EXCEPT ![d][r] = account]
    /\ UNCHANGED <<endpoint, submitted, admitting, taskVars, remoteVars, credVars,
                   refreshVars, restarts>>

TeardownReturns(d, r) ==
    /\ req[d][r] = "tearing"
    /\ \E o \in DeleteOutcomes(d, teardownAs[d][r]) :
         /\ remote' = o[1]
         /\ req' = [req EXCEPT ![d][r] = o[2]]
    /\ UNCHANGED <<rowVars, admitting, taskVars, teardownAs, owner, credVars,
                   refreshVars, restarts>>

\* Mutant: every answer counts as a confirmed teardown.
SettledRowDeleted(d, answer) == Written(status, d, "deleted")

\* Mutant: an exception the handler does not name is not caught.
SettledRowUncaught(d, answer) ==
    IF answer = "error" THEN status
    ELSE Written(status, d, IF answer = "auth" THEN "failed" ELSE "deleted")

\* An authentication failure here does not mark the key invalid.
SettledRow(d, answer) ==
    Written(status, d, IF answer \in {"auth", "error"} THEN "failed" ELSE "deleted")

TeardownEnds(d, r) ==
    /\ req[d][r] \in TeardownAnswers
    /\ status' = SettledRow(d, req[d][r])
    /\ req' = [req EXCEPT ![d][r] = "idle"]
    /\ UNCHANGED <<endpoint, submitted, admitting, taskVars, teardownAs, remoteVars,
                   credVars, refreshVars, restarts>>

-----------------------------------------------------------------------------
(* The status refresh loop. *)

\* Mutant: a row without an id is polled too.
PollableUnsubmitted(d) == status[d] \in Polled

\* Rows without an id are skipped without a call.
Pollable(d) == status[d] \in Polled /\ submitted[d]

StartTick ==
    /\ StatusRefresh
    /\ \A d \in Deployments : snapshot[d] = "none"
    /\ snapshot' = [d \in Deployments |->
                      IF Pollable(d) THEN status[d] ELSE "none"]
    /\ UNCHANGED <<rowVars, admitting, taskVars, reqVars, remoteVars, credVars,
                   verdict, restarts>>

Poll(d) ==
    /\ snapshot[d] # "none"
    /\ key # "none"
    /\ \A e \in Deployments : verdict[e] = "none"
    /\ \E v \in Reports(d) : verdict' = [verdict EXCEPT ![d] = v]
    /\ UNCHANGED <<rowVars, admitting, taskVars, reqVars, remoteVars, credVars,
                   snapshot, restarts>>

SkipPoll(d) ==
    /\ snapshot[d] # "none"
    /\ key = "none"
    /\ \A e \in Deployments : verdict[e] = "none"
    /\ snapshot' = [snapshot EXCEPT ![d] = "none"]
    /\ UNCHANGED <<rowVars, admitting, taskVars, reqVars, remoteVars, credVars,
                   verdict, restarts>>

\* Mutant: a deployment that is not found is skipped like any other failure.
RefreshedRowsIgnoringAbsence(d) ==
    IF verdict[d] \in {"notfound", "missed", "auth", "error"} THEN {status}
    ELSE {Written(status, d, verdict[d])}

\* Mutant: a poll that fails for any reason is taken for absence.
RefreshedRowsOnAnyFailure(d) ==
    IF verdict[d] \in {"deploying", "running", "failed"}
    THEN {Written(status, d, verdict[d])}
    ELSE {Written(status, d, "deleted")}

(* The reported status is written when it differs from the one the tick read,
   and rewritten with a new message when a running row got its message from
   the deploy task; a deploying row has the reported message already. *)
RefreshedRows(d) ==
    IF verdict[d] \in {"notfound", "missed", "other"} THEN {Written(status, d, "deleted")}
    ELSE IF verdict[d] \notin {snapshot[d], "auth", "error"}
    THEN {Written(status, d, verdict[d])}
    ELSE IF verdict[d] = "running" THEN {status, Written(status, d, "running")}
    ELSE {status}

PollEnds(d) ==
    /\ verdict[d] # "none"
    /\ status' \in RefreshedRows(d)
    /\ key' = KeyAfter(verdict[d])
    /\ snapshot' = [snapshot EXCEPT ![d] = "none"]
    /\ verdict' = [verdict EXCEPT ![d] = "none"]
    /\ UNCHANGED <<endpoint, submitted, admitting, taskVars, reqVars, remoteVars,
                   account, restarts>>

-----------------------------------------------------------------------------
(* The credentials, Lightning AI and the process. *)

\* lightning_ai_credentials_store.save, once Lightning AI accepts the key.
SaveCredentials ==
    /\ key' = "valid"
    /\ account' \in Accounts
    /\ UNCHANGED <<rowVars, admitting, taskVars, reqVars, remoteVars, refreshVars, restarts>>

\* Nothing asks whether deployments are left.
DeleteCredentials ==
    /\ key' = "none"
    /\ UNCHANGED <<rowVars, admitting, taskVars, reqVars, remoteVars, account,
                   refreshVars, restarts>>

RemoteMove(d) ==
    /\ \E stage \in Remotes :
         /\ <<remote[d], stage>> \in RemoteMoves
         /\ remote' = [remote EXCEPT ![d] = stage]
    /\ UNCHANGED <<rowVars, admitting, taskVars, reqVars, owner, credVars,
                   refreshVars, restarts>>

Restart ==
    /\ restarts < MaxRestarts
    /\ restarts' = restarts + 1
    /\ admitting' = {}
    /\ pc' = [d \in Deployments |-> "idle"]
    /\ reply' = [d \in Deployments |-> "none"]
    /\ thread' = [d \in Deployments |-> FALSE]
    /\ req' = [d \in Deployments |-> [r \in Requests |-> "idle"]]
    /\ snapshot' = [d \in Deployments |-> "none"]
    /\ verdict' = [d \in Deployments |-> "none"]
    /\ UNCHANGED <<rowVars, teardownAs, remoteVars, credVars>>

-----------------------------------------------------------------------------
(* The specification. *)

DeployTask(d) ==
    \/ Begin(d) \/ Submitted(d) \/ Rejected(d)

DeleteHandler(d, r) ==
    \/ DeleteCancels(d, r) \/ DeleteTearsDown(d, r)
    \/ TeardownReturns(d, r) \/ TeardownEnds(d, r)

Refresh(d) == Poll(d) \/ SkipPoll(d) \/ PollEnds(d)

Next ==
    \/ \E d \in Deployments :
         \/ Preflight(d) \/ Refuse(d) \/ Admit(d)
         \/ DeployTask(d) \/ CallReturns(d)
         \/ \E r \in Requests : DeleteHandler(d, r)
         \/ Refresh(d)
         \/ RemoteMove(d)
    \/ StartTick
    \/ SaveCredentials \/ DeleteCredentials
    \/ Restart

Spec == Init /\ [][Next]_vars

(* The event loop runs every coroutine whose await is over, and the refresh
   loop ticks for ever: it catches whatever a poll raises.  Nothing is assumed of
   the calls to Lightning AI, which have no timeout: that they are answered is an
   antecedent of the properties. *)
Fairness ==
    /\ WF_vars(StartTick)
    /\ \A d \in Deployments :
        /\ WF_vars(DeployTask(d))
        /\ WF_vars(SkipPoll(d))
        /\ WF_vars(PollEnds(d))
        /\ \A r \in Requests :
             /\ WF_vars(req[d][r] = "cancelling" /\ DeleteTearsDown(d, r))
             /\ WF_vars(TeardownEnds(d, r))

FairSpec == Spec /\ Fairness

-----------------------------------------------------------------------------
(* Safety. *)

(* A deployment being torn down or already deleted has no deploy task: the
   DELETE handler ends the task before it decides whether the deployment was
   ever submitted, and the refresh only touches rows whose task is over. *)
TeardownExcludesDeploy ==
    \A d \in Deployments :
        (\E r \in Requests : req[d][r] # "idle")
            \/ status[d] \in {"deleting", "deleted"} => pc[d] = "idle"

(* A deployment users can reach can be taken down: a row with an address or a
   running row has the id that DELETE and the refresh need, and the deploy task
   is done with it, whatever the refresh has written over the row. *)
RunningIsTracked ==
    \A d \in Deployments :
        status[d] = "running" \/ endpoint[d] =>
            submitted[d] /\ pc[d] = "idle" /\ ~thread[d]

\* The step acts on an answer about d that is one of these.
ActsOn(d, answers) ==
    \/ verdict[d] \in answers /\ verdict'[d] = "none"
    \/ \E r \in Requests : req[d][r] \in answers /\ req'[d][r] = "idle"

(* FR-017: a submitted deployment is marked deleted only once Lightning AI has
   stopped or removed it: no failed call and no answer that has grown old does
   it.  There are three exceptions, in which the row is marked deleted and the
   deployment lives on: there are no credentials; the look-up missed it; or the
   look-up came upon the deployment of another row and removed that one, or
   found it stopped. *)
TeardownIsConfirmed ==
    [][\A d \in Deployments :
          status[d] # "deleted" /\ status'[d] = "deleted" /\ submitted[d]
              => \/ remote[d] \in {"stopped", "gone"}
                 \/ key = "none"
                 \/ ActsOn(d, {"missed", "other"})]_vars

(* specs/008-gpu-cpu-deploy/research.md:25, "unique deployment name": the DELETE
   of a row whose deployment is gone already, such as a retried one, removes
   nothing. *)
DeleteSparesOthers ==
    [][\A d \in Deployments, r \in Requests :
          TeardownReturns(d, r) /\ ~Present(d) => remote' = remote]_vars

(* A row that says the deployment is on its way is not abandoned: its task or a
   handler that has just cancelled it will write it, or it has the id by which
   the refresh follows it.  Only a restart leaves a row that waits for nobody. *)
DeployingIsAttended ==
    \A d \in Deployments :
        status[d] \in {"queued", "deploying"} =>
            \/ pc[d] # "idle" \/ submitted[d]
            \/ \E r \in Requests : req[d][r] = "cancelling"
            \/ restarts > 0

-----------------------------------------------------------------------------
(* The contract with the rest of the platform. *)

Life == INSTANCE DeploymentLife
            WITH Gpu <- Deployments,
                 task <- [d \in Deployments |-> pc[d] # "idle"]

(* The rows keep the contract of DeploymentLife: whatever the refresh copies
   into a row, its address is set once, with "running", by its deploy task, and
   nothing is copied or torn down while the task is on its way. *)
KeepsContract == Life!LifeSpec

-----------------------------------------------------------------------------
(* Liveness. *)

(* Lightning AI answers every submission and every deletion sooner or later.
   None has a timeout, and each holds _env_lock, without which no other call is
   made, until it is answered. *)
CallsAnswered ==
    \A d \in Deployments :
        /\ []<>~thread[d]
        /\ \A r \in Requests : []<>(req[d][r] # "tearing")

(* If calls are answered and the backend is not restarted, no row stays
   deleting for ever, whatever the answer. *)
TeardownSettles ==
    CallsAnswered /\ [](restarts = 0) =>
        \A d \in Deployments : status[d] = "deleting" ~> status[d] # "deleting"

(* Lightning AI answers every poll sooner or later, and the polls of a
   deployment do not fail for ever. *)
PollsAnswered ==
    \A d \in Deployments :
        /\ []<>(snapshot[d] = "none")
        /\ []<>(verdict[d] # "none") => []<>(verdict[d] \notin {"none", "auth", "error"})

(* SC-003: if polls are answered, a deployment that is gone from Lightning AI
   does not stay running or deploying for ever, not even when a poll answered
   before it went, or a status read before the row changed, is written
   afterwards.  Only missing credentials keep its row as it is, or another
   deployment of the same name, for which it is then taken. *)
GoneIsNoticed ==
    PollsAnswered =>
        \A d \in Deployments :
            remote[d] = "gone" /\ submitted[d] /\ status[d] \in Polled
                ~> \/ status[d] \notin Polled
                   \/ key = "none"
                   \/ Found(d, account) # {}

===============================================================================
