# The LLMOps platform in TLA+

This directory is a verification development of the platform: its backend
(`src/backend/src/`) and the page of its frontend that keeps state of its own.
It models, checks with TLC and partly proves with TLAPS the parts whose mistakes
cost money or lose data. First, what happens to a model deployment between the
click on *Deploy* and the moment its cloud resources are really gone, while
tasks are cancelled, threads outlive them, polls answer late, credentials change
and the process restarts. Then what surrounds it: the wait for the rollout,
monitoring and the hardware gauges, sessions and uploads, and the migrations
that run before any of them.

1. [Inventory](#inventory)
2. [Modules and how they correspond to the code](#modules-and-how-they-correspond-to-the-code)
3. [Modelling choices](#modelling-choices)
4. [Runs](#runs), bounds and what each shows
5. [Fairness](#fairness)
6. [Findings](#findings)
7. [Proofs](#proofs)
8. [What is not modelled](#what-is-not-modelled)
9. [Plan](#plan)

Paths below are relative to `backend/src/` unless they start with `specs/`.

## Inventory

The backend is one FastAPI process: one asyncio event loop, a SQLite database
reached by short synchronous sessions (never held across an `await`), and
blocking cloud SDK calls pushed to threads of the default executor. All
concurrency therefore comes from coroutines that interleave at `await`s, and
from threads that go on after the coroutine that awaited them was cancelled.

| Component | State it keeps | Operations | Talks to |
|---|---|---|---|
| Deployment store (`services/deployment_store.py`, `db/models.py`) | the `deployments` rows: status, endpoint, Lightning AI id | `create` (cap, duplicates), `update_status`, `store_lightning_deployment_id`, `list_needing_status_refresh`, `hard_delete` | everything below writes through it |
| GKE lifecycle (`services/deployment_orchestrator.py`, `gcp_real_provider.py`, `api/deployment.py`) | `_active_tasks`, the refresh loop, provider threads | `run_to_terminal`, `_best_effort_rollback`, `request_deletion`/`_delete_gcp`, dismissal, `_refresh_gcp_status` | store, credentials, GCP, monitoring |
| Lightning AI lifecycle (same orchestrator, `lightning_ai_provider.py`) | the same, and `_env_lock` around every SDK call | `_run_lightning_ai`, `_delete_lightning_ai`, `_refresh_lightning_ai_status` | store, credentials, Lightning AI, monitoring |
| GCP and Lightning AI credentials (`credentials_store.py`, `lightning_ai_credentials_store.py`) | one row per user: encrypted key, validation status | save, delete, mark invalid on an authentication failure | preflight of POST and DELETE, every provider call |
| Workload rollout (`kube_client.py`) | none (a polling loop in a thread, with a deadline and a quota timer) | apply manifests, wait for the pod, diagnose, find the address | reports live status into the row |
| Monitoring (`monitoring_orchestrator.py`, `metrics_store.py`, provisioners) | the `deployment_monitoring` rows, data sources and dashboards in Grafana | provision, schedule decommission, decommission cycle, reconcile at start-up | triggered by the orchestrator, reads deployment rows |
| Hardware metrics (`hardware_metrics_collector.py`, `metrics_recorder.py`) | the gauges and counters of `/metrics`, in memory | poll of start-up, of the loop and of a provisioning; record | reads deployment rows; GKE, Lightning AI through `_env_lock` |
| Metrics queries, inference proxy, mock deployment | none | stateless request translation | Prometheus, vLLM, nothing |
| Sessions and idempotency (`session_store.py`, `api/auth*.py`) | in-memory sessions and idempotency records | sign in, touch, revoke, remember a result | every endpoint; upload and mock deployment |
| Model upload (`api/upload.py`, `huggingface.py`, and the frontend's `components/upload.py`) | idempotency record; on the page, the key it sends | upload to the Hub; click, give up, sign out | sessions |
| Migrations (`db/migrations.py`) | the schema, what is committed of it | rebuild a table, create tables, add columns | start-up |
| Grafana links (`grafana_signed_url.py`), secrets (`crypto.py`) | none | sign and verify, encrypt and decrypt | metrics endpoints, credential stores |
| Lifespan (`main.py`) | the background tasks | start-up order, shut-down | all loops |
| Streamlit frontend, other pages | a cache of what it polled | polling client | HTTP API |

What makes the system hard, in one sentence each (the full list, each at its
line, is `hazards` in `PROJECT.json`):

* **Cancelling is not stopping.** `task.cancel()` ends the coroutine; the
  executor thread that runs `create_project` or the rollout wait carries on.
* **Every status write is unconditional.** `update_status` compares nothing, so
  whoever writes last wins: an abandoned thread, a poll judged by an old
  snapshot, a second DELETE.
* **Two requests can pass the same check.** DELETE reads the status, awaits the
  cancelled task, and then acts.
* **Restarts keep the rows and lose the tasks.** Nothing at start-up resumes
  rows that were in progress.
* **Failures that took effect.** A cloud call may fail after it did its work.
* **Credentials change under a deployment**, for GPU ones even to another
  account.
* **A GPU row knows its deployment by a name other rows share**, which is looked
  up in whatever teamspace is the default one at the time, and any error that
  mentions "not found" is taken for absence.
* **Monitoring follows the row from a distance**, through tasks that await
  Prometheus and Grafana between reading the row and writing their own.
* **The rollout wait judges by what it saw**: a list of pods, then of events, of
  a cluster that moves in between, with timers that must neither fire on a
  shortage that is over nor be kept from firing by crashes.
* **One slow call holds up many**: polls take the rows one after the other,
  Lightning AI's share a lock and have no timeout, and start-up awaits a poll.
* **The page gives up before the backend does**, and its next click carries the
  same idempotency key.
* **A transaction is not where the code draws it**: SQLite's driver commits DDL
  statements that `engine.begin()` seems to enclose.

What makes each component correct:

* GKE and Lightning AI lifecycle: a teardown never overlaps the deploy task;
  a row says `running` only when the workload serves; what runs can be taken
  down through the platform; a torn-down deployment does not come back;
  deploys and teardowns end; the cap holds.
* Rollout: what cannot recover ends the wait early, what can does not, a pod
  that is ready ends it at the next poll, and the wait ends.
* Monitoring: what runs gets monitored, what was deleted stops being
  monitored, and not before the seven-day retention is over; what was created
  in Grafana is not lost sight of.
* Hardware metrics: what runs is shown as it is, whatever becomes of the others;
  what runs no more is collected no more; start-up gets past its poll.
* Credentials: a teardown is confirmed by the account that owns the deployment;
  one without credentials leaves the row naming what is still there.
* Sessions and uploads: a session is not accepted beyond its window; what was
  answered is not done again; an accepted upload outlives its session; a success
  the page shows is the answer to an upload of what it shows it for.
* Migrations: no start-up loses a row, whatever statement it fails at; nothing is
  served on half a schema; the next start can go on from where the last failed.

## Modules and how they correspond to the code

```
DeploymentRows            vocabulary of the status column, update_status
  DeploymentLife          the contract of a row (abstract specification)
    Monitoring            EXTENDS it: monitoring over any rows that keep it
      MonitoringProofs    type correctness, safety, consequences of the contract
  GkeDeployment           CPU deployments; implements DeploymentLife (Gpu = {})
    GkeDeploymentProofs   type correctness, inductive invariant, safety
      GkeContractProofs   GkeDeployment implements DeploymentLife; what leaves
                          a project behind, and what outruns the cap
  LightningDeployment     GPU deployments; implements DeploymentLife (Gpu = all)
    LightningDeploymentProofs
                          type correctness, inductive invariant, safety;
                          LightningDeployment implements DeploymentLife
Rollout                   the three kube_client calls inside GkeDeployment's task
  RolloutProofs           type correctness, the four bounds
Collector                 the hardware gauges and the polls that set them
  CollectorProofs         type correctness, the lock of the SDK
Sessions                  sessions, idempotency records and uploads
  UploadPage              EXTENDS it: the page that sends those uploads
    SessionsProofs        type correctness, safety; the page implements Sessions
Migrations                ensure_schema, statement by statement
  MigrationsProofs        type correctness, safety
MCGkeDeployment, MCLightningDeployment, MCMonitoring, MCRollout, MCCollector,
MCUploadPage, MCMigrations
                          model values and symmetry sets for TLC
```

**DeploymentRows** has the seven values of the column's CHECK constraint, `none`
(not inserted) and `erased` (hard-deleted), the two status sets the store's
queries use, and `Written`, which is `update_status`: an unconditional
overwrite, and nothing when the row is gone.

**GkeDeployment** has one action per uninterrupted stretch of a coroutine:

| Code | Variables | Actions |
|---|---|---|
| `POST /api/deployments` | `admitting` (between preflight and `create`) | `Preflight`, `Refuse`, `Admit` |
| `run_to_terminal` | `pc` (the awaited call), `reply` (its answer, not resumed on yet) | `Begin`, `Advance`, `Finish`, `Fail` |
| the provider call itself | `thread`, `cloud` | `CallReturns` |
| `_best_effort_rollback` | `pc` | `RollbackProbed`, `RollbackEnds` |
| `_live_status_update` | `thread` | `LiveStatus` |
| `DELETE`, `request_deletion`, `_delete_gcp` | `req` (one entry per concurrent handler) | `DeleteCancels`, `DeleteTearsDown`, `TeardownReturns`, `TeardownEnds` |
| `dismiss`, `DELETE` of a lost row | `status` | `EraseLost` |
| `refresh_statuses`, `_refresh_gcp_status` | `todo` (the tick's snapshot), `verdict` | `StartTick`, `Poll`, `PollEnds` |
| `credentials_store` | `creds` | `SaveCredentials`, `DeleteCredentials` |
| GCP console, the process | `cloud`, `restarts` | `OutsideDelete`, `Restart` |

The calls are those of `RealGCPProvider` and `kube_client`: they run in threads
that survive cancellation, may take effect and still fail, and look up the
credentials through the row. `FakeGCPProvider`, the provider of the tests, whose
coroutines end with their task, is not modelled.

**LightningDeployment** has the same shape with a deploy task of one call. What
is new: the id the submission returns (`submitted`), the account each call is
made with (`owner`, `teardownAs`, against the current `account`), what Lightning
AI does on its own (`RemoteMove`), a refresh that *copies* the reported status,
and a DELETE that marks the row deleted at once when there is no id or no key.

The id is only a name, `llmops-` and the first 24 characters of the model's
(`lightning_ai_provider.py:222-225`), so `AppName` maps rows to names and need
not be injective. Polls and deletions look the name up in the default teamspace
of the account at hand (356, 403; the stored teamspace id is not used), and take
any error that mentions "not found" or "404" for absence (381, 422). Hence three
outcomes of a look-up for `d` where one might expect two: it finds a deployment of
the name in the account, which may be another row's (`Found`); it says "not found"
and that is so; or it says "not found" of a deployment that is there (`Unseen`,
answer `missed`). When a key of another account is used, only the latter two are
left. The answer `other` stands for a deletion that removed another row's
deployment, or a poll that found another row's stopped.

**DeploymentLife** is what the rest of the platform may rely on about a row,
whichever cloud is behind it: two columns (status, address) and whether a
deploy task is on its way. Both lifecycle modules implement it, under the
refinement mapping `task == the deploy task has not returned` (for GKE, and is
not in its rollback). It states that a row gets its address once, in the step
that makes it running, from its deploy task; that no teardown begins or is
confirmed while that task is on its way; that nothing but the task makes a CPU
row running; and, as explicitly, what is *not* promised: `Report`, `Lose` and
`Confirm` may hit a row in almost any status.

**Monitoring** composes with the rows through that contract only: every row
action of `DeploymentLife` is a step of `Next`, `GoLive` also creates the
provisioning task (`_schedule_monitoring_provision`) and `Confirm` also creates
the task that marks the monitoring row (`_schedule_monitoring_decommission`).
Its own actions are `provision_for_running_deployment` (cut at the awaits of
Prometheus and Grafana), `mark_decommissioning`, `run_decommission_cycle` (cut
after the list is read), and `reconcile_on_startup` in the place `lifespan`
gives it: before any request is served, with the refresh loop already running.
`aged` is a history variable: seven days have passed since the row was last
active. `panel` is what Grafana holds for a deployment: nothing, a data source or
dashboard, or one that is `stray`, because a provisioning that had created it
raised or was cut off, or because the removal failed and
`grafana_provisioner.py` swallowed it. Whether Grafana *created* anything is not
looked at (`GrafanaCreates` may not happen before `ProvisionEnds`), as in the
code, which does not check the status of those answers.

**Rollout** is the inside of three of the calls `GkeDeployment` treats as one
step each, with their deadlines:

| Code | Variables | Actions |
|---|---|---|
| `apply_objects` | `applied` | `Apply`, `ApplyRaises` |
| `wait_deployment_available` | `at`, `began`, `deadline` | `StatusRead`, `Wakes` |
| `_collect_pod_diagnostics` | `listed` (the pod as it was listed) | `PodsListed`, `EventsListed` |
| the verdict of a poll | `quotaSince`, `answer` | `Diagnose` |
| `get_service_lb_ip` | `address` | `ServiceRead`, `NapEnds` |
| the cluster | `stage`, `restarts`, `shortage` | `PodMoves`, `PodReplaced`, `ShortageReported`, `OtherEvent`, `AddressAssigned` |

A pod is listed and its events are listed afterwards, so the pod may be gone and
replaced in between. `readyFor`, `shortFor`, `crashFor` and `clearFor` are history
variables that measure how long something has been so, for the properties only.

**Collector** has one process per poll. `running` moves freely, which is what
`DeploymentLife` allows:

| Code | Variables | Actions |
|---|---|---|
| `poll_running_deployments` | `todo`, `at` | `Lists` (in `StartPolls`, `Tick`, `PollsOnTheSide`), `Collects`, `Resumes` |
| the call in its thread, `_env_lock` | `answer` | `Acquires`, `Returns` |
| `record_hardware_metrics` | `gauge` | `Resumes` |
| `lifespan` | `server` | `StartPolls`, `Serve`, `Tick`, `Restart` |
| the platforms | `changes` | `LoadChanges` |

**Sessions** shares no state with the deployments. It follows the uploads that
carry one idempotency key:

| Code | Variables | Actions |
|---|---|---|
| `create_session`, `revoke` | `session`, `expires` | `SignIn`, `LogOut` |
| `require_session`, `validate_and_touch` | `at`, `seenAt` (the time read) | `Send` reads; `Touch` or `Expire` writes |
| the same for any other request | `expires` | `Poll` |
| `start_upload`, `check_idempotency` | `at`, `record` | `StartUpload` |
| `upload_model_folder`, which may lose files and return | `at` | `UploadReturns` |
| `store_idempotency_result` and the answer | `record` | `Succeed`, `Fail` |
| time, the process | `now`, `restarts` | `Tick`, `Restart` |

`require_session` is a plain function, which FastAPI runs in its thread pool: so
its reading and its writing are two steps, and requests overtake each other
between them. `used` and `repeats` are history variables: when a session was
last accepted, and which uploads were sent after one of the key was answered.
What an answered request was sent with is forgotten, and a new session takes
the place of one that is over, so that the state space stays small.

**UploadPage** composes `Sessions` with `render_upload_section`. Streamlit runs a
page's script from top to bottom, so while a request is under way the page can
do nothing but time out; `waiting` is the upload it waits for, `nonce` whether it
has a key (`_request_nonce`), and `mine` the token it signed in with:

| Code | Actions |
|---|---|
| the button | `Click`, a `Send` with the page's key and token |
| the answer and what the page makes of it | `Reacts`, with any step of the backend |
| `requests.post(..., timeout=300)` | `GivesUp` |
| Sign Out, reload | `Leaves` |

Every step of the page is a step of `Sessions` or leaves it alone
(`PageUsesSessions`, proved), so what holds there holds behind the page.

**Migrations** has the database twice: `disk`, what is committed, and `view`, what
the connection sees. A statement is `Outside` (committed at once: what pysqlite
does with DDL) or `Within` (part of the transaction the `INSERT ... SELECT` has
opened). `_rebuild_deployments_if_needed` is `RebuildSkipped`, `RebuildBegins`,
`Copy`, `Drop`, `Rename`, `Commit`; `create_all` is `CreateMissing` and
`CreateAllEnds`; the additive columns are `AddMissing` and `AdditiveEnds`;
`RebuildRaises` is `CREATE TABLE deployments_new` finding the table there. `Fail`,
possible anywhere, is a crash or an exception. `Init` is every database an
earlier version can have left: any subset of the tables, and the columns in the
order in which the versions added them.

## Modelling choices

* **Atomicity.** A step is what runs between two awaits. A database session is
  never open across an await, so each `update_status` is atomic with the code
  around it. Where a call runs in a thread, its effect, its answer and the
  resumption of the task are separate steps.
* **Answers by class.** An exception is one of the classes its callers tell
  apart (`auth`, `notfound`, `error`, `unexpected`), never a message.
* **One user.** The cap, the credentials and the rows are all per user; users
  share nothing but the executor and the two background loops.
* **Statuses only.** Status messages are left out, except where the Lightning
  AI refresh compares them: a rewrite caused by a changed message is a choice
  in `RefreshedRows`.
* **Early returns that cannot be taken** (`run_to_terminal` finding its row
  missing or no longer queued) are left out, and the theorem
  `TaskFindsRowQueued` shows that they cannot.
* **Cap.** The code counts CPU and GPU rows together; each module counts its own,
  which is the same as a smaller set of identities under the same cap.
* **Time.** Only the order of timeouts and answers matters, except in `Sessions`
  and `Rollout`, which have a clock. In `Rollout` it counts polling intervals, and
  `MaxRead`, the time the reads of one poll take at most, is an assumption: the
  Kubernetes client is given no timeout for a read.
* **Bounds.** Of counters: `MaxRestarts`, in `Collector` also `MaxChanges`, in
  `Sessions` `MaxTime` and `MaxUploads`, in `Migrations` `MaxFailures`. In `Rollout`
  the deadlines bound the clock, restarts are counted up to the threshold, and
  the history variables stop counting where it makes no difference. All other
  state is finite by itself.

## Runs

Every run checks a distinct question; expected violations each have a finding.

| Run | Instance | Checks |
|---|---|---|
| `gke_threads` | 1 deployment, 2 DELETE handlers, refresh, console, 1 restart, fair | `TypeOK`, `TeardownExcludesDeploy`, `RunningIsServed`, `RunningIsUntouched`, `RollbackSparesWorkload`, `NoReturnToService`, `KeepsContract`, `DeletingHasHandler`, `LeftBehindByThreadOrDismissal`, `DeploySettles`, `TeardownSettles` |
| `lightning` | 1 deployment, 2 handlers, 2 accounts, refresh, 1 restart, fair | `TeardownExcludesDeploy`, `RunningIsTracked`, `DeployingIsAttended`, `TeardownIsConfirmed`, `KeepsContract`, `TeardownSettles` |
| `lightning_names` | 2 deployments of one name, no DELETE, 2 accounts, refresh, fair | `TeardownIsConfirmed`, `GoneIsNoticed` |
| `monitoring` | 1 CPU and 1 GPU row, 1 restart, fair | `MonitoringTypeOK`, `GrafanaIsTracked`, `RetentionHonoured`, `RetentionEnds`, `LiveIsMonitored` |
| `rollout` | timeout 6, grace 2, address timeout 2, 2 crashes, 2 events, reads of up to 1 | `QuotaIsPersistent`, `HopelessEndsEarly`, `ReadyIsNotMissed`, `EndsInTime` |
| `collector` | 1 CPU and 1 GPU row, 1 poll on the side, 1 change of load, 1 restart, fair | `StartServes`, `CollectionStops`, `LoadIsShown` |
| `sessions` | a page, 3 uploads of its key with 2 payloads, a timeout of 1 in a time of 2, 1 restart, fair | `TypeOK`, `AnsweredIsNotRepeated`, `AcceptedWithinWindow`, `AcceptedReachesFinalState`, `SuccessWasAnswered`, `ConflictIsUnseenSuccess` |
| `migrations` | 2 rows, 3 failures, fair | `ServesThisVersion`, `NoRowLost`, `StartSettles` |
| `gke_orphan_thread`, `lightning_namesake`, `monitoring_orphan`, `migrations_wedged` | the smallest instance each | one property each, violated: see [Findings](#findings) |

**What the passing runs show.** In the setting of production (`gke_threads`) the
things that could really hurt a user of a *running* model do not happen: nothing
the backend started is still at work on it, no rollback is under way on a
project whose workload is applied, and once a teardown has begun the row never
says running again. As long as the process stays up and no teardown raises what
nobody catches, every teardown also ends, and so does every deploy, if none of
its calls hangs and no wait for its workload outlives its task. A project is
left behind, with a row that DELETE ignores or none, in two ways only: a thread
that outlives its task creates it, or a row taken for lost is dismissed; no
failed teardown, no failed rollback and no overlap of DELETEs does it.
`lightning` shows that a row with an address can always be taken down, that only
a restart leaves a deploying row nobody will write, and that teardowns end if
calls are answered. With `lightning_names` it shows what `deleted` means of a
submitted GPU row: its deployment is stopped or removed, or one of three things
has gone wrong that the code does not notice (there was no key; the look-up
missed the deployment; it came upon another row's). No failed call and no answer
that has grown old does it. `lightning_names` also shows that a deployment that
is gone does not stay running for ever, unless the credentials are missing or
another of its name is there and answers for it. `monitoring` shows that the decommission cycle, although it acts
on a list read before its awaits, never removes a row before its retention is
over, and that only a failed call or a restart loses sight of what is in
Grafana.

`rollout` shows that the wait says "quota" only when every poll of the grace
period saw the shortage, and crashes and shortages that last end it by the next
poll that can see them, although its view of the cluster is put together from
two lists. A pod that is ready ends the wait at the next poll. What a pod that
becomes ready *in the course of* a poll meets is bounded rather than excluded:
such a poll may still fail it for crashes or a shortage that are over, or the
deadline may pass during the sleep that follows, and the property says how long
it can have been ready then, a read or a period. `collector` shows that
overlapping polls, although one may write an older reading over a newer one,
leave the right one in the end, and that a deployment whose calls always fail
does not hold up the others; and that both, and start-up itself, depend on every
call returning. `sessions` shows that once an upload has been answered no later
request of its key runs again, even when an overlapping upload with other files
has overwritten the record; that overtaking requests cannot stretch a session
beyond its window; that nothing that happens to a session stops an upload it has
started; and that the page, which gives up on uploads and clicks again with the
same key, shows a success only for a 200 the backend gave to an upload with
those names. What such a 200 does not say is that the Hub holds every file (see
[Findings](#findings)). `migrations` shows that no crash or failed statement
loses a deployment or lets requests be served on half a schema.

**Why the bounds are enough.** CPU deployments interact only through the cap, the
credentials row and the order of a refresh tick, and GPU ones through their names
on Lightning AI besides. The safety properties speak of one deployment, and the
theorems below hold of any number; the cap is a theorem only, for any cap. Two
deployments of one name are the least in which one is taken for the other, by
polls (`lightning_names`) and by a DELETE (`lightning_namesake`). Two
handlers are the smallest in which DELETEs overlap, and a third would find the
row as the second does. One restart can fall between any two steps, and a second
one finds what the first could. Two accounts tell apart "the one it was
submitted with" and "another". A CPU and a GPU row are the two kinds
`Monitoring` and `Collector` tell apart; one provisioning at a time is what
start-up waits for, and one poll on the side is the least that overlaps the
loop's and competes for the lock. One change of load is enough for a reading to
be old. In `Rollout` a grace period of two intervals is the least that a
shortage can be seen, not seen and seen again in, a timeout of six leaves room
for that to happen twice, and two events are the least in which another pushes
the shortage back without pushing it out. Three uploads are one that is
answered, one that overlaps it and one that is sent afterwards; a timeout of 1
in a time of 2 is the least in which a session slides, and in which a request
that read the clock before the slide writes after it. Two rows are one that was
there and one that is inserted later, and three failures let start-up fail, fail
again on what that left, and be stopped once more when it serves. Deadlock is
checked in every run: the users, the refresh loop, or the start-up that is tried
again can always do something (in `Rollout`, which ends, the last state repeats
itself).

## Fairness

* GKE (`GkeDeployment!Fairness`): the event loop resumes a coroutine whose await
  is over, and a DELETE handler that has begun runs on: the one call it awaits,
  `delete_project`, is bounded by `.result(timeout=600)`. Of the calls of a deploy
  task nothing is assumed. Some have a deadline of their own, but none of the
  reads and writes of `kube_client` (65, 89-124, 180, 271, 321, 555) passes a
  request timeout, and one that hangs holds up even the loops that have a
  deadline. That they return is therefore an antecedent of `DeploySettles`
  (`CallsReturn`). Users, the console, the refresh loop and restarts owe nothing.
* Lightning AI: the SDK calls have **no** timeout and all hold `_env_lock`. That
  they are answered is therefore not assumed by the specification but an
  antecedent of the properties: `CallsAnswered` of submissions and deletions, with
  the absence of a restart, where a teardown has to end; `PollsAnswered` of polls,
  which also must not fail for ever, where something has to be noticed. What is
  assumed is the loop itself, which catches whatever a poll raises and ticks again.
* Monitoring: tasks run, the HTTP clients have timeouts (15 s and 5 s), the loop
  ticks every minute and catches what a cycle raises, days pass, and a scrape
  file that could not be removed once can be removed in the end (strong
  fairness of `SweepEnds`). The hardware poll `lifespan` awaits before serving
  has no timeout and is assumed to return. `LiveIsMonitored` holds only if
  Grafana can be reached, which its antecedent says: a provisioning that raises
  is not tried again before the next restart.
* Collector: a coroutine goes on when what it awaits is there; the loop lists
  the rows again every 15 seconds whether or not the last list raised. That
  calls return is *not* assumed: none has a timeout of its own, so it is an
  antecedent (`CallsReturn`) of all three properties. A thread that waits for
  `_env_lock` is given it in the end only under that antecedent too.
* Sessions and the page: threads and coroutines run. Clients and time owe
  nothing, and since `huggingface.py` gives the calls to the Hub no timeout, that
  they return is an antecedent (`HubAnswers`) and not assumed.
* Migrations: a process that is down is started again, and statements are
  executed.
* Rollout: none. Its properties are bounds on the clock, and time does not pass
  beyond the next thing the thread has to do.

## Findings

Each is a run TLC ends with a counterexample, and a disagreement between the
code and what the repository says of it.

1. **An abandoned `create_project` orphans a project** (`gke_orphan_thread`).
   DELETE cancels the task, finds no project and marks the row deleted; the
   thread then creates the project. `deleted` rows ignore DELETE, so the
   platform has no way left to remove it.
2. **A DELETE removes another row's deployment** (`lightning_namesake`). The first of
   two deployments of a model is gone from Lightning AI without the platform
   (removed on its dashboard, say, and not polled yet); while its DELETE is under
   way the second is submitted, under the same name; the DELETE looks up the name
   and removes it. `specs/008-*/research.md:25` calls the name unique. The row of
   the second goes on saying running until a poll finds nothing.
3. **The monitoring of a deleted deployment stays active** (`monitoring_orphan`):
   a DELETE confirmed while provisioning awaits Grafana marks a monitoring row
   that does not exist yet; the row is then created, active, and nothing ever
   retires it.
4. **A failed rebuild is not rolled back** (`migrations_wedged`).
   `migrations.py:70-71` says that a failure leaves the old table intact and
   nothing else. The rows are safe (`NoRowLost`), but `CREATE TABLE
   deployments_new` is committed before the transaction begins, so a crash or a
   copy that fails leaves it behind, and every later start-up raises on creating
   it again.

The same models reach further states worth knowing, for which there is no run of
its own.

*Deployments.* The rollout wait goes on in its thread after a cancellation, and
its `_live_status_update` turns a deleted row into deploying, or a failed one,
which then stays so for ever. A restart during a teardown leaves the row deleting
for ever, since DELETE returns early on it, the refresh does not poll it, and the
recovery `data-model.md:51` mentions does not exist. A row lost by the refresh and
dismissed while its deploy task is alive orphans the project that task goes on
building. A lost row does not count for the cap, and one that comes back exceeds
it. A thread that waits for a workload after its task was cancelled writes
deploying over a failed row, with the same effect on the cap. Two DELETEs that both
pass the check run two teardowns. A poll answered late
writes `lost` over `deleting` or `deleted`. A create that took effect and then
failed is not rolled back (the failed row can still be deleted). GCP credentials
can be removed while failed or lost rows still have projects. A DELETE with
another account's key, or with none, marks a GPU row deleted while it runs on. So
does any DELETE or poll whose look-up misses a deployment that is there: the
default teamspace of the account is another by now, or an error that mentions "not
found" or "404" came from somewhere else; and a poll that finds another row's
deployment of the name stopped. A poll that finds it running says so of a row
whose own deployment is gone. A
GPU row whose submission did not know its URL yet turns running by the refresh
and never gets one, so that inference on it is refused (the intent of
`specs/008-*/spec.md` SC-003 is otherwise). A GPU row the refresh copies to
`deleted`, and a lost row, keep their monitoring.

*Sessions and uploads.* Overlapping uploads of one key both run, since the record
is written after the upload (`specs/006-*/quickstart.md:83` says otherwise). A
session at the very end of its window can survive its logout: a request that
found it expired writes `expired` over `revoked` after another one, which read the
clock earlier, has extended it, and only the date of an expired session is looked
at. The fingerprint of an upload is its repository and its sorted file names: an
edited file of the same name is answered from the record. After a success the
page did not wait for, its key is refused for other files until the user signs
out or reloads, and the page explains that 409 as a repository owned by somebody
else (`components/upload.py:146-150`). Root files that fail to upload next to
folders are lost without a trace in the answer (`huggingface.py:81-84`, `89-90`),
and folders that fail for reasons other than 403 and 409 are only listed in it
(110-124): both are answered 200, even when nothing arrived, which the page calls
"Successfully uploaded" (`components/upload.py:124-127`) and the idempotency record
repeats.

*Rollout.* The phase of the pod is not looked at, so a shortage left among the
events of a pod that runs counts. A list that fails resets the quota timer and
wipes the diagnostics shown. The manifest of a CPU deployment asks for no GPU, so
the quota verdict concerns clusters the platform does not create. A name cut at
50 characters by `_safe_name` may end in a dash. `delete_manifest_objects` is not
called.

*Metrics.* A poll under way when a deployment is deleted still writes its gauge,
and gauges are never removed. One Lightning AI call that hangs blocks every other
row of that poll, and start-up. With rows polled one after the other SC-002's two
minutes are not bounded by anything.

Things met while reading and outside the models: `_hf_token_for_user`
(`deployment_orchestrator.py:658`) takes the token of the user's oldest session,
revoked ones included; `clear_session` drops `_request_nonce` and `pending_action`,
so the `reauth_completed` branch of the upload page (006 `quickstart.md:85`) is
never taken; a metrics answer is `empty` only before the first inference, not
"when no inference in range" (010 `data-model.md`); the fallback query
(`metrics_query.py:294`) is outside its `try`; a proxied answer that is not JSON
is counted as neither success nor error; a Grafana link is valid for 15 minutes
whatever becomes of the deployment; and the scrape file that decommissioning
unlinks is written by nothing.

## Proofs

The theorems hold for every value of the constants: any set of deployments,
handlers, rows, sessions, payloads; any cap, timeout, number of restarts and of
failures; any sharing of names. The only assumptions are the named ones of the
modules: that bounds are naturals and switches Booleans, in `Sessions` that
there is a session and a payload to speak of (`SomethingToSend`), in `Rollout`
that the grace period and the thresholds are not zero (they are constants of the
code, and with no grace period at all `HopelessEndsEarly` would be off by one
poll), and in `Collector` that the names of polls and rows do not clash. Where a
run does not check its module's type invariant (`LightningDeployment`, `Rollout`,
`Collector`, `Migrations`, the page of `UploadPage`) the theorem is what
establishes it.

**GkeDeploymentProofs.** `TypeCorrect` is `Spec => []TypeOK`. The safety invariants
are not inductive: that a running row has no thread, for example, needs to know
that an answer and a thread of the same call exclude each other. `IInv` is
`TypeOK` and, for every deployment, `Coherent(d)`:

* `TaskAndThread`: a task that awaits a call has either the call in progress or
  its answer pending, and only a task that is gone leaves a thread behind;
* `NothingBeforeRow`: before the row exists nothing runs for it;
* `TeardownAlone`: teardown and deploy task exclude each other;
* `WorkloadIsLate`, `StageOfCall`: how far the project can be at each call;
* `Serving`: what the properties say of a running row;
* `RefreshIsLate`: the refresh loop deals only with rows past queued.

Every part of `Coherent` speaks of one deployment. The proof that a step keeps
it has one lemma per action, at the deployment it acts on; `Frame` and
`OthersSame` cover all others at once (an action that leaves every variable
of `e` alone keeps `Coherent(e)`). From `Invariant` follow
`TeardownAfterDeploy`, `TaskFindsRowQueued`, `RunningServed`, `RunningUntouched`
and `RollbackSpares`. `NoReturn` (`[](deleting => [](not running))`) needs one
fact more: a deployment that has been torn down has no task and keeps none
(`RetiredStable`), so no step can write `running`. `DeletingHandled` (an action
property) follows `IInv` through every write of the status: only `DeleteTearsDown`
sets a row deleting, and its handler is then awaiting the call; and of the
answers a handler can get (`HandlerAnswered`) only `unexpected` leaves the row as
it is, which is the exception the property names.

**GkeContractProofs.** `Contract` is `Spec => KeepsContract`: the program implements
`DeploymentLife`. `CInv` adds `AtWork`, the statuses a row may have while its
task is at work (deploying, or lost, or erased), since the contract lets an
address be set only from two of them. Then each action is shown to be one step
of the contract or none: what the step does to the `task` function
(`TasksAfter`, `TaskOver`, `TasksSame`), what it does to the row, and which
action of the contract that is.

`ProjectsLeftBehind` and `CapOutrun` say what becomes of two promises the code does
not keep, that no project is orphaned and that the cap holds, with threads and
the refresh loop at work. For the first, a step that leaves a project behind either
brings the project into being or takes its row or its last teardown to the end:
the first is the thread of `create_project` (`OnlyCreates`), the second a dismissal,
and a teardown gets `ok` or `notfound` only with the project gone or the row
erased (`DeletionAnswered`), since a handler that awaits an answer has no deploy
task beside it (`TeardownAlone`). For the second, `LiveOnlyByAdmission` shows that
no step but `Admit` adds to the rows that are queued, deploying or running, unless
it brings one back that was over (`BroughtBack`): a lost one whose task goes on, or
one over which the thread that waits for its workload writes. `Admit` looks at the
cap in the very step that inserts, so that the awaits between preflight and
insertion do no harm; and the rows it counts are finitely many
(`OccupiedFinite`).

**LightningDeploymentProofs.** What `TeardownAfterDeploy`, `ReachableIsTracked` and
`NoneAbandoned` rest on is *when* a row has its id: `IdIsLast` says that it comes
in the very step that ends the deploy task, so that neither the refresh, which
passes over rows without an id (`RefreshFollowsId`), nor a running row
(`ReachableHasId`) ever meets the task. `TaskAndThread`, `NothingBeforeRow`,
`TeardownAlone` are those of GKE with one call instead of many; `Attended` names
who will settle a row in progress: its task, the refresh, or the DELETE that has
cancelled the task.

`DeletionConfirmed` is about answers that are acted upon later than they were
given. `Informed` says that one by which a row is marked deleted, and which was
about the row's own deployment, stays true in between: what Lightning AI has
stopped or removed does not come back (`RemoteMove`), nor does another row's
DELETE bring it back (`DeletionEffect`). The answers that were wrong when they
were given, `missed` and `other`, are the exceptions the property names.
`Contract` (`Spec => KeepsContract`) needs `AtWork`, which statuses a row has
while its submission is on its way, and that a DELETE waits for a task only when
the row has no id. The two lifecycle modules thus implement the same
`DeploymentLife`, one with `Gpu = {}` and one with `Gpu = Deployments`.

**MonitoringProofs.** Nothing here looks into a lifecycle module: rows are what the
contract says. `GrafanaTracked` and `RetentionIsHonoured` rest on who may make a
monitoring row active while a decommission cycle is at a list it read earlier.
The contract answers: a row goes live once, from its deploy task, and nothing
has been provisioned for it before (`FreshIsUnmonitored`); so the task it creates
finds no monitoring row (`ProvisionedOnce`), and only start-up, which no cycle
overlaps (`StartUpIsAlone`), provisions a row again. Hence what a cycle has
listed stays due until it comes to it (`ListedIsDue`). `RowsKeepContract` says that
the module lets the rows do nothing else. `NoLateAddress` and `DeletionIsFinal` are
drawn from the contract alone, and through the two `Contract` theorems hold of
either lifecycle: once a deploy task is over (`Over`) none comes back
(`OverStays`), so a row without an address never gets one, and a CPU row that was
torn down never says running. The first is why a GPU row that the refresh turns
running without an address stays unreachable (see [Findings](#findings)).

**RolloutProofs.** Each part of the invariant bounds how long something can have
been so by the place the thread is at and the time since it came there: `ReadySeen`
and `CrashSeen` by the time since the last poll that would have ended the wait,
`ShortageSeen` by that until the timer starts and by the timer afterwards,
`TimerIsHonest` the other way round (while the timer runs, no poll has failed to
see the shortage), `InTime` the clock by the deadlines. For `ReadyIsSeen`, `ReadySeen`
goes on after the verdict: one that is given after the lists is given at most a
read after the status was found not ready. The theorems
`QuotaOnlyForLasting`, `HopelessIsSeen`, `ReadyIsSeen` and `WaitIsBounded` turn what
the run shows for a grace period of two intervals into a statement about the
300 seconds of the code.

**CollectorProofs.** `TypeCorrect`, and `SDKIsExclusive`: at most one call at a time is
inside the Lightning AI SDK.

**MigrationsProofs.** `TypeCorrect`, `RowsAreKept` (`NoRowLost`) and
`SchemaIsServed`. The invariant says what each place in `ensure_schema` may
assume: outside the transaction `disk` and `view` agree; within it `disk` still
has `deployments` with all rows, and the copy has them before the table is
dropped; and what an earlier phase established, later ones keep. That nothing is
lost does not depend on how often start-up has failed, and that is why the
theorem needs no bound on it.

**SessionsProofs.** `SInv` is `TypeOK` with `Window` (a session is extended at most
`Timeout` beyond its last use, whatever threads write late), `RecordIsBacked` (a
record stands for an upload that was done), `DoneIsRecorded`,
`RepeatsAreRecorded` and the property itself. From it: `AnsweredStays`,
`WithinWindow`. For the page, `PInv` adds that uploads arrive in order and that
the page waits for the last one, which is what makes a record it did not expect
that of an *earlier* click. `PageUsesSessions` is the refinement `PageSpec => Spec`;
`PageSuccessWasAnswered` and `PageConflictIsUnseenSuccess` rest on
`AnswerComesFromHandler` (what the page waits for is answered by its own handler
and nothing else) and `RecordAnswers`.

**Only model-checked**: liveness (`DeploySettles`, `TeardownSettles`,
`GoneIsNoticed`, `RetentionEnds`, `LiveIsMonitored`, `StartServes`,
`CollectionStops`, `LoadIsShown`, `AcceptedReachesFinalState`, `StartSettles`). It
rests on fairness, and so on ENABLED, which the prover cannot reason about. Every
other property of a passing run, invariant or action property, is a theorem.

## What is not modelled

`PROJECT.json` lists every component with its status. In short:

* **Metrics queries.** Reads only: one row is checked, up to 13 queries are
  awaited and their answers formatted. What could be wrong is in the meaning of
  PromQL over the counters of a process that restarts, which a model of
  Prometheus would have to supply.
* **Inference proxy, mock deployment.** Stateless translations; the record the
  mock keeps works as that of an upload.
* **Grafana signed links, encryption.** What protects them is cryptography.
* **The fake GCP provider.** What the tests run against: its coroutines end with
  their task, so that none of the interleavings `GkeDeployment` is about happens.
* **The other pages of the frontend** poll, and keep what they were told.

Within the modelled parts: the duplicate-model confirmation is only a refusal;
the Kubernetes columns of a row are left out; the executor's thread pool is
unbounded; two users do not appear together; between submissions, teardowns and
refreshes of GPU deployments `_env_lock` appears only as the assumption that
calls are answered (in `Collector` it is a lock); the key a GCP call was made
with is not distinguished from the stored one, so that an answer to an old key
that marks a new one invalid is not seen; the calls to the Hub an upload makes
for each folder are one step, and which files arrived is not recorded; what
submitting a deployment under a taken name does on Lightning AI, and which
teamspace is the default one, are left open; the three gauges of a deployment are one; the
repair of data source addresses at start-up is left out.

## Plan

The order is that of what a mistake costs.

1. Rows, GKE lifecycle, its invariant and theorems. *Done.*
2. The contract, GPU lifecycle, monitoring composed on the contract, the proof
   that GKE implements it. *Done.*
3. Sessions, uploads and the page that sends them, with their theorems. *Done.*
4. The rollout wait, migrations with their theorems, the collector, Grafana in
   `Monitoring`. *Done.*
5. Proofs of the safety of `LightningDeployment`, `Rollout` and `Monitoring`, and
   that `LightningDeployment` implements `DeploymentLife`. *Done.*
6. What leaves a project behind and what outruns the cap, as theorems of the
   production setting; look-ups by names that rows share. *Done.*
7. Several keys in time for the GCP credentials, if what their validation status
   promises is ever written down.
8. Further consequences of the contract and of the invariants that no run needs
   to check: what a `failed` row may still have in the cloud, and which overlaps
   of polls can leave an old reading in a gauge.
