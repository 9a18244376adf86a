------------------------------ MODULE Migrations ------------------------------
(***************************************************************************)
(* Start-up on a database an earlier version left, statement by statement: *)
(* ensure_schema under crashes and statements that fail anywhere.          *)
(*                                                                         *)
(* SQLite is reached through pysqlite, which opens a transaction before an *)
(* INSERT and not before a DDL statement: a CREATE or ALTER TABLE outside  *)
(* of a transaction is committed at once, whatever engine.begin() is       *)
(* around it, and a DDL statement after an INSERT belongs to its           *)
(* transaction.                                                            *)
(***************************************************************************)
EXTENDS Naturals

CONSTANTS
    Rows,          \* the deployments users have or will have
    MaxFailures    \* bound on crashes, failed statements and stops

ASSUME FailuresAreNatural == MaxFailures \in Nat

VARIABLES
    at,        \* the statement start-up is at; "down" and "serving" around it
    disk,      \* what is committed
    view,      \* what the connection sees
    failures

vars == <<at, disk, view, failures>>

-----------------------------------------------------------------------------
(* Databases.  Of the columns only those count that some version added; no two
   have one name.  hardware_type stands for all that the rebuild brings. *)

Staging == "deployments_new"

Tables == {"deployments", "gcp_credentials", "lightning_ai_credentials",
           "deployment_monitoring"}

\* _ADD_COLUMN_MIGRATIONS, in its order: the column and its table.
Additive == << <<"gcp_parent", "gcp_credentials">>,
               <<"lightning_user_id", "lightning_ai_credentials">>,
               <<"model_origin", "deployments">>,
               <<"lightning_teamspace_id", "deployments">>,
               <<"lightning_deployment_uuid", "deployments">>,
               <<"k8s_namespace", "deployments">>,
               <<"k8s_pod_label", "deployments">> >>

Steps == 1 .. 7

Column(i) == Additive[i][1]

TableOf(i) == Additive[i][2]

AddedTo(t) == {Column(i) : i \in {j \in Steps : TableOf(j) = t}}

\* The columns of a table that the code of this version works with.
ColumnsOf(t) == AddedTo(t) \cup (IF t = "deployments" THEN {"hardware_type"} ELSE {})

Columns == {Column(i) : i \in Steps} \cup {"hardware_type"}

Databases == [tables  : SUBSET (Tables \cup {Staging}),
              columns : SUBSET Columns,
              rows    : SUBSET Rows,     \* of deployments
              copied  : SUBSET Rows]     \* of deployments_new

(* What earlier versions left: tables of this version or an earlier one, the
   columns in the order in which the versions added them, no deployments_new. *)
LeftByEarlierVersion(v) ==
    /\ Staging \notin v.tables
    /\ v.copied = {}
    /\ "deployments" \notin v.tables => v.rows = {}
    /\ \A t \in Tables \ v.tables : v.columns \cap ColumnsOf(t) = {}
    /\ "hardware_type" \notin v.columns => v.columns \cap AddedTo("deployments") = {}
    /\ \A i, j \in Steps :
         i < j /\ TableOf(i) = TableOf(j) /\ Column(j) \in v.columns => Column(i) \in v.columns

CreateStaging(v) == [v EXCEPT !.tables = @ \cup {Staging}]

CopyRows(v) == [v EXCEPT !.copied = v.rows]

DropOld(v) ==
    [v EXCEPT !.tables  = @ \ {"deployments"},
              !.columns = @ \ ColumnsOf("deployments"),
              !.rows    = {}]

RenameStaging(v) ==
    [v EXCEPT !.tables  = (@ \ {Staging}) \cup {"deployments"},
              !.columns = @ \cup {"hardware_type"},
              !.rows    = v.copied,
              !.copied  = {}]

CreateTable(v, t) ==
    [v EXCEPT !.tables = @ \cup {t}, !.columns = @ \cup ColumnsOf(t)]

AddColumn(v, i) == [v EXCEPT !.columns = @ \cup {Column(i)}]

-----------------------------------------------------------------------------

InTransaction == {"drop", "rename", "commit"}

Phases == {"rebuild", "create_all", "additive", "monitoring"}

TypeOK ==
    /\ at       \in {"down", "copy", "serving"} \cup Phases \cup InTransaction
    /\ disk     \in Databases
    /\ view     \in Databases
    /\ failures \in 0 .. MaxFailures

Init ==
    /\ at = "down"
    /\ disk \in {v \in Databases : LeftByEarlierVersion(v)}
    /\ view = disk
    /\ failures = 0

\* Mutant: columns are added before deployments is rebuilt without them.
FollowingAddsFirst ==
    [down |-> "additive", additive |-> "rebuild", rebuild |-> "create_all",
     create_all |-> "monitoring", monitoring |-> "serving"]

\* The order of ensure_schema.
Following ==
    [down |-> "rebuild", rebuild |-> "create_all", create_all |-> "additive",
     additive |-> "monitoring", monitoring |-> "serving"]

Passes(phase) ==
    /\ at = phase
    /\ at' = Following[phase]

\* Mutant: every statement is committed, the INSERT and what follows it too.
CommittedEach(v) == v

\* The connection is in the transaction that the INSERT has opened.
Committed(v) == disk

\* A statement leads from one place to another, in the transaction ...
Within(from, to, v) ==
    /\ at = from
    /\ at' = to
    /\ view' = v
    /\ disk' = Committed(v)
    /\ UNCHANGED failures

\* ... or outside of it.
Outside(from, to, v) ==
    /\ at = from
    /\ at' = to
    /\ view' = v
    /\ disk' = v
    /\ UNCHANGED failures

Start == Passes("down") /\ UNCHANGED <<disk, view, failures>>

-----------------------------------------------------------------------------
(* _rebuild_deployments_if_needed. *)

Obsolete == "deployments" \in view.tables /\ "hardware_type" \notin view.columns

RebuildSkipped ==
    /\ ~Obsolete
    /\ Passes("rebuild")
    /\ UNCHANGED <<disk, view, failures>>

\* CREATE TABLE, which an earlier attempt must not have created.
RebuildBegins ==
    /\ Obsolete
    /\ Staging \notin view.tables
    /\ Outside("rebuild", "copy", CreateStaging(view))

RebuildRaises ==
    /\ Obsolete
    /\ Staging \in view.tables
    /\ at = "rebuild"
    /\ at' = "down"
    /\ UNCHANGED <<disk, view, failures>>

Copy == Within("copy", "drop", CopyRows(view))

Drop == Within("drop", "rename", DropOld(view))

Rename == Within("rename", "commit", RenameStaging(view))

\* The indexes are created, and engine.begin() commits.
Commit == Outside("commit", Following["rebuild"], view)

-----------------------------------------------------------------------------
(* The other parts of ensure_schema. *)

\* create_all, a table at a time.
CreateMissing ==
    \E t \in Tables \ view.tables : Outside("create_all", "create_all", CreateTable(view, t))

CreateAllEnds ==
    /\ Tables \subseteq view.tables
    /\ Passes("create_all")
    /\ UNCHANGED <<disk, view, failures>>

\* Mutant: the columns that are there are not looked up.
WantingAll == {i \in Steps : TableOf(i) \in view.tables}

\* What _apply_additive_column_migrations has not passed over.
Wanting == {i \in Steps : TableOf(i) \in view.tables /\ Column(i) \notin view.columns}

AddMissing ==
    \E i \in Wanting :
        /\ \A j \in Wanting : i <= j
        /\ Outside("additive", "additive", AddColumn(view, i))

AdditiveEnds ==
    /\ Wanting = {}
    /\ Passes("additive")
    /\ UNCHANGED <<disk, view, failures>>

\* _ensure_deployment_monitoring_table: create_all has created it.
EnsureMonitoring ==
    Outside("monitoring", Following["monitoring"], CreateTable(view, "deployment_monitoring"))

-----------------------------------------------------------------------------
(* Afterwards. *)

\* A deployment is created, or was already.
InsertRow ==
    \E r \in Rows :
        Outside("serving", "serving", [view EXCEPT !.rows = @ \cup {r}])

(* The process stops, or a statement raises, which lifespan does not catch.
   What is not committed is lost. *)
Fail ==
    /\ at # "down"
    /\ failures < MaxFailures
    /\ failures' = failures + 1
    /\ at' = "down"
    /\ view' = disk
    /\ UNCHANGED disk

EnsureSchema ==
    \/ RebuildSkipped \/ RebuildBegins \/ RebuildRaises
    \/ Copy \/ Drop \/ Rename \/ Commit
    \/ CreateMissing \/ CreateAllEnds
    \/ AddMissing \/ AdditiveEnds
    \/ EnsureMonitoring

Next == Start \/ EnsureSchema \/ InsertRow \/ Fail

Spec == Init /\ [][Next]_vars

\* The supervisor starts the process again and its statements are executed.
FairSpec == Spec /\ WF_vars(Start \/ EnsureSchema)

-----------------------------------------------------------------------------
(* Properties. *)

(* No start-up loses a deployment, at whatever statement it fails: in every
   committed state deployments has the rows it had. *)
NoRowLost == [][disk.rows \subseteq disk'.rows]_vars

\* Requests are served with the tables and columns the code works with only.
ServesThisVersion ==
    at = "serving" =>
        /\ Tables \subseteq disk.tables
        /\ Columns \subseteq disk.columns
        /\ Staging \notin disk.tables

(* A backend that is down serves in the end, whatever the version before it
   and wherever it failed, unless it failed once deployments_new was created
   and before the rebuild was committed. *)
StartSettles ==
    [](at = "down" => Staging \notin disk.tables) => (at = "down" ~> at = "serving")

(* migrations.py:70-71: "we rebuild within a transaction. A failure rolls back
   completely, leaving the old table intact."  The database a failure leaves is
   one that start-up can begin with again. *)
FailureRollsBack == at = "down" => Staging \notin disk.tables

===============================================================================
