--------------------------- MODULE MigrationsProofs ---------------------------
(***************************************************************************)
(* What start-up guarantees for every set of rows and any number of        *)
(* failures: the types, that no row is lost, and that only the schema of   *)
(* this version is served.                                                 *)
(***************************************************************************)
EXTENDS Migrations, TLAPS

\* The statements lead from databases to databases.

LEMMA ColumnsAreColumns == \A t \in Tables : ColumnsOf(t) \subseteq Columns
  BY DEF ColumnsOf, AddedTo, Columns, Tables

LEMMA StatementsKeepType ==
    ASSUME NEW v \in Databases
    PROVE  /\ CreateStaging(v) \in Databases
           /\ CopyRows(v) \in Databases
           /\ DropOld(v) \in Databases
           /\ RenameStaging(v) \in Databases
           /\ \A t \in Tables : CreateTable(v, t) \in Databases
           /\ \A i \in Steps : AddColumn(v, i) \in Databases
           /\ \A r \in Rows : [v EXCEPT !.rows = @ \cup {r}] \in Databases
<1>1. CreateStaging(v) \in Databases
  BY DEF CreateStaging, Databases
<1>2. CopyRows(v) \in Databases
  BY DEF CopyRows, Databases
<1>3. DropOld(v) \in Databases
  BY DEF DropOld, Databases
<1>4. RenameStaging(v) \in Databases
  BY DEF RenameStaging, Databases, Columns, Tables
<1>5. ASSUME NEW t \in Tables PROVE CreateTable(v, t) \in Databases
  BY ColumnsAreColumns DEF CreateTable, Databases
<1>6. ASSUME NEW i \in Steps PROVE AddColumn(v, i) \in Databases
  BY DEF AddColumn, Databases, Columns
<1>7. ASSUME NEW r \in Rows PROVE [v EXCEPT !.rows = @ \cup {r}] \in Databases
  BY DEF Databases
<1> QED BY <1>1, <1>2, <1>3, <1>4, <1>5, <1>6, <1>7

(* The places: out of the transaction the connection sees what is committed;
   in it the rows are where the statements have taken them. *)
TransactionInv ==
    /\ at \notin InTransaction => view = disk
    /\ at = "drop" => view.copied = disk.rows
    /\ at = "rename" => view.copied = disk.rows
    /\ at = "commit" => view.rows = disk.rows

Inv == TypeOK /\ TransactionInv

LEMMA InitInv == Init => Inv
  BY FailuresAreNatural DEF Init, Inv, TypeOK, TransactionInv, InTransaction

LEMMA StepInv == Inv /\ [Next]_vars => Inv'
<1> SUFFICES ASSUME Inv, [Next]_vars PROVE Inv'
  OBVIOUS
<1> USE DEF Inv, TypeOK, TransactionInv, InTransaction, Phases
<1>1. CASE Start
  BY <1>1 DEF Start, Passes, Following
<1>2. CASE RebuildSkipped
  BY <1>2 DEF RebuildSkipped, Passes, Following
<1>3. CASE RebuildBegins
  BY <1>3, StatementsKeepType DEF RebuildBegins, Outside
<1>4. CASE RebuildRaises
  BY <1>4 DEF RebuildRaises
<1>5. CASE Copy
  <2>1. view' = CopyRows(view) /\ disk' = disk /\ at = "copy" /\ at' = "drop" /\ failures' = failures
    BY <1>5 DEF Copy, Within, Committed
  <2>2. view'.copied = disk'.rows
    BY <2>1 DEF CopyRows, Databases
  <2> QED BY <2>1, <2>2, StatementsKeepType
<1>6. CASE Drop
  <2>1. view' = DropOld(view) /\ disk' = disk /\ at = "drop" /\ at' = "rename" /\ failures' = failures
    BY <1>6 DEF Drop, Within, Committed
  <2>2. view'.copied = disk'.rows
    BY <2>1 DEF DropOld, Databases
  <2> QED BY <2>1, <2>2, StatementsKeepType
<1>7. CASE Rename
  <2>1. view' = RenameStaging(view) /\ disk' = disk /\ at = "rename" /\ at' = "commit" /\ failures' = failures
    BY <1>7 DEF Rename, Within, Committed
  <2>2. view'.rows = disk'.rows
    BY <2>1 DEF RenameStaging, Databases
  <2> QED BY <2>1, <2>2, StatementsKeepType
<1>8. CASE Commit
  BY <1>8 DEF Commit, Outside, Following
<1>9. CASE CreateMissing
  BY <1>9, StatementsKeepType DEF CreateMissing, Outside
<1>10. CASE CreateAllEnds
  BY <1>10 DEF CreateAllEnds, Passes, Following
<1>11. CASE AddMissing
  BY <1>11, StatementsKeepType DEF AddMissing, Wanting, Outside
<1>12. CASE AdditiveEnds
  BY <1>12 DEF AdditiveEnds, Passes, Following
<1>13. CASE EnsureMonitoring
  <2>1. CreateTable(view, "deployment_monitoring") \in Databases
    BY StatementsKeepType DEF Tables
  <2> QED BY <1>13, <2>1 DEF EnsureMonitoring, Outside, Following
<1>14. CASE InsertRow
  BY <1>14, StatementsKeepType DEF InsertRow, Outside
<1>15. CASE Fail
  BY <1>15, FailuresAreNatural DEF Fail
<1>16. CASE UNCHANGED vars
  BY <1>16 DEF vars
<1> QED
  BY <1>1, <1>2, <1>3, <1>4, <1>5, <1>6, <1>7, <1>8, <1>9, <1>10, <1>11, <1>12,
     <1>13, <1>14, <1>15, <1>16 DEF Next, EnsureSchema

THEOREM Invariant == Spec => []Inv
  BY InitInv, StepInv, PTL DEF Spec

(* Every reachable state is of the declared types. *)
THEOREM TypeCorrect == Spec => []TypeOK
  BY Invariant, PTL DEF Inv

-----------------------------------------------------------------------------

LEMMA StatementsKeepRows ==
    ASSUME NEW v \in Databases
    PROVE  /\ CreateStaging(v).rows = v.rows
           /\ \A t \in Tables : CreateTable(v, t).rows = v.rows
           /\ \A i \in Steps : AddColumn(v, i).rows = v.rows
           /\ \A r \in Rows : v.rows \subseteq [v EXCEPT !.rows = @ \cup {r}].rows
  BY DEF CreateStaging, CreateTable, AddColumn, Databases

(* Whatever statement of a start-up fails, however often, and whatever version
   left the database: the committed rows of deployments are only added to. *)
THEOREM RowsAreKept == Spec => NoRowLost
<1>1. Inv /\ [Next]_vars => [disk.rows \subseteq disk'.rows]_vars
  <2> SUFFICES ASSUME Inv, Next PROVE disk.rows \subseteq disk'.rows
    OBVIOUS
  <2> USE DEF Inv, TypeOK, TransactionInv, InTransaction
  <2>1. CASE Start \/ RebuildSkipped \/ RebuildRaises \/ CreateAllEnds \/ AdditiveEnds \/ Fail
    BY <2>1 DEF Start, RebuildSkipped, RebuildRaises, CreateAllEnds, AdditiveEnds, Fail
  <2>2. CASE RebuildBegins
    BY <2>2, StatementsKeepRows DEF RebuildBegins, Outside
  <2>3. CASE Copy \/ Drop \/ Rename
    BY <2>3 DEF Copy, Drop, Rename, Within, Committed
  <2>4. CASE Commit
    BY <2>4 DEF Commit, Outside
  <2>5. CASE CreateMissing
    BY <2>5, StatementsKeepRows DEF CreateMissing, Outside
  <2>6. CASE AddMissing
    BY <2>6, StatementsKeepRows DEF AddMissing, Wanting, Outside
  <2>7. CASE EnsureMonitoring
    BY <2>7, StatementsKeepRows DEF EnsureMonitoring, Outside, Tables
  <2>8. CASE InsertRow
    BY <2>8, StatementsKeepRows DEF InsertRow, Outside
  <2> QED
    BY <2>1, <2>2, <2>3, <2>4, <2>5, <2>6, <2>7, <2>8 DEF Next, EnsureSchema
<1> QED
  BY <1>1, Invariant, PTL DEF Spec, NoRowLost

-----------------------------------------------------------------------------

LEMMA TablesAdded == \A i \in Steps : TableOf(i) \in Tables
  BY DEF Steps, TableOf, Additive, Tables

LEMMA StagingIsExtra == Staging \notin Tables /\ "deployments" \in Tables
  BY DEF Staging, Tables

(* A deployments_new that is committed stands next to a deployments that is
   still to be rebuilt, and each phase hands the next what it relies on. *)
SchemaInv ==
    /\ Staging \in disk.tables =>
          "deployments" \in disk.tables /\ "hardware_type" \notin disk.columns
    /\ at = "commit" => Staging \notin view.tables /\ "hardware_type" \in view.columns
    /\ at \in {"create_all", "additive", "monitoring", "serving"} =>
          /\ Staging \notin view.tables
          /\ "deployments" \in view.tables => "hardware_type" \in view.columns
    /\ at \in {"additive", "monitoring", "serving"} => Tables \subseteq view.tables
    /\ at \in {"monitoring", "serving"} => Columns \subseteq view.columns

LEMMA InitSchema == Init => SchemaInv
  BY DEF Init, SchemaInv, LeftByEarlierVersion

LEMMA StepSchema == Inv /\ SchemaInv /\ [Next]_vars => SchemaInv'
<1> SUFFICES ASSUME Inv, SchemaInv, [Next]_vars PROVE SchemaInv'
  OBVIOUS
<1> USE DEF Inv, TypeOK, TransactionInv, InTransaction, Phases, SchemaInv
<1>1. CASE Start
  BY <1>1 DEF Start, Passes, Following
<1>2. CASE RebuildSkipped
  BY <1>2 DEF RebuildSkipped, Passes, Following, Obsolete
<1>3. CASE RebuildBegins
  BY <1>3 DEF RebuildBegins, Outside, CreateStaging, Obsolete, Databases, Staging
<1>4. CASE RebuildRaises
  BY <1>4 DEF RebuildRaises
<1>5. CASE Copy \/ Drop
  BY <1>5 DEF Copy, Drop, Within, Committed
<1>6. CASE Rename
  <2>1. view' = RenameStaging(view) /\ disk' = disk /\ at' = "commit"
    BY <1>6 DEF Rename, Within, Committed
  <2>2. Staging \notin view'.tables /\ "hardware_type" \in view'.columns
    BY <2>1 DEF RenameStaging, Databases, Staging
  <2> QED BY <2>1, <2>2
<1>7. CASE Commit
  BY <1>7 DEF Commit, Outside, Following
<1>8. CASE CreateMissing
  <2>1. PICK t \in Tables \ view.tables : Outside("create_all", "create_all", CreateTable(view, t))
    BY <1>8 DEF CreateMissing
  <2>2. "deployments" \in view'.tables => "hardware_type" \in view'.columns
    BY <2>1 DEF Outside, CreateTable, ColumnsOf, Databases
  <2>3. Staging \notin view'.tables
    BY <2>1, StagingIsExtra DEF Outside, CreateTable, Databases
  <2> QED BY <2>1, <2>2, <2>3 DEF Outside
<1>9. CASE CreateAllEnds
  BY <1>9, StagingIsExtra DEF CreateAllEnds, Passes, Following
<1>10. CASE AddMissing
  <2>1. PICK i \in Wanting : Outside("additive", "additive", AddColumn(view, i))
    BY <1>10 DEF AddMissing
  <2>2. view'.tables = view.tables /\ view.columns \subseteq view'.columns
    BY <2>1 DEF Outside, AddColumn, Databases
  <2> QED BY <2>1, <2>2, StagingIsExtra DEF Outside
<1>11. CASE AdditiveEnds
  <2>1. \A i \in Steps : Column(i) \in view.columns
    BY <1>11, TablesAdded DEF AdditiveEnds, Wanting, Passes
  <2>2. Columns \subseteq view.columns
    BY <1>11, <2>1, StagingIsExtra DEF Columns, AdditiveEnds, Passes
  <2> QED BY <1>11, <2>2 DEF AdditiveEnds, Passes, Following
<1>12. CASE EnsureMonitoring
  <2>1. view' = CreateTable(view, "deployment_monitoring") /\ disk' = view' /\ at = "monitoring" /\ at' = "serving"
    BY <1>12 DEF EnsureMonitoring, Outside, Following
  <2>2. /\ view'.tables = view.tables \cup {"deployment_monitoring"}
        /\ view.columns \subseteq view'.columns
    BY <2>1 DEF CreateTable, Databases
  <2>3. "deployment_monitoring" \in view.tables
    BY <2>1 DEF Tables
  <2> QED BY <2>1, <2>2, <2>3
<1>13. CASE InsertRow
  BY <1>13 DEF InsertRow, Outside, Databases
<1>14. CASE Fail
  BY <1>14 DEF Fail
<1>15. CASE UNCHANGED vars
  BY <1>15 DEF vars
<1> QED
  BY <1>1, <1>2, <1>3, <1>4, <1>5, <1>6, <1>7, <1>8, <1>9, <1>10, <1>11, <1>12,
     <1>13, <1>14, <1>15 DEF Next, EnsureSchema

(* What is served has the tables and columns of this version, whatever
   database start-up found and however often it failed before. *)
THEOREM SchemaIsServed == Spec => []ServesThisVersion
<1>1. Spec => []SchemaInv
  BY InitSchema, StepSchema, Invariant, PTL DEF Spec
<1>2. Inv /\ SchemaInv => ServesThisVersion
  BY DEF Inv, TransactionInv, InTransaction, SchemaInv, ServesThisVersion
<1> QED BY <1>1, <1>2, Invariant, PTL

===============================================================================
