---------------------------- MODULE DeploymentRows ----------------------------
(***************************************************************************)
(* The status vocabulary of a row of the `deployments` table, shared by    *)
(* the CPU (GKE) and GPU (Lightning AI) deployment modules, and the one    *)
(* way every component writes it.                                          *)
(*                                                                         *)
(* A row that has not been inserted yet is "none"; a row removed by        *)
(* hard_delete is "erased".  Neither is a value of the column: they stand  *)
(* for the absence of the row.                                             *)
(***************************************************************************)

\* The values the CHECK constraint of the status column admits.
ColumnStatuses == {"queued", "deploying", "running", "failed",
                   "deleting", "deleted", "lost"}

Absent == {"none", "erased"}

Statuses == ColumnStatuses \cup Absent

\* The statuses that occupy a slot of the per-user cap and that block the
\* deletion of the user's credentials.
NonTerminal == {"queued", "deploying", "running", "deleting"}

\* The statuses list_needing_status_refresh selects.
Polled == {"running", "deploying"}

(***************************************************************************)
(* update_status: an unconditional overwrite of the column, and nothing at *)
(* all when the row is gone.  No caller states which status it expects.    *)
(***************************************************************************)
Written(rows, d, new) ==
    [rows EXCEPT ![d] = IF @ \in Absent THEN @ ELSE new]

===============================================================================
