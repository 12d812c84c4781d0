----------------------------- MODULE ScanState -----------------------------
(***************************************************************************)
(* The scan status machine of backend/services/scan_state.py: the table of *)
(* valid transitions and the status classes the rest of the backend uses.  *)
(* It has no state of its own; every module about scans EXTENDS it.        *)
(***************************************************************************)

\* A scan row that does not exist yet.
Absent == "absent"

TerminalStatuses == {"completed", "failed", "cancelled"}

\* The statuses named by the partial unique index uq_scans_project_active.
ActiveStatuses == {"queued", "initializing", "running", "cancelling"}

Statuses == ActiveStatuses \cup TerminalStatuses

RowStates == Statuses \cup {Absent}

\* The statuses in which POST /scans/{id}/cancel is accepted.
CancellableStatuses == {"queued", "initializing", "running"}

ValidTransitions ==
    [queued       |-> {"initializing", "cancelled", "failed"},
     initializing |-> {"running", "cancelled", "failed"},
     running      |-> {"completed", "failed", "cancelling"},
     cancelling   |-> {"cancelled"},
     completed    |-> {},
     failed       |-> {},
     cancelled    |-> {}]

CanTransition(current, target) == target \in ValidTransitions[current]

=============================================================================
