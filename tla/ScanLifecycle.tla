--------------------------- MODULE ScanLifecycle ---------------------------
(***************************************************************************)
(* What the backend promises about a scan, without threads, transactions   *)
(* or requests: the status of every scan row and the set of scans whose    *)
(* security tools are executing.  ScanManager implements it in every       *)
(* schedule in which transactions on one row do not overlap.               *)
(***************************************************************************)
EXTENDS ScanState

CONSTANTS Scans,      \* scan identifiers
          ProjectOf   \* the project of each scan

VARIABLES status,     \* status column of every scan row
          tools       \* scans whose tools are executing

vars == <<status, tools>>

Init == /\ status = [s \in Scans |-> Absent]
        /\ tools = {}

\* No other scan of the project is active.
Free(s) == \A o \in Scans \ {s} :
              ProjectOf[o] = ProjectOf[s] => status[o] \notin ActiveStatuses

Move(s, from, to) == /\ status[s] = from
                     /\ status' = [status EXCEPT ![s] = to]

Create(s) == /\ Free(s)
             /\ Move(s, Absent, "queued")
             /\ UNCHANGED tools

Start(s) == /\ Move(s, "queued", "initializing")
            /\ UNCHANGED tools

\* Tools execute from the moment the scan is running, ...
Run(s) == /\ Move(s, "initializing", "running")
          /\ tools' = tools \cup {s}

\* ... stop before the scan leaves running or cancelling, ...
ToolsEnd(s) == /\ s \in tools
               /\ tools' = tools \ {s}
               /\ UNCHANGED status

Finish(s) == /\ s \notin tools
             /\ \E to \in {"completed", "failed"} : Move(s, "running", to)
             /\ UNCHANGED tools

\* ... and a scan that never ran fails or is cancelled without any.
Abort(s) == /\ \E from \in {"queued", "initializing"},
                  to \in {"failed", "cancelled"} : Move(s, from, to)
            /\ UNCHANGED tools

RequestCancel(s) == /\ Move(s, "running", "cancelling")
                    /\ UNCHANGED tools

ConfirmCancel(s) == /\ s \notin tools
                    /\ Move(s, "cancelling", "cancelled")
                    /\ UNCHANGED tools

\* The backend process dies: nothing executes any more.
Crash == /\ tools' = {}
         /\ UNCHANGED status

\* What one status becomes in the recovery pass of the next boot.
Recovered(st) == CASE st \in {"initializing", "running"} -> "failed"
                   [] st = "cancelling" -> "cancelled"
                   [] OTHER -> st

Recover == /\ tools = {}
           /\ status' = [s \in Scans |-> Recovered(status[s])]
           /\ UNCHANGED tools

Next == \/ \E s \in Scans : \/ Create(s) \/ Start(s) \/ Run(s) \/ ToolsEnd(s)
                            \/ Finish(s) \/ Abort(s)
                            \/ RequestCancel(s) \/ ConfirmCancel(s)
        \/ Crash
        \/ Recover

Spec == Init /\ [][Next]_vars

-----------------------------------------------------------------------------
(* What the promise entails, proved in ScanLifecycleProofs. *)

TypeOK == /\ status \in [Scans -> RowStates]
          /\ tools \subseteq Scans

\* Tools execute only for a scan that is running or being cancelled.
ToolsOnlyWhileActive == \A s \in tools : status[s] \in {"running", "cancelling"}

\* A project has at most one active scan.
OneActivePerProject ==
    \A s, o \in Scans : /\ ProjectOf[s] = ProjectOf[o]
                        /\ status[s] \in ActiveStatuses
                        /\ status[o] \in ActiveStatuses
                        => s = o

\* Tools of two scans of one project never execute together.
OneToolRunnerPerProject ==
    \A s, o \in tools : ProjectOf[s] = ProjectOf[o] => s = o

\* A terminal scan never changes again.
TerminalIsFinal ==
    [][\A s \in Scans : status[s] \in TerminalStatuses => status'[s] = status[s]]_vars

=============================================================================
