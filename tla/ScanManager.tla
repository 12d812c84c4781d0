---------------------------- MODULE ScanManager ----------------------------
(***************************************************************************)
(* Scan execution in the backend process: the scans table, the API         *)
(* handlers that create and cancel scans (backend/services/scan_service.py *)
(* and backend/api/scans.py), the worker pool of                           *)
(* backend/services/scan_manager.py and the start, shutdown and death of   *)
(* the process (backend/main.py).                                          *)
(*                                                                         *)
(* A database transaction is two steps, the read of the row and the        *)
(* commit: sessions are READ COMMITTED, rows carry no version and no query *)
(* locks them, so a commit overwrites whatever another transaction wrote   *)
(* after the read.  With RowLocked = FALSE the steps interleave freely, as *)
(* in the code; RowLocked = TRUE keeps only the schedules in which         *)
(* transactions on one row do not overlap.                                 *)
(***************************************************************************)
EXTENDS ScanState, Naturals, Sequences, FiniteSets

CONSTANTS Scans,          \* scans that may ever be created
          ProjectOf,      \* project of each scan
          LiveScans,      \* scans whose profile is live_probe
          Requests,       \* cancel requests that may be in flight at once
          NoScan,         \* target of an idle request
          MaxWorkers,     \* max_concurrent_scans
          RowLocked,      \* do transactions on one row exclude each other?
          MaxRestarts,    \* bound: deaths of the process
          MaxErrors,      \* bound: exceptions escaping a worker's run
          MaxDbFaults     \* bound: failures of the database

ASSUME ScansAssumption == /\ IsFiniteSet(Scans)
                          /\ LiveScans \subseteq Scans
                          /\ NoScan \notin Scans

ASSUME BoundsAssumption == /\ MaxWorkers \in Nat \ {0}
                           /\ RowLocked \in BOOLEAN
                           /\ {MaxRestarts, MaxErrors, MaxDbFaults} \subseteq Nat

VARIABLES
  (* database *)
  status,         \* status column of each row
  outcomeEvents,  \* terminal events in agent_events, per scan
  (* memory of the backend process *)
  proc,           \* the process: up, stopping (shutdown() called) or down
  created,        \* scans whose create handler has committed, not submitted
  active,         \* keys of ScanManager._active
  signalled,      \* scans whose _ActiveRun.cancel event is set
  queue,          \* FIFO of futures no worker has taken
  worker,         \* where the worker of each scan is
  seen,           \* status its open transaction has read
  result,         \* status of the AgentState the runtime returned
  request,        \* cancel requests in flight
  (* history and bounds *)
  executions,     \* times the tools of each scan were started
  cancelAsked,    \* scans some cancel request was accepted for
  restarts, errors, dbFaults

db    == <<status, outcomeEvents>>
pool  == <<active, signalled, queue, worker, seen>>
hist  == <<executions, cancelAsked>>
count == <<restarts, errors, dbFaults>>
vars  == <<db, proc, created, pool, result, request, hist, count>>

\* idle; TX1 open; scope resolution; TX2 open; discovery; AgentRuntime;
\* terminal mapping, its transaction open; _mark_failed, its transaction open.
WorkerSteps == {"idle", "start", "resolve", "launch", "discover", "runtime",
                "finish", "finishTx", "mark", "markTx"}

Executing == {"discover", "runtime"}
InTransaction == {"start", "launch", "finishTx", "markTx"}

Results == {"none", "finished", "failed", "cancelled"}

EventOf == [completed |-> "scan_completed",
            failed    |-> "scan_failed",
            cancelled |-> "scan_cancelled"]

OutcomeEvents == {"scan_completed", "scan_failed", "scan_cancelled"}

NoRequest == [step |-> "idle", scan |-> NoScan, seen |-> Absent]

Init ==
    /\ status        = [s \in Scans |-> Absent]
    /\ outcomeEvents = [s \in Scans |-> <<>>]
    /\ proc = "up"
    /\ created = {} /\ active = {} /\ signalled = {} /\ queue = <<>>
    /\ worker  = [s \in Scans |-> "idle"]
    /\ seen    = [s \in Scans |-> Absent]
    /\ result  = [s \in Scans |-> "none"]
    /\ request = [r \in Requests |-> NoRequest]
    /\ executions  = [s \in Scans |-> 0]
    /\ cancelAsked = {}
    /\ restarts = 0 /\ errors = 0 /\ dbFaults = 0

-----------------------------------------------------------------------------
(* The database. *)

\* Defect: the index predicate forgets cancelling rows.
IndexForgetsCancelling(s, to) ==
    to \in ActiveStatuses =>
      \A o \in Scans \ {s} :
        ProjectOf[o] = ProjectOf[s] => status[o] \notin ActiveStatuses \ {"cancelling"}

\* The partial unique index lets the row of s take status to.
IndexAllows(s, to) ==
    to \in ActiveStatuses =>
      \A o \in Scans \ {s} : ProjectOf[o] = ProjectOf[s] => status[o] \notin ActiveStatuses

\* UPDATE ... WHERE id = s: unconditional, whatever the row holds by now.
Write(s, to) == /\ IndexAllows(s, to)
                /\ status' = [status EXCEPT ![s] = to]

Record(s, to) == outcomeEvents' = [outcomeEvents EXCEPT ![s] = Append(@, EventOf[to])]

\* A transaction may read the row of s.
Readable(s) ==
    RowLocked => /\ worker[s] \notin InTransaction
                 /\ \A r \in Requests : request[r].step = "commit" => request[r].scan # s

-----------------------------------------------------------------------------
(* POST /scans: commit the queued row, then submit it to the pool. *)

CreateScan(s) ==
    /\ proc = "up"
    /\ status[s] = Absent
    /\ Write(s, "queued")
    /\ created' = created \cup {s}
    /\ UNCHANGED <<outcomeEvents, proc, pool, result, request, hist, count>>

Submit(s) ==
    /\ proc = "up"
    /\ s \in created
    /\ created' = created \ {s}
    /\ IF s \in active
       THEN UNCHANGED <<active, queue>>
       ELSE /\ active' = active \cup {s}
            /\ queue' = Append(queue, s)
    /\ UNCHANGED <<db, proc, signalled, worker, seen, result, request, hist, count>>

-----------------------------------------------------------------------------
(* POST /scans/{id}/cancel: read and check, commit, signal the worker. *)

\* Defect: the worker is signalled before the row is cancelling.
CancelSignalsFirst(r, s) ==
    /\ proc = "up"
    /\ request[r] = NoRequest
    /\ status[s] \in CancellableStatuses
    /\ request' = [request EXCEPT ![r] = [step |-> "commit", scan |-> s, seen |-> status[s]]]
    /\ signalled' = signalled \cup ({s} \cap active)
    /\ cancelAsked' = cancelAsked \cup {s}
    /\ UNCHANGED <<db, proc, created, active, queue, worker, seen, result, executions, count>>

CancelRead(r, s) ==
    /\ proc = "up"
    /\ request[r] = NoRequest
    /\ status[s] \in CancellableStatuses
    /\ Readable(s)
    /\ request' = [request EXCEPT ![r] = [step |-> "commit", scan |-> s, seen |-> status[s]]]
    /\ cancelAsked' = cancelAsked \cup {s}
    /\ UNCHANGED <<db, proc, created, pool, result, executions, count>>

CancelCommit(r) ==
    LET s  == request[r].scan
        to == IF request[r].seen = "running" THEN "cancelling" ELSE "cancelled"
    IN  /\ proc = "up"
        /\ request[r].step = "commit"
        /\ \/ /\ Write(s, to) /\ to = "cancelling"
              /\ request' = [request EXCEPT ![r].step = "signal"]
           \/ /\ Write(s, to) /\ to = "cancelled"
              /\ request' = [request EXCEPT ![r] = NoRequest]
           \/ /\ ~IndexAllows(s, to)        \* IntegrityError: the request fails
              /\ request' = [request EXCEPT ![r] = NoRequest]
              /\ UNCHANGED status
        /\ UNCHANGED <<outcomeEvents, proc, created, pool, result, hist, count>>

\* request_cancel: only a registered run can be signalled.
Signal(r) ==
    /\ proc = "up"
    /\ request[r].step = "signal"
    /\ signalled' = signalled \cup ({request[r].scan} \cap active)
    /\ request' = [request EXCEPT ![r] = NoRequest]
    /\ UNCHANGED <<db, proc, created, active, queue, worker, seen, result, hist, count>>

-----------------------------------------------------------------------------
(* The worker of scan s. *)

Goto(s, step) == worker' = [worker EXCEPT ![s] = step]

\* The worker's transaction reads the row and goes on, ...
Reads(s, step) == /\ Goto(s, step)
                  /\ seen' = [seen EXCEPT ![s] = status[s]]

\* ... is over, ...
Closes(s, step) == /\ Goto(s, step)
                   /\ seen' = [seen EXCEPT ![s] = Absent]

\* ... or _run_scan returns: the entry leaves _active, its event with it.
Leaves(s) == /\ Closes(s, "idle")
             /\ active' = active \ {s}
             /\ signalled' = signalled \ {s}

Alive == proc \in {"up", "stopping"}

Busy == {s \in Scans : worker[s] # "idle"}

\* A free pool thread takes the oldest future and opens TX1.
Take(s) ==
    /\ proc = "up"
    /\ Cardinality(Busy) < MaxWorkers
    /\ queue # <<>> /\ s = Head(queue)
    /\ Readable(s)
    /\ queue' = Tail(queue)
    /\ \/ /\ status[s] = "queued"
          /\ Reads(s, "start")
          /\ UNCHANGED <<active, signalled>>
       \/ /\ status[s] # "queued"
          /\ Leaves(s)
    /\ UNCHANGED <<db, proc, created, result, request, hist, count>>

\* TX1 commits queued -> initializing; IntegrityError escapes to _run_scan.
StartCommit(s) ==
    /\ Alive
    /\ worker[s] = "start" /\ s \notin LiveScans
    /\ \/ /\ Write(s, "initializing")
          /\ Closes(s, "resolve")
       \/ /\ ~IndexAllows(s, "initializing")
          /\ Closes(s, "mark")
          /\ UNCHANGED status
    /\ UNCHANGED <<outcomeEvents, proc, created, active, signalled, queue,
                   result, request, hist, count>>

\* A live_probe scan is refused in TX1, whatever its authorization says.
RefuseLiveProbe(s) ==
    /\ Alive
    /\ worker[s] = "start" /\ s \in LiveScans
    /\ Write(s, "failed") /\ Record(s, "failed")
    /\ Leaves(s)
    /\ UNCHANGED <<proc, created, queue, result, request, hist, count>>

\* Defect: TX2 does not confirm that the scan is still initializing.
LaunchUnchecked(s) ==
    /\ Alive
    /\ worker[s] = "resolve"
    /\ Readable(s)
    /\ Reads(s, "launch")
    /\ UNCHANGED <<db, proc, created, active, signalled, queue, result, request, hist, count>>

LaunchRead(s) ==
    /\ Alive
    /\ worker[s] = "resolve"
    /\ Readable(s)
    /\ \/ /\ status[s] = "initializing"
          /\ Reads(s, "launch")
          /\ UNCHANGED <<active, signalled>>
       \/ /\ status[s] # "initializing"
          /\ Leaves(s)
    /\ UNCHANGED <<db, proc, created, queue, result, request, hist, count>>

\* TX2 commits initializing -> running and the tools start.
LaunchCommit(s) ==
    /\ Alive
    /\ worker[s] = "launch"
    /\ \/ /\ Write(s, "running")
          /\ Closes(s, "discover")
          /\ executions' = [executions EXCEPT ![s] = @ + 1]
       \/ /\ ~IndexAllows(s, "running")
          /\ Closes(s, "mark")
          /\ UNCHANGED <<status, executions>>
    /\ UNCHANGED <<outcomeEvents, proc, created, active, signalled, queue,
                   result, request, cancelAsked, count>>

\* The discovery pre-stage ends; a cancel seen now skips the pipeline.
DiscoveryEnd(s) ==
    /\ Alive
    /\ worker[s] = "discover"
    /\ \/ /\ s \in signalled
          /\ result' = [result EXCEPT ![s] = "cancelled"]
          /\ Goto(s, "finish")
       \/ /\ s \notin signalled
          /\ Goto(s, "runtime")
          /\ UNCHANGED result
    /\ UNCHANGED <<db, proc, created, active, signalled, queue, seen, request, hist, count>>

\* AgentRuntime.execute returns; cancelled only if it saw the event.
RuntimeEnd(s) ==
    /\ Alive
    /\ worker[s] = "runtime"
    /\ \E res \in {"finished", "failed", "cancelled"} :
          /\ res = "cancelled" => s \in signalled
          /\ result' = [result EXCEPT ![s] = res]
    /\ Goto(s, "finish")
    /\ UNCHANGED <<db, proc, created, active, signalled, queue, seen, request, hist, count>>

\* _finish_scan: a terminal row is left alone.
FinishRead(s) ==
    /\ Alive
    /\ worker[s] = "finish"
    /\ Readable(s)
    /\ \/ /\ status[s] \notin TerminalStatuses
          /\ Reads(s, "finishTx")
          /\ UNCHANGED <<active, signalled>>
       \/ /\ status[s] \in TerminalStatuses
          /\ Leaves(s)
    /\ UNCHANGED <<db, proc, created, queue, result, request, hist, count>>

\* Defect: every run that was not cancelled counts as completed.
FinishTargetOptimistic(s) ==
    IF seen[s] = "cancelling" \/ result[s] = "cancelled" THEN "cancelled" ELSE "completed"

\* The status _finish_scan asks for: a requested cancellation wins.
FinishTarget(s) ==
    IF seen[s] = "cancelling" THEN "cancelled"
    ELSE CASE result[s] = "finished"  -> "completed"
           [] result[s] = "cancelled" -> "cancelled"
           [] OTHER                   -> "failed"

\* ScanStateError is swallowed and nothing is written.
FinishCommit(s) ==
    /\ Alive
    /\ worker[s] = "finishTx"
    /\ \/ /\ CanTransition(seen[s], FinishTarget(s))
          /\ Write(s, FinishTarget(s)) /\ Record(s, FinishTarget(s))
       \/ /\ ~CanTransition(seen[s], FinishTarget(s))
          /\ UNCHANGED db
    /\ Leaves(s)
    /\ UNCHANGED <<proc, created, queue, result, request, hist, count>>

\* An exception escapes _execute.
WorkerError(s) ==
    /\ Alive
    /\ worker[s] \in {"resolve", "discover", "runtime"}
    /\ errors < MaxErrors
    /\ errors' = errors + 1
    /\ Goto(s, "mark")
    /\ UNCHANGED <<db, proc, created, active, signalled, queue, seen,
                   result, request, hist, restarts, dbFaults>>

\* _mark_failed gives up on a row that may not become failed.
MarkRead(s) ==
    /\ Alive
    /\ worker[s] = "mark"
    /\ Readable(s)
    /\ \/ /\ CanTransition(status[s], "failed")
          /\ Reads(s, "markTx")
          /\ UNCHANGED <<active, signalled>>
       \/ /\ ~CanTransition(status[s], "failed")
          /\ Leaves(s)
    /\ UNCHANGED <<db, proc, created, queue, result, request, hist, count>>

MarkCommit(s) ==
    /\ Alive
    /\ worker[s] = "markTx"
    /\ Write(s, "failed") /\ Record(s, "failed")
    /\ Leaves(s)
    /\ UNCHANGED <<proc, created, queue, result, request, hist, count>>

\* A transaction of the worker fails: TX1 and TX2 escape to _mark_failed,
\* the live_probe refusal and the terminal transactions swallow the failure.
TransactionFails(s) ==
    /\ Alive
    /\ worker[s] \in InTransaction
    /\ dbFaults < MaxDbFaults
    /\ dbFaults' = dbFaults + 1
    /\ \/ /\ worker[s] \in {"start", "launch"} /\ s \notin LiveScans
          /\ Closes(s, "mark")
          /\ UNCHANGED <<active, signalled>>
       \/ /\ worker[s] \in {"finishTx", "markTx"} \/ s \in LiveScans
          /\ Leaves(s)
    /\ UNCHANGED <<db, proc, created, queue, result, request, hist, restarts, errors>>

-----------------------------------------------------------------------------
(* The process. *)

\* Lifespan exit, once the server has drained its requests: queued futures
\* are cancelled, running workers go on.
Shutdown ==
    /\ proc = "up"
    /\ restarts < MaxRestarts
    /\ created = {}
    /\ \A r \in Requests : request[r] = NoRequest
    /\ proc' = "stopping"
    /\ queue' = <<>>
    /\ UNCHANGED <<db, created, active, signalled, worker, seen, result, request, hist, count>>

\* The process exits or dies; whatever was only in memory is gone.
Exit ==
    /\ Alive
    /\ restarts < MaxRestarts
    /\ restarts' = restarts + 1
    /\ proc' = "down"
    /\ created' = {} /\ active' = {} /\ signalled' = {} /\ queue' = <<>>
    /\ worker'  = [s \in Scans |-> "idle"]
    /\ seen'    = [s \in Scans |-> Absent]
    /\ request' = [r \in Requests |-> NoRequest]
    /\ UNCHANGED <<db, result, hist, errors, dbFaults>>

\* Defects: a status outside the vocabulary; interrupted scans resumed, or
\* taken for cancelled; cancelling rows forgotten.
RecoveredUnknown(st)  == IF st \in {"initializing", "running"} THEN "interrupted" ELSE st
RecoveredResumes(st)  == IF st \in {"initializing", "running"} THEN "queued" ELSE st
RecoveredCancels(st)  == IF st \in {"initializing", "running"} THEN "cancelled" ELSE st
RecoveredForgets(st)  == IF st \in {"initializing", "running"} THEN "failed" ELSE st

\* What recover() makes of a row, ...
Recovered(st) == CASE st \in {"initializing", "running"} -> "failed"
                   [] st = "cancelling" -> "cancelled"
                   [] OTHER -> st

\* Defect: recovery also announces the cancellations it completes.
RecoveryAnnouncesCancel(st) ==
    CASE st \in {"initializing", "running"} -> <<"scan_failed">>
      [] st = "cancelling" -> <<"scan_cancelled">>
      [] OTHER -> <<>>

\* ... the terminal event it records, ...
RecoveryEvents(st) == IF st \in {"initializing", "running"} THEN <<"scan_failed">> ELSE <<>>

\* Defect: queued scans are left in the table and never submitted again.
ResubmitsNothing == {}

\* ... and the scans it submits again.
Resubmitted == {s \in Scans : Recovered(status[s]) = "queued"}

\* The orders in which a query may return a set of rows.
Orders(S) == {q \in [1 .. Cardinality(S) -> S] :
                \A i, j \in DOMAIN q : q[i] = q[j] => i = j}

\* recover() runs before the first request is served: one transaction over
\* all interrupted rows, then the queued ones are submitted in query order.
Boot ==
    /\ proc = "down"
    /\ proc' = "up"
    /\ status' = [s \in Scans |-> Recovered(status[s])]
    /\ outcomeEvents' = [s \in Scans |-> outcomeEvents[s] \o RecoveryEvents(status[s])]
    /\ active' = Resubmitted
    /\ queue' \in Orders(Resubmitted)
    /\ UNCHANGED <<created, signalled, worker, seen, result, request, hist, count>>

\* The database is unavailable at startup: recovery is skipped.
BootWithoutRecovery ==
    /\ proc = "down"
    /\ dbFaults < MaxDbFaults
    /\ proc' = "up"
    /\ dbFaults' = dbFaults + 1
    /\ UNCHANGED <<db, created, pool, result, request, hist, restarts, errors>>

-----------------------------------------------------------------------------
WorkerStep(s) ==
    \/ Take(s) \/ StartCommit(s) \/ RefuseLiveProbe(s) \/ LaunchRead(s) \/ LaunchCommit(s)
    \/ DiscoveryEnd(s) \/ RuntimeEnd(s) \/ FinishRead(s) \/ FinishCommit(s)
    \/ MarkRead(s) \/ MarkCommit(s)

Next ==
    \/ \E s \in Scans : \/ CreateScan(s) \/ Submit(s) \/ WorkerStep(s)
                        \/ WorkerError(s) \/ TransactionFails(s)
    \/ \E r \in Requests : \/ \E s \in Scans : CancelRead(r, s)
                           \/ CancelCommit(r) \/ Signal(r)
    \/ Shutdown \/ Exit \/ Boot \/ BootWithoutRecovery

Spec == Init /\ [][Next]_vars

\* Threads that can run do run, handlers return, a stopping process exits and
\* a dead one is started again.  Nobody has to create, cancel or fail.
Fairness == /\ \A s \in Scans : WF_vars(Submit(s)) /\ WF_vars(WorkerStep(s))
            /\ \A r \in Requests : WF_vars(CancelCommit(r)) /\ WF_vars(Signal(r))
            /\ WF_vars(proc = "stopping" /\ Exit)
            /\ WF_vars(Boot)

FairSpec == Spec /\ Fairness

-----------------------------------------------------------------------------
(* What holds in every schedule of the code, overlapping transactions      *)
(* included.                                                               *)

\* Every variable has its type.
TypeOK ==
    /\ status \in [Scans -> RowStates]
    /\ outcomeEvents \in [Scans -> Seq(OutcomeEvents)]
    /\ proc \in {"up", "stopping", "down"}
    /\ created \subseteq Scans /\ active \subseteq Scans /\ signalled \subseteq Scans
    /\ queue \in Seq(Scans)
    /\ worker \in [Scans -> WorkerSteps]
    /\ seen \in [Scans -> RowStates]
    /\ result \in [Scans -> Results]
    /\ request \in [Requests -> [step : {"idle", "commit", "signal"},
                                  scan : Scans \cup {NoScan}, seen : RowStates]]
    /\ executions \in [Scans -> Nat]
    /\ cancelAsked \subseteq Scans
    /\ restarts \in Nat /\ errors \in Nat /\ dbFaults \in Nat

\* A project has at most one active row, whichever stale commit lands last
\* (uq_scans_project_active; README.md: "One active scan per project").
OneActivePerProject ==
    \A s, o \in Scans : /\ ProjectOf[s] = ProjectOf[o]
                        /\ status[s] \in ActiveStatuses
                        /\ status[o] \in ActiveStatuses
                        => s = o

\* The tools of a scan are started at most once, whatever is resubmitted by
\* recovery, cancelled meanwhile or overwritten by a stale commit.
ExecutedAtMostOnce == \A s \in Scans : executions[s] <= 1

\* A scan is completed only if its agent run really finished.
CompletedOnlyIfFinished ==
    \A s \in Scans : status[s] = "completed" => result[s] = "finished"

\* No scan is cancelling or cancelled that nobody asked to cancel, recovery
\* and interrupted runs included.
CancelledOnlyIfAsked ==
    \A s \in Scans : status[s] \in {"cancelling", "cancelled"} => s \in cancelAsked

\* The event stream of a scan carries at most one terminal event, and a
\* completed or failed row has exactly the one that names it.
OneTerminalEvent ==
    \A s \in Scans :
       /\ Len(outcomeEvents[s]) <= 1
       /\ status[s] \in {"completed", "failed"} => outcomeEvents[s] = <<EventOf[status[s]]>>

\* The terminal mapping never asks for a transition the table refuses: the
\* ScanStateError that _finish_scan swallows would leave the row running with
\* no worker.
TerminalMappingIsValid ==
    \A s \in Scans : worker[s] = "finishTx" => CanTransition(seen[s], FinishTarget(s))

\* No scan waits for ever: while no database call fails, every queued scan is
\* taken by a worker or cancelled, however the pool is loaded, whatever error
\* ends the scans before it and whenever the process restarts.
QueuedEventuallyTaken ==
    \A s \in Scans :
        status[s] = "queued" ~> status[s] # "queued" \/ dbFaults > 0

-----------------------------------------------------------------------------
(* The inductive invariant behind these properties.                        *)

\* No transaction can bring the scan back to running: its tools were started
\* and it is on its way out.
OnItsWayOut(s) == /\ executions[s] = 1
                  /\ status[s] \in {"cancelling"} \cup TerminalStatuses

\* Where the row, the worker and the history of launches agree.
LaunchInv(s) ==
    /\ executions[s] \in {0, 1}
    /\ status[s] \in {Absent, "queued", "initializing"} => executions[s] = 0
    /\ status[s] \in {"running", "cancelling"} => executions[s] = 1
    /\ worker[s] \in {"start", "resolve", "launch"} => executions[s] = 0
    /\ worker[s] \in {"discover", "runtime", "finish", "finishTx"} => executions[s] = 1

\* The result of the run appears once, when the tools have stopped.
ResultInv(s) ==
    /\ executions[s] = 0 => result[s] = "none"
    /\ worker[s] \in {"discover", "runtime"} => result[s] = "none"
    /\ status[s] = "completed" => result[s] = "finished"

\* A terminal event is recorded by the worker's last commit or by recovery.
EventInv(s) ==
    /\ Len(outcomeEvents[s]) <= 1
    /\ worker[s] # "idle" => outcomeEvents[s] = <<>>
    /\ status[s] \in {Absent, "queued", "initializing", "running"} => outcomeEvents[s] = <<>>
    /\ status[s] \in {"completed", "failed"} => outcomeEvents[s] = <<EventOf[status[s]]>>

\* Every trace of a cancellation goes back to a request, and once the worker
\* has been signalled the row is no longer running.
CancelInv(s) ==
    /\ status[s] \in {"cancelling", "cancelled"} => s \in cancelAsked
    /\ s \in signalled => s \in cancelAsked /\ OnItsWayOut(s)
    /\ result[s] = "cancelled" => s \in cancelAsked /\ OnItsWayOut(s)
    /\ worker[s] = "finishTx" =>
         /\ seen[s] \in {"running", "cancelling"}
         /\ seen[s] = "cancelling" => s \in cancelAsked
         /\ result[s] = "cancelled" => seen[s] = "cancelling"

RequestInv(r) ==
    LET s == request[r].scan
    IN  /\ request[r].step \in {"commit", "signal"} => s \in Scans /\ s \in cancelAsked
        /\ request[r].step = "commit" /\ request[r].seen = "running" => executions[s] = 1
        /\ request[r].step = "signal" => OnItsWayOut(s)

ScanInv(s) == LaunchInv(s) /\ ResultInv(s) /\ EventInv(s) /\ CancelInv(s)

\* A dead process has no workers.
DownInv == proc = "down" => \A s \in Scans : worker[s] = "idle"

IInv == /\ DownInv
        /\ \A s \in Scans : ScanInv(s)
        /\ \A r \in Requests : RequestInv(r)

-----------------------------------------------------------------------------
(* What holds when transactions on one row do not overlap (RowLocked).     *)

\* Tools of s execute between the commit of TX2 and the end of the run.
Lifecycle == INSTANCE ScanLifecycle
               WITH tools <- {s \in Scans : worker[s] \in Executing}

\* The manager implements the lifecycle promised to the user.
ImplementsLifecycle == Lifecycle!Spec

\* Without an exception or a database failure every accepted scan reaches a
\* terminal status, restarts and cancellations included.
AcceptedEventuallyTerminal ==
    \A s \in Scans : status[s] # Absent ~>
                         status[s] \in TerminalStatuses \/ errors + dbFaults > 0

-----------------------------------------------------------------------------
(* What the documentation says and overlapping transactions, or an         *)
(* exception in the worker, refute.                                        *)

\* scan_state.py: "Terminal states: completed, failed, cancelled - no
\* transitions out."
TerminalIsFinal ==
    [][\A s \in Scans : status[s] \in TerminalStatuses => status'[s] = status[s]]_vars

\* README.md: after Cancel on a running scan "status moves cancelling ->
\* cancelled within seconds".
CancellingEventuallyCancelled ==
    \A s \in Scans : status[s] = "cancelling" ~> status[s] = "cancelled"

=============================================================================
