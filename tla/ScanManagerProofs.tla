------------------------- MODULE ScanManagerProofs -------------------------
(***************************************************************************)
(* What ScanManager guarantees for any number of scans, projects, cancel   *)
(* requests and workers, in every schedule: overlapping transactions,      *)
(* process deaths, worker exceptions and database faults included; and     *)
(* that it implements the abstract lifecycle.                              *)
(***************************************************************************)
EXTENDS ScanManager, FiniteSetTheorems, SequenceTheorems, TLAPS

(***************************************************************************)
(* Type correctness.                                                       *)
(***************************************************************************)

\* A query returns its rows as a sequence of scans.
LEMMA OrdersAreSequences ==
  ASSUME NEW S \in SUBSET Scans, NEW q \in Orders(S)
  PROVE  q \in Seq(Scans)
<1>1. Cardinality(S) \in Nat
  BY ScansAssumption, FS_Subset, FS_CardinalityType
<1>2. q \in [1 .. Cardinality(S) -> Scans]
  BY DEF Orders
<1> QED
  BY <1>1, <1>2, SeqDef

LEMMA InitTypeOK == Init => TypeOK
BY BoundsAssumption DEF Init, TypeOK, NoRequest, RowStates, WorkerSteps, Results

\* The terminal event of a scan row keeps its type.
LEMMA RecordType ==
  ASSUME TypeOK, NEW s \in Scans, NEW to \in TerminalStatuses, Record(s, to)
  PROVE  outcomeEvents' \in [Scans -> Seq(OutcomeEvents)]
<1>1. EventOf[to] \in OutcomeEvents
  BY DEF EventOf, OutcomeEvents, TerminalStatuses
<1> QED
  BY <1>1 DEF TypeOK, Record

\* One step of one scan's worker preserves the types.
LEMMA WorkerTypeOK ==
  ASSUME TypeOK, NEW s \in Scans,
         WorkerStep(s) \/ WorkerError(s) \/ TransactionFails(s)
  PROVE  TypeOK'
<1> USE DEF TypeOK, Write, Goto, Reads, Closes, Leaves, RowStates, Statuses, ActiveStatuses,
            TerminalStatuses, WorkerSteps, Results, Alive, db, pool, hist, count
<1>1. CASE Take(s)
  <2>1. queue' \in Seq(Scans)
    BY <1>1, HeadTailProperties DEF Take
  <2>2. /\ worker' \in [Scans -> WorkerSteps]
        /\ seen' \in [Scans -> RowStates]
        /\ active' \subseteq Scans /\ signalled' \subseteq Scans
    <3>1. CASE status[s] = "queued"
      <4>1. Reads(s, "start") /\ UNCHANGED <<active, signalled>>
        BY <1>1, <3>1 DEF Take
      <4> QED
        BY <4>1
    <3>2. CASE status[s] # "queued"
      <4>1. Leaves(s)
        BY <1>1, <3>2 DEF Take
      <4> QED
        BY <4>1
    <3> QED
      BY <3>1, <3>2
  <2> QED
    BY <1>1, <2>1, <2>2 DEF Take
<1>2. CASE StartCommit(s)
  BY <1>2 DEF StartCommit
<1>3. CASE RefuseLiveProbe(s)
  BY <1>3, RecordType DEF RefuseLiveProbe
<1>4. CASE LaunchRead(s)
  BY <1>4 DEF LaunchRead
<1>5. CASE LaunchCommit(s)
  <2>1. executions' \in [Scans -> Nat]
    BY <1>5 DEF LaunchCommit
  <2>2. /\ status' \in [Scans -> RowStates]
        /\ worker' \in [Scans -> WorkerSteps]
        /\ seen' \in [Scans -> RowStates]
    BY <1>5 DEF LaunchCommit
  <2> QED
    BY <1>5, <2>1, <2>2 DEF LaunchCommit
<1>6. CASE DiscoveryEnd(s)
  BY <1>6 DEF DiscoveryEnd
<1>7. CASE RuntimeEnd(s)
  BY <1>7 DEF RuntimeEnd
<1>8. CASE FinishRead(s)
  BY <1>8 DEF FinishRead
<1>9. CASE FinishCommit(s)
  <2>1. FinishTarget(s) \in TerminalStatuses
    BY DEF FinishTarget
  <2> QED
    BY <1>9, <2>1, RecordType DEF FinishCommit
<1>10. CASE MarkRead(s)
  BY <1>10 DEF MarkRead
<1>11. CASE MarkCommit(s)
  BY <1>11, RecordType DEF MarkCommit
<1>12. CASE WorkerError(s)
  BY <1>12 DEF WorkerError
<1>13. CASE TransactionFails(s)
  <2>1. /\ worker' \in [Scans -> WorkerSteps]
        /\ seen' \in [Scans -> RowStates]
        /\ active' \subseteq Scans /\ signalled' \subseteq Scans
    BY <1>13 DEF TransactionFails
  <2>2. dbFaults' \in Nat
    BY <1>13 DEF TransactionFails
  <2> QED
    BY <1>13, <2>1, <2>2 DEF TransactionFails
<1> QED
  BY <1>1, <1>2, <1>3, <1>4, <1>5, <1>6, <1>7, <1>8, <1>9, <1>10, <1>11, <1>12, <1>13
     DEF WorkerStep

\* So does every other step.
LEMMA NextTypeOK == TypeOK /\ [Next]_vars => TypeOK'
<1> SUFFICES ASSUME TypeOK, [Next]_vars
             PROVE  TypeOK'
  OBVIOUS
<1> USE DEF TypeOK, RowStates, Statuses, ActiveStatuses, TerminalStatuses,
            WorkerSteps, Results, Alive, db, pool, hist, count
<1>1. ASSUME NEW s \in Scans, CreateScan(s) PROVE TypeOK'
  BY <1>1 DEF CreateScan, Write
<1>2. ASSUME NEW s \in Scans, Submit(s) PROVE TypeOK'
  <2>1. Append(queue, s) \in Seq(Scans)
    BY AppendProperties
  <2> QED
    BY <1>2, <2>1 DEF Submit
<1>3. ASSUME NEW s \in Scans, WorkerStep(s) \/ WorkerError(s) \/ TransactionFails(s)
      PROVE  TypeOK'
  BY <1>3, WorkerTypeOK
<1>4. ASSUME NEW r \in Requests, NEW s \in Scans, CancelRead(r, s) PROVE TypeOK'
  BY <1>4 DEF CancelRead, NoRequest
<1>5. ASSUME NEW r \in Requests, CancelCommit(r) PROVE TypeOK'
  <2>1. status' \in [Scans -> RowStates]
    BY <1>5 DEF CancelCommit, Write
  <2>2. request' \in [Requests -> [step : {"idle", "commit", "signal"},
                                  scan : Scans \cup {NoScan}, seen : RowStates]]
    <3>1. \/ request' = [request EXCEPT ![r].step = "signal"]
          \/ request' = [request EXCEPT ![r] = NoRequest]
      BY <1>5 DEF CancelCommit
    <3>2. CASE request' = [request EXCEPT ![r].step = "signal"]
      BY <3>2
    <3>3. CASE request' = [request EXCEPT ![r] = NoRequest]
      BY <3>3 DEF NoRequest
    <3> QED
      BY <3>1, <3>2, <3>3
  <2> QED
    BY <1>5, <2>1, <2>2 DEF CancelCommit
<1>6. ASSUME NEW r \in Requests, Signal(r) PROVE TypeOK'
  BY <1>6 DEF Signal, NoRequest
<1>7. CASE Shutdown
  BY <1>7 DEF Shutdown
<1>8. CASE Exit
  BY <1>8 DEF Exit, NoRequest
<1>9. CASE Boot
  <2>1. queue' \in Seq(Scans)
    BY <1>9, OrdersAreSequences DEF Boot, Resubmitted
  <2>2. status' \in [Scans -> RowStates]
    BY <1>9 DEF Boot, Recovered
  <2>3. outcomeEvents' \in [Scans -> Seq(OutcomeEvents)]
    <3>1. \A s \in Scans : RecoveryEvents(status[s]) \in Seq(OutcomeEvents)
      <4>1. <<>> \in Seq(OutcomeEvents) /\ <<"scan_failed">> \in Seq(OutcomeEvents)
        BY DEF OutcomeEvents
      <4> QED
        BY <4>1 DEF RecoveryEvents
    <3>2. \A s \in Scans : outcomeEvents[s] \o RecoveryEvents(status[s]) \in Seq(OutcomeEvents)
      BY <3>1, ConcatProperties
    <3> QED
      BY <1>9, <3>2 DEF Boot
  <2> QED
    BY <1>9, <2>1, <2>2, <2>3 DEF Boot, Resubmitted
<1>10. CASE BootWithoutRecovery
  BY <1>10 DEF BootWithoutRecovery
<1>11. CASE UNCHANGED vars
  BY <1>11 DEF vars
<1> QED
  BY <1>1, <1>2, <1>3, <1>4, <1>5, <1>6, <1>7, <1>8, <1>9, <1>10, <1>11 DEF Next

\* Every variable keeps its type, for all constants.
THEOREM TypeCorrect == Spec => []TypeOK
BY InitTypeOK, NextTypeOK, PTL DEF Spec

(***************************************************************************)
(* The inductive invariant.                                                *)
(***************************************************************************)

LEMMA InitIInv == Init => IInv
BY DEF Init, IInv, DownInv, ScanInv, LaunchInv, ResultInv, EventInv, CancelInv, RequestInv,
       NoRequest, Absent

LEMMA TakeIInv ==
  ASSUME TypeOK, IInv, NEW s \in Scans, Take(s)
  PROVE  IInv'
<1> USE DEF IInv, ScanInv, TypeOK, OnItsWayOut, TerminalStatuses, Absent,
            Alive, Goto, Reads, Closes, Leaves, db, pool, hist, count
<1>1. ASSUME NEW t \in Scans PROVE LaunchInv(t)'
  BY DEF Take, LaunchInv
<1>2. ASSUME NEW t \in Scans PROVE ResultInv(t)'
  BY DEF Take, ResultInv, LaunchInv
<1>3. ASSUME NEW t \in Scans PROVE EventInv(t)'
  BY DEF Take, EventInv, LaunchInv
<1>4. ASSUME NEW t \in Scans PROVE CancelInv(t)'
  BY DEF Take, CancelInv, LaunchInv, ResultInv
<1>5. ASSUME NEW r \in Requests PROVE RequestInv(r)'
  BY DEF Take, RequestInv, LaunchInv
<1>6. DownInv'
  BY DEF Take, DownInv
<1> QED
  BY <1>1, <1>2, <1>3, <1>4, <1>5, <1>6

LEMMA StartCommitIInv ==
  ASSUME TypeOK, IInv, NEW s \in Scans, StartCommit(s)
  PROVE  IInv'
<1> USE DEF IInv, ScanInv, TypeOK, OnItsWayOut, TerminalStatuses, Absent,
            Alive, Goto, Reads, Closes, Leaves, db, pool, hist, count
<1>1. ASSUME NEW t \in Scans PROVE LaunchInv(t)'
  BY DEF StartCommit, LaunchInv, Write
<1>2. ASSUME NEW t \in Scans PROVE ResultInv(t)'
  BY DEF StartCommit, ResultInv, LaunchInv, Write
<1>3. ASSUME NEW t \in Scans PROVE EventInv(t)'
  BY DEF StartCommit, EventInv, LaunchInv, Write
<1>4. ASSUME NEW t \in Scans PROVE CancelInv(t)'
  <2>1. executions[s] = 0 /\ result[s] = "none" /\ s \notin signalled
    BY DEF StartCommit, LaunchInv, ResultInv, CancelInv
  <2>2. CASE t = s
    BY <2>1, <2>2 DEF StartCommit, CancelInv, Write
  <2>3. CASE t # s
    BY <2>3 DEF StartCommit, CancelInv, Write
  <2> QED
    BY <2>2, <2>3
<1>5. ASSUME NEW r \in Requests PROVE RequestInv(r)'
  <2>1. executions[s] = 0
    BY DEF StartCommit, LaunchInv
  <2>2. request' = request /\ cancelAsked' = cancelAsked
    BY DEF StartCommit
  <2>3. CASE request[r].scan = s
    BY <2>1, <2>2, <2>3 DEF StartCommit, RequestInv, Write
  <2>4. CASE request[r].scan # s
    BY <2>2, <2>4 DEF StartCommit, RequestInv, Write
  <2> QED
    BY <2>3, <2>4
<1>6. DownInv'
  BY DEF StartCommit, DownInv
<1> QED
  BY <1>1, <1>2, <1>3, <1>4, <1>5, <1>6

LEMMA RefuseLiveProbeIInv ==
  ASSUME TypeOK, IInv, NEW s \in Scans, RefuseLiveProbe(s)
  PROVE  IInv'
<1> USE DEF IInv, ScanInv, TypeOK, OnItsWayOut, TerminalStatuses, Absent,
            Alive, Goto, Reads, Closes, Leaves, db, pool, hist, count
<1>1. ASSUME NEW t \in Scans PROVE LaunchInv(t)'
  BY DEF RefuseLiveProbe, LaunchInv, Write, Record, EventOf
<1>2. ASSUME NEW t \in Scans PROVE ResultInv(t)'
  BY DEF RefuseLiveProbe, ResultInv, LaunchInv, Write, Record, EventOf
<1>3. ASSUME NEW t \in Scans PROVE EventInv(t)'
  <2>1. outcomeEvents' = [outcomeEvents EXCEPT ![s] = <<"scan_failed">>]
    <3>1. outcomeEvents[s] = <<>>
      BY DEF RefuseLiveProbe, EventInv
    <3>2. outcomeEvents' = [outcomeEvents EXCEPT ![s] = Append(outcomeEvents[s], "scan_failed")]
      BY DEF RefuseLiveProbe, Record, EventOf
    <3> QED
      BY <3>1, <3>2
  <2>2. status' = [status EXCEPT ![s] = "failed"] /\ worker' = [worker EXCEPT ![s] = "idle"]
    BY DEF RefuseLiveProbe, Write
  <2> QED
    BY <2>1, <2>2 DEF EventInv, EventOf
<1>4. ASSUME NEW t \in Scans PROVE CancelInv(t)'
  BY DEF RefuseLiveProbe, CancelInv, LaunchInv, ResultInv, Write, Record, EventOf
<1>5. ASSUME NEW r \in Requests PROVE RequestInv(r)'
  BY DEF RefuseLiveProbe, RequestInv, LaunchInv, Write, Record, EventOf
<1>6. DownInv'
  BY DEF RefuseLiveProbe, DownInv
<1> QED
  BY <1>1, <1>2, <1>3, <1>4, <1>5, <1>6

LEMMA LaunchReadIInv ==
  ASSUME TypeOK, IInv, NEW s \in Scans, LaunchRead(s)
  PROVE  IInv'
<1> USE DEF IInv, ScanInv, TypeOK, OnItsWayOut, TerminalStatuses, Absent,
            Alive, Goto, Reads, Closes, Leaves, db, pool, hist, count
<1>1. ASSUME NEW t \in Scans PROVE LaunchInv(t)'
  BY DEF LaunchRead, LaunchInv
<1>2. ASSUME NEW t \in Scans PROVE ResultInv(t)'
  BY DEF LaunchRead, ResultInv, LaunchInv
<1>3. ASSUME NEW t \in Scans PROVE EventInv(t)'
  BY DEF LaunchRead, EventInv, LaunchInv
<1>4. ASSUME NEW t \in Scans PROVE CancelInv(t)'
  BY DEF LaunchRead, CancelInv, LaunchInv, ResultInv
<1>5. ASSUME NEW r \in Requests PROVE RequestInv(r)'
  BY DEF LaunchRead, RequestInv, LaunchInv
<1>6. DownInv'
  BY DEF LaunchRead, DownInv
<1> QED
  BY <1>1, <1>2, <1>3, <1>4, <1>5, <1>6

LEMMA LaunchCommitIInv ==
  ASSUME TypeOK, IInv, NEW s \in Scans, LaunchCommit(s)
  PROVE  IInv'
<1> USE DEF IInv, ScanInv, TypeOK, OnItsWayOut, TerminalStatuses, Absent,
            Alive, Goto, Reads, Closes, Leaves, db, pool, hist, count
<1>1. ASSUME NEW t \in Scans PROVE LaunchInv(t)'
  <2>1. executions[s] = 0
    BY DEF LaunchCommit, LaunchInv
  <2>2. CASE t = s
    BY <2>1, <2>2 DEF LaunchCommit, LaunchInv, Write
  <2>3. CASE t # s
    BY <2>3 DEF LaunchCommit, LaunchInv, Write
  <2> QED
    BY <2>2, <2>3
<1>2. ASSUME NEW t \in Scans PROVE ResultInv(t)'
  BY DEF LaunchCommit, ResultInv, LaunchInv, Write
<1>3. ASSUME NEW t \in Scans PROVE EventInv(t)'
  BY DEF LaunchCommit, EventInv, LaunchInv, Write
<1>4. ASSUME NEW t \in Scans PROVE CancelInv(t)'
  <2>1. executions[s] = 0 /\ result[s] = "none" /\ s \notin signalled
    BY DEF LaunchCommit, LaunchInv, ResultInv, CancelInv
  <2>2. CASE t = s
    BY <2>1, <2>2 DEF LaunchCommit, CancelInv, Write
  <2>3. CASE t # s
    BY <2>3 DEF LaunchCommit, CancelInv, Write
  <2> QED
    BY <2>2, <2>3
<1>5. ASSUME NEW r \in Requests PROVE RequestInv(r)'
  <2>1. executions[s] = 0
    BY DEF LaunchCommit, LaunchInv
  <2>2. request' = request /\ cancelAsked' = cancelAsked
    BY DEF LaunchCommit
  <2>3. CASE request[r].scan = s
    BY <2>1, <2>2, <2>3 DEF LaunchCommit, RequestInv, Write
  <2>4. CASE request[r].scan # s
    BY <2>2, <2>4 DEF LaunchCommit, RequestInv, Write
  <2> QED
    BY <2>3, <2>4
<1>6. DownInv'
  BY DEF LaunchCommit, DownInv
<1> QED
  BY <1>1, <1>2, <1>3, <1>4, <1>5, <1>6

LEMMA DiscoveryEndIInv ==
  ASSUME TypeOK, IInv, NEW s \in Scans, DiscoveryEnd(s)
  PROVE  IInv'
<1> USE DEF IInv, ScanInv, TypeOK, OnItsWayOut, TerminalStatuses, Absent,
            Alive, Goto, Reads, Closes, Leaves, db, pool, hist, count
<1>1. ASSUME NEW t \in Scans PROVE LaunchInv(t)'
  BY DEF DiscoveryEnd, LaunchInv
<1>2. ASSUME NEW t \in Scans PROVE ResultInv(t)'
  BY DEF DiscoveryEnd, ResultInv, LaunchInv
<1>3. ASSUME NEW t \in Scans PROVE EventInv(t)'
  BY DEF DiscoveryEnd, EventInv, LaunchInv
<1>4. ASSUME NEW t \in Scans PROVE CancelInv(t)'
  BY DEF DiscoveryEnd, CancelInv, LaunchInv, ResultInv
<1>5. ASSUME NEW r \in Requests PROVE RequestInv(r)'
  BY DEF DiscoveryEnd, RequestInv, LaunchInv
<1>6. DownInv'
  BY DEF DiscoveryEnd, DownInv
<1> QED
  BY <1>1, <1>2, <1>3, <1>4, <1>5, <1>6

LEMMA RuntimeEndIInv ==
  ASSUME TypeOK, IInv, NEW s \in Scans, RuntimeEnd(s)
  PROVE  IInv'
<1> USE DEF IInv, ScanInv, TypeOK, OnItsWayOut, TerminalStatuses, Absent,
            Alive, Goto, Reads, Closes, Leaves, db, pool, hist, count
<1>1. ASSUME NEW t \in Scans PROVE LaunchInv(t)'
  BY DEF RuntimeEnd, LaunchInv
<1>2. ASSUME NEW t \in Scans PROVE ResultInv(t)'
  BY DEF RuntimeEnd, ResultInv, LaunchInv
<1>3. ASSUME NEW t \in Scans PROVE EventInv(t)'
  BY DEF RuntimeEnd, EventInv, LaunchInv
<1>4. ASSUME NEW t \in Scans PROVE CancelInv(t)'
  BY DEF RuntimeEnd, CancelInv, LaunchInv, ResultInv
<1>5. ASSUME NEW r \in Requests PROVE RequestInv(r)'
  BY DEF RuntimeEnd, RequestInv, LaunchInv
<1>6. DownInv'
  BY DEF RuntimeEnd, DownInv
<1> QED
  BY <1>1, <1>2, <1>3, <1>4, <1>5, <1>6

LEMMA FinishReadIInv ==
  ASSUME TypeOK, IInv, NEW s \in Scans, FinishRead(s)
  PROVE  IInv'
<1> USE DEF IInv, ScanInv, TypeOK, OnItsWayOut, TerminalStatuses, Absent,
            Alive, Goto, Reads, Closes, Leaves, db, pool, hist, count
<1>1. ASSUME NEW t \in Scans PROVE LaunchInv(t)'
  BY DEF FinishRead, LaunchInv
<1>2. ASSUME NEW t \in Scans PROVE ResultInv(t)'
  BY DEF FinishRead, ResultInv, LaunchInv
<1>3. ASSUME NEW t \in Scans PROVE EventInv(t)'
  BY DEF FinishRead, EventInv, LaunchInv
<1>4. ASSUME NEW t \in Scans PROVE CancelInv(t)'
  <2>1. status[s] \notin TerminalStatuses => status[s] \in {"running", "cancelling"}
    <3>1. executions[s] = 1
      BY DEF FinishRead, LaunchInv
    <3>2. status[s] \notin {Absent, "queued", "initializing"}
      BY <3>1 DEF LaunchInv
    <3> QED
      BY <3>2 DEF RowStates, Statuses, ActiveStatuses
  <2> QED
    BY <2>1 DEF FinishRead, CancelInv
<1>5. ASSUME NEW r \in Requests PROVE RequestInv(r)'
  BY DEF FinishRead, RequestInv, LaunchInv
<1>6. DownInv'
  BY DEF FinishRead, DownInv
<1> QED
  BY <1>1, <1>2, <1>3, <1>4, <1>5, <1>6

LEMMA FinishCommitIInv ==
  ASSUME TypeOK, IInv, NEW s \in Scans, FinishCommit(s)
  PROVE  IInv'
<1> USE DEF IInv, ScanInv, TypeOK, OnItsWayOut, TerminalStatuses, Absent,
            Alive, Goto, Reads, Closes, Leaves, db, pool, hist, count
<1>1. ASSUME NEW t \in Scans PROVE LaunchInv(t)'
  BY DEF FinishCommit, LaunchInv, Write, Record, EventOf, FinishTarget, CanTransition, ValidTransitions
<1>2. ASSUME NEW t \in Scans PROVE ResultInv(t)'
  BY DEF FinishCommit, ResultInv, LaunchInv, Write, Record, EventOf, FinishTarget, CanTransition, ValidTransitions
<1>3. ASSUME NEW t \in Scans PROVE EventInv(t)'
  BY DEF FinishCommit, EventInv, LaunchInv, Write, Record, EventOf, FinishTarget, CanTransition, ValidTransitions
<1>4. ASSUME NEW t \in Scans PROVE CancelInv(t)'
  BY DEF FinishCommit, CancelInv, LaunchInv, ResultInv, Write, Record, EventOf, FinishTarget, CanTransition, ValidTransitions
<1>5. ASSUME NEW r \in Requests PROVE RequestInv(r)'
  BY DEF FinishCommit, RequestInv, LaunchInv, Write, Record, EventOf, FinishTarget, CanTransition, ValidTransitions
<1>6. DownInv'
  BY DEF FinishCommit, DownInv
<1> QED
  BY <1>1, <1>2, <1>3, <1>4, <1>5, <1>6

LEMMA WorkerErrorIInv ==
  ASSUME TypeOK, IInv, NEW s \in Scans, WorkerError(s)
  PROVE  IInv'
<1> USE DEF IInv, ScanInv, TypeOK, OnItsWayOut, TerminalStatuses, Absent,
            Alive, Goto, Reads, Closes, Leaves, db, pool, hist, count
<1>1. ASSUME NEW t \in Scans PROVE LaunchInv(t)'
  BY DEF WorkerError, LaunchInv
<1>2. ASSUME NEW t \in Scans PROVE ResultInv(t)'
  BY DEF WorkerError, ResultInv, LaunchInv
<1>3. ASSUME NEW t \in Scans PROVE EventInv(t)'
  BY DEF WorkerError, EventInv, LaunchInv
<1>4. ASSUME NEW t \in Scans PROVE CancelInv(t)'
  BY DEF WorkerError, CancelInv, LaunchInv, ResultInv
<1>5. ASSUME NEW r \in Requests PROVE RequestInv(r)'
  BY DEF WorkerError, RequestInv, LaunchInv
<1>6. DownInv'
  BY DEF WorkerError, DownInv
<1> QED
  BY <1>1, <1>2, <1>3, <1>4, <1>5, <1>6

LEMMA MarkReadIInv ==
  ASSUME TypeOK, IInv, NEW s \in Scans, MarkRead(s)
  PROVE  IInv'
<1> USE DEF IInv, ScanInv, TypeOK, OnItsWayOut, TerminalStatuses, Absent,
            Alive, Goto, Reads, Closes, Leaves, db, pool, hist, count
<1>1. ASSUME NEW t \in Scans PROVE LaunchInv(t)'
  BY DEF MarkRead, LaunchInv
<1>2. ASSUME NEW t \in Scans PROVE ResultInv(t)'
  BY DEF MarkRead, ResultInv, LaunchInv
<1>3. ASSUME NEW t \in Scans PROVE EventInv(t)'
  BY DEF MarkRead, EventInv, LaunchInv
<1>4. ASSUME NEW t \in Scans PROVE CancelInv(t)'
  BY DEF MarkRead, CancelInv, LaunchInv, ResultInv
<1>5. ASSUME NEW r \in Requests PROVE RequestInv(r)'
  BY DEF MarkRead, RequestInv, LaunchInv
<1>6. DownInv'
  BY DEF MarkRead, DownInv
<1> QED
  BY <1>1, <1>2, <1>3, <1>4, <1>5, <1>6

LEMMA MarkCommitIInv ==
  ASSUME TypeOK, IInv, NEW s \in Scans, MarkCommit(s)
  PROVE  IInv'
<1> USE DEF IInv, ScanInv, TypeOK, OnItsWayOut, TerminalStatuses, Absent,
            Alive, Goto, Reads, Closes, Leaves, db, pool, hist, count
<1>1. ASSUME NEW t \in Scans PROVE LaunchInv(t)'
  BY DEF MarkCommit, LaunchInv, Write, Record, EventOf
<1>2. ASSUME NEW t \in Scans PROVE ResultInv(t)'
  BY DEF MarkCommit, ResultInv, LaunchInv, Write, Record, EventOf
<1>3. ASSUME NEW t \in Scans PROVE EventInv(t)'
  <2>1. outcomeEvents' = [outcomeEvents EXCEPT ![s] = <<"scan_failed">>]
    <3>1. outcomeEvents[s] = <<>>
      BY DEF MarkCommit, EventInv
    <3>2. outcomeEvents' = [outcomeEvents EXCEPT ![s] = Append(outcomeEvents[s], "scan_failed")]
      BY DEF MarkCommit, Record, EventOf
    <3> QED
      BY <3>1, <3>2
  <2>2. status' = [status EXCEPT ![s] = "failed"] /\ worker' = [worker EXCEPT ![s] = "idle"]
    BY DEF MarkCommit, Write
  <2> QED
    BY <2>1, <2>2 DEF EventInv, EventOf
<1>4. ASSUME NEW t \in Scans PROVE CancelInv(t)'
  BY DEF MarkCommit, CancelInv, LaunchInv, ResultInv, Write, Record, EventOf
<1>5. ASSUME NEW r \in Requests PROVE RequestInv(r)'
  BY DEF MarkCommit, RequestInv, LaunchInv, Write, Record, EventOf
<1>6. DownInv'
  BY DEF MarkCommit, DownInv
<1> QED
  BY <1>1, <1>2, <1>3, <1>4, <1>5, <1>6

LEMMA TransactionFailsIInv ==
  ASSUME TypeOK, IInv, NEW s \in Scans, TransactionFails(s)
  PROVE  IInv'
<1> USE DEF IInv, ScanInv, TypeOK, OnItsWayOut, TerminalStatuses, Absent,
            Alive, Goto, Reads, Closes, Leaves, db, pool, hist, count
<1>1. ASSUME NEW t \in Scans PROVE LaunchInv(t)'
  BY DEF TransactionFails, LaunchInv
<1>2. ASSUME NEW t \in Scans PROVE ResultInv(t)'
  BY DEF TransactionFails, ResultInv, LaunchInv
<1>3. ASSUME NEW t \in Scans PROVE EventInv(t)'
  BY DEF TransactionFails, EventInv, LaunchInv
<1>4. ASSUME NEW t \in Scans PROVE CancelInv(t)'
  BY DEF TransactionFails, CancelInv, LaunchInv, ResultInv
<1>5. ASSUME NEW r \in Requests PROVE RequestInv(r)'
  BY DEF TransactionFails, RequestInv, LaunchInv
<1>6. DownInv'
  BY DEF TransactionFails, DownInv
<1> QED
  BY <1>1, <1>2, <1>3, <1>4, <1>5, <1>6


LEMMA CreateScanIInv ==
  ASSUME TypeOK, IInv, NEW s \in Scans, CreateScan(s)
  PROVE  IInv'
<1> USE DEF IInv, ScanInv, TypeOK, OnItsWayOut, TerminalStatuses, Absent,
            Alive, db, pool, hist, count
<1>1. ASSUME NEW t \in Scans PROVE LaunchInv(t)'
  BY DEF CreateScan, LaunchInv, Write
<1>2. ASSUME NEW t \in Scans PROVE ResultInv(t)'
  BY DEF CreateScan, ResultInv, LaunchInv, Write
<1>3. ASSUME NEW t \in Scans PROVE EventInv(t)'
  BY DEF CreateScan, EventInv, LaunchInv, Write
<1>4. ASSUME NEW t \in Scans PROVE CancelInv(t)'
  BY DEF CreateScan, CancelInv, LaunchInv, Write
<1>5. ASSUME NEW q \in Requests PROVE RequestInv(q)'
  BY DEF CreateScan, RequestInv, LaunchInv, Write
<1>6. DownInv'
  BY DEF CreateScan, DownInv
<1> QED
  BY <1>1, <1>2, <1>3, <1>4, <1>5, <1>6

LEMMA SubmitIInv ==
  ASSUME TypeOK, IInv, NEW s \in Scans, Submit(s)
  PROVE  IInv'
<1> USE DEF IInv, ScanInv, TypeOK, OnItsWayOut, TerminalStatuses, Absent,
            Alive, db, pool, hist, count
<1>1. ASSUME NEW t \in Scans PROVE LaunchInv(t)'
  BY DEF Submit, LaunchInv
<1>2. ASSUME NEW t \in Scans PROVE ResultInv(t)'
  BY DEF Submit, ResultInv, LaunchInv
<1>3. ASSUME NEW t \in Scans PROVE EventInv(t)'
  BY DEF Submit, EventInv, LaunchInv
<1>4. ASSUME NEW t \in Scans PROVE CancelInv(t)'
  BY DEF Submit, CancelInv, LaunchInv
<1>5. ASSUME NEW q \in Requests PROVE RequestInv(q)'
  BY DEF Submit, RequestInv, LaunchInv
<1>6. DownInv'
  BY DEF Submit, DownInv
<1> QED
  BY <1>1, <1>2, <1>3, <1>4, <1>5, <1>6

LEMMA CancelReadIInv ==
  ASSUME TypeOK, IInv, NEW r \in Requests, NEW s \in Scans, CancelRead(r, s)
  PROVE  IInv'
<1> USE DEF IInv, ScanInv, TypeOK, OnItsWayOut, TerminalStatuses, Absent,
            Alive, db, pool, hist, count
<1>1. ASSUME NEW t \in Scans PROVE LaunchInv(t)'
  BY DEF CancelRead, LaunchInv, NoRequest, CancellableStatuses
<1>2. ASSUME NEW t \in Scans PROVE ResultInv(t)'
  BY DEF CancelRead, ResultInv, LaunchInv, NoRequest, CancellableStatuses
<1>3. ASSUME NEW t \in Scans PROVE EventInv(t)'
  BY DEF CancelRead, EventInv, LaunchInv, NoRequest, CancellableStatuses
<1>4. ASSUME NEW t \in Scans PROVE CancelInv(t)'
  BY DEF CancelRead, CancelInv, LaunchInv, NoRequest, CancellableStatuses
<1>5. ASSUME NEW q \in Requests PROVE RequestInv(q)'
  BY DEF CancelRead, RequestInv, LaunchInv, NoRequest, CancellableStatuses
<1>6. DownInv'
  BY DEF CancelRead, DownInv
<1> QED
  BY <1>1, <1>2, <1>3, <1>4, <1>5, <1>6

LEMMA CancelCommitIInv ==
  ASSUME TypeOK, IInv, NEW r \in Requests, CancelCommit(r)
  PROVE  IInv'
<1> USE DEF IInv, ScanInv, TypeOK, OnItsWayOut, TerminalStatuses, Absent,
            Alive, db, pool, hist, count
<1>1. ASSUME NEW t \in Scans PROVE LaunchInv(t)'
  BY DEF CancelCommit, LaunchInv, NoRequest, RequestInv, Write
<1>2. ASSUME NEW t \in Scans PROVE ResultInv(t)'
  BY DEF CancelCommit, ResultInv, LaunchInv, NoRequest, RequestInv, Write
<1>3. ASSUME NEW t \in Scans PROVE EventInv(t)'
  BY DEF CancelCommit, EventInv, LaunchInv, NoRequest, RequestInv, Write
<1>4. ASSUME NEW t \in Scans PROVE CancelInv(t)'
  BY DEF CancelCommit, CancelInv, LaunchInv, NoRequest, RequestInv, Write
<1>5. ASSUME NEW q \in Requests PROVE RequestInv(q)'
  <2> DEFINE s == request[r].scan
  <2>1. s \in Scans /\ (request[r].seen = "running" => executions[s] = 1)
    BY DEF CancelCommit, RequestInv
  <2>2. \/ status' = status
        \/ status' = [status EXCEPT ![s] = "cancelling"]
        \/ status' = [status EXCEPT ![s] = "cancelled"]
    BY DEF CancelCommit, Write
  <2>3. executions' = executions /\ cancelAsked' = cancelAsked
    BY DEF CancelCommit
  <2>4. CASE q # r
    <3>1. request'[q] = request[q]
      BY <2>4 DEF CancelCommit
    <3> QED
      BY <2>1, <2>2, <2>3, <3>1 DEF RequestInv
  <2>5. CASE q = r
    <3>1. \/ request'[r] = NoRequest
          \/ /\ request'[r] = [request[r] EXCEPT !.step = "signal"]
             /\ status' = [status EXCEPT ![s] = "cancelling"]
             /\ request[r].seen = "running"
      BY DEF CancelCommit, Write
    <3>2. CASE request'[r] = NoRequest
      BY <2>5, <3>2 DEF RequestInv, NoRequest
    <3>3. CASE /\ request'[r] = [request[r] EXCEPT !.step = "signal"]
               /\ status' = [status EXCEPT ![s] = "cancelling"]
               /\ request[r].seen = "running"
      <4>1. request'[r].scan = s /\ request'[r].step = "signal"
        BY <3>3
      <4>2. s \in cancelAsked'
        BY <2>3 DEF CancelCommit, RequestInv
      <4>3. executions'[s] = 1 /\ status'[s] = "cancelling"
        BY <2>1, <2>3, <3>3
      <4> QED
        BY <2>1, <2>5, <4>1, <4>2, <4>3 DEF RequestInv
    <3> QED
      BY <3>1, <3>2, <3>3
  <2> QED
    BY <2>4, <2>5
<1>6. DownInv'
  BY DEF CancelCommit, DownInv
<1> QED
  BY <1>1, <1>2, <1>3, <1>4, <1>5, <1>6

LEMMA SignalIInv ==
  ASSUME TypeOK, IInv, NEW r \in Requests, Signal(r)
  PROVE  IInv'
<1> USE DEF IInv, ScanInv, TypeOK, OnItsWayOut, TerminalStatuses, Absent,
            Alive, db, pool, hist, count
<1>1. ASSUME NEW t \in Scans PROVE LaunchInv(t)'
  BY DEF Signal, LaunchInv, NoRequest, RequestInv
<1>2. ASSUME NEW t \in Scans PROVE ResultInv(t)'
  BY DEF Signal, ResultInv, LaunchInv, NoRequest, RequestInv
<1>3. ASSUME NEW t \in Scans PROVE EventInv(t)'
  BY DEF Signal, EventInv, LaunchInv, NoRequest, RequestInv
<1>4. ASSUME NEW t \in Scans PROVE CancelInv(t)'
  BY DEF Signal, CancelInv, LaunchInv, NoRequest, RequestInv
<1>5. ASSUME NEW q \in Requests PROVE RequestInv(q)'
  BY DEF Signal, RequestInv, LaunchInv, NoRequest, RequestInv
<1>6. DownInv'
  BY DEF Signal, DownInv
<1> QED
  BY <1>1, <1>2, <1>3, <1>4, <1>5, <1>6

LEMMA ShutdownIInv ==
  ASSUME TypeOK, IInv, Shutdown
  PROVE  IInv'
<1> USE DEF IInv, ScanInv, TypeOK, OnItsWayOut, TerminalStatuses, Absent,
            Alive, db, pool, hist, count
<1>1. ASSUME NEW t \in Scans PROVE LaunchInv(t)'
  BY DEF Shutdown, LaunchInv, NoRequest
<1>2. ASSUME NEW t \in Scans PROVE ResultInv(t)'
  BY DEF Shutdown, ResultInv, LaunchInv, NoRequest
<1>3. ASSUME NEW t \in Scans PROVE EventInv(t)'
  BY DEF Shutdown, EventInv, LaunchInv, NoRequest
<1>4. ASSUME NEW t \in Scans PROVE CancelInv(t)'
  BY DEF Shutdown, CancelInv, LaunchInv, NoRequest
<1>5. ASSUME NEW q \in Requests PROVE RequestInv(q)'
  BY DEF Shutdown, RequestInv, LaunchInv, NoRequest
<1>6. DownInv'
  BY DEF Shutdown, DownInv
<1> QED
  BY <1>1, <1>2, <1>3, <1>4, <1>5, <1>6

LEMMA ExitIInv ==
  ASSUME TypeOK, IInv, Exit
  PROVE  IInv'
<1> USE DEF IInv, ScanInv, TypeOK, OnItsWayOut, TerminalStatuses, Absent,
            Alive, db, pool, hist, count
<1>1. ASSUME NEW t \in Scans PROVE LaunchInv(t)'
  BY DEF Exit, LaunchInv, NoRequest
<1>2. ASSUME NEW t \in Scans PROVE ResultInv(t)'
  BY DEF Exit, ResultInv, LaunchInv, NoRequest
<1>3. ASSUME NEW t \in Scans PROVE EventInv(t)'
  BY DEF Exit, EventInv, LaunchInv, NoRequest
<1>4. ASSUME NEW t \in Scans PROVE CancelInv(t)'
  BY DEF Exit, CancelInv, LaunchInv, NoRequest
<1>5. ASSUME NEW q \in Requests PROVE RequestInv(q)'
  BY DEF Exit, RequestInv, LaunchInv, NoRequest
<1>6. DownInv'
  BY DEF Exit, DownInv
<1> QED
  BY <1>1, <1>2, <1>3, <1>4, <1>5, <1>6

LEMMA BootIInv ==
  ASSUME TypeOK, IInv, Boot
  PROVE  IInv'
<1> USE DEF IInv, ScanInv, TypeOK, OnItsWayOut, TerminalStatuses, Absent,
            Alive, db, pool, hist, count
<1>1. ASSUME NEW t \in Scans PROVE LaunchInv(t)'
  BY DEF Boot, LaunchInv, Recovered, RecoveryEvents, EventOf
<1>2. ASSUME NEW t \in Scans PROVE ResultInv(t)'
  BY DEF Boot, ResultInv, LaunchInv, Recovered, RecoveryEvents, EventOf
<1>3. ASSUME NEW t \in Scans PROVE EventInv(t)'
  <2>1. outcomeEvents'[t] = outcomeEvents[t] \o RecoveryEvents(status[t])
    BY DEF Boot
  <2>2. status'[t] = Recovered(status[t]) /\ worker'[t] = worker[t]
    BY DEF Boot
  <2>3. CASE status[t] \in {"initializing", "running"}
    <3>1. outcomeEvents[t] = <<>>
      BY <2>3 DEF EventInv
    <3>2. outcomeEvents'[t] = <<"scan_failed">>
      BY <2>1, <2>3, <3>1 DEF RecoveryEvents
    <3>3. worker[t] = "idle"
      BY DEF Boot, DownInv
    <3> QED
      BY <2>2, <2>3, <3>2, <3>3 DEF EventInv, Recovered, EventOf
  <2>4. CASE status[t] \notin {"initializing", "running"}
    <3>1. outcomeEvents'[t] = outcomeEvents[t]
      BY <2>1, <2>4 DEF RecoveryEvents
    <3> QED
      BY <2>2, <2>4, <3>1 DEF EventInv, Recovered
  <2> QED
    BY <2>3, <2>4
<1>4. ASSUME NEW t \in Scans PROVE CancelInv(t)'
  BY DEF Boot, CancelInv, LaunchInv, Recovered, RecoveryEvents, EventOf
<1>5. ASSUME NEW q \in Requests PROVE RequestInv(q)'
  BY DEF Boot, RequestInv, LaunchInv, Recovered, RecoveryEvents, EventOf
<1>6. DownInv'
  BY DEF Boot, DownInv
<1> QED
  BY <1>1, <1>2, <1>3, <1>4, <1>5, <1>6

LEMMA BootWithoutRecoveryIInv ==
  ASSUME TypeOK, IInv, BootWithoutRecovery
  PROVE  IInv'
<1> USE DEF IInv, ScanInv, TypeOK, OnItsWayOut, TerminalStatuses, Absent,
            Alive, db, pool, hist, count
<1>1. ASSUME NEW t \in Scans PROVE LaunchInv(t)'
  BY DEF BootWithoutRecovery, LaunchInv
<1>2. ASSUME NEW t \in Scans PROVE ResultInv(t)'
  BY DEF BootWithoutRecovery, ResultInv, LaunchInv
<1>3. ASSUME NEW t \in Scans PROVE EventInv(t)'
  BY DEF BootWithoutRecovery, EventInv, LaunchInv
<1>4. ASSUME NEW t \in Scans PROVE CancelInv(t)'
  BY DEF BootWithoutRecovery, CancelInv, LaunchInv
<1>5. ASSUME NEW q \in Requests PROVE RequestInv(q)'
  BY DEF BootWithoutRecovery, RequestInv, LaunchInv
<1>6. DownInv'
  BY DEF BootWithoutRecovery, DownInv
<1> QED
  BY <1>1, <1>2, <1>3, <1>4, <1>5, <1>6

\* The invariant is inductive.
LEMMA NextIInv == TypeOK /\ IInv /\ [Next]_vars => IInv'
<1> SUFFICES ASSUME TypeOK, IInv, [Next]_vars
             PROVE  IInv'
  OBVIOUS
<1>1. ASSUME NEW s \in Scans, WorkerStep(s) \/ WorkerError(s) \/ TransactionFails(s)
      PROVE  IInv'
  BY <1>1, TakeIInv, StartCommitIInv, RefuseLiveProbeIInv, LaunchReadIInv, LaunchCommitIInv,
     DiscoveryEndIInv, RuntimeEndIInv, FinishReadIInv, FinishCommitIInv, MarkReadIInv,
     MarkCommitIInv, WorkerErrorIInv, TransactionFailsIInv DEF WorkerStep
<1>2. CASE UNCHANGED vars
  BY <1>2 DEF vars, db, pool, hist, count, IInv, DownInv, ScanInv, LaunchInv, ResultInv, EventInv,
              CancelInv, RequestInv, OnItsWayOut
<1> QED
  BY <1>1, <1>2, CreateScanIInv, SubmitIInv, CancelReadIInv, CancelCommitIInv, SignalIInv,
     ShutdownIInv, ExitIInv, BootIInv, BootWithoutRecoveryIInv DEF Next

\* IInv holds in every reachable state.
THEOREM InvariantHolds == Spec => []IInv
BY InitTypeOK, NextTypeOK, InitIInv, NextIInv, PTL DEF Spec

(***************************************************************************)
(* The properties of every schedule.                                       *)
(***************************************************************************)

\* No scan has its tools started twice, across restarts and resubmissions.
THEOREM ExecutionIsUnique == Spec => []ExecutedAtMostOnce
<1>1. IInv => ExecutedAtMostOnce
  BY DEF IInv, ScanInv, LaunchInv, ExecutedAtMostOnce
<1> QED
  BY <1>1, InvariantHolds, PTL

\* A scan reported completed had a run that finished.
THEOREM CompletionIsEarned == Spec => []CompletedOnlyIfFinished
<1>1. IInv => CompletedOnlyIfFinished
  BY DEF IInv, ScanInv, ResultInv, CompletedOnlyIfFinished
<1> QED
  BY <1>1, InvariantHolds, PTL

\* No scan is cancelled unless somebody asked for it.
THEOREM CancellationIsAskedFor == Spec => []CancelledOnlyIfAsked
<1>1. IInv => CancelledOnlyIfAsked
  BY DEF IInv, ScanInv, CancelInv, CancelledOnlyIfAsked
<1> QED
  BY <1>1, InvariantHolds, PTL

\* A scan ends at most once in its event stream, and says how.
THEOREM OutcomeIsAnnouncedOnce == Spec => []OneTerminalEvent
<1>1. IInv => OneTerminalEvent
  BY DEF IInv, ScanInv, EventInv, OneTerminalEvent
<1> QED
  BY <1>1, InvariantHolds, PTL

\* The swallowed ScanStateError of _finish_scan is never raised.
THEOREM TerminalMappingNeverFails == Spec => []TerminalMappingIsValid
<1>1. IInv => TerminalMappingIsValid
  <2> SUFFICES ASSUME IInv, NEW s \in Scans, worker[s] = "finishTx"
               PROVE  CanTransition(seen[s], FinishTarget(s))
    BY DEF TerminalMappingIsValid
  <2>1. seen[s] \in {"running", "cancelling"}
    BY DEF IInv, ScanInv, CancelInv
  <2>2. result[s] = "cancelled" => seen[s] = "cancelling"
    BY DEF IInv, ScanInv, CancelInv
  <2>3. CASE seen[s] = "cancelling"
    BY <2>3 DEF FinishTarget, CanTransition, ValidTransitions
  <2>4. CASE seen[s] = "running"
    <3>1. FinishTarget(s) \in {"completed", "failed"}
      BY <2>2, <2>4 DEF FinishTarget
    <3> QED
      BY <2>4, <3>1 DEF CanTransition, ValidTransitions
  <2> QED
    BY <2>1, <2>3, <2>4
<1> QED
  BY <1>1, InvariantHolds, PTL

\* The step of one scan s to an active status keeps the project exclusive.
LEMMA WriteKeepsExclusion ==
  ASSUME TypeOK, OneActivePerProject, NEW s \in Scans, NEW to, Write(s, to)
  PROVE  OneActivePerProject'
<1>1. \A t \in Scans : status'[t] = IF t = s THEN to ELSE status[t]
  BY DEF TypeOK, Write
<1> QED
  BY <1>1 DEF OneActivePerProject, Write, IndexAllows

\* One active row per project, under any overlap of stale commits.
THEOREM ProjectExclusion == Spec => []OneActivePerProject
<1>1. Init => OneActivePerProject
  BY DEF Init, OneActivePerProject, ActiveStatuses, Absent
<1>2. TypeOK /\ IInv /\ OneActivePerProject /\ [Next]_vars => OneActivePerProject'
  <2> SUFFICES ASSUME TypeOK, IInv, OneActivePerProject, [Next]_vars
               PROVE  OneActivePerProject'
    OBVIOUS
  <2>1. CASE UNCHANGED status
    BY <2>1 DEF OneActivePerProject
  <2>2. CASE \E s \in Scans, to \in RowStates : Write(s, to)
    BY <2>2, WriteKeepsExclusion
  <2>3. CASE Boot
    <3>1. \A s \in Scans : status'[s] \in ActiveStatuses => status[s] \in ActiveStatuses
      BY <2>3 DEF Boot, Recovered, ActiveStatuses
    <3> QED
      BY <3>1 DEF OneActivePerProject
  <2>4. ASSUME NEW s \in Scans, WorkerStep(s) \/ WorkerError(s) \/ TransactionFails(s)
        PROVE  UNCHANGED status \/ \E t \in Scans, to \in RowStates : Write(t, to)
    <3>1. FinishTarget(s) \in RowStates
      BY DEF FinishTarget, RowStates, Statuses, TerminalStatuses
    <3>2. {"initializing", "running", "failed"} \subseteq RowStates
      BY DEF RowStates, Statuses, TerminalStatuses, ActiveStatuses
    <3> QED
      BY <2>4, <3>1, <3>2 DEF db, WorkerStep, WorkerError, TransactionFails, Take, StartCommit,
         RefuseLiveProbe, LaunchRead, LaunchCommit, DiscoveryEnd, RuntimeEnd, FinishRead,
         FinishCommit, MarkRead, MarkCommit
  <2>5. ASSUME NEW r \in Requests, CancelCommit(r)
        PROVE  UNCHANGED status \/ \E t \in Scans, to \in RowStates : Write(t, to)
    <3>1. request[r].scan \in Scans
      BY <2>5 DEF IInv, RequestInv, CancelCommit
    <3>2. {"cancelling", "cancelled"} \subseteq RowStates
      BY DEF RowStates, Statuses, TerminalStatuses, ActiveStatuses
    <3> QED
      BY <2>5, <3>1, <3>2 DEF CancelCommit
  <2>6. ASSUME NEW s \in Scans, CreateScan(s)
        PROVE  \E t \in Scans, to \in RowStates : Write(t, to)
    BY <2>6 DEF CreateScan, RowStates, Statuses, ActiveStatuses
  <2> QED
    BY <2>1, <2>2, <2>3, <2>4, <2>5, <2>6
       DEF Next, vars, db, Submit, CancelRead, Signal, Shutdown, Exit, BootWithoutRecovery
<1> QED
  BY <1>1, <1>2, TypeCorrect, InvariantHolds, PTL DEF Spec

(***************************************************************************)
(* The refinement: the scan manager implements the lifecycle promised to   *)
(* the user (ScanLifecycle) in every schedule in which transactions on one *)
(* row do not overlap.                                                     *)
(***************************************************************************)

\* An open transaction of the worker has read what the row still holds.
LockScan(s) ==
    /\ worker[s] # "idle" => status[s] # Absent
    /\ worker[s] \in InTransaction => seen[s] = status[s]
    /\ worker[s] = "start" => status[s] = "queued"
    /\ worker[s] = "launch" => status[s] = "initializing"
    /\ worker[s] = "markTx" => status[s] \in {"queued", "initializing", "running"}

\* So has an open cancel request, and no other transaction is on its row.
Committing(r) == request[r].step = "commit"

LockRequest(r) ==
    Committing(r) =>
        /\ proc # "down"
        /\ request[r].seen = status[request[r].scan]
        /\ request[r].seen \in CancellableStatuses
        /\ worker[request[r].scan] \notin InTransaction
        /\ \A q \in Requests \ {r} : Committing(q) => request[q].scan # request[r].scan

LockInv == /\ \A s \in Scans : LockScan(s)
           /\ \A r \in Requests : LockRequest(r)

\* The transactions of a worker leave other rows alone.
LEMMA WorkerFrame ==
    ASSUME LockInv, NEW s \in Scans, UNCHANGED <<proc, request>>,
           \A o \in Scans \ {s} : /\ worker'[o] = worker[o]
                                  /\ seen'[o] = seen[o]
                                  /\ status'[o] = status[o],
           \A r \in Requests : Committing(r) => request[r].scan \in Scans,
           LockScan(s)',
           worker'[s] \in InTransaction \/ status'[s] # status[s] =>
               \A r \in Requests : Committing(r) => request[r].scan # s
    PROVE  LockInv'
<1>1. \A o \in Scans : LockScan(o)'
  <2> SUFFICES ASSUME NEW o \in Scans \ {s} PROVE LockScan(o)'
    OBVIOUS
  <2> QED
    BY DEF LockInv, LockScan
<1>2. ASSUME NEW r \in Requests PROVE LockRequest(r)'
  <2> SUFFICES ASSUME Committing(r)
               PROVE  LockRequest(r)'
    BY DEF LockRequest, Committing
  <2>1. LockRequest(r)
    BY DEF LockInv
  <2>2. CASE request[r].scan = s
    BY <2>1, <2>2 DEF LockRequest, Committing
  <2>3. CASE request[r].scan # s
    BY <2>1, <2>3 DEF LockRequest, Committing
  <2> QED
    BY <2>2, <2>3
<1> QED
  BY <1>1, <1>2 DEF LockInv

\* Every step of a worker keeps to its row.
LEMMA WorkerLockInv ==
    ASSUME RowLocked, TypeOK, IInv, LockInv, NEW s \in Scans,
           WorkerStep(s) \/ WorkerError(s) \/ TransactionFails(s)
    PROVE  LockInv'
<1>1. UNCHANGED <<proc, request>>
  BY DEF WorkerStep, WorkerError, TransactionFails, Take, StartCommit, RefuseLiveProbe,
         LaunchRead, LaunchCommit, DiscoveryEnd, RuntimeEnd, FinishRead, FinishCommit,
         MarkRead, MarkCommit
<1>2. \A r \in Requests : Committing(r) => request[r].scan \in Scans
  BY DEF IInv, RequestInv, Committing
<1>3. \A o \in Scans \ {s} : /\ worker'[o] = worker[o]
                             /\ seen'[o] = seen[o]
                             /\ status'[o] = status[o]
  BY DEF TypeOK, WorkerStep, WorkerError, TransactionFails, Take, StartCommit,
         RefuseLiveProbe, LaunchRead, LaunchCommit, DiscoveryEnd, RuntimeEnd, FinishRead,
         FinishCommit, MarkRead, MarkCommit, Goto, Reads, Closes, Leaves, Write, db
<1>4. LockScan(s)
  BY DEF LockInv
<1>5. \A r \in Requests : Committing(r) /\ worker[s] \in InTransaction => request[r].scan # s
  BY DEF LockInv, LockRequest
<1>6. \A r \in Requests : Committing(r) /\ Readable(s) => request[r].scan # s
  BY DEF Readable, Committing
<1> DEFINE Frame == /\ LockScan(s)'
                    /\ worker'[s] \in InTransaction \/ status'[s] # status[s] =>
                          \A r \in Requests : Committing(r) => request[r].scan # s
<1> SUFFICES Frame
  BY <1>1, <1>2, <1>3, WorkerFrame
<1>7. ASSUME NEW to, Closes(s, to), to \in WorkerSteps \ InTransaction,
             worker[s] # "idle",
             \/ UNCHANGED status
             \/ worker[s] \in InTransaction /\ status'[s] # Absent
      PROVE  Frame
  <2>1. worker'[s] = to
    BY <1>7 DEF Closes, Goto, TypeOK
  <2> QED
    BY <1>4, <1>5, <1>7, <2>1 DEF LockScan, InTransaction
<1>8. ASSUME Leaves(s), \/ UNCHANGED status
                        \/ worker[s] \in InTransaction /\ status'[s] # Absent
      PROVE  Frame
  <2>1. worker'[s] = "idle"
    BY <1>8 DEF Leaves, Closes, Goto, TypeOK
  <2> QED
    BY <1>5, <1>8, <2>1 DEF LockScan, InTransaction
<1>9. ASSUME NEW to, Reads(s, to), Readable(s), UNCHANGED status, status[s] # Absent,
             to = "start" => status[s] = "queued",
             to = "launch" => status[s] = "initializing",
             to = "markTx" => status[s] \in {"queued", "initializing", "running"}
      PROVE  Frame
  <2>1. worker'[s] = to /\ seen'[s] = status[s]
    BY <1>9 DEF Reads, Goto, TypeOK
  <2> QED
    BY <1>6, <1>9, <2>1 DEF LockScan
<1>10. ASSUME NEW to, Goto(s, to), to \in WorkerSteps \ InTransaction,
              worker[s] # "idle", UNCHANGED status
       PROVE  Frame
  <2>1. worker'[s] = to
    BY <1>10 DEF Goto, TypeOK
  <2> QED
    BY <1>4, <1>10, <2>1 DEF LockScan, InTransaction
<1>11. \A to : Write(s, to) => status'[s] = to
  BY DEF Write, TypeOK
<1> HIDE DEF Frame
<1>12. CASE Take(s)
  BY <1>12, <1>8, <1>9 DEF Take, Absent, db
<1>13. CASE StartCommit(s)
  BY <1>13, <1>7, <1>11 DEF StartCommit, WorkerSteps, InTransaction, Absent
<1>14. CASE RefuseLiveProbe(s)
  BY <1>14, <1>8, <1>11 DEF RefuseLiveProbe, InTransaction, Absent
<1>15. CASE LaunchRead(s)
  BY <1>15, <1>8, <1>9 DEF LaunchRead, Absent, db
<1>16. CASE LaunchCommit(s)
  BY <1>16, <1>7, <1>11 DEF LaunchCommit, WorkerSteps, InTransaction, Absent
<1>17. CASE DiscoveryEnd(s) \/ RuntimeEnd(s) \/ WorkerError(s)
  BY <1>17, <1>10 DEF DiscoveryEnd, RuntimeEnd, WorkerError, WorkerSteps, InTransaction, db
<1>18. CASE FinishRead(s)
  BY <1>18, <1>4, <1>8, <1>9 DEF FinishRead, LockScan, db
<1>19. CASE FinishCommit(s)
  <2>1. FinishTarget(s) # Absent
    BY DEF FinishTarget, Absent
  <2> QED
    BY <1>19, <1>8, <1>11, <2>1 DEF FinishCommit, InTransaction, db
<1>20. CASE MarkRead(s)
  <2>1. status[s] \in Statuses
    BY <1>20, <1>4 DEF MarkRead, LockScan, TypeOK, RowStates
  <2>2. CanTransition(status[s], "failed") => status[s] \in {"queued", "initializing", "running"}
    BY <2>1 DEF Statuses, ActiveStatuses, TerminalStatuses, CanTransition, ValidTransitions
  <2> QED
    BY <1>20, <1>8, <1>9, <2>2 DEF MarkRead, Absent, db
<1>21. CASE MarkCommit(s)
  BY <1>21, <1>8, <1>11 DEF MarkCommit, InTransaction, Absent
<1>22. CASE TransactionFails(s)
  BY <1>22, <1>7, <1>8 DEF TransactionFails, WorkerSteps, InTransaction, db
<1> QED
  BY <1>12, <1>13, <1>14, <1>15, <1>16, <1>17, <1>18, <1>19, <1>20, <1>21, <1>22 DEF WorkerStep

LEMMA InitLockInv == Init => LockInv
BY DEF Init, LockInv, LockScan, LockRequest, Committing, InTransaction, NoRequest

LEMMA StepLockInv ==
    ASSUME RowLocked, TypeOK, IInv, LockInv, [Next]_vars
    PROVE  LockInv'
<1>a. \A r \in Requests : Committing(r) => request[r].scan \in Scans
  BY DEF IInv, RequestInv, Committing
<1> USE DEF LockInv, LockScan, LockRequest, Committing
<1>1. ASSUME NEW s \in Scans, CreateScan(s) PROVE LockInv'
  <2>1. \A o \in Scans : status'[o] = IF o = s THEN "queued" ELSE status[o]
    BY <1>1 DEF CreateScan, Write, TypeOK
  <2>2. worker[s] = "idle" /\ \A r \in Requests : Committing(r) => request[r].scan # s
    BY <1>1, <1>a DEF CreateScan, Absent, CancellableStatuses
  <2>3. UNCHANGED <<worker, seen, request, proc>>
    BY <1>1 DEF CreateScan, pool
  <2>4. \A o \in Scans : LockScan(o)'
    BY <2>1, <2>2, <2>3 DEF InTransaction, Absent
  <2>5. \A r \in Requests : LockRequest(r)'
    BY <2>1, <2>2, <2>3, <1>a
  <2> QED
    BY <2>4, <2>5
<1>2. CASE UNCHANGED <<status, worker, seen, request, proc>>
  BY <1>2
<1>3. ASSUME NEW r \in Requests, NEW s \in Scans, CancelRead(r, s) PROVE LockInv'
  <2>1. UNCHANGED <<status, worker, seen, proc>> /\ proc = "up"
    BY <1>3 DEF CancelRead, db, pool
  <2>2. \A q \in Requests :
          request'[q] = IF q = r THEN [step |-> "commit", scan |-> s, seen |-> status[s]]
                        ELSE request[q]
    BY <1>3 DEF CancelRead, TypeOK
  <2>3. worker[s] \notin InTransaction
    BY <1>3 DEF CancelRead, Readable
  <2>4. \A q \in Requests : Committing(q) => request[q].scan # s
    BY <1>3 DEF CancelRead, Readable
  <2>5. status[s] \in CancellableStatuses
    BY <1>3 DEF CancelRead
  <2>6. \A q \in Requests : LockRequest(q)'
    BY <2>1, <2>2, <2>3, <2>4, <2>5
  <2> QED
    BY <2>1, <2>6
<1>4. ASSUME NEW r \in Requests, CancelCommit(r) PROVE LockInv'
  <2> DEFINE s == request[r].scan
  <2>1. Committing(r) /\ s \in Scans /\ worker[s] \notin InTransaction
    BY <1>4, <1>a DEF CancelCommit
  <2>2. UNCHANGED <<worker, seen, proc>>
    BY <1>4 DEF CancelCommit, pool
  <2>3. \A o \in Scans \ {s} : status'[o] = status[o]
    BY <1>4 DEF CancelCommit, Write, TypeOK
  <2>4. status'[s] # Absent
    <3>1. status[s] # Absent
      BY <2>1 DEF CancellableStatuses, Absent
    <3> QED
      BY <1>4, <2>1, <3>1 DEF CancelCommit, Write, TypeOK, Absent
  <2>5. \A q \in Requests \ {r} : request'[q] = request[q] /\ (Committing(q) => request[q].scan # s)
    <3>1. \A q \in Requests \ {r} : request'[q] = request[q]
      BY <1>4 DEF CancelCommit, TypeOK
    <3>2. LockRequest(r)
      OBVIOUS
    <3> QED
      BY <2>1, <3>1, <3>2
  <2>6. request'[r].step # "commit"
    BY <1>4 DEF CancelCommit, NoRequest, TypeOK
  <2> HIDE DEF s
  <2>7. \A o \in Scans : LockScan(o)'
    BY <2>1, <2>2, <2>3, <2>4 DEF InTransaction
  <2>8. \A q \in Requests : LockRequest(q)'
    BY <1>a, <2>2, <2>3, <2>5, <2>6
  <2> QED
    BY <2>7, <2>8
<1>5. ASSUME NEW r \in Requests, Signal(r) PROVE LockInv'
  <2>1. UNCHANGED <<status, worker, seen, proc>>
    BY <1>5 DEF Signal, db
  <2>2. \A q \in Requests : request'[q] = IF q = r THEN NoRequest ELSE request[q]
    BY <1>5 DEF Signal, TypeOK
  <2> QED
    BY <2>1, <2>2 DEF NoRequest
<1>6. CASE Shutdown
  <2>1. UNCHANGED <<status, worker, seen, request>> /\ \A r \in Requests : ~Committing(r)
    BY <1>6 DEF Shutdown, db, NoRequest
  <2> QED
    BY <2>1
<1>7. CASE Exit
  BY <1>7 DEF Exit, db, NoRequest, InTransaction
<1>8. CASE Boot
  <2>1. UNCHANGED <<worker, seen, request>> /\ proc = "down"
    BY <1>8 DEF Boot
  <2>2. \A s \in Scans : worker[s] = "idle"
    BY <2>1 DEF IInv, DownInv
  <2> QED
    BY <2>1, <2>2 DEF InTransaction
<1>9. CASE BootWithoutRecovery
  BY <1>9 DEF BootWithoutRecovery, db, pool
<1> QED
  BY <1>1, <1>2, <1>3, <1>4, <1>5, <1>6, <1>7, <1>8, <1>9, WorkerLockInv
     DEF Next, Submit, vars, db, pool

-----------------------------------------------------------------------------
(* Every step of the manager is a step of the lifecycle or leaves it alone. *)

Executing_(s) == worker[s] \in Executing

\* The step of one scan whose row and worker change as the lifecycle allows.
LEMMA OneScanSteps ==
    ASSUME TypeOK, NEW s \in Scans, NEW to,
           status' = [status EXCEPT ![s] = to],
           \A o \in Scans \ {s} : worker'[o] = worker[o],
           \/ /\ ~Executing_(s) /\ ~Executing_(s)'
              /\ \/ status[s] = Absent /\ to = "queued" /\ IndexAllows(s, "queued")
                 \/ status[s] = "queued" /\ to = "initializing"
                 \/ status[s] = "running" /\ to \in {"completed", "failed"}
                 \/ status[s] \in {"queued", "initializing"} /\ to \in {"failed", "cancelled"}
                 \/ status[s] = "cancelling" /\ to = "cancelled"
           \/ /\ ~Executing_(s) /\ Executing_(s)'
              /\ status[s] = "initializing" /\ to = "running"
           \/ /\ UNCHANGED worker
              /\ \/ status[s] = "running" /\ to = "cancelling"
                 \/ status[s] \in {"queued", "initializing"} /\ to = "cancelled"
    PROVE  Lifecycle!Next
<1> DEFINE T == {o \in Scans : worker[o] \in Executing}
<1> USE DEF Executing_, Lifecycle!Move
<1>1. CASE ~Executing_(s) /\ ~Executing_(s)'
  <2>1. T' = T /\ s \notin T
    BY <1>1
  <2>2. CASE status[s] = Absent /\ to = "queued" /\ IndexAllows(s, "queued")
    BY <2>1, <2>2 DEF Lifecycle!Next, Lifecycle!Create, Lifecycle!Free, IndexAllows,
       ActiveStatuses, Lifecycle!ActiveStatuses, Absent, Lifecycle!Absent
  <2>3. CASE status[s] = "queued" /\ to = "initializing"
    BY <2>1, <2>3 DEF Lifecycle!Next, Lifecycle!Start
  <2>4. CASE status[s] = "running" /\ to \in {"completed", "failed"}
    BY <2>1, <2>4 DEF Lifecycle!Next, Lifecycle!Finish
  <2>5. CASE status[s] \in {"queued", "initializing"} /\ to \in {"failed", "cancelled"}
    BY <2>1, <2>5 DEF Lifecycle!Next, Lifecycle!Abort
  <2>6. CASE status[s] = "cancelling" /\ to = "cancelled"
    BY <2>1, <2>6 DEF Lifecycle!Next, Lifecycle!ConfirmCancel
  <2>7. CASE status[s] = "running" /\ to = "cancelling"
    BY <2>1, <2>7 DEF Lifecycle!Next, Lifecycle!RequestCancel
  <2> QED
    BY <1>1, <2>2, <2>3, <2>4, <2>5, <2>6, <2>7
<1>2. CASE ~Executing_(s) /\ Executing_(s)' /\ status[s] = "initializing" /\ to = "running"
  <2>1. T' = T \cup {s}
    BY <1>2
  <2> QED
    BY <1>2, <2>1 DEF Lifecycle!Next, Lifecycle!Run
<1>3. CASE UNCHANGED worker /\ status[s] = "running" /\ to = "cancelling"
  BY <1>3 DEF Lifecycle!Next, Lifecycle!RequestCancel
<1>4. CASE UNCHANGED worker /\ status[s] \in {"queued", "initializing"} /\ to = "cancelled"
  BY <1>4 DEF Lifecycle!Next, Lifecycle!Abort
<1> QED
  BY <1>1, <1>2, <1>3, <1>4

\* The run of one scan ends, or its worker moves outside of the run.
LEMMA WorkerMoves ==
    ASSUME TypeOK, NEW s \in Scans, UNCHANGED status,
           \A o \in Scans \ {s} : worker'[o] = worker[o],
           Executing_(s)' => Executing_(s)
    PROVE  [Lifecycle!Next]_Lifecycle!vars
<1> DEFINE T == {o \in Scans : worker[o] \in Executing}
<1> USE DEF Executing_
<1>1. CASE Executing_(s) = Executing_(s)'
  <2>1. T' = T
    BY <1>1
  <2> QED
    BY <2>1 DEF Lifecycle!vars
<1>2. CASE Executing_(s) /\ ~Executing_(s)'
  <2>1. s \in T /\ T' = T \ {s}
    BY <1>2
  <2> QED
    BY <2>1 DEF Lifecycle!Next, Lifecycle!ToolsEnd
<1> QED
  BY <1>1, <1>2

LEMMA WorkerImplements ==
    ASSUME TypeOK, IInv, LockInv, NEW s \in Scans,
           WorkerStep(s) \/ WorkerError(s) \/ TransactionFails(s)
    PROVE  [Lifecycle!Next]_Lifecycle!vars
<1>1. \A o \in Scans \ {s} : worker'[o] = worker[o]
  BY DEF TypeOK, WorkerStep, WorkerError, TransactionFails, Take, StartCommit,
         RefuseLiveProbe, LaunchRead, LaunchCommit, DiscoveryEnd, RuntimeEnd, FinishRead,
         FinishCommit, MarkRead, MarkCommit, Goto, Reads, Closes, Leaves
<1>2. LockScan(s)
  BY DEF LockInv
<1>3. \A to : \/ Goto(s, to) \/ Reads(s, to) \/ Closes(s, to) => worker'[s] = to
  BY DEF Goto, Reads, Closes, TypeOK
<1>4. Leaves(s) => worker'[s] = "idle"
  BY <1>3 DEF Leaves
<1> USE DEF Executing, Executing_
<1>5. CASE Take(s) \/ LaunchRead(s) \/ FinishRead(s) \/ MarkRead(s)
  <2>1. UNCHANGED status /\ ~Executing_(s)'
    BY <1>3, <1>4, <1>5 DEF Take, LaunchRead, FinishRead, MarkRead, db
  <2> QED
    BY <1>1, <2>1, WorkerMoves
<1>6. CASE DiscoveryEnd(s) \/ RuntimeEnd(s) \/ WorkerError(s) \/ TransactionFails(s)
  <2>1. UNCHANGED status
    BY <1>6 DEF DiscoveryEnd, RuntimeEnd, WorkerError, TransactionFails, db
  <2>2. Executing_(s)' => Executing_(s)
    BY <1>3, <1>4, <1>6 DEF DiscoveryEnd, RuntimeEnd, WorkerError, TransactionFails
  <2> QED
    BY <1>1, <2>1, <2>2, WorkerMoves
<1>7. CASE StartCommit(s)
  <2>1. ~Executing_(s) /\ ~Executing_(s)' /\ status[s] = "queued"
    BY <1>2, <1>3, <1>7 DEF StartCommit, LockScan
  <2>2. CASE status' = [status EXCEPT ![s] = "initializing"]
    BY <1>1, <2>1, <2>2, OneScanSteps
  <2>3. CASE UNCHANGED status
    BY <1>1, <2>1, <2>3, WorkerMoves
  <2> QED
    BY <1>7, <2>2, <2>3 DEF StartCommit, Write
<1>8. CASE LaunchCommit(s)
  <2>1. ~Executing_(s) /\ status[s] = "initializing"
    BY <1>2, <1>8 DEF LaunchCommit, LockScan
  <2>2. CASE Write(s, "running") /\ Closes(s, "discover")
    <3>1. Executing_(s)' /\ status' = [status EXCEPT ![s] = "running"]
      BY <1>3, <2>2 DEF Write
    <3> QED
      BY <1>1, <2>1, <3>1, OneScanSteps
  <2>3. CASE UNCHANGED status /\ Closes(s, "mark")
    <3>1. ~Executing_(s)'
      BY <1>3, <2>3
    <3> QED
      BY <1>1, <2>1, <2>3, <3>1, WorkerMoves
  <2> QED
    BY <1>8, <2>2, <2>3 DEF LaunchCommit
<1>9. CASE RefuseLiveProbe(s) \/ MarkCommit(s)
  <2>1. ~Executing_(s) /\ ~Executing_(s)' /\ status' = [status EXCEPT ![s] = "failed"]
    BY <1>4, <1>9 DEF RefuseLiveProbe, MarkCommit, Write
  <2>2. status[s] \in {"queued", "initializing", "running"}
    BY <1>2, <1>9 DEF RefuseLiveProbe, MarkCommit, LockScan
  <2> QED
    BY <1>1, <2>1, <2>2, OneScanSteps
<1>10. CASE FinishCommit(s)
  <2>1. ~Executing_(s) /\ ~Executing_(s)' /\ worker[s] = "finishTx"
    BY <1>4, <1>10 DEF FinishCommit
  <2>2. CASE UNCHANGED status
    BY <1>1, <2>1, <2>2, WorkerMoves
  <2>3. CASE Write(s, FinishTarget(s))
    <3>1. status[s] = seen[s] /\ seen[s] \in {"running", "cancelling"}
      BY <1>2, <2>1 DEF LockScan, InTransaction, IInv, ScanInv, CancelInv
    <3>2. seen[s] = "running" => FinishTarget(s) \in {"completed", "failed"}
      BY <2>1 DEF FinishTarget, IInv, ScanInv, CancelInv
    <3>3. seen[s] = "cancelling" => FinishTarget(s) = "cancelled"
      BY DEF FinishTarget
    <3>4. status' = [status EXCEPT ![s] = FinishTarget(s)]
      BY <2>3 DEF Write
    <3> QED
      BY <1>1, <2>1, <3>1, <3>2, <3>3, <3>4, OneScanSteps
  <2> QED
    BY <1>10, <2>2, <2>3 DEF FinishCommit, db
<1> QED
  BY <1>5, <1>6, <1>7, <1>8, <1>9, <1>10 DEF WorkerStep

LEMMA StepImplements ==
    ASSUME TypeOK, IInv, LockInv, [Next]_vars
    PROVE  [Lifecycle!Next]_Lifecycle!vars
<1>1. ASSUME NEW s \in Scans, CreateScan(s) PROVE Lifecycle!Next
  <2>1. worker[s] = "idle" /\ UNCHANGED worker
    BY <1>1 DEF CreateScan, LockInv, LockScan, pool
  <2> QED
    BY <1>1, <2>1, OneScanSteps DEF CreateScan, Write, Executing, Executing_
<1>2. CASE UNCHANGED <<status, worker>>
  BY <1>2 DEF Lifecycle!vars
<1>3. ASSUME NEW r \in Requests, CancelCommit(r) PROVE [Lifecycle!Next]_Lifecycle!vars
  <2> DEFINE s == request[r].scan
  <2>1. s \in Scans /\ status[s] = request[r].seen /\ status[s] \in CancellableStatuses
    BY <1>3 DEF CancelCommit, IInv, RequestInv, LockInv, LockRequest, Committing
  <2>2. UNCHANGED worker
    BY <1>3 DEF CancelCommit, pool
  <2>3. CASE status[s] = "running" /\ status' = [status EXCEPT ![s] = "cancelling"]
    BY <2>1, <2>2, <2>3, OneScanSteps
  <2>4. CASE status[s] \in {"queued", "initializing"}
             /\ status' = [status EXCEPT ![s] = "cancelled"]
    BY <2>1, <2>2, <2>4, OneScanSteps
  <2>5. CASE UNCHANGED status
    BY <2>2, <2>5, <1>2
  <2> QED
    BY <1>3, <2>1, <2>3, <2>4, <2>5 DEF CancelCommit, Write, CancellableStatuses
<1>4. CASE Exit
  <2>1. {s \in Scans : worker[s] \in Executing}' = {}
    BY <1>4 DEF Exit, Executing
  <2> QED
    BY <1>4, <2>1 DEF Exit, db, Lifecycle!Next, Lifecycle!Crash
<1>5. CASE Boot
  <2>1. {s \in Scans : worker[s] \in Executing} = {} /\ UNCHANGED worker
    BY <1>5 DEF Boot, IInv, DownInv, Executing
  <2>2. \A s \in Scans : Recovered(status[s]) = Lifecycle!Recovered(status[s])
    BY DEF Recovered, Lifecycle!Recovered
  <2>3. status' = [s \in Scans |-> Lifecycle!Recovered(status[s])]
    BY <1>5, <2>2 DEF Boot
  <2> QED
    BY <2>1, <2>3 DEF Lifecycle!Next, Lifecycle!Recover
<1> QED
  BY <1>1, <1>2, <1>3, <1>4, <1>5, WorkerImplements
     DEF Next, Submit, CancelRead, Signal, Shutdown, BootWithoutRecovery, vars, db, pool

\* While transactions on one row do not overlap, the whole of scan_manager.py
\* and scan_service.py keeps the promise of the lifecycle: its statuses move
\* as the table says, and tools execute only inside running and cancelling.
THEOREM ManagerImplementsLifecycle == RowLocked => (Spec => ImplementsLifecycle)
<1> SUFFICES ASSUME RowLocked PROVE Spec => ImplementsLifecycle
  OBVIOUS
<1>1. Init => Lifecycle!Init
  BY DEF Init, Lifecycle!Init, Absent, Lifecycle!Absent, Executing
<1>2. TypeOK /\ IInv /\ LockInv /\ [Next]_vars => LockInv'
  BY StepLockInv
<1>3. TypeOK /\ IInv /\ LockInv /\ [Next]_vars => [Lifecycle!Next]_Lifecycle!vars
  BY StepImplements
<1> QED
  BY <1>1, <1>2, <1>3, InitLockInv, TypeCorrect, InvariantHolds, PTL
     DEF Spec, ImplementsLifecycle, Lifecycle!Spec

-----------------------------------------------------------------------------
(* What follows from the promise for the manager itself. *)

\* The lifecycle with what is proved of it.
Promise == INSTANCE ScanLifecycleProofs
             WITH tools <- {s \in Scans : worker[s] \in Executing}

\* What the lifecycle implies holds of the manager, while transactions on one
\* row do not overlap.
LEMMA PromiseKept == RowLocked => (Spec => Promise!Spec)
<1>1. Lifecycle!Init <=> Promise!Init
  BY DEF Lifecycle!Init, Promise!Init, Lifecycle!Absent, Promise!Absent
<1>2. [Lifecycle!Next]_Lifecycle!vars <=> [Promise!Next]_Promise!vars
  BY DEF Lifecycle!Next, Lifecycle!Create, Lifecycle!Free, Lifecycle!Move,
         Lifecycle!Start, Lifecycle!Run, Lifecycle!ToolsEnd, Lifecycle!Finish,
         Lifecycle!Abort, Lifecycle!RequestCancel, Lifecycle!ConfirmCancel,
         Lifecycle!Crash, Lifecycle!Recover, Lifecycle!Recovered,
         Lifecycle!vars, Lifecycle!ActiveStatuses, Lifecycle!Absent,
         Promise!Next, Promise!Create, Promise!Free, Promise!Move,
         Promise!Start, Promise!Run, Promise!ToolsEnd, Promise!Finish,
         Promise!Abort, Promise!RequestCancel, Promise!ConfirmCancel,
         Promise!Crash, Promise!Recover, Promise!Recovered, Promise!vars,
         Promise!ActiveStatuses, Promise!Absent
<1>3. ImplementsLifecycle => Promise!Spec
  BY <1>1, <1>2, PTL DEF ImplementsLifecycle, Lifecycle!Spec, Promise!Spec
<1> QED
  BY <1>3, ManagerImplementsLifecycle

\* scan_state.py's "no transitions out" is true of every schedule of
\* scan_manager.py and scan_service.py in which transactions on one row do not
\* overlap, crashes, restarts and escaped exceptions included.
THEOREM TerminalIsFinalWithoutOverlap == RowLocked => (Spec => TerminalIsFinal)
<1> SUFFICES ASSUME RowLocked PROVE Spec => TerminalIsFinal
  OBVIOUS
<1>1. Spec => Promise!TerminalIsFinal
  BY PromiseKept, Promise!TerminalStatusIsFinal
<1>2. [\A s \in Scans : status[s] \in Promise!TerminalStatuses => status'[s] = status[s]]_Promise!vars
        => [\A s \in Scans : status[s] \in TerminalStatuses => status'[s] = status[s]]_vars
  BY DEF Promise!vars, Promise!TerminalStatuses, TerminalStatuses
<1>3. Promise!TerminalIsFinal => TerminalIsFinal
  BY <1>2, PTL DEF TerminalIsFinal, Promise!TerminalIsFinal
<1> QED
  BY <1>1, <1>3

\* The scanners of two scans of a project do not execute together.
ToolsOfOneScan ==
    \A s, o \in Scans : /\ ProjectOf[s] = ProjectOf[o]
                        /\ {worker[s], worker[o]} \subseteq Executing
                        => s = o

\* What the index on active scans (models.py) is there for holds while
\* transactions on one row do not overlap, whatever is cancelled, raises or
\* restarts.  With overlaps it does not: a scan cancelled between the read and
\* the commit of TX2 frees its project and starts its scanners.
THEOREM OneToolRunnerPerProject == RowLocked => (Spec => []ToolsOfOneScan)
<1> SUFFICES ASSUME RowLocked PROVE Spec => []ToolsOfOneScan
  OBVIOUS
<1>1. Promise!OneToolRunnerPerProject => ToolsOfOneScan
  BY DEF Promise!OneToolRunnerPerProject, ToolsOfOneScan
<1> QED
  BY <1>1, PromiseKept, Promise!ToolsExcludeEachOther, PTL

=============================================================================
