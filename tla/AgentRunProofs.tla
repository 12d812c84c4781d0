--------------------------- MODULE AgentRunProofs ---------------------------
(***************************************************************************)
(* Proofs about the agent loop, for every planner, validator and tool,     *)
(* every step limit and every failed write: the status of a run is earned, *)
(* a cancel lets at most one more tool start, a row shows the result of    *)
(* its own call, and an audit goes to the row of the call it is about.     *)
(***************************************************************************)
EXTENDS AgentRun, FiniteSetTheorems, SequenceTheorems, TLAPS

\* A decision was emitted for every step but the one being decided.
StepInv ==
    /\ proposed \subseteq 1 .. step
    /\ at = "decide" => step \notin proposed
    /\ at \in {"decide", "validate", "start", "execute", "close", "record"} => step >= 1
    /\ at = "validate" => decision \in Tools \cup {Finish}
    /\ at \in {"start", "execute", "close"} => decision \in Tools
    /\ at = "close" => result.status # Nothing

\* Why the loop is about to close, and why the run has ended.
Reason(why) ==
    /\ why = "finished"  => decision = Finish
    /\ why = "cancelled" => cancel
    /\ why = "failed"    => step = MaxSteps \/ step \notin proposed

ClosingInv ==
    /\ at \in {"loop", "decide", "validate", "start", "execute", "close"} => closing = Nothing
    /\ at = "record" => closing \in {Nothing, "finished"}
    /\ at \in {"finish", "returned", "done"} => closing # Nothing
    /\ Reason(closing)
    /\ closing = "finished" /\ at \notin {"record", "raised"} => step \in trajectory
    /\ status # "running" =>
         /\ status = closing /\ at \in {"returned", "raised", "done"}
         /\ closing = "finished" => step \in trajectory

\* The one late tool was decided before the event was set.
LateInv ==
    /\ late \in {0, 1}
    /\ late = 1 => cancel /\ at \notin {"decide", "validate", "start"}

LoopType ==
    /\ at \in {"loop", "decide", "validate", "start", "execute", "close",
               "record", "finish", "returned", "raised", "done"}
    /\ status \in Statuses /\ step \in 0 .. MaxSteps /\ cancel \in BOOLEAN
    /\ decision \in Tools \cup {Finish, Nothing}
    /\ closing \in (Statuses \ {"running"}) \cup {Nothing}
    /\ result \in [status : {"ok", "error", "timeout", Nothing},
                   finding : Fingerprints \cup {Nothing}]

Record == [step : 0 .. MaxSteps, outcome : {"completed", "timeout", "cancelled", "error"}]

KeptType ==
    /\ trajectory \subseteq 1 .. MaxSteps
    /\ rows \in Seq(Row) /\ findings \subseteq Fingerprints
    /\ records \in [Tools -> Seq(Record)]

HistoryType ==
    /\ proposed \subseteq 1 .. MaxSteps /\ refused \subseteq 1 .. MaxSteps
    /\ outcomes \in [1 .. MaxSteps -> {"ok", "error", "timeout", Nothing}]
    /\ finals \in Nat /\ announced \in Nat /\ stored \in Nat /\ lost \in Nat /\ late \in Nat

IInv == LoopType /\ KeptType /\ HistoryType /\ StepInv /\ ClosingInv /\ LateInv

LEMMA TypesAreTypeOK == LoopType /\ KeptType /\ HistoryType => TypeOK
BY DEF LoopType, KeptType, HistoryType, Record, TypeOK

LEMMA InitIInv == Init => IInv
<1> SUFFICES ASSUME Init PROVE IInv
  OBVIOUS
<1> USE DEF Init
<1>1. LoopType
  <2>1. step \in 0 .. MaxSteps
    BY StepsAssumption
  <2>2. result \in [status : {"ok", "error", "timeout", Nothing},
                    finding : Fingerprints \cup {Nothing}]
    BY DEF NoResult
  <2> QED
    BY <2>1, <2>2 DEF LoopType, Statuses
<1>2. KeptType
  <2>1. rows \in Seq(Row)
    OBVIOUS
  <2>2. \A t \in Tools : records[t] \in Seq(Record)
    <3> TAKE t \in Tools
    <3>1. [step |-> 0, outcome |-> "completed"] \in Record
      BY StepsAssumption DEF Record
    <3>2. <<[step |-> 0, outcome |-> "completed"]>> \in Seq(Record)
      BY <3>1
    <3>3. <<>> \in Seq(Record)
      OBVIOUS
    <3> QED
      BY <3>2, <3>3
  <2>3. records = [t \in Tools |-> records[t]]
    OBVIOUS
  <2> QED
    BY <2>1, <2>3, <2>2 DEF KeptType
<1>3. HistoryType
  BY DEF HistoryType
<1>4. StepInv /\ ClosingInv /\ LateInv
  BY DEF StepInv, ClosingInv, LateInv, Reason, Finish, Nothing
<1> QED
  BY <1>1, <1>2, <1>3, <1>4 DEF IInv

\* What a call of a tool may answer, and leave in the runner's record.
LEMMA ExecuteAnswers ==
    ASSUME Execute
    PROVE  \E answer \in {"ok", "error", "timeout"},
              finding \in Fingerprints \cup {Nothing},
              outcome \in {"completed", "timeout", "cancelled", "error", "refused"} :
             /\ result' = [status |-> answer, finding |-> finding]
             /\ outcomes' = [outcomes EXCEPT ![step] = answer]
             /\ IF outcome = "refused"
                THEN refused' = refused \cup {step} /\ UNCHANGED records
                ELSE /\ records' = [records EXCEPT ![decision] =
                                      Append(@, [step |-> step, outcome |-> outcome])]
                     /\ UNCHANGED refused
<1>1. \A outcome \in {"completed", "timeout", "cancelled", "error", "refused"} :
        ResultsOf(outcome) \subseteq {"ok", "error", "timeout"}
  BY DEF ResultsOf
<1> QED
  BY <1>1 DEF Execute

-----------------------------------------------------------------------------
LEMMA StepLoopType == IInv /\ [Next]_vars => LoopType'
<1> SUFFICES ASSUME IInv, [Next]_vars PROVE LoopType'
  OBVIOUS
<1>a. LoopType /\ StepInv
  BY DEF IInv
<1> USE <1>a DEF LoopType, Statuses, loop, history
<1>1. CASE RequestCancel
  BY <1>1 DEF RequestCancel
<1>2. CASE LoopTop
  BY <1>2, StepsAssumption DEF LoopTop, Close, BeginStep, NoResult
<1>3. CASE Decide
  BY <1>3 DEF Decide, Close
<1>4. CASE Validate
  BY <1>4 DEF Validate
<1>5. CASE StartTool
  BY <1>5 DEF StartTool
<1>6. CASE Execute
  <2>1. result' \in [status : {"ok", "error", "timeout", Nothing},
                     finding : Fingerprints \cup {Nothing}]
    BY <1>6, ExecuteAnswers
  <2>2. at' = "close" /\ UNCHANGED <<status, step, cancel, decision, closing>>
    BY <1>6 DEF Execute
  <2> QED
    BY <2>1, <2>2
<1>7. CASE CloseTool
  BY <1>7 DEF CloseTool
<1>8. CASE RecordStep
  BY <1>8 DEF RecordStep, NextStep
<1>9. CASE FinishRun
  <2>1. closing # Nothing
    BY <1>9 DEF FinishRun, ClosingInv, IInv
  <2> QED
    BY <1>9, <2>1 DEF FinishRun
<1>10. CASE FinishScan
  BY <1>10 DEF FinishScan
<1>11. CASE UNCHANGED vars
  BY <1>11 DEF vars
<1> QED
  BY <1>1, <1>2, <1>3, <1>4, <1>5, <1>6, <1>7, <1>8, <1>9, <1>10, <1>11 DEF Next, Worker

LEMMA RowStatusType ==
    \A answer \in {"ok", "error", "timeout"} :
        RowStatus(answer) \in {"completed", "failed", "timeout"}
BY DEF RowStatus

\* Writing the status of a row, if it exists, leaves a sequence of rows.
LEMMA RowUpdated ==
    ASSUME rows \in Seq(Row), NEW i,
           NEW to \in {"completed", "failed", "timeout", "cancelled"}
    PROVE  [rows EXCEPT ![i].status = to] \in Seq(Row)
<1>1. CASE i \in 1 .. Len(rows)
  <2>1. \A row \in Row : [row EXCEPT !.status = to] \in Row
    BY DEF Row
  <2>2. [rows[i] EXCEPT !.status = to] \in Row
    BY <1>1, <2>1
  <2> QED
    BY <1>1, <2>2, ExceptSeq
<1>2. CASE i \notin 1 .. Len(rows)
  <2>1. [rows EXCEPT ![i].status = to] = rows
    BY <1>2
  <2> QED
    BY <2>1
<1> QED
  BY <1>1, <1>2

\* A row is among the rows of its tool, so its position is at least 1.
LEMMA PositionType ==
    ASSUME rows \in Seq(Row), NEW i \in DOMAIN rows
    PROVE  Position(i) \in Nat \ {0}
<1> DEFINE Upto == {j \in RowsOf(rows[i].tool) : j <= i}
<1>1. Upto \subseteq 1 .. Len(rows) /\ i \in Upto
  BY DEF RowsOf
<1>2. IsFiniteSet(1 .. Len(rows))
  BY FS_Interval
<1>3. IsFiniteSet(Upto)
  BY <1>1, <1>2, FS_Subset
<1>4. Cardinality(Upto) \in Nat /\ Cardinality(Upto) # 0
  BY <1>1, <1>3, FS_CardinalityType, FS_EmptySet
<1> QED
  BY <1>4 DEF Position

LEMMA EnrichedIsRow ==
    ASSUME rows \in Seq(Row), records \in [Tools -> Seq(Record)], NEW i \in DOMAIN rows
    PROVE  Enriched(i) \in Row
<1>1. rows[i] \in Row /\ rows[i].tool \in Tools
  <2>1. rows[i] \in Row
    OBVIOUS
  <2> QED
    BY <2>1 DEF Row
<1> DEFINE audits == records[rows[i].tool]
           k == Position(i)
<1>2. CASE k > Len(audits)
  BY <1>1, <1>2 DEF Enriched
<1>3. CASE ~(k > Len(audits))
  <2>1. audits[k] \in Record
    BY <1>1, <1>3, PositionType
  <2>2. audits[k].step \in NoAudit .. MaxSteps
    BY <2>1, StepsAssumption DEF Record, NoAudit
  <2>3. audits[k].outcome \in {"completed", "timeout", "cancelled", "error"}
    BY <2>1 DEF Record
  <2> HIDE DEF audits, k
  <2>4. \A status_ \in {rows[i].status, "timeout", "cancelled"} :
          [rows[i] EXCEPT !.audit = audits[k].step, !.status = status_] \in Row
    BY <1>1, <2>2 DEF Row
  <2>5. Enriched(i) = [rows[i] EXCEPT
                         !.audit = audits[k].step,
                         !.status = IF audits[k].outcome \in {"cancelled", "timeout"}
                                    THEN audits[k].outcome ELSE @]
    BY <1>3 DEF Enriched, audits, k
  <2> QED
    BY <2>3, <2>4, <2>5
<1> QED
  BY <1>2, <1>3

LEMMA StepKeptType == IInv /\ [Next]_vars => KeptType'
<1> SUFFICES ASSUME IInv, [Next]_vars PROVE KeptType'
  OBVIOUS
<1>a. LoopType /\ KeptType /\ StepInv
  BY DEF IInv
<1> USE <1>a DEF KeptType, kept, history
<1>1. CASE RequestCancel \/ LoopTop \/ Decide \/ Validate \/ FinishRun
  BY <1>1 DEF RequestCancel, LoopTop, Decide, Validate, FinishRun
<1>2. CASE StartTool
  <2>1. [tool |-> decision, step |-> step, status |-> "running", audit |-> NoAudit] \in Row
    <3>1. decision \in Tools /\ step \in 1 .. MaxSteps
      BY <1>2 DEF StartTool, StepInv, LoopType
    <3>2. NoAudit \in NoAudit .. MaxSteps
      BY StepsAssumption DEF NoAudit
    <3> QED
      BY <3>1, <3>2 DEF Row
  <2>2. Append(rows, [tool |-> decision, step |-> step, status |-> "running",
                      audit |-> NoAudit]) \in Seq(Row)
    BY <2>1
  <2>3. rows' \in Seq(Row)
    BY <1>2, <2>2 DEF StartTool, Sink
  <2> QED
    BY <1>2, <2>3 DEF StartTool
<1>3. CASE Execute
  <2>1. step \in 1 .. MaxSteps /\ decision \in Tools
    BY <1>3 DEF Execute, StepInv, LoopType
  <2>2. UNCHANGED <<trajectory, rows, findings>>
    BY <1>3 DEF Execute
  <2>3. CASE UNCHANGED records
    BY <2>2, <2>3
  <2>4. ASSUME NEW outcome \in {"completed", "timeout", "cancelled", "error", "refused"},
               outcome # "refused",
               records' = [records EXCEPT ![decision] =
                             Append(@, [step |-> step, outcome |-> outcome])]
        PROVE  KeptType'
    <3>1. [step |-> step, outcome |-> outcome] \in Record
      BY <2>1, <2>4 DEF Record
    <3>2. Append(records[decision], [step |-> step, outcome |-> outcome]) \in Seq(Record)
      BY <2>1, <3>1
    <3> QED
      BY <2>2, <2>4, <3>2
  <2> QED
    BY <1>3, <2>3, <2>4, ExecuteAnswers
<1>4. CASE CloseTool
  <2>1. result.status \in {"ok", "error", "timeout"}
    BY <1>4 DEF CloseTool, StepInv, LoopType
  <2>2. Closed \in Seq(Row)
    <3>1. RowStatus(result.status) \in {"completed", "failed", "timeout", "cancelled"}
      BY <2>1, RowStatusType
    <3> QED
      BY <3>1, RowUpdated DEF Closed
  <2> QED
    BY <1>4, <2>2 DEF CloseTool, Sink
<1>5. CASE RecordStep
  <2>1. step \in 1 .. MaxSteps
    BY <1>5 DEF RecordStep, StepInv, LoopType
  <2>2. findings' \subseteq Fingerprints
    BY <1>5 DEF RecordStep, AnnounceFinding, LoopType
  <2> QED
    BY <1>5, <2>1, <2>2 DEF RecordStep
<1>6. CASE FinishScan
  <2>1. [i \in DOMAIN rows |-> Enriched(i)] \in Seq(Row)
    <3>1. DOMAIN rows = 1 .. Len(rows) /\ Len(rows) \in Nat
      OBVIOUS
    <3>2. \A i \in 1 .. Len(rows) : Enriched(i) \in Row
      BY <3>1, EnrichedIsRow
    <3> QED
      BY <3>1, <3>2
  <2> QED
    BY <1>6, <2>1 DEF FinishScan
<1>7. CASE UNCHANGED vars
  BY <1>7 DEF vars
<1> QED
  BY <1>1, <1>2, <1>3, <1>4, <1>5, <1>6, <1>7 DEF Next, Worker

LEMMA StepHistoryType == IInv /\ [Next]_vars => HistoryType'
<1> SUFFICES ASSUME IInv, [Next]_vars PROVE HistoryType'
  OBVIOUS
<1>a. HistoryType /\ step \in 0 .. MaxSteps
  BY DEF IInv, LoopType
<1>b. at \in {"decide", "validate", "start", "execute", "close", "record"} =>
        step \in 1 .. MaxSteps
  BY <1>a DEF IInv, StepInv
<1> USE <1>a, <1>b DEF HistoryType, kept, history
<1>1. CASE RequestCancel \/ LoopTop \/ Validate \/ FinishScan
  BY <1>1 DEF RequestCancel, LoopTop, Validate, FinishScan
<1>2. CASE Decide
  BY <1>2 DEF Decide
<1>3. CASE StartTool \/ CloseTool
  <2>1. lost' \in Nat
    BY <1>3 DEF StartTool, CloseTool, Sink
  <2>2. late' \in Nat
    BY <1>3 DEF StartTool, CloseTool
  <2> QED
    BY <1>3, <2>1, <2>2 DEF StartTool, CloseTool
<1>4. CASE Execute
  <2>1. step \in 1 .. MaxSteps /\ UNCHANGED <<proposed, finals, announced, stored, lost, late>>
    BY <1>4 DEF Execute
  <2>2. refused' \subseteq 1 .. MaxSteps
    BY <2>1, <1>4, ExecuteAnswers
  <2>3. outcomes' \in [1 .. MaxSteps -> {"ok", "error", "timeout", Nothing}]
    BY <2>1, <1>4, ExecuteAnswers
  <2> QED
    BY <2>1, <2>2, <2>3
<1>5. CASE RecordStep
  BY <1>5 DEF RecordStep, AnnounceFinding
<1>6. CASE FinishRun
  BY <1>6 DEF FinishRun
<1>7. CASE UNCHANGED vars
  BY <1>7 DEF vars
<1> QED
  BY <1>1, <1>2, <1>3, <1>4, <1>5, <1>6, <1>7 DEF Next, Worker

LEMMA StepStepInv == IInv /\ [Next]_vars => StepInv'
<1> SUFFICES ASSUME IInv, [Next]_vars PROVE StepInv'
  OBVIOUS
<1>a. StepInv /\ step \in 0 .. MaxSteps /\ Nothing \notin {"ok", "error", "timeout"}
  BY DEF IInv, LoopType, Nothing
<1> USE <1>a DEF StepInv, loop, kept, history
<1>1. CASE RequestCancel
  BY <1>1 DEF RequestCancel
<1>2. CASE LoopTop
  BY <1>2 DEF LoopTop, Close, BeginStep
<1>3. CASE Decide
  <2>1. at' \in {"finish", "validate"} /\ step' = step /\ step >= 1
    BY <1>3 DEF Decide, Close
  <2>2. proposed' \subseteq 1 .. step
    <3>1. step \in 1 .. step
      BY <2>1
    <3>2. proposed' = proposed \/ proposed' = proposed \cup {step}
      BY <1>3 DEF Decide
    <3> QED
      BY <3>1, <3>2
  <2>3. at' = "validate" => decision' \in Tools \cup {Finish}
    BY <1>3 DEF Decide, Close
  <2> QED
    BY <2>1, <2>2, <2>3
<1>4. CASE Validate
  BY <1>4 DEF Validate
<1>5. CASE StartTool \/ CloseTool
  BY <1>5 DEF StartTool, CloseTool
<1>6. CASE Execute
  <2>1. result'.status # Nothing
    BY <1>6, ExecuteAnswers
  <2> QED
    BY <1>6, <2>1 DEF Execute
<1>7. CASE RecordStep \/ FinishRun \/ FinishScan
  BY <1>7 DEF RecordStep, NextStep, FinishRun, FinishScan
<1>8. CASE UNCHANGED vars
  BY <1>8 DEF vars
<1> QED
  BY <1>1, <1>2, <1>3, <1>4, <1>5, <1>6, <1>7, <1>8 DEF Next, Worker

LEMMA StepClosing == IInv /\ [Next]_vars => ClosingInv'
<1> SUFFICES ASSUME IInv, [Next]_vars PROVE ClosingInv'
  OBVIOUS
<1>a. ClosingInv /\ StepInv /\ step \in 0 .. MaxSteps
  BY DEF IInv, LoopType
<1> USE <1>a DEF ClosingInv, Reason, Nothing, loop, kept, history
<1>1. CASE RequestCancel
  BY <1>1 DEF RequestCancel
<1>2. CASE LoopTop
  BY <1>2, StepsAssumption DEF LoopTop, Close, BeginStep
<1>3. CASE Decide
  BY <1>3 DEF Decide, Close, StepInv
<1>4. CASE Validate
  BY <1>4 DEF Validate
<1>5. CASE StartTool \/ Execute \/ CloseTool
  BY <1>5 DEF StartTool, Execute, CloseTool
<1>6. CASE RecordStep
  BY <1>6 DEF RecordStep, NextStep
<1>7. CASE FinishRun
  BY <1>7 DEF FinishRun
<1>8. CASE FinishScan
  BY <1>8 DEF FinishScan
<1>9. CASE UNCHANGED vars
  BY <1>9 DEF vars
<1> QED
  BY <1>1, <1>2, <1>3, <1>4, <1>5, <1>6, <1>7, <1>8, <1>9 DEF Next, Worker

LEMMA StepLate == IInv /\ [Next]_vars => LateInv'
<1> SUFFICES ASSUME IInv, [Next]_vars PROVE LateInv'
  OBVIOUS
<1>a. LateInv
  BY DEF IInv
<1> USE <1>a DEF LateInv, loop, kept, history
<1>1. CASE RequestCancel
  BY <1>1 DEF RequestCancel
<1>2. CASE LoopTop
  BY <1>2 DEF LoopTop, Close, BeginStep
<1>3. CASE Decide \/ Validate
  BY <1>3 DEF Decide, Validate, Close
<1>4. CASE StartTool
  BY <1>4 DEF StartTool
<1>5. CASE Execute \/ CloseTool
  BY <1>5 DEF Execute, CloseTool
<1>6. CASE RecordStep \/ FinishRun \/ FinishScan
  BY <1>6 DEF RecordStep, NextStep, FinishRun, FinishScan
<1>7. CASE UNCHANGED vars
  BY <1>7 DEF vars
<1> QED
  BY <1>1, <1>2, <1>3, <1>4, <1>5, <1>6, <1>7 DEF Next, Worker

LEMMA InvariantHolds == Spec => []IInv
<1>1. IInv /\ [Next]_vars => IInv'
  BY StepLoopType, StepKeptType, StepHistoryType, StepStepInv, StepClosing, StepLate DEF IInv
<1> QED
  BY InitIInv, <1>1, PTL DEF Spec

-----------------------------------------------------------------------------
\* Every variable of the run keeps its type, the rows and the runner's
\* records included, whatever was lost, refused or matched by position.
THEOREM TypeCorrect == Spec => []TypeOK
<1>1. IInv => TypeOK
  BY TypesAreTypeOK DEF IInv
<1> QED
  BY InvariantHolds, <1>1, PTL

\* AgentRuntime.execute starts at most one tool after the cancel event is
\* set, in a run of any length.
THEOREM CancelIsHeeded == Spec => []CancelStopsTools
<1>1. IInv => CancelStopsTools
  BY DEF IInv, LateInv, CancelStopsTools
<1> QED
  BY InvariantHolds, <1>1, PTL

\* The status AgentRuntime.execute returns is earned, whatever the planner
\* decided and whichever step raised.
THEOREM StatusTellsTheTruth == Spec => []StatusIsEarned
<1>1. IInv => StatusIsEarned
  BY DEF IInv, ClosingInv, Reason, StatusIsEarned
<1> QED
  BY InvariantHolds, <1>1, PTL

-----------------------------------------------------------------------------
(* The rows of a run and the results they show. *)

\* The call whose result a row still waits for.
InFlight(i) == rows[i].step = step /\ at \in {"execute", "close"}

\* A row whose closing write was lost.
Stale == {i \in DOMAIN rows : rows[i].status = "running" /\ ~InFlight(i)}

OfThisStep == {i \in DOMAIN rows : rows[i].step = step}

\* Rows are created in the order of the steps, one for each at most.
OrderInv ==
    /\ \A i, j \in DOMAIN rows : i < j => rows[i].step < rows[j].step
    /\ \A i \in DOMAIN rows : rows[i].step <= step
    /\ at \in {"decide", "validate", "start"} => OfThisStep = {}

\* A row that waits for ever, or is missing, costs a write each.
LossInv ==
    /\ Stale # {} => lost >= 1
    /\ at \in {"execute", "close"} /\ OfThisStep = {} =>
         lost >= 1 /\ (Stale # {} => lost >= 2)
    /\ at \in {"execute", "close"} =>
         \A i \in OfThisStep : rows[i].tool = decision /\ rows[i].status = "running"
    /\ at = "close" => outcomes[step] = result.status

\* So the first write that is lost cannot give a result to another call's row.
RowInv == at # "done" => OrderInv /\ LossInv

\* Each record the runner keeps of a tool belongs to one of its rows; only the
\* row of a call under way has none yet.
Counted(t) ==
    Cardinality(RowsOf(t)) =
        IF at = "execute" /\ decision = t THEN Len(records[t]) + 1 ELSE Len(records[t])

Matched(i) ==
    LET audits == records[rows[i].tool]
    IN  Position(i) <= Len(audits) => audits[Position(i)].step = rows[i].step

AuditInv ==
    /\ AuditIsAligned
    /\ at # "done" => \A i \in DOMAIN rows : rows[i].audit = NoAudit
    /\ at # "done" /\ lost = 0 /\ refused = {} =>
         \A t \in Tools \ PreStage : Counted(t) /\ \A i \in RowsOf(t) : Matched(i)

RowsInv == RowInv /\ RowsShowTheirOwnResult /\ AuditInv

\* A set of row numbers has a greatest one.
LEMMA GreatestRow ==
    ASSUME NEW n \in Nat, NEW T \in SUBSET (1 .. n), T # {}
    PROVE  \E m \in T : \A k \in T : k <= m
<1> DEFINE U == {d \in 0 .. n : n - d \in T}
<1>1. U \in SUBSET Nat /\ U # {}
  <2>1. PICK t \in T : TRUE
    OBVIOUS
  <2>2. n - t \in 0 .. n /\ n - (n - t) = t
    BY <2>1
  <2>3. n - t \in U
    BY <2>1, <2>2
  <2>4. U \in SUBSET Nat
    OBVIOUS
  <2> HIDE DEF U
  <2> QED
    BY <2>3, <2>4
<1>2. IsWellFoundedOn(OpToRel(<, Nat), Nat)
  BY NatLessThanWellFounded
<1> HIDE DEF U
<1>3. \E u \in U : \A v \in U : ~(<<v, u>> \in OpToRel(<, Nat))
  BY <1>1, <1>2, WFMin
<1>4. PICK u \in U : \A v \in U : ~(v < u)
  BY <1>1, <1>3 DEF OpToRel
<1>5. u \in 0 .. n /\ n - u \in T
  BY DEF U
<1>6. ASSUME NEW t \in T PROVE t <= n - u
  <2>1. n - t \in 0 .. n /\ n - (n - t) = t /\ t \in 1 .. n
    OBVIOUS
  <2>2. n - t \in U
    BY <2>1 DEF U
  <2> QED
    BY <1>4, <1>5, <2>1, <2>2
<1> QED
  BY <1>5, <1>6

LEMMA LossesOnlyGrow ==
    IInv /\ [Next]_vars => lost' \in Nat /\ lost' >= lost /\ refused \subseteq refused'
<1> SUFFICES ASSUME IInv, [Next]_vars PROVE lost' >= lost /\ refused \subseteq refused'
  BY StepHistoryType DEF HistoryType
<1>a. lost \in Nat
  BY DEF IInv, HistoryType
<1> USE <1>a DEF kept, history
<1>1. CASE RequestCancel \/ LoopTop \/ Decide \/ Validate \/ FinishScan
  BY <1>1 DEF RequestCancel, LoopTop, Decide, Validate, FinishScan
<1>2. CASE StartTool \/ CloseTool
  BY <1>2 DEF StartTool, CloseTool, Sink
<1>3. CASE Execute
  <2>1. refused' = refused \/ refused' = refused \cup {step}
    BY <1>3, ExecuteAnswers
  <2> QED
    BY <1>3, <2>1 DEF Execute
<1>4. CASE RecordStep
  BY <1>4 DEF RecordStep, AnnounceFinding
<1>5. CASE FinishRun
  BY <1>5 DEF FinishRun
<1>6. CASE UNCHANGED vars
  BY <1>6 DEF vars
<1> QED
  BY <1>1, <1>2, <1>3, <1>4, <1>5, <1>6 DEF Next, Worker

\* What all steps do that write neither a row nor a record.
Quiet ==
    /\ UNCHANGED <<rows, records, outcomes, refused>>
    /\ \/ at' = at /\ UNCHANGED <<step, decision, result>>
       \/ /\ at \notin {"execute", "close", "done"} /\ at' \notin {"execute", "close", "done"}
          /\ \/ step' = step /\ (at' \in {"decide", "validate", "start"} =>
                                   at \in {"decide", "validate", "start"})
             \/ step' = step + 1

LEMMA QuietSteps ==
    IInv /\ [Next]_vars =>
        Quiet \/ StartTool \/ Execute \/ CloseTool \/ FinishScan
<1> SUFFICES ASSUME IInv, [Next]_vars
             PROVE  Quiet \/ StartTool \/ Execute \/ CloseTool \/ FinishScan
  OBVIOUS
<1> USE DEF Quiet, loop, kept, history
<1>1. CASE RequestCancel
  BY <1>1 DEF RequestCancel
<1>2. CASE LoopTop
  BY <1>2 DEF LoopTop, Close, BeginStep
<1>3. CASE Decide
  BY <1>3 DEF Decide, Close
<1>4. CASE Validate
  BY <1>4 DEF Validate
<1>5. CASE RecordStep
  BY <1>5 DEF RecordStep, NextStep
<1>6. CASE FinishRun
  BY <1>6 DEF FinishRun
<1>7. CASE UNCHANGED vars
  BY <1>7 DEF vars
<1> QED
  BY <1>1, <1>2, <1>3, <1>4, <1>5, <1>6, <1>7 DEF Next, Worker

LEMMA RowsTyped ==
    ASSUME IInv
    PROVE  /\ rows \in Seq(Row) /\ Len(rows) \in Nat /\ DOMAIN rows = 1 .. Len(rows)
           /\ \A i \in DOMAIN rows : rows[i] \in Row /\ rows[i].step \in Nat /\ rows[i].tool \in Tools
           /\ step \in Nat /\ lost \in Nat
<1>1. rows \in Seq(Row) /\ step \in 0 .. MaxSteps /\ lost \in Nat
  BY DEF IInv, KeptType, LoopType, HistoryType
<1>2. \A row \in Row : row.step \in Nat /\ row.tool \in Tools
  BY DEF Row
<1> QED
  BY <1>1, <1>2

LEMMA QuietRows ==
    ASSUME IInv, [Next]_vars, RowInv, RowsShowTheirOwnResult, Quiet
    PROVE  RowInv' /\ RowsShowTheirOwnResult'
<1>1. lost' \in Nat /\ lost' >= lost
  BY LossesOnlyGrow
<1> USE RowsTyped
<1>2. CASE at' = "done"
  BY <1>2 DEF RowInv, RowsShowTheirOwnResult
<1>3. CASE at' # "done"
  <2>1. at # "done" /\ OrderInv /\ LossInv
    BY <1>3 DEF Quiet, RowInv
  <2>2. OrderInv'
    BY <2>1 DEF Quiet, OrderInv, OfThisStep
  <2>3. Stale' = Stale
    BY DEF Quiet, Stale, InFlight
  <2>4. LossInv'
    <3>1. CASE at' = at /\ UNCHANGED <<step, decision, result>>
      BY <1>1, <2>1, <2>3, <3>1 DEF Quiet, LossInv, OfThisStep
    <3>2. CASE at' \notin {"execute", "close"}
      BY <1>1, <2>1, <2>3, <3>2 DEF LossInv
    <3> QED
      BY <3>1, <3>2 DEF Quiet
  <2>5. RowsShowTheirOwnResult'
    BY <1>1, <2>1 DEF Quiet, RowsShowTheirOwnResult
  <2> QED
    BY <2>2, <2>4, <2>5 DEF RowInv
<1> QED
  BY <1>2, <1>3

LEMMA StartToolRows ==
    ASSUME IInv, RowInv, RowsShowTheirOwnResult, StartTool
    PROVE  RowInv' /\ RowsShowTheirOwnResult'
<1> DEFINE new == [tool |-> decision, step |-> step, status |-> "running", audit |-> NoAudit]
<1>1. /\ at = "start" /\ at' = "execute" /\ UNCHANGED <<step, decision, result, outcomes>>
      /\ Sink(Append(rows, new))
  BY DEF StartTool
<1>2. OrderInv /\ LossInv /\ OfThisStep = {}
  BY <1>1 DEF RowInv, OrderInv
<1> USE RowsTyped
<1>3. \A i \in DOMAIN rows : rows[i].step < step
  BY <1>2 DEF OrderInv, OfThisStep
<1>4. CASE UNCHANGED rows /\ lost' = lost + 1
  <2>1. Stale' = Stale /\ OfThisStep' = {}
    BY <1>1, <1>2, <1>3, <1>4 DEF Stale, InFlight, OfThisStep
  <2>2. OrderInv'
    BY <1>1, <1>2, <1>4 DEF OrderInv
  <2>3. LossInv'
    BY <1>1, <1>2, <1>4, <2>1 DEF LossInv
  <2>4. RowsShowTheirOwnResult'
    BY <1>1, <1>4 DEF RowsShowTheirOwnResult
  <2> QED
    BY <2>2, <2>3, <2>4 DEF RowInv
<1>5. CASE rows' = Append(rows, new) /\ UNCHANGED lost
  <2> DEFINE n == Len(rows) + 1
  <2>1. /\ DOMAIN rows' = 1 .. n /\ rows'[n] = new
        /\ \A i \in DOMAIN rows : rows'[i] = rows[i]
    BY <1>5, AppendProperties
  <2>2. rows'[n].step = step /\ rows'[n].tool = decision /\ rows'[n].status = "running"
    BY <2>1
  <2> HIDE DEF new
  <2>3. \A i \in DOMAIN rows' : i \in DOMAIN rows \/ i = n
    BY <2>1
  <2>4. n \in DOMAIN rows' /\ \A i \in DOMAIN rows : i < n
    BY <2>1
  <2> HIDE DEF n
  <2>5. OfThisStep' = {n}
    BY <1>1, <1>3, <2>1, <2>2, <2>3, <2>4 DEF OfThisStep
  <2>6. Stale' \subseteq Stale
    BY <1>1, <2>1, <2>2, <2>3 DEF Stale, InFlight
  <2>7. OrderInv'
    <3>1. ASSUME NEW i \in DOMAIN rows', NEW j \in DOMAIN rows', i < j
          PROVE  rows'[i].step < rows'[j].step
      <4>1. i \in DOMAIN rows
        <5>1. CASE i = n /\ j = n
          BY <3>1, <5>1 DEF n
        <5>2. CASE i = n /\ j \in DOMAIN rows
          BY <2>4, <3>1, <5>2 DEF n
        <5> QED
          BY <2>3, <5>1, <5>2
      <4>2. CASE j = n
        BY <1>3, <2>1, <2>2, <4>1, <4>2
      <4>3. CASE j \in DOMAIN rows
        BY <1>2, <2>1, <3>1, <4>1, <4>3 DEF OrderInv
      <4> QED
        BY <2>3, <4>2, <4>3
    <3>2. \A i \in DOMAIN rows' : rows'[i].step <= step'
      BY <1>1, <1>3, <2>1, <2>2, <2>3
    <3> QED
      BY <1>1, <3>1, <3>2 DEF OrderInv
  <2>8. LossInv'
    BY <1>1, <1>2, <1>5, <2>2, <2>5, <2>6 DEF LossInv
  <2>9. RowsShowTheirOwnResult'
    BY <1>1, <1>5, <2>1, <2>2, <2>3 DEF RowsShowTheirOwnResult
  <2> QED
    BY <2>7, <2>8, <2>9 DEF RowInv
<1> QED
  BY <1>1, <1>4, <1>5 DEF Sink

LEMMA ExecuteRows ==
    ASSUME IInv, RowInv, RowsShowTheirOwnResult, Execute
    PROVE  RowInv' /\ RowsShowTheirOwnResult'
<1>1. at = "execute" /\ at' = "close" /\ UNCHANGED <<step, decision, rows, lost>>
  BY DEF Execute
<1>2. OrderInv /\ LossInv
  BY <1>1 DEF RowInv
<1>3. step \in 1 .. MaxSteps /\ outcomes \in [1 .. MaxSteps -> {"ok", "error", "timeout", Nothing}]
  BY <1>1 DEF IInv, LoopType, StepInv, HistoryType
<1>4. outcomes'[step] = result'.status /\ \A s \in 1 .. MaxSteps : s # step => outcomes'[s] = outcomes[s]
  <2>1. PICK answer \in {"ok", "error", "timeout"}, finding \in Fingerprints \cup {Nothing} :
          /\ result' = [status |-> answer, finding |-> finding]
          /\ outcomes' = [outcomes EXCEPT ![step] = answer]
    BY ExecuteAnswers
  <2>2. result'.status = answer
    BY <2>1
  <2>3. outcomes'[step] = answer /\ \A s \in 1 .. MaxSteps : s # step => outcomes'[s] = outcomes[s]
    BY <1>3, <2>1
  <2> QED
    BY <2>2, <2>3
<1>5. Stale' = Stale /\ OfThisStep' = OfThisStep
  BY <1>1 DEF Stale, InFlight, OfThisStep
<1>6. OrderInv'
  BY <1>1, <1>2 DEF OrderInv
<1>7. LossInv'
  BY <1>1, <1>2, <1>4, <1>5 DEF LossInv
<1>8. RowsShowTheirOwnResult'
  <2>1. ASSUME NEW i \in DOMAIN rows, rows[i].status # "running"
        PROVE  outcomes'[rows[i].step] = outcomes[rows[i].step]
    <3>1. rows[i].step # step
      BY <1>1, <1>2, <2>1 DEF LossInv, OfThisStep
    <3>2. rows[i].step \in 1 .. MaxSteps
      BY RowsTyped DEF Row
    <3> QED
      BY <1>4, <3>1, <3>2
  <2> QED
    BY <1>1, <2>1 DEF RowsShowTheirOwnResult
<1> QED
  BY <1>6, <1>7, <1>8 DEF RowInv

\* What the closing write does, if it happens.
LEMMA ClosedRows ==
    ASSUME IInv, at = "close"
    PROVE  \/ RunningRows(decision) = {} /\ Closed = rows
           \/ \E m \in RunningRows(decision) :
                /\ \A j \in RunningRows(decision) : j <= m
                /\ DOMAIN Closed = DOMAIN rows
                /\ \A i \in DOMAIN rows : i # m => Closed[i] = rows[i]
                /\ Closed[m] = [rows[m] EXCEPT !.status = RowStatus(result.status)]
<1> DEFINE open == RunningRows(decision)
           m == CHOOSE i \in open : \A j \in open : j <= i
<1>1. CASE open = {}
  BY <1>1 DEF Closed
<1>2. CASE open # {}
  <2>1. open \in SUBSET (1 .. Len(rows)) /\ Len(rows) \in Nat
    BY RowsTyped DEF RunningRows
  <2> HIDE DEF open
  <2>2. \E i \in open : \A j \in open : j <= i
    BY <1>2, <2>1, GreatestRow
  <2>3. m \in open /\ \A j \in open : j <= m
    BY <2>2
  <2>4. Closed = [rows EXCEPT ![m].status = RowStatus(result.status)]
    BY <1>2 DEF Closed, open
  <2> HIDE DEF m
  <2>5. m \in DOMAIN rows
    BY <2>1, <2>3, RowsTyped
  <2>6. /\ DOMAIN Closed = DOMAIN rows
        /\ \A i \in DOMAIN rows : i # m => Closed[i] = rows[i]
        /\ Closed[m] = [rows[m] EXCEPT !.status = RowStatus(result.status)]
    BY <2>4, <2>5
  <2> QED
    BY <2>3, <2>6 DEF open
<1> QED
  BY <1>1, <1>2

LEMMA CloseToolRows ==
    ASSUME IInv, RowInv, RowsShowTheirOwnResult, CloseTool
    PROVE  RowInv' /\ RowsShowTheirOwnResult'
<1>1. at = "close" /\ at' = "record" /\ UNCHANGED <<step, decision, result, outcomes>> /\ Sink(Closed)
  BY DEF CloseTool
<1>2. OrderInv /\ LossInv
  BY <1>1 DEF RowInv
<1> USE RowsTyped
<1>3. CASE UNCHANGED rows /\ lost' = lost + 1
  <2>1. OrderInv'
    BY <1>1, <1>2, <1>3 DEF OrderInv
  <2>2. LossInv' /\ RowsShowTheirOwnResult'
    BY <1>1, <1>3 DEF LossInv, RowsShowTheirOwnResult
  <2> QED
    BY <2>1, <2>2 DEF RowInv
<1>4. CASE rows' = rows /\ RunningRows(decision) = {} /\ UNCHANGED lost
  <2>1. OfThisStep = {}
    BY <1>1, <1>2, <1>4 DEF LossInv, OfThisStep, RunningRows
  <2>2. OrderInv'
    BY <1>1, <1>2, <1>4 DEF OrderInv
  <2>3. LossInv' /\ RowsShowTheirOwnResult'
    BY <1>1, <1>2, <1>4, <2>1 DEF LossInv, RowsShowTheirOwnResult
  <2> QED
    BY <2>2, <2>3 DEF RowInv
<1>5. ASSUME NEW m \in RunningRows(decision), UNCHANGED lost,
             \A j \in RunningRows(decision) : j <= m,
             DOMAIN rows' = DOMAIN rows,
             \A i \in DOMAIN rows : i # m => rows'[i] = rows[i],
             rows'[m] = [rows[m] EXCEPT !.status = RowStatus(result.status)]
      PROVE  RowInv' /\ RowsShowTheirOwnResult'
  <2>1. m \in DOMAIN rows /\ rows[m].tool = decision /\ rows[m].status = "running"
    BY DEF RunningRows
  <2>2. rows'[m].step = rows[m].step /\ rows'[m].status = RowStatus(result.status)
    <3>1. rows[m] \in Row
      BY <2>1
    <3> QED
      BY <1>5, <3>1 DEF Row
  <2>3. \A i \in DOMAIN rows : rows'[i].step = rows[i].step
    BY <1>5, <2>2
  <2>4. OrderInv'
    BY <1>1, <1>2, <1>5, <2>3 DEF OrderInv
  <2>5. result.status \in {"ok", "error", "timeout"}
    BY <1>1 DEF IInv, StepInv, LoopType
  <2>6. rows'[m].status # "running"
    BY <2>2, <2>5, RowStatusType
  <2>7. CASE m \notin OfThisStep
    <3>1. m \in Stale
      BY <2>1, <2>7 DEF Stale, InFlight, OfThisStep
    <3>2. OfThisStep = {}
      <4> SUFFICES ASSUME NEW p \in OfThisStep PROVE FALSE
        OBVIOUS
      <4>1. p \in RunningRows(decision) /\ p \in DOMAIN rows /\ rows[p].step = step
        BY <1>1, <1>2 DEF LossInv, OfThisStep, RunningRows
      <4>2. p < m
        BY <1>5, <2>1, <2>7, <4>1
      <4>3. rows[p].step < rows[m].step /\ rows[m].step <= step
        BY <1>2, <2>1, <4>1, <4>2 DEF OrderInv
      <4> QED
        BY <2>1, <4>1, <4>3
    <3>3. lost >= 2
      BY <1>1, <1>2, <3>1, <3>2 DEF LossInv
    <3>4. LossInv' /\ RowsShowTheirOwnResult'
      BY <1>1, <1>5, <3>3 DEF LossInv, RowsShowTheirOwnResult
    <3> QED
      BY <2>4, <3>4 DEF RowInv
  <2>8. CASE m \in OfThisStep
    <3>1. rows[m].step = step
      BY <2>8 DEF OfThisStep
    <3>2. Stale' \subseteq Stale
      <4> SUFFICES ASSUME NEW i \in Stale' PROVE i \in Stale
        OBVIOUS
      <4>1. i \in DOMAIN rows /\ rows'[i].status = "running"
        BY <1>5 DEF Stale
      <4>2. i # m /\ rows'[i] = rows[i]
        BY <1>5, <2>6, <4>1
      <4>3. rows[i].step # step
        BY <1>2, <2>1, <3>1, <4>1, <4>2 DEF OrderInv
      <4> QED
        BY <4>1, <4>2, <4>3 DEF Stale, InFlight
    <3>3. LossInv'
      BY <1>1, <1>2, <1>5, <3>2 DEF LossInv
    <3>4. RowsShowTheirOwnResult'
      <4> SUFFICES ASSUME lost <= 1, NEW i \in DOMAIN rows, rows'[i].status # "running"
                   PROVE  rows'[i].status = RowStatus(outcomes[rows'[i].step])
        BY <1>1, <1>5 DEF RowsShowTheirOwnResult
      <4>1. CASE i = m
        BY <1>1, <1>2, <2>2, <3>1, <4>1 DEF LossInv
      <4>2. CASE i # m
        BY <1>1, <1>5, <4>2 DEF RowsShowTheirOwnResult
      <4> QED
        BY <4>1, <4>2
    <3> QED
      BY <2>4, <3>3, <3>4 DEF RowInv
  <2> QED
    BY <2>7, <2>8
<1>6. CASE rows' = Closed /\ UNCHANGED lost
  BY <1>1, <1>4, <1>5, <1>6, ClosedRows
<1> QED
  BY <1>1, <1>3, <1>6 DEF Sink

LEMMA StepRows ==
    ASSUME IInv, [Next]_vars, RowInv, RowsShowTheirOwnResult
    PROVE  RowInv' /\ RowsShowTheirOwnResult'
<1>1. CASE FinishScan
  BY <1>1 DEF FinishScan, RowInv, RowsShowTheirOwnResult
<1> QED
  BY <1>1, QuietSteps, QuietRows, StartToolRows, ExecuteRows, CloseToolRows

-----------------------------------------------------------------------------
(* The rows of a run and the audits they take. *)

\* Positions depend on the tools of the rows alone.
LEMMA SamePositions ==
    ASSUME IInv, DOMAIN rows' = DOMAIN rows,
           \A i \in DOMAIN rows : rows'[i].tool = rows[i].tool
    PROVE  /\ \A t : RowsOf(t)' = RowsOf(t)
           /\ \A i \in DOMAIN rows : Position(i)' = Position(i)
<1>1. \A t : RowsOf(t)' = RowsOf(t)
  BY DEF RowsOf
<1> QED
  BY <1>1 DEF Position

LEMMA RowsAreFinite ==
    ASSUME IInv, NEW t
    PROVE  /\ RowsOf(t) \in SUBSET (1 .. Len(rows)) /\ IsFiniteSet(RowsOf(t))
           /\ Cardinality(RowsOf(t)) \in Nat
<1>1. RowsOf(t) \in SUBSET (1 .. Len(rows))
  BY RowsTyped DEF RowsOf
<1>2. IsFiniteSet(1 .. Len(rows))
  BY RowsTyped, FS_Interval
<1> QED
  BY <1>1, <1>2, FS_Subset, FS_CardinalityType

LEMMA PositionBound ==
    ASSUME IInv, NEW i \in DOMAIN rows
    PROVE  /\ Position(i) \in Nat
           /\ Position(i) <= Cardinality(RowsOf(rows[i].tool))
           /\ \A j \in RowsOf(rows[i].tool) : i < j =>
                Position(i) < Cardinality(RowsOf(rows[i].tool))
<1> DEFINE all == RowsOf(rows[i].tool)
           upto == {j \in all : j <= i}
<1>1. all \in SUBSET (1 .. Len(rows)) /\ IsFiniteSet(all) /\ Cardinality(all) \in Nat
  BY RowsAreFinite
<1>2. Position(i) = Cardinality(upto)
  BY DEF Position
<1>3. upto \in SUBSET all
  OBVIOUS
<1>4. ASSUME NEW j \in all, i < j PROVE upto # all
  <2>1. j \in Nat /\ i \in Nat
    BY <1>1, RowsTyped
  <2>2. ~(j <= i)
    BY <1>4, <2>1
  <2> QED
    BY <2>2
<1> HIDE DEF all, upto
<1>5. IsFiniteSet(upto) /\ Cardinality(upto) \in Nat /\ Cardinality(upto) <= Cardinality(all)
      /\ (Cardinality(upto) = Cardinality(all) => upto = all)
  BY <1>1, <1>3, FS_Subset, FS_CardinalityType
<1> QED
  BY <1>1, <1>2, <1>4, <1>5 DEF all

LEMMA RecordsTyped ==
    ASSUME IInv, NEW t \in Tools
    PROVE  /\ records[t] \in Seq(Record) /\ Len(records[t]) \in Nat
           /\ DOMAIN records = Tools
BY DEF IInv, KeptType

\* Whatever leaves the tools of the rows and the records alone.
LEMMA SameMatches ==
    ASSUME IInv, AuditInv, RowInv, at # "done", at' # "done",
           lost' = 0 => lost = 0, refused \subseteq refused',
           UNCHANGED records, DOMAIN rows' = DOMAIN rows,
           \A i \in DOMAIN rows : /\ rows'[i].tool = rows[i].tool
                                  /\ rows'[i].step = rows[i].step
                                  /\ rows'[i].audit = rows[i].audit,
           (at' = at /\ UNCHANGED decision) \/ (at # "execute" /\ at' # "execute")
    PROVE  AuditInv'
<1>1. /\ \A t : RowsOf(t)' = RowsOf(t)
      /\ \A i \in DOMAIN rows : Position(i)' = Position(i)
  BY SamePositions
<1>2. \A i \in DOMAIN rows' : rows'[i].audit = NoAudit
  BY DEF AuditInv
<1>3. AuditIsAligned'
  BY <1>2 DEF AuditIsAligned
<1>4. ASSUME lost' = 0, refused' = {}, NEW t \in Tools \ PreStage
      PROVE  Counted(t)' /\ \A i \in RowsOf(t)' : Matched(i)'
  <2>1. Counted(t) /\ \A i \in RowsOf(t) : Matched(i)
    BY <1>4 DEF AuditInv
  <2>2. Counted(t)'
    BY <1>1, <2>1 DEF Counted
  <2>3. ASSUME NEW i \in RowsOf(t) PROVE Matched(i)'
    <3>1. i \in DOMAIN rows
      BY DEF RowsOf
    <3> QED
      BY <1>1, <2>1, <3>1 DEF Matched
  <2> QED
    BY <1>1, <2>2, <2>3
<1> QED
  BY <1>2, <1>3, <1>4 DEF AuditInv

LEMMA StartToolAudit ==
    ASSUME IInv, AuditInv, RowInv, StartTool
    PROVE  AuditInv'
<1> DEFINE new == [tool |-> decision, step |-> step, status |-> "running", audit |-> NoAudit]
<1>1. /\ at = "start" /\ at' = "execute" /\ UNCHANGED <<step, decision, records, refused>>
      /\ Sink(Append(rows, new))
  BY DEF StartTool
<1> USE RowsTyped
<1>2. \A i \in DOMAIN rows : rows[i].audit = NoAudit
  BY <1>1 DEF AuditInv
<1>3. CASE UNCHANGED rows /\ lost' = lost + 1
  <2>1. \A i \in DOMAIN rows' : rows'[i].audit = NoAudit
    BY <1>2, <1>3
  <2>2. lost' # 0
    BY <1>3
  <2> QED
    BY <2>1, <2>2 DEF AuditInv, AuditIsAligned
<1>4. CASE rows' = Append(rows, new) /\ UNCHANGED lost
  <2>0. PICK n : n = Len(rows) + 1
    OBVIOUS
  <2>1. /\ DOMAIN rows' = (DOMAIN rows) \cup {n} /\ rows'[n] = new /\ n \notin DOMAIN rows
        /\ \A i \in DOMAIN rows : rows'[i] = rows[i] /\ i < n
    BY <1>4, <2>0, AppendProperties
  <2>2. rows'[n].tool = decision /\ rows'[n].audit = NoAudit
    BY <2>1
  <2> HIDE DEF new
  <2>3. n \in Nat
    BY <2>0
  <2>4. \A i \in DOMAIN rows' : rows'[i].audit = NoAudit
    BY <1>2, <2>1, <2>2
  <2>5. AuditIsAligned'
    BY <2>4 DEF AuditIsAligned
  <2>6. \A t : RowsOf(t)' = IF t = decision THEN RowsOf(t) \cup {n} ELSE RowsOf(t)
    BY <2>1, <2>2 DEF RowsOf
  <2>7. \A i \in DOMAIN rows : Position(i)' = Position(i)
    <3> SUFFICES ASSUME NEW i \in DOMAIN rows PROVE Position(i)' = Position(i)
      OBVIOUS
    <3>1. rows'[i].tool = rows[i].tool
      BY <2>1
    <3>2. ~(n <= i)
      BY <2>1, <2>3
    <3> DEFINE t == rows[i].tool
    <3>3. {p \in DOMAIN rows' : rows'[p].tool = t} =
            IF t = decision THEN {p \in DOMAIN rows : rows[p].tool = t} \cup {n}
            ELSE {p \in DOMAIN rows : rows[p].tool = t}
      BY <2>6 DEF RowsOf
    <3> HIDE DEF t
    <3>4. {j \in {p \in DOMAIN rows' : rows'[p].tool = t} : j <= i} =
            {j \in {p \in DOMAIN rows : rows[p].tool = t} : j <= i}
      BY <3>2, <3>3
    <3>5. {j \in {p \in DOMAIN rows' : rows'[p].tool = rows'[i].tool} : j <= i} =
            {j \in {p \in DOMAIN rows : rows[p].tool = rows[i].tool} : j <= i}
      BY <3>1, <3>4 DEF t
    <3> QED
      BY <3>5 DEF Position, RowsOf
  <2>8. ASSUME lost' = 0, refused' = {}, NEW t \in Tools \ PreStage
        PROVE  Counted(t)' /\ \A i \in RowsOf(t)' : Matched(i)'
    <3>1. Counted(t) /\ \A i \in RowsOf(t) : Matched(i)
      BY <1>1, <1>4, <2>8 DEF AuditInv
    <3>2. Cardinality(RowsOf(t)) = Len(records[t])
      BY <1>1, <3>1 DEF Counted
    <3>3. n \notin RowsOf(t) /\ IsFiniteSet(RowsOf(t)) /\ Len(records[t]) \in Nat
      BY <2>1, RowsAreFinite, RecordsTyped DEF RowsOf
    <3>4. Cardinality(RowsOf(t) \cup {n}) = Len(records[t]) + 1
      BY <3>2, <3>3, FS_AddElement
    <3>5. Counted(t)'
      BY <1>1, <2>6, <3>2, <3>4 DEF Counted
    <3>6. ASSUME NEW i \in RowsOf(t) PROVE Matched(i)'
      <4>1. i \in DOMAIN rows
        BY DEF RowsOf
      <4> QED
        BY <1>1, <2>1, <2>7, <3>1, <4>1 DEF Matched
    <3>7. ASSUME t = decision PROVE Matched(n)'
      <4>1. RowsOf(t)' = RowsOf(t) \cup {n} /\ \A j \in RowsOf(t) \cup {n} : j <= n
        <5>1. RowsOf(t)' = RowsOf(t) \cup {n}
          BY <2>6, <3>7
        <5>2. \A j \in RowsOf(t) : j \in Nat /\ j < n
          BY <2>1 DEF RowsOf
        <5> QED
          BY <2>3, <5>1, <5>2
      <4>2. {j \in RowsOf(t)' : j <= n} = RowsOf(t) \cup {n}
        BY <4>1
      <4>4. Position(n)' = Cardinality(RowsOf(t) \cup {n})
        BY <2>2, <3>7, <4>2 DEF Position, RowsOf
      <4>5. Position(n)' = Len(records[t]) + 1
        BY <3>4, <4>4
      <4>3. records'[rows'[n].tool] = records[t]
        BY <1>1, <2>2, <3>7
      <4> QED
        BY <3>3, <4>3, <4>5 DEF Matched
    <3>8. \A i \in RowsOf(t)' : i \in RowsOf(t) \/ (t = decision /\ i = n)
      BY <2>6
    <3> QED
      BY <3>5, <3>6, <3>7, <3>8
  <2> QED
    BY <2>4, <2>5, <2>8 DEF AuditInv
<1> QED
  BY <1>1, <1>3, <1>4 DEF Sink

LEMMA ExecuteAudit ==
    ASSUME IInv, AuditInv, RowInv, Execute
    PROVE  AuditInv'
<1>1. at = "execute" /\ at' = "close" /\ UNCHANGED <<step, decision, rows, lost>>
  BY DEF Execute
<1> USE RowsTyped
<1>2. \A i \in DOMAIN rows' : rows'[i].audit = NoAudit
  BY <1>1 DEF AuditInv
<1>3. AuditIsAligned'
  BY <1>2 DEF AuditIsAligned
<1>4. ASSUME lost' = 0, refused' = {}, NEW t \in Tools \ PreStage
      PROVE  Counted(t)' /\ \A i \in RowsOf(t)' : Matched(i)'
  <2>1. refused = {} /\ refused' # refused \cup {step}
    BY <1>4, ExecuteAnswers
  <2>2. Counted(t) /\ \A i \in RowsOf(t) : Matched(i)
    BY <1>1, <1>4, <2>1 DEF AuditInv
  <2>3. PICK outcome \in {"completed", "timeout", "cancelled", "error"} :
          records' = [records EXCEPT ![decision] =
                        Append(@, [step |-> step, outcome |-> outcome])]
    BY <2>1, ExecuteAnswers
  <2> DEFINE r == [step |-> step, outcome |-> outcome]
  <2>4. decision \in Tools /\ DOMAIN records = Tools /\ records[t] \in Seq(Record)
        /\ Len(records[t]) \in Nat
    BY <1>1, RecordsTyped DEF IInv, StepInv
  <2>5. r.step = step /\ r \in Record
    BY <1>1 DEF IInv, LoopType, Record
  <2>6. records'[t] = IF t = decision THEN Append(records[t], r) ELSE records[t]
    BY <2>3, <2>4
  <2>7. \A u : RowsOf(u)' = RowsOf(u)
    BY <1>1 DEF RowsOf
  <2>8. \A i \in DOMAIN rows : Position(i)' = Position(i)
    BY <1>1, <2>7 DEF Position
  <2> HIDE DEF r
  <2>9. CASE t # decision
    <3>1. Counted(t)'
      BY <1>1, <2>2, <2>6, <2>7, <2>9 DEF Counted
    <3>2. ASSUME NEW i \in RowsOf(t) PROVE Matched(i)'
      <4>1. i \in DOMAIN rows /\ rows[i].tool = t
        BY DEF RowsOf
      <4> QED
        BY <1>1, <2>2, <2>6, <2>8, <2>9, <4>1 DEF Matched
    <3> QED
      BY <2>7, <3>1, <3>2
  <2>10. CASE t = decision
    <3> DEFINE n == Len(records[t])
    <3>1. /\ Cardinality(RowsOf(t)) = n + 1
          /\ Len(records'[t]) = n + 1
          /\ records'[t][n + 1] = r
          /\ \A k \in 1 .. n : records'[t][k] = records[t][k]
      BY <1>1, <2>2, <2>4, <2>5, <2>6, <2>10, AppendProperties DEF Counted
    <3>2. Counted(t)'
      BY <1>1, <2>7, <3>1 DEF Counted
    <3>3. ASSUME NEW i \in RowsOf(t) PROVE Matched(i)'
      <4>1. i \in DOMAIN rows /\ rows[i].tool = t
        BY DEF RowsOf
      <4>2. Position(i) \in Nat \ {0} /\ Position(i) <= n + 1
        BY <3>1, <4>1, PositionBound, PositionType
      <4>3. CASE Position(i) <= n
        <5>1. Matched(i)
          BY <2>2
        <5>2. records[t][Position(i)].step = rows[i].step
          BY <4>1, <4>3, <5>1 DEF Matched
        <5>3. Position(i) \in 1 .. n
          BY <2>4, <4>2, <4>3
        <5> QED
          BY <1>1, <2>8, <3>1, <4>1, <5>2, <5>3 DEF Matched
      <4>4. CASE Position(i) = n + 1
        <5>1. OfThisStep # {} /\ LossInv /\ OrderInv
          BY <1>1, <1>4 DEF RowInv, LossInv
        <5>2. PICK p \in OfThisStep : TRUE
          BY <5>1
        <5>3. p \in DOMAIN rows /\ rows[p].step = step /\ p \in RowsOf(t)
          BY <1>1, <2>10, <5>1 DEF LossInv, OfThisStep, RowsOf
        <5>4. ~(i < p)
          <6> HIDE DEF n
          <6> QED
            BY <2>4, <3>1, <4>1, <4>4, <5>3, PositionBound DEF n
        <5>5. ~(p < i)
          <6> SUFFICES ASSUME p < i PROVE FALSE
            OBVIOUS
          <6>1. rows[p].step < rows[i].step /\ rows[i].step <= step
            BY <4>1, <5>1, <5>3 DEF OrderInv
          <6> QED
            BY <4>1, <5>3, <6>1
        <5>6. i = p
          BY <4>1, <5>3, <5>4, <5>5
        <5> QED
          BY <1>1, <2>5, <2>8, <3>1, <4>1, <4>4, <5>3, <5>6 DEF Matched
      <4> QED
        BY <2>4, <4>2, <4>3, <4>4
    <3> QED
      BY <2>7, <3>2, <3>3
  <2> QED
    BY <2>9, <2>10
<1> QED
  BY <1>2, <1>3, <1>4 DEF AuditInv

LEMMA CloseToolAudit ==
    ASSUME IInv, [Next]_vars, AuditInv, RowInv, CloseTool
    PROVE  AuditInv'
<1>1. /\ at = "close" /\ at' = "record" /\ UNCHANGED <<decision, records, refused>>
      /\ rows' = rows \/ rows' = Closed
  BY DEF CloseTool, Sink
<1>2. lost' = 0 => lost = 0
  BY LossesOnlyGrow, RowsTyped
<1>3. /\ DOMAIN rows' = DOMAIN rows
      /\ \A i \in DOMAIN rows : /\ rows'[i].tool = rows[i].tool
                                /\ rows'[i].step = rows[i].step
                                /\ rows'[i].audit = rows[i].audit
  <2>1. CASE rows' = rows
    BY <2>1
  <2>2. ASSUME NEW m, rows' = Closed, DOMAIN Closed = DOMAIN rows, m \in DOMAIN rows,
               \A i \in DOMAIN rows : i # m => Closed[i] = rows[i],
               Closed[m] = [rows[m] EXCEPT !.status = RowStatus(result.status)]
        PROVE  \A i \in DOMAIN rows : /\ rows'[i].tool = rows[i].tool
                                      /\ rows'[i].step = rows[i].step
                                      /\ rows'[i].audit = rows[i].audit
    <3>1. rows[m] \in Row
      BY <2>2, RowsTyped
    <3>2. /\ rows'[m].tool = rows[m].tool /\ rows'[m].step = rows[m].step
          /\ rows'[m].audit = rows[m].audit
      BY <2>2, <3>1 DEF Row
    <3> QED
      BY <2>2, <3>2
  <2>3. \A m \in RunningRows(decision) : m \in DOMAIN rows
    BY DEF RunningRows
  <2> QED
    BY <1>1, <2>1, <2>2, <2>3, ClosedRows
<1> QED
  BY <1>1, <1>2, <1>3, SameMatches

\* The pass that adds the audits.
LEMMA FinishScanAudit ==
    ASSUME IInv, AuditInv, RowInv, FinishScan
    PROVE  AuditInv'
<1>1. /\ at = "returned" /\ at' = "done" /\ UNCHANGED <<records, lost, refused>>
      /\ rows' = [i \in DOMAIN rows |-> Enriched(i)] \/ UNCHANGED rows
  BY DEF FinishScan, history
<1>2. \A i \in DOMAIN rows : rows[i].audit = NoAudit
  BY <1>1 DEF AuditInv
<1>3. AuditIsAligned'
  <2> SUFFICES ASSUME lost = 0, refused = {}, NEW i \in DOMAIN rows', rows'[i].tool \notin PreStage
               PROVE  rows'[i].audit \in {NoAudit, rows'[i].step}
    BY <1>1 DEF AuditIsAligned
  <2>1. CASE UNCHANGED rows
    BY <1>2, <2>1
  <2>2. CASE rows' = [p \in DOMAIN rows |-> Enriched(p)]
    <3> DEFINE audits == records[rows[i].tool]
               k == Position(i)
    <3>1. i \in DOMAIN rows /\ rows'[i] = Enriched(i)
      BY <2>2
    <3>2. CASE k > Len(audits)
      BY <1>2, <3>1, <3>2 DEF Enriched
    <3>3. CASE ~(k > Len(audits))
      <4>1. /\ Enriched(i).tool = rows[i].tool /\ Enriched(i).step = rows[i].step
            /\ Enriched(i).audit = audits[k].step
        <5>1. rows[i] \in Row
          BY <3>1, RowsTyped
        <5>2. Enriched(i) = [rows[i] EXCEPT
                              !.audit = audits[k].step,
                              !.status = IF audits[k].outcome \in {"cancelled", "timeout"}
                                         THEN audits[k].outcome ELSE @]
          BY <3>3 DEF Enriched
        <5> HIDE DEF audits, k
        <5> QED
          BY <5>1, <5>2 DEF Row
      <4>2. rows[i].tool \in Tools \ PreStage /\ i \in RowsOf(rows[i].tool)
        BY <3>1, <4>1, RowsTyped DEF RowsOf
      <4>3. Matched(i)
        BY <1>1, <4>2 DEF AuditInv
      <4>4. k \in Nat /\ Len(audits) \in Nat
        BY <3>1, <4>2, PositionBound, RecordsTyped
      <4>5. audits[k].step = rows[i].step
        BY <3>3, <4>3, <4>4 DEF Matched
      <4> QED
        BY <3>1, <4>1, <4>5
    <3> QED
      BY <3>2, <3>3
  <2> QED
    BY <1>1, <2>1, <2>2
<1> QED
  BY <1>1, <1>3 DEF AuditInv

LEMMA QuietAudit ==
    ASSUME IInv, [Next]_vars, AuditInv, RowInv, Quiet
    PROVE  AuditInv'
<1>1. /\ UNCHANGED <<rows, records, refused>>
      /\ \/ at' = at /\ UNCHANGED decision
         \/ at \notin {"execute", "done"} /\ at' \notin {"execute", "done"}
  BY DEF Quiet
<1>2. lost' = 0 => lost = 0
  BY LossesOnlyGrow, RowsTyped
<1>3. CASE at = "done"
  BY <1>1, <1>2, <1>3 DEF AuditInv, AuditIsAligned
<1>4. CASE at # "done"
  BY <1>1, <1>2, <1>4, SameMatches
<1> QED
  BY <1>3, <1>4

LEMMA InitRows == Init => RowsInv
<1> SUFFICES ASSUME Init PROVE RowsInv
  OBVIOUS
<1>1. rows = << >> /\ DOMAIN rows = {} /\ at = "loop"
  BY DEF Init
<1>2. RowInv /\ RowsShowTheirOwnResult
  BY <1>1 DEF RowInv, OrderInv, LossInv, Stale, OfThisStep, RowsShowTheirOwnResult
<1>3. ASSUME NEW t \in Tools \ PreStage PROVE Counted(t) /\ RowsOf(t) = {}
  <2>1. RowsOf(t) = {}
    BY <1>1 DEF RowsOf
  <2>2. records[t] = << >> /\ Len(<< >>) = 0
    BY DEF Init
  <2> QED
    BY <1>1, <2>1, <2>2, FS_EmptySet DEF Counted
<1>4. AuditInv
  BY <1>1, <1>3 DEF AuditInv, AuditIsAligned
<1> QED
  BY <1>2, <1>4 DEF RowsInv

LEMMA StepRowsInv == IInv /\ RowsInv /\ [Next]_vars => RowsInv'
<1> SUFFICES ASSUME IInv, RowsInv, [Next]_vars PROVE RowsInv'
  OBVIOUS
<1>1. RowInv' /\ RowsShowTheirOwnResult'
  BY StepRows DEF RowsInv
<1>2. AuditInv'
  BY QuietSteps, QuietAudit, StartToolAudit, ExecuteAudit, CloseToolAudit, FinishScanAudit
     DEF RowsInv
<1> QED
  BY <1>1, <1>2 DEF RowsInv

LEMMA RowsInvariance == Spec => []RowsInv
BY InitRows, StepRowsInv, InvariantHolds, PTL DEF Spec

\* The database sink gives each result to the row of its own call as long as
\* at most one of its writes is lost, however long the run and whichever
\* scanner it calls again (DatabaseEventSink, the latest running row).
THEOREM RowsShowOwnResults == Spec => []RowsShowTheirOwnResult
<1>1. RowsInv => RowsShowTheirOwnResult
  BY DEF RowsInv
<1> QED
  BY <1>1, RowsInvariance, PTL

\* _finish_scan matches audits to rows by position: with no write lost and no
\* call refused, a scanner the pre-stage did not run gets its own.
THEOREM AuditsAligned == Spec => []AuditIsAligned
<1>1. RowsInv => AuditIsAligned
  BY DEF RowsInv, AuditInv
<1> QED
  BY <1>1, RowsInvariance, PTL

-----------------------------------------------------------------------------
(* The length of a run. *)

\* How far the place in the loop is from the end of the step, and of the run.
Rank(place) ==
    CASE place = "decide"   -> 9
      [] place = "validate" -> 8
      [] place = "start"    -> 7
      [] place = "execute"  -> 6
      [] place = "close"    -> 5
      [] place = "record"   -> 4
      [] place = "loop"     -> 3
      [] place = "finish"   -> 2
      [] place = "returned" -> 1
      [] OTHER              -> 0

\* A step of the loop takes at most seven places.
Remaining == 7 * (MaxSteps - step) + Rank(at)

LEMMA RemainingType == LoopType => Remaining \in Nat
<1> SUFFICES ASSUME LoopType PROVE Remaining \in Nat
  OBVIOUS
<1>1. MaxSteps - step \in Nat
  BY StepsAssumption DEF LoopType
<1>2. Rank(at) \in 0 .. 9
  BY DEF Rank
<1> QED
  BY <1>1, <1>2 DEF Remaining

LEMMA WorkerShrinks == IInv /\ Worker => Remaining' < Remaining
<1> SUFFICES ASSUME IInv, Worker PROVE Remaining' < Remaining
  OBVIOUS
<1>1. step \in Nat /\ MaxSteps \in Nat
  BY StepsAssumption DEF IInv, LoopType
<1>2. CASE LoopTop
  <2>1. \/ at' = "finish" /\ step' = step
        \/ at' = "decide" /\ step' = step + 1
    BY <1>2 DEF LoopTop, Close, BeginStep
  <2> QED
    BY <1>1, <1>2, <2>1 DEF LoopTop, Remaining, Rank
<1>3. CASE ~LoopTop
  <2>1. step' = step
    BY <1>3 DEF Worker, Decide, Validate, StartTool, Execute, CloseTool, RecordStep,
                FinishRun, FinishScan
  <2>2. Rank(at') < Rank(at)
    <3>1. CASE Decide
      BY <3>1 DEF Decide, Close, Rank
    <3>2. CASE Validate
      BY <3>2 DEF Validate, Rank
    <3>3. CASE StartTool
      BY <3>3 DEF StartTool, Rank
    <3>4. CASE Execute
      BY <3>4 DEF Execute, Rank
    <3>5. CASE CloseTool
      BY <3>5 DEF CloseTool, Rank
    <3>6. CASE RecordStep
      BY <3>6 DEF RecordStep, NextStep, Rank
    <3>7. CASE FinishRun
      BY <3>7 DEF FinishRun, Rank
    <3>8. CASE FinishScan
      BY <3>8 DEF FinishScan, Rank
    <3> QED
      BY <1>3, <3>1, <3>2, <3>3, <3>4, <3>5, <3>6, <3>7, <3>8 DEF Worker
  <2>3. Rank(at) \in 0 .. 9 /\ Rank(at') \in 0 .. 9
    BY DEF Rank
  <2> QED
    BY <1>1, <2>1, <2>2, <2>3 DEF Remaining
<1> QED
  BY <1>2, <1>3

IsMeasured == Remaining \in Nat

\* No step of the worker's thread leaves as much of the run as there was, and
\* a cancel adds nothing: AgentRuntime.execute and _finish_scan take at most
\* 7 * max_steps + 3 steps, whatever planner, validator, tools and sink do.
THEOREM RunShrinks ==
    Spec => []IsMeasured /\ [][(Worker => Remaining' < Remaining) /\ Remaining' <= Remaining]_vars
<1>1. IInv => IsMeasured
  BY RemainingType DEF IInv, IsMeasured
<1>2. IInv /\ IsMeasured /\ IsMeasured' /\ [Next]_vars =>
        [(Worker => Remaining' < Remaining) /\ Remaining' <= Remaining]_vars
  <2> SUFFICES ASSUME IInv, Remaining \in Nat, Remaining' \in Nat, Next
               PROVE  (Worker => Remaining' < Remaining) /\ Remaining' <= Remaining
    BY DEF IsMeasured
  <2>1. CASE Worker
    BY <2>1, WorkerShrinks
  <2>2. CASE RequestCancel
    <3>1. Remaining' = Remaining
      BY <2>2 DEF RequestCancel, Remaining
    <3>2. ~Worker \/ Remaining' < Remaining
      BY WorkerShrinks
    <3> QED
      BY <3>1, <3>2
  <2> QED
    BY <2>1, <2>2 DEF Next
<1> QED
  BY <1>1, <1>2, InvariantHolds, PTL DEF Spec

=============================================================================
