------------------------------ MODULE AgentRun ------------------------------
(***************************************************************************)
(* The run of one scan: the decide - validate - execute loop of            *)
(* agent_core/runtime/agent.py, the database sink its events go to         *)
(* (backend/services/db_sink.py) and the audit that _finish_scan adds to   *)
(* the tool_runs rows afterwards.                                          *)
(*                                                                         *)
(* The planner, the validator and the tools are arbitrary: any decision,   *)
(* any verdict, any outcome.  One thread runs the loop, another may set    *)
(* the cancel event at any moment.  A write of the sink may fail (the sink *)
(* logs and goes on), a write of the state store may fail (the exception   *)
(* escapes the loop).                                                      *)
(***************************************************************************)
EXTENDS Integers, Sequences, FiniteSets

CONSTANTS Tools,        \* the scanners with an audit record
          Fingerprints, \* of findings
          MaxSteps,     \* policy.max_steps
          PreStage,     \* scanners the discovery pre-stage ran once each
          MaxLost,      \* bound: failed writes of the sink
          StoreMayFail  \* may the state store raise?

ASSUME StepsAssumption == MaxSteps \in Nat /\ MaxLost \in Nat

ASSUME PreStageAssumption == PreStage \subseteq Tools /\ StoreMayFail \in BOOLEAN

Finish == "finish"
Nothing == "nothing"

ASSUME DecisionAssumption == Finish \notin Tools /\ Nothing \notin Tools

VARIABLES
  (* the loop *)
  at,        \* loop, decide, validate, start, execute, close, record, finish,
             \* returned, raised (an exception escaped) or done (_finish_scan ran)
  status,    \* state.status
  step,      \* state.step
  cancel,    \* the cancel event
  decision,  \* of the current step: a tool, Finish or Nothing
  closing,   \* the status the run is about to end with, or Nothing
  result,    \* of the current step's tool: [status, finding]
  (* what is kept *)
  trajectory, \* steps in trajectory.jsonl
  rows,      \* tool_runs in order of creation: [tool, step, status, audit]
  records,   \* RunRecorder: tool -> Seq([step, outcome])
  findings,  \* fingerprints with a findings row
  (* history *)
  proposed,  \* steps whose decision was emitted
  refused,   \* steps whose tool returned before it reached the runner
  outcomes,  \* step -> status of the tool's result, or Nothing
  finals,    \* closing events emitted
  announced, \* finding.recorded events emitted
  stored,    \* those with an agent_events row
  lost,      \* failed writes of the sink
  late       \* tools started after the cancel

loop    == <<at, status, step, cancel, decision, closing, result>>
kept    == <<trajectory, rows, records, findings>>
history == <<proposed, refused, outcomes, finals, announced, stored, lost, late>>
vars    == <<loop, kept, history>>

NoResult == [status |-> Nothing, finding |-> Nothing]

NoAudit == -1  \* a row without audit; 0 marks a record of the pre-stage

Init ==
    /\ at = "loop" /\ status = "running" /\ step = 0 /\ cancel = FALSE
    /\ decision = Nothing /\ closing = Nothing /\ result = NoResult
    /\ trajectory = {} /\ rows = <<>> /\ findings = {}
    /\ records = [t \in Tools |->
                    IF t \in PreStage THEN <<[step |-> 0, outcome |-> "completed"]>> ELSE <<>>]
    /\ proposed = {} /\ refused = {}
    /\ outcomes = [s \in 1 .. MaxSteps |-> Nothing]
    /\ finals = 0 /\ announced = 0 /\ stored = 0 /\ lost = 0 /\ late = 0

\* Another thread: ScanManager.request_cancel.
RequestCancel ==
    /\ ~cancel /\ at \notin {"raised", "done"}
    /\ cancel' = TRUE
    /\ UNCHANGED <<at, status, step, decision, closing, result, kept, history>>

-----------------------------------------------------------------------------
(* The top of the loop and the decision. *)

Close(why) ==
    /\ closing' = why /\ at' = "finish"

BeginStep ==
    /\ ~cancel /\ step < MaxSteps
    /\ step' = step + 1 /\ decision' = Nothing /\ result' = NoResult
    /\ at' = "decide"
    /\ UNCHANGED closing

\* Defect: one step more than the policy allows.
LoopTopOneStepTooMany ==
    /\ at = "loop"
    /\ \/ /\ cancel /\ Close("cancelled")
          /\ UNCHANGED <<step, decision, result>>
       \/ /\ ~cancel /\ step > MaxSteps /\ Close("failed")
          /\ UNCHANGED <<step, decision, result>>
       \/ /\ ~cancel /\ step <= MaxSteps
          /\ step' = step + 1 /\ decision' = Nothing /\ result' = NoResult
          /\ at' = "decide"
          /\ UNCHANGED closing
    /\ UNCHANGED <<status, cancel, kept, history>>

\* Defect: the loop does not look at the cancel event.
LoopTopIgnoresCancel ==
    /\ at = "loop"
    /\ \/ /\ step >= MaxSteps /\ Close("failed")
          /\ UNCHANGED <<step, decision, result>>
       \/ /\ step < MaxSteps
          /\ step' = step + 1 /\ decision' = Nothing /\ result' = NoResult
          /\ at' = "decide"
          /\ UNCHANGED closing
    /\ UNCHANGED <<status, cancel, kept, history>>

\* Defect: a run that used up its steps ends like a cancelled one.
LoopTopCancelsAtBudget ==
    /\ at = "loop"
    /\ \/ /\ cancel \/ step >= MaxSteps
          /\ Close("cancelled")
          /\ UNCHANGED <<step, decision, result>>
       \/ BeginStep
    /\ UNCHANGED <<status, cancel, kept, history>>

LoopTop ==
    /\ at = "loop"
    /\ \/ /\ cancel /\ Close("cancelled")
          /\ UNCHANGED <<step, decision, result>>
       \/ /\ ~cancel /\ step >= MaxSteps /\ Close("failed")
          /\ UNCHANGED <<step, decision, result>>
       \/ BeginStep
    /\ UNCHANGED <<status, cancel, kept, history>>

\* planner.decide proposes, or raises and the run fails.
Decide ==
    /\ at = "decide"
    /\ \/ /\ Close("failed")
          /\ UNCHANGED <<decision, proposed>>
       \/ /\ decision' \in Tools \cup {Finish}
          /\ proposed' = proposed \cup {step}
          /\ at' = "validate"
          /\ UNCHANGED closing
    /\ UNCHANGED <<status, step, cancel, result, kept, refused, outcomes, finals,
                   announced, stored, lost, late>>

\* A finish is always accepted; a rejection becomes the step's observation.
Validate ==
    /\ at = "validate"
    /\ \/ /\ decision = Finish
          /\ closing' = "finished" /\ at' = "record"
       \/ /\ decision # Finish
          /\ at' \in {"start", "record"}
          /\ UNCHANGED closing
    /\ UNCHANGED <<status, step, cancel, decision, result, kept, history>>

-----------------------------------------------------------------------------
(* The tool and its tool_runs row. *)

\* One write of the sink: it happens, or it fails and the loop goes on.
Sink(NewRows) ==
    \/ rows' = NewRows /\ UNCHANGED lost
    \/ /\ lost < MaxLost /\ lost' = lost + 1
       /\ UNCHANGED rows

StartTool ==
    /\ at = "start"
    /\ Sink(Append(rows, [tool |-> decision, step |-> step,
                          status |-> "running", audit |-> NoAudit]))
    /\ late' = IF cancel THEN late + 1 ELSE late
    /\ at' = "execute"
    /\ UNCHANGED <<status, step, cancel, decision, closing, result, trajectory,
                   records, findings, proposed, refused, outcomes, finals,
                   announced, stored>>

\* What the tool makes of the runner's outcome; "refused" is a tool that
\* returned, or raised, before it called the runner.
ResultsOf(outcome) ==
    CASE outcome = "completed" -> {"ok", "error"}
      [] outcome = "timeout"   -> {"timeout"}
      [] outcome \in {"cancelled", "error", "refused"} -> {"error"}

Execute ==
    /\ at = "execute"
    /\ \E outcome \in {"completed", "timeout", "error", "refused"}
                        \cup (IF cancel THEN {"cancelled"} ELSE {}) :
         \E answer \in ResultsOf(outcome) :
           \E finding \in {Nothing} \cup (IF answer = "ok" THEN Fingerprints ELSE {}) :
             /\ result' = [status |-> answer, finding |-> finding]
             /\ outcomes' = [outcomes EXCEPT ![step] = answer]
             /\ IF outcome = "refused"
                THEN refused' = refused \cup {step} /\ UNCHANGED records
                ELSE /\ records' = [records EXCEPT ![decision] =
                                      Append(@, [step |-> step, outcome |-> outcome])]
                     /\ UNCHANGED refused
    /\ at' = "close"
    /\ UNCHANGED <<status, step, cancel, decision, closing, trajectory, rows,
                   findings, proposed, finals, announced, stored, lost, late>>

RowStatus(answer) ==
    CASE answer = "ok" -> "completed" [] answer = "error" -> "failed"
      [] answer = "timeout" -> "timeout"

RunningRows(t) == {i \in DOMAIN rows : rows[i].tool = t /\ rows[i].status = "running"}

\* Defect: the oldest running row is closed.
ClosedOldest ==
    LET open == RunningRows(decision)
    IN  IF open = {} THEN rows
        ELSE [rows EXCEPT ![CHOOSE i \in open : \A j \in open : i <= j].status =
                 RowStatus(result.status)]

\* The latest running row of the tool takes the result; no row, no effect.
Closed ==
    LET open == RunningRows(decision)
    IN  IF open = {} THEN rows
        ELSE [rows EXCEPT ![CHOOSE i \in open : \A j \in open : j <= i].status =
                 RowStatus(result.status)]

CloseTool ==
    /\ at = "close"
    /\ Sink(Closed)
    /\ at' = "record"
    /\ UNCHANGED <<status, step, cancel, decision, closing, result, trajectory,
                   records, findings, proposed, refused, outcomes, finals,
                   announced, stored, late>>

-----------------------------------------------------------------------------
(* The end of a step and of the run. *)

\* A new finding is stored with its event; a known one rolls both back.
AnnounceFinding ==
    \/ /\ result.finding = Nothing
       /\ UNCHANGED <<findings, announced, stored, lost>>
    \/ /\ result.finding # Nothing
       /\ announced' = announced + 1
       /\ \/ /\ result.finding \notin findings
             /\ findings' = findings \cup {result.finding} /\ stored' = stored + 1
             /\ UNCHANGED lost
          \/ /\ result.finding \in findings
             /\ UNCHANGED <<findings, stored, lost>>
          \/ /\ lost < MaxLost /\ lost' = lost + 1
             /\ UNCHANGED <<findings, stored>>

NextStep == at' = IF closing = Nothing THEN "loop" ELSE "finish"

\* Defect: a rejected or failed step gives its number back.
RecordGivesBack ==
    /\ at = "record"
    /\ AnnounceFinding
    /\ trajectory' = trajectory \cup {step} /\ NextStep
    /\ step' = IF result = NoResult /\ closing = Nothing THEN step - 1 ELSE step
    /\ UNCHANGED <<status, cancel, decision, closing, result, rows, records,
                   proposed, refused, outcomes, finals, late>>

\* The step is kept in memory, its finding announced, the state and the
\* trajectory written; either write may raise.
RecordStep ==
    /\ at = "record"
    /\ AnnounceFinding
    /\ \/ /\ trajectory' = trajectory \cup {step} /\ NextStep
       \/ /\ StoreMayFail
          /\ at' = "raised"
          /\ UNCHANGED trajectory
    /\ UNCHANGED <<status, step, cancel, decision, closing, result, rows, records,
                   proposed, refused, outcomes, finals, late>>

\* _finish: the status first, then the store, then the closing event.
FinishRun ==
    /\ at = "finish"
    /\ status' = closing
    /\ \/ finals' = finals + 1 /\ at' = "returned"
       \/ StoreMayFail /\ at' = "raised" /\ UNCHANGED finals
    /\ UNCHANGED <<step, cancel, decision, closing, result, kept, proposed, refused,
                   outcomes, announced, stored, lost, late>>

RowsOf(t) == {i \in DOMAIN rows : rows[i].tool = t}

\* Defect: the rows are matched newest first.
PositionFromTheEnd(i) == Cardinality({j \in RowsOf(rows[i].tool) : j >= i})

\* How many rows of the same tool were created up to row i.
Position(i) == Cardinality({j \in RowsOf(rows[i].tool) : j <= i})

\* Row k of a tool takes record k of the tool; a cancelled or timed-out
\* record overrides the status of the row.
Enriched(i) ==
    LET audits == records[rows[i].tool]
        k == Position(i)
    IN  IF k > Len(audits) THEN rows[i]
        ELSE [rows[i] EXCEPT
                !.audit = audits[k].step,
                !.status = IF audits[k].outcome \in {"cancelled", "timeout"}
                           THEN audits[k].outcome ELSE @]

\* _finish_scan commits the audit with the scan's outcome, or finds the
\* outcome decided already, or fails, and leaves the rows alone.
FinishScan ==
    /\ at = "returned"
    /\ \/ rows' = [i \in DOMAIN rows |-> Enriched(i)]
       \/ UNCHANGED rows
    /\ at' = "done"
    /\ UNCHANGED <<status, step, cancel, decision, closing, result, trajectory,
                   records, findings, history>>

Worker == \/ LoopTop \/ Decide \/ Validate \/ StartTool \/ Execute \/ CloseTool
          \/ RecordStep \/ FinishRun \/ FinishScan

Next == RequestCancel \/ Worker

Spec == Init /\ [][Next]_vars

\* The worker thread runs and every tool returns (the runner's promise).
FairSpec == Spec /\ WF_vars(Worker)

-----------------------------------------------------------------------------
Statuses == {"running", "finished", "failed", "cancelled"}

Row == [tool : Tools, step : 1 .. MaxSteps,
        status : {"running", "completed", "failed", "timeout", "cancelled"},
        audit : NoAudit .. MaxSteps]

\* Every variable has its type.
TypeOK ==
    /\ at \in {"loop", "decide", "validate", "start", "execute", "close",
               "record", "finish", "returned", "raised", "done"}
    /\ status \in Statuses /\ step \in 0 .. MaxSteps /\ cancel \in BOOLEAN
    /\ decision \in Tools \cup {Finish, Nothing}
    /\ closing \in (Statuses \ {"running"}) \cup {Nothing}
    /\ result \in [status : {"ok", "error", "timeout", Nothing},
                   finding : Fingerprints \cup {Nothing}]
    /\ trajectory \subseteq 1 .. MaxSteps /\ proposed \subseteq 1 .. MaxSteps
    /\ refused \subseteq 1 .. MaxSteps
    /\ rows \in Seq(Row) /\ findings \subseteq Fingerprints
    /\ records \in [Tools -> Seq([step : 0 .. MaxSteps,
                       outcome : {"completed", "timeout", "cancelled", "error"}])]
    /\ outcomes \in [1 .. MaxSteps -> {"ok", "error", "timeout", Nothing}]
    /\ {finals, announced, stored, lost, late} \subseteq Nat

\* After a cancel at most one more tool starts: the one whose decision was
\* on its way when the event was set.
CancelStopsTools == late <= 1

\* The status a run returns is earned: finished only by a recorded finish
\* decision, cancelled only after the event, failed only at the step limit
\* or by a planner that raised.  ScanManager.RuntimeEnd relies on it.
StatusIsEarned ==
    /\ status = "finished"  => decision = Finish /\ step \in trajectory
    /\ status = "cancelled" => cancel
    /\ status = "failed"    => step = MaxSteps \/ step \notin proposed

\* As long as at most one write of the sink is lost, a row never shows the
\* result of another call of the same tool.
RowsShowTheirOwnResult ==
    lost <= 1 /\ at # "done" =>
        \A i \in DOMAIN rows :
            rows[i].status # "running" => rows[i].status = RowStatus(outcomes[rows[i].step])

\* When every call reached the runner and no write was lost, each row of a
\* scanner the pre-stage did not run has the audit of its own call.
AuditIsAligned ==
    lost = 0 /\ refused = {} =>
        \A i \in DOMAIN rows :
            rows[i].tool \notin PreStage => rows[i].audit \in {NoAudit, rows[i].step}

\* Every run ends.
EventuallyReturns == <>(at \in {"returned", "raised", "done"})

-----------------------------------------------------------------------------
(* What the code's comments say and its runs refute. *)

\* "every event -> agent_events row": a finding event has its row unless the
\* write failed.
EveryFindingEventStored == lost = 0 => stored = announced

=============================================================================
