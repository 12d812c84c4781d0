------------------------ MODULE ScanLifecycleProofs ------------------------
(***************************************************************************)
(* What the lifecycle promised to the user entails, for any set of scans   *)
(* and projects: tools execute only for active scans, hence for at most    *)
(* one scan of a project, and a terminal scan is final.                    *)
(***************************************************************************)
EXTENDS ScanLifecycle, TLAPS

LInv == TypeOK /\ ToolsOnlyWhileActive /\ OneActivePerProject

\* The statuses are distinct strings in the classes their names suggest.
LEMMA StatusFacts ==
    /\ {"running", "cancelling"} \subseteq ActiveStatuses
    /\ {"queued", "initializing"} \subseteq ActiveStatuses
    /\ ActiveStatuses \cap TerminalStatuses = {}
    /\ Absent \notin ActiveStatuses \cup TerminalStatuses
    /\ ActiveStatuses \subseteq RowStates /\ TerminalStatuses \subseteq RowStates
    /\ Absent \in RowStates
BY DEF ActiveStatuses, TerminalStatuses, RowStates, Statuses, Absent

\* No scan is active before the first one is created.
LEMMA LInit == Init => LInv
BY StatusFacts DEF Init, LInv, TypeOK, ToolsOnlyWhileActive, OneActivePerProject

\* A move of s inside the table keeps the projects apart if s was active
\* already, or its project is free.
LEMMA MoveKeepsProjectsApart ==
    ASSUME LInv, NEW s \in Scans, NEW from, NEW to \in RowStates, Move(s, from, to),
           to \in ActiveStatuses => from \in ActiveStatuses \/ Free(s)
    PROVE  OneActivePerProject' /\ (status \in [Scans -> RowStates])'
BY DEF LInv, TypeOK, Move, Free, OneActivePerProject

\* Every step of the lifecycle preserves the invariant.
LEMMA LNext == LInv /\ [Next]_vars => LInv'
<1> SUFFICES ASSUME LInv, [Next]_vars PROVE LInv'
  OBVIOUS
<1> USE StatusFacts
<1>1. ASSUME NEW s \in Scans, Create(s) PROVE LInv'
  <2>1. OneActivePerProject' /\ (status \in [Scans -> RowStates])'
    BY <1>1, MoveKeepsProjectsApart DEF Create
  <2>2. ToolsOnlyWhileActive' /\ (tools \subseteq Scans)'
    BY <1>1 DEF Create, Move, LInv, TypeOK, ToolsOnlyWhileActive, Absent
  <2> QED BY <2>1, <2>2 DEF LInv, TypeOK
<1>2. ASSUME NEW s \in Scans, Start(s) PROVE LInv'
  <2>1. OneActivePerProject' /\ (status \in [Scans -> RowStates])'
    BY <1>2, MoveKeepsProjectsApart DEF Start
  <2>2. ToolsOnlyWhileActive' /\ (tools \subseteq Scans)'
    BY <1>2 DEF Start, Move, LInv, TypeOK, ToolsOnlyWhileActive
  <2> QED BY <2>1, <2>2 DEF LInv, TypeOK
<1>3. ASSUME NEW s \in Scans, Run(s) PROVE LInv'
  <2>1. OneActivePerProject' /\ (status \in [Scans -> RowStates])'
    BY <1>3, MoveKeepsProjectsApart DEF Run
  <2>2. ToolsOnlyWhileActive' /\ (tools \subseteq Scans)'
    BY <1>3 DEF Run, Move, LInv, TypeOK, ToolsOnlyWhileActive
  <2> QED BY <2>1, <2>2 DEF LInv, TypeOK
<1>4. ASSUME NEW s \in Scans, ToolsEnd(s) PROVE LInv'
  BY <1>4 DEF ToolsEnd, LInv, TypeOK, ToolsOnlyWhileActive, OneActivePerProject
<1>5. ASSUME NEW s \in Scans, Finish(s) PROVE LInv'
  <2>1. PICK to \in {"completed", "failed"} : Move(s, "running", to)
    BY <1>5 DEF Finish
  <2>2. OneActivePerProject' /\ (status \in [Scans -> RowStates])'
    BY <2>1, MoveKeepsProjectsApart DEF TerminalStatuses
  <2>3. ToolsOnlyWhileActive' /\ (tools \subseteq Scans)'
    BY <1>5, <2>1 DEF Finish, Move, LInv, TypeOK, ToolsOnlyWhileActive
  <2> QED BY <2>2, <2>3 DEF LInv, TypeOK
<1>6. ASSUME NEW s \in Scans, Abort(s) PROVE LInv'
  <2>1. PICK from \in {"queued", "initializing"}, to \in {"failed", "cancelled"} :
          Move(s, from, to)
    BY <1>6 DEF Abort
  <2>2. OneActivePerProject' /\ (status \in [Scans -> RowStates])'
    BY <2>1, MoveKeepsProjectsApart DEF TerminalStatuses
  <2>3. ToolsOnlyWhileActive' /\ (tools \subseteq Scans)'
    BY <1>6, <2>1 DEF Abort, Move, LInv, TypeOK, ToolsOnlyWhileActive
  <2> QED BY <2>2, <2>3 DEF LInv, TypeOK
<1>7. ASSUME NEW s \in Scans, RequestCancel(s) PROVE LInv'
  <2>1. OneActivePerProject' /\ (status \in [Scans -> RowStates])'
    BY <1>7, MoveKeepsProjectsApart DEF RequestCancel
  <2>2. ToolsOnlyWhileActive' /\ (tools \subseteq Scans)'
    BY <1>7 DEF RequestCancel, Move, LInv, TypeOK, ToolsOnlyWhileActive
  <2> QED BY <2>1, <2>2 DEF LInv, TypeOK
<1>8. ASSUME NEW s \in Scans, ConfirmCancel(s) PROVE LInv'
  <2>1. OneActivePerProject' /\ (status \in [Scans -> RowStates])'
    BY <1>8, MoveKeepsProjectsApart DEF ConfirmCancel, TerminalStatuses
  <2>2. ToolsOnlyWhileActive' /\ (tools \subseteq Scans)'
    BY <1>8 DEF ConfirmCancel, Move, LInv, TypeOK, ToolsOnlyWhileActive
  <2> QED BY <2>1, <2>2 DEF LInv, TypeOK
<1>9. CASE Crash
  BY <1>9 DEF Crash, LInv, TypeOK, ToolsOnlyWhileActive, OneActivePerProject
<1>10. CASE Recover
  <2>1. \A st \in RowStates : /\ Recovered(st) \in RowStates
                              /\ Recovered(st) \in ActiveStatuses => st \in ActiveStatuses
    BY DEF Recovered, RowStates, Statuses, ActiveStatuses, TerminalStatuses, Absent
  <2> QED BY <1>10, <2>1
          DEF Recover, LInv, TypeOK, ToolsOnlyWhileActive, OneActivePerProject
<1>11. CASE UNCHANGED vars
  BY <1>11 DEF vars, LInv, TypeOK, ToolsOnlyWhileActive, OneActivePerProject
<1> QED BY <1>1, <1>2, <1>3, <1>4, <1>5, <1>6, <1>7, <1>8, <1>9, <1>10, <1>11 DEF Next

\* The lifecycle keeps its invariant: tools execute only for active scans,
\* and a project has one active scan.
THEOREM LifecycleInvariant == Spec => []LInv
<1> QED BY LInit, LNext, PTL DEF Spec

\* Tools of two scans of one project never execute together, in any schedule
\* of scan_manager.py that implements the lifecycle.
THEOREM ToolsExcludeEachOther == Spec => []OneToolRunnerPerProject
<1>1. LInv => OneToolRunnerPerProject
  BY StatusFacts
     DEF LInv, TypeOK, ToolsOnlyWhileActive, OneActivePerProject, OneToolRunnerPerProject
<1> QED BY <1>1, LifecycleInvariant, PTL

\* A move out of a status that is not terminal leaves every terminal row.
LEMMA MoveSparesTerminal ==
    ASSUME TypeOK, NEW o \in Scans, NEW from, NEW to, Move(o, from, to),
           from \notin TerminalStatuses,
           NEW s \in Scans, status[s] \in TerminalStatuses
    PROVE  status'[s] = status[s]
BY DEF TypeOK, Move

\* scan_state.py: a terminal status has no transition out.
THEOREM TerminalStatusIsFinal == Spec => TerminalIsFinal
<1>1. TypeOK /\ [Next]_vars =>
        [\A s \in Scans : status[s] \in TerminalStatuses => status'[s] = status[s]]_vars
  <2> SUFFICES ASSUME TypeOK, Next, NEW s \in Scans, status[s] \in TerminalStatuses
               PROVE  status'[s] = status[s]
    BY DEF vars
  <2>1. CASE Crash
    BY <2>1 DEF Crash
  <2>2. CASE Recover
    BY <2>2 DEF Recover, Recovered, TerminalStatuses
  <2>3. ASSUME NEW o \in Scans, NEW from \in {Absent} \cup ActiveStatuses, NEW to,
               Move(o, from, to)
        PROVE  status'[s] = status[s]
    BY <2>3, MoveSparesTerminal, StatusFacts
  <2>4. ASSUME NEW o \in Scans, Create(o) \/ Start(o) \/ Run(o) \/ RequestCancel(o)
        PROVE  status'[s] = status[s]
    BY <2>3, <2>4 DEF Create, Start, Run, RequestCancel, ActiveStatuses
  <2>5. ASSUME NEW o \in Scans, ToolsEnd(o) \/ Finish(o) \/ Abort(o) \/ ConfirmCancel(o)
        PROVE  status'[s] = status[s]
    BY <2>3, <2>5 DEF ToolsEnd, Finish, Abort, ConfirmCancel, ActiveStatuses
  <2> QED BY <2>1, <2>2, <2>4, <2>5 DEF Next
<1>2. LInv => TypeOK
  BY DEF LInv
<1> QED BY <1>1, <1>2, LifecycleInvariant, PTL DEF Spec, TerminalIsFinal

=============================================================================
