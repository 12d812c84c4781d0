-------------------------- MODULE ToolRunnerProofs --------------------------
(***************************************************************************)
(* Proofs about the runner for every timing, every amount of work and      *)
(* output and every pipe: the recorded outcome is true, a cancelled or     *)
(* timed-out call leaves nothing behind but a helper that ignores SIGTERM  *)
(* and has let go of the pipe, and no call outlives its deadline or its    *)
(* cancellation by more than the two waits.  Then about the tool around    *)
(* it: it drives the runner as the runner's own specification allows, so   *)
(* that all of this holds of the call a tool makes; it reports success     *)
(* only for a scanner that completed with exit status 0; and a success     *)
(* accounts for every line of the output on its way through the pipe, the  *)
(* cut of a long output and the parser, with the two exceptions the code   *)
(* makes.                                                                  *)
(***************************************************************************)
EXTENDS ScannerTool, FiniteSetTheorems, TLAPS

-----------------------------------------------------------------------------
(* The runner. *)

Polling   == runner \in {"start", "poll", "asleep"}
Waiting   == runner \in {"reap", "killed"}
Requested == outcome \in {"cancelled", "timeout"}

Types ==
    /\ now \in Nat /\ cancelAt \in Nat /\ limit \in Nat
    /\ cancelled \in BOOLEAN
    /\ leader \in {"unborn", "running", "zombie", "reaped"}
    /\ helper \in {"none", "alive", "mute", "dead"}
    /\ stubborn \subseteq {"leader", "helper"}
    /\ runner \in {"start", "poll", "asleep", "reap", "killed", "done"}
    /\ outcome \in Outcomes
    /\ endedBy \in {"none", "itself", "signal"}

\* While the loop runs nobody has signalled or waited for the leader.
LoopInv ==
    Polling =>
        /\ outcome = "none"
        /\ leader = (IF runner = "start" THEN "unborn" ELSE leader)
        /\ runner # "start" => leader \in {"running", "zombie"}
        /\ leader = "zombie" => endedBy = "itself"
        /\ endedBy # "signal"

\* What the loop decided stays true while the output is read.
WaitInv ==
    /\ Waiting => outcome \in {"cancelled", "timeout", "completed"}
    /\ Waiting /\ Requested => leader \in {"running", "zombie"}
    /\ outcome = "completed" => leader = "reaped"
    /\ runner = "killed" /\ Requested => leader # "running" /\ helper \in {"none", "dead"}
    /\ Waiting /\ Requested /\ helper \in {"alive", "mute"} => "helper" \in stubborn

\* The clock, the limit of the wait that runs and the two deadlines.
ClockInv ==
    /\ cancelled => cancelAt <= now
    /\ runner \in {"start", "poll"} => now <= Timeout
    /\ runner = "asleep" => now < Timeout
    /\ runner \in {"start", "asleep"} /\ cancelled => now <= cancelAt
    /\ runner = "poll" /\ cancelled => now <= cancelAt + 1
    /\ Waiting => now <= limit
    /\ runner = "reap" =>
           /\ limit <= now + Grace
           /\ limit <= Timeout + Grace
           /\ cancelled => limit <= cancelAt + 1 + Grace
    /\ runner = "killed" =>
           /\ limit <= now + Reap
           /\ limit <= Timeout + Grace + Reap
           /\ cancelled => limit <= cancelAt + 1 + Grace + Reap

IInv ==
    /\ Types /\ LoopInv /\ WaitInv /\ ClockInv
    /\ OutcomeIsTrue /\ OnlyTheMuteSurvive

LEMMA ConstantsAreNat == Timeout \in Nat /\ Grace \in Nat /\ Reap \in Nat
BY TimingAssumption

LEMMA InitIInv == Init => IInv
<1> SUFFICES ASSUME Init PROVE IInv
  OBVIOUS
<1> USE ConstantsAreNat DEF Init
<1>1. Types
  BY HelpersAssumption DEF Types, Outcomes
<1>2. LoopInv /\ WaitInv
  BY DEF LoopInv, WaitInv, Polling, Waiting, Requested
<1>3. ClockInv
  BY DEF ClockInv, Waiting
<1>4. OutcomeIsTrue /\ OnlyTheMuteSurvive
  BY DEF OutcomeIsTrue, OnlyTheMuteSurvive
<1> QED
  BY <1>1, <1>2, <1>3, <1>4 DEF IInv

LEMMA StepIInv == IInv /\ [Next]_vars => IInv'
<1> SUFFICES ASSUME IInv, [Next]_vars PROVE IInv'
  OBVIOUS
<1> USE ConstantsAreNat
<1> USE DEF IInv, Types, LoopInv, WaitInv, ClockInv, OutcomeIsTrue,
            OnlyTheMuteSurvive, Polling, Waiting, Requested, Outcomes
<1>1. CASE RequestCancel
  BY <1>1 DEF RequestCancel, call
<1>2. CASE Tick
  <2>1. /\ now' = now + 1
        /\ leader' \in {"running", "zombie"} \/ leader' = leader
        /\ leader' = "running" => leader = "running"
        /\ leader = "running" /\ leader' = "zombie" => endedBy' = "itself"
        /\ leader' = leader => endedBy' = endedBy
        /\ leader # "running" => leader' = leader
        /\ helper' \in {"none", "alive", "mute", "dead"}
        /\ helper' \in {"alive", "mute"} => helper \in {"alive", "mute"}
    BY <1>2 DEF Tick, LeaderTick, HelperTick
  <2>2. UNCHANGED <<cancelled, cancelAt, stubborn, limit, outcome>>
    BY <1>2 DEF Tick
  <2>3. CASE runner = "asleep"
    <3>1. runner' = "poll"
      BY <1>2, <2>3 DEF Tick
    <3> QED
      BY <2>1, <2>2, <2>3, <3>1
  <2>4. CASE runner \in {"reap", "killed"} /\ now < limit
    <3>1. runner' = runner
      BY <1>2, <2>4 DEF Tick
    <3> QED
      BY <2>1, <2>2, <2>4, <3>1
  <2> QED
    BY <1>2, <2>3, <2>4 DEF Tick
<1>3. CASE Start
  BY <1>3, HelpersAssumption DEF Start
<1>4. CASE Poll
  <2>1. CASE cancelled /\ Stop("cancelled")
    BY <1>4, <2>1 DEF Poll, Stop, SignalGroup
  <2>2. CASE ~cancelled /\ now >= Timeout /\ Stop("timeout")
    BY <1>4, <2>2 DEF Poll, Stop, SignalGroup
  <2>3. CASE ~cancelled /\ now < Timeout /\ leader # "running"
    <3>1. /\ outcome' = "completed" /\ leader' = "reaped"
          /\ runner' = "reap" /\ limit' = now + Grace
          /\ UNCHANGED <<helper, endedBy, now, cancelled, cancelAt, stubborn>>
      BY <1>4, <2>3 DEF Poll, Stop
    <3> QED
      BY <1>4, <2>3, <3>1 DEF Poll
  <2>4. CASE ~cancelled /\ now < Timeout /\ leader = "running"
    <3>1. /\ runner' = "asleep"
          /\ UNCHANGED <<leader, helper, endedBy, outcome, limit, now, cancelled,
                         cancelAt, stubborn>>
      BY <1>4, <2>4 DEF Poll, Stop
    <3> QED
      BY <1>4, <2>4, <3>1 DEF Poll
  <2> QED
    BY <1>4, <2>1, <2>2, <2>3, <2>4 DEF Poll
<1>5. CASE Read
  BY <1>5 DEF Read
<1>6. CASE EndOfFile
  BY <1>6 DEF EndOfFile, PipeOpen
<1>7. CASE GraceExpires
  BY <1>7 DEF GraceExpires, SignalGroup
<1>8. CASE ReapExpires
  BY <1>8 DEF ReapExpires, PipeOpen, world
<1>9. CASE UNCHANGED vars
  BY <1>9 DEF vars, world, call
<1> QED
  BY <1>1, <1>2, <1>3, <1>4, <1>5, <1>6, <1>7, <1>8, <1>9 DEF Next, Step

THEOREM RunnerInvariant == Spec => []IInv
BY InitIInv, StepIInv, PTL DEF Spec

(* The outcome in the audit record is what happened: a scanner recorded as *)
(* completed ended by itself, a timeout lies past the deadline, and a      *)
(* cancellation was asked for.                                             *)
THEOREM OutcomeRecorded == Spec => []OutcomeIsTrue
<1>1. IInv => OutcomeIsTrue
  BY DEF IInv
<1> QED
  BY RunnerInvariant, <1>1, PTL

(* When a call that was cancelled or timed out returns, the scanner has    *)
(* ended, and its helper unless it ignores SIGTERM and no longer holds the *)
(* pipe: the kill after the grace period waits for a full or open pipe.    *)
THEOREM SurvivorsAreMute == Spec => []OnlyTheMuteSurvive
<1>1. IInv => OnlyTheMuteSurvive
  BY DEF IInv
<1> QED
  BY RunnerInvariant, <1>1, PTL

(* A worker thread is held for at most the timeout, the grace period and   *)
(* the wait after the kill; after a cancel, for one poll and the two waits.*)
THEOREM CallIsBounded == Spec => []ReturnsInTime
<1>1. IInv => ReturnsInTime
  BY ConstantsAreNat DEF IInv, Types, ClockInv, ReturnsInTime, Waiting
<1> QED
  BY RunnerInvariant, <1>1, PTL

-----------------------------------------------------------------------------
(* The output of the runner. *)

\* The counters of the scanner and of its pipe.
Counters ==
    /\ work \in Nat /\ unwritten \in Nat /\ pipe \in Nat /\ got \in Nat /\ captured \in Nat
    /\ total \in [work : Nat, output : Nat]

\* No line is lost or read twice: what was read, what is in the pipe and
\* what is still to be written are all there is.
Conserved ==
    /\ got + pipe + unwritten = total.output
    /\ leader \in {"unborn", "running"} => endedBy = "none"
    /\ endedBy = "itself" => unwritten = 0
    /\ runner = "done" /\ outcome = "completed" =>
           captured = total.output \/ (captured = 0 /\ helper = "alive")

OutputInv == IInv /\ Counters /\ Conserved

LEMMA InitOutputInv == Init => OutputInv
<1> SUFFICES ASSUME Init PROVE OutputInv
  OBVIOUS
<1>1. MaxWork \in Nat /\ MaxOutput \in Nat
  BY TimingAssumption
<1>2. Counters
  BY <1>1 DEF Init, Counters
<1>3. Conserved
  BY <1>2 DEF Init, Conserved, Counters
<1> QED
  BY <1>2, <1>3, InitIInv DEF OutputInv

LEMMA StepOutputInv == OutputInv /\ [Next]_vars => OutputInv'
<1> SUFFICES ASSUME OutputInv, [Next]_vars PROVE OutputInv'
  OBVIOUS
<1>1. IInv'
  BY StepIInv DEF OutputInv
<1>2. IInv /\ Counters /\ Conserved
  BY DEF OutputInv
<1>3. Counters' /\ Conserved'
  <2> USE DEF Counters, Conserved
  <2>1. CASE RequestCancel
    BY <1>2, <2>1 DEF RequestCancel, call
  <2>2. CASE Tick
    <3>1. /\ UNCHANGED <<got, captured, total, outcome>>
          /\ runner # "done" /\ runner' # "done"
      BY <2>2 DEF Tick
    <3>2. LeaderTick /\ endedBy \in {"none", "itself", "signal"}
      BY <1>2, <2>2 DEF Tick, IInv, Types
    <3> QED
      BY <1>2, <3>1, <3>2 DEF LeaderTick
  <2>3. CASE Start
    BY <1>2, <2>3 DEF Start, IInv, LoopInv, Polling
  <2>4. CASE Poll
    <3>1. /\ UNCHANGED <<work, unwritten, pipe, got, captured, total>>
          /\ runner' # "done" /\ endedBy' \in {endedBy, "signal"}
          /\ leader' \in {"unborn", "running"} => leader' = leader /\ endedBy' = endedBy
      BY <2>4 DEF Poll, Stop, SignalGroup
    <3> QED
      BY <1>2, <3>1
  <2>5. CASE Read
    BY <1>2, <2>5 DEF Read
  <2>6. CASE EndOfFile
    <3>1. outcome = "completed" => unwritten = 0
      BY <1>2 DEF IInv, OutcomeIsTrue
    <3> QED
      BY <1>2, <2>6, <3>1 DEF EndOfFile
  <2>7. CASE GraceExpires
    BY <1>2, <2>7 DEF GraceExpires, SignalGroup
  <2>8. CASE ReapExpires
    <3>1. outcome = "completed" => helper = "alive"
      BY <1>2, <2>8 DEF ReapExpires, PipeOpen, IInv, WaitInv
    <3> QED
      BY <1>2, <2>8, <3>1 DEF ReapExpires, world
  <2>9. CASE UNCHANGED vars
    BY <1>2, <2>9 DEF vars, world, call
  <2> QED
    BY <2>1, <2>2, <2>3, <2>4, <2>5, <2>6, <2>7, <2>8, <2>9 DEF Next, Step
<1> QED
  BY <1>1, <1>3 DEF OutputInv

LEMMA TypeOfRunner == OutputInv => TypeOK
  BY DEF OutputInv, Counters, IInv, Types, TypeOK

-----------------------------------------------------------------------------
(* The tools. *)

\* The call has an outcome as soon as the loop is left.
Decided == outcome = "none" => Polling

Unanswered == stage # "replied" => reply.status = "none"

\* A success stands on a call that is over.
Success == reply.status = "ok" =>
    runner = "done" /\ outcome = "completed" /\ endedBy = "itself" /\ exit = 0

ToolInv == IInv /\ Decided /\ Unanswered /\ Success

LEMMA AnswerStatus ==
    /\ Answer("none").status = "none"
    /\ Answer("error").status = "error"
    /\ Answer("timeout").status = "timeout"
BY DEF Answer

\* The step of a tool is a step of its runner or leaves the runner alone.
LEMMA ToolStepIsStep == [ToolNext]_<<vars, toolVars>> => [Next]_vars
<1> SUFFICES ASSUME [ToolNext]_<<vars, toolVars>> PROVE [Next]_vars
  OBVIOUS
<1>1. CASE CancelRequested
  BY <1>1 DEF CancelRequested, Next
<1>2. CASE CallRunner
  BY <1>2 DEF CallRunner, Next
<1>3. CASE Nmap
  BY <1>3 DEF Nmap, CheckTargets, Conclude
<1>4. CASE Httpx
  BY <1>4 DEF Httpx, CheckTargets, Conclude
<1>5. CASE Nuclei
  BY <1>5 DEF Nuclei, CheckTargets, Conclude
<1>6. CASE Subfinder
  BY <1>6 DEF Subfinder, CheckTargets, Conclude
<1>7. CASE Dnsx
  BY <1>7 DEF Dnsx, CheckTargets, Conclude
<1>8. CASE UNCHANGED <<vars, toolVars>>
  BY <1>8
<1> QED
  BY <1>1, <1>2, <1>3, <1>4, <1>5, <1>6, <1>7, <1>8 DEF ToolNext, ToolStep

\* Every tool answers either without a process or by one of three branches.
LEMMA AnswersOfTools ==
    ASSUME Nmap \/ Httpx \/ Nuclei \/ Subfinder \/ Dnsx
    PROVE  \/ CheckTargets
           \/ /\ stage = "call" /\ runner = "done" /\ stage' = "replied"
              /\ UNCHANGED vars
              /\ \/ reply' = Answer("timeout")
                 \/ reply' = Answer("error")
                 \/ outcome # "timeout" /\ Returncode = 0
<1>1. CASE Nmap
  BY <1>1 DEF Nmap, Conclude
<1>2. CASE Httpx
  BY <1>2 DEF Httpx, Conclude
<1>3. CASE Nuclei
  BY <1>3 DEF Nuclei, Conclude
<1>4. CASE Subfinder
  BY <1>4 DEF Subfinder, Conclude
<1>5. CASE Dnsx
  BY <1>5 DEF Dnsx, Conclude
<1> QED
  BY <1>1, <1>2, <1>3, <1>4, <1>5

LEMMA InitToolInv == ToolInit => ToolInv
<1> SUFFICES ASSUME ToolInit PROVE ToolInv
  OBVIOUS
<1>1. IInv
  BY InitIInv DEF ToolInit
<1>2. Decided
  BY DEF ToolInit, Init, Decided, Polling
<1>3. reply.status = "none"
  BY AnswerStatus DEF ToolInit
<1> QED
  BY <1>1, <1>2, <1>3 DEF ToolInv, Unanswered, Success

LEMMA StepDecided == IInv /\ Decided /\ [Next]_vars => Decided'
<1> SUFFICES ASSUME IInv, Decided, [Next]_vars PROVE Decided'
  OBVIOUS
<1> USE DEF Decided, Polling
<1>1. CASE RequestCancel
  BY <1>1 DEF RequestCancel, call
<1>2. CASE Tick
  BY <1>2 DEF Tick, IInv, Types
<1>3. CASE Start
  BY <1>3 DEF Start
<1>4. CASE Poll
  BY <1>4 DEF Poll, Stop
<1>5. CASE Read \/ EndOfFile \/ GraceExpires \/ ReapExpires
  BY <1>5 DEF Read, EndOfFile, GraceExpires, ReapExpires
<1>6. CASE UNCHANGED vars
  BY <1>6 DEF vars, call
<1> QED
  BY <1>1, <1>2, <1>3, <1>4, <1>5, <1>6 DEF Next, Step

LEMMA StepToolInv == ToolInv /\ [ToolNext]_<<vars, toolVars>> => ToolInv'
<1> SUFFICES ASSUME ToolInv, [ToolNext]_<<vars, toolVars>> PROVE ToolInv'
  OBVIOUS
<1>1. [Next]_vars
  BY ToolStepIsStep
<1>2. IInv'
  BY <1>1, StepIInv DEF ToolInv
<1>3. Decided'
  BY <1>1, StepDecided DEF ToolInv
<1>4. Unanswered' /\ Success'
  <2>1. CASE CancelRequested
    BY <2>1 DEF CancelRequested, RequestCancel, toolVars, ToolInv, Unanswered, Success, call
  <2>2. CASE CallRunner
    BY <2>2 DEF CallRunner, toolVars, ToolInv, Unanswered, Success
  <2>3. CASE CheckTargets
    <3>1. reply.status = "none"
      BY <2>3 DEF CheckTargets, ToolInv, Unanswered
    <3>2. reply' = reply \/ (stage' = "replied" /\ reply' = Answer("error"))
      BY <2>3 DEF CheckTargets
    <3> QED
      BY <3>1, <3>2, AnswerStatus DEF Unanswered, Success
  <2>4. CASE /\ stage = "call" /\ runner = "done" /\ stage' = "replied"
             /\ UNCHANGED vars
             /\ \/ reply' = Answer("timeout")
                \/ reply' = Answer("error")
                \/ outcome # "timeout" /\ Returncode = 0
    <3>1. Unanswered'
      BY <2>4 DEF Unanswered
    <3>2. CASE reply' = Answer("timeout") \/ reply' = Answer("error")
      BY <3>1, <3>2, AnswerStatus DEF Success
    <3>3. CASE outcome # "timeout" /\ Returncode = 0
      <4>1. outcome = "completed" /\ exit' = 0
        BY <2>4, <3>3 DEF Returncode, ToolInv, Decided, Polling, IInv, Types, Outcomes
      <4>2. endedBy = "itself"
        BY <4>1 DEF ToolInv, IInv, OutcomeIsTrue
      <4>3. UNCHANGED <<runner, outcome, endedBy>>
        BY <2>4 DEF vars, call
      <4> QED
        BY <2>4, <3>1, <4>1, <4>2, <4>3 DEF Success
    <3> QED
      BY <2>4, <3>2, <3>3
  <2>5. CASE UNCHANGED <<vars, toolVars>>
    BY <2>5 DEF vars, call, toolVars, ToolInv, Unanswered, Success
  <2> QED
    BY <2>1, <2>2, <2>3, <2>4, <2>5, AnswersOfTools DEF ToolNext, ToolStep
<1> QED
  BY <1>2, <1>3, <1>4 DEF ToolInv

\* A tool's execution is a behaviour of the runner: what is proved of the
\* runner holds of every call a tool makes.
THEOREM ToolsDriveTheRunner == ToolSpec => Spec
<1>1. ToolInit => Init
  BY DEF ToolInit
<1> QED
  BY <1>1, ToolStepIsStep, PTL DEF ToolSpec, Spec

\* Tool.execute reports success only for a scanner that ended by itself, with
\* exit status 0, in a call nobody stopped.
THEOREM SuccessIsEarned == ToolSpec => []OkIsEarned
<1>1. ToolInv => OkIsEarned
  BY DEF ToolInv, Success, OkIsEarned
<1> QED
  BY InitToolInv, StepToolInv, <1>1, PTL DEF ToolSpec

-----------------------------------------------------------------------------
(* The records of a reply. *)

\* A nonempty set of numbers has a least element.
LEMMA MinimalNat ==
    ASSUME NEW T \in SUBSET Nat, T # {}
    PROVE  \E n \in T : \A m \in T : n <= m
<1>1. IsWellFoundedOn(OpToRel(<, Nat), Nat)
  BY NatLessThanWellFounded
<1>2. \E n \in T : \A m \in T : ~(<<m, n>> \in OpToRel(<, Nat))
  BY <1>1, WFMin
<1>3. \E n \in T : \A m \in T : ~(m < n)
  BY <1>2 DEF OpToRel
<1> QED
  BY <1>3

LEMMA RankType ==
    ASSUME NEW V \in SUBSET Nat, IsFiniteSet(V), NEW l \in Nat
    PROVE  Rank(l, V) \in Nat /\ Rank(l, V) <= Cardinality(V)
<1>1. {k \in V : k < l} \in SUBSET V
  OBVIOUS
<1>2. IsFiniteSet({k \in V : k < l}) /\ Cardinality({k \in V : k < l}) <= Cardinality(V)
  BY <1>1, FS_Subset
<1> QED
  BY <1>2, FS_CardinalityType DEF Rank

\* A later line of a set has a higher rank.
LEMMA RankGrows ==
    ASSUME NEW V \in SUBSET Nat, IsFiniteSet(V), NEW k \in V, NEW l \in Nat, k < l
    PROVE  Rank(k, V) < Rank(l, V)
<1> DEFINE K == {j \in V : j < k}  L == {j \in V : j < l}
<1>0. V \subseteq Nat /\ k \in Nat
  OBVIOUS
<1>1. K \in SUBSET V /\ L \in SUBSET V /\ (K \cup {k}) \in SUBSET L /\ k \notin K
  <2>1. K \in SUBSET V /\ L \in SUBSET V /\ k \in L /\ k \notin K
    BY <1>0
  <2>2. \A j \in V : j < k => j < l
    BY <1>0
  <2> QED
    BY <2>1, <2>2
<1>2. IsFiniteSet(K) /\ IsFiniteSet(L)
  BY <1>1, FS_Subset
<1>3. IsFiniteSet(K \cup {k}) /\ Cardinality(K \cup {k}) = Cardinality(K) + 1
  BY <1>1, <1>2, FS_AddElement
<1>4. Cardinality(K \cup {k}) <= Cardinality(L)
  BY <1>1, <1>2, FS_Subset
<1>5. Cardinality(K) \in Nat /\ Cardinality(L) \in Nat
  BY <1>2, FS_CardinalityType
<1>6. Cardinality(K) < Cardinality(L)
  BY <1>3, <1>4, <1>5
<1> QED
  BY <1>6 DEF Rank

\* The lines below the first one that is left out are the lines kept.
LEMMA FirstGrows ==
    ASSUME NEW V \in SUBSET Nat, IsFiniteSet(V), NEW n \in Nat,
           Cardinality(First(n, V)) = n, First(n, V) # V
    PROVE  \E m \in V \ First(n, V) : First(n + 1, V) = First(n, V) \cup {m}
<1> DEFINE F == First(n, V)
<1>1. F \in SUBSET V /\ V \ F \in SUBSET Nat /\ V \ F # {}
  BY DEF First
<1>2. PICK m \in V \ F : \A k \in V \ F : m <= k
  BY <1>1, MinimalNat
<1>3. \A l \in V : Rank(l, V) \in Nat
  BY RankType
<1>4. \A l \in V : l \in F <=> Rank(l, V) < n
  BY DEF First
<1>5. ASSUME NEW k \in V PROVE k \in F <=> k < m
  <2>1. CASE k \in F
    <3>1. ~(m < k)
      BY <1>2, <1>3, <1>4, <2>1, RankGrows
    <3> QED
      BY <1>2, <2>1, <3>1
  <2>2. CASE k \notin F
    BY <1>2, <2>2
  <2> QED
    BY <2>1, <2>2
<1>6. F = {k \in V : k < m}
  BY <1>1, <1>5
<1>7. Rank(m, V) = n
  BY <1>6 DEF Rank
<1>8. ASSUME NEW l \in V PROVE Rank(l, V) < n + 1 <=> l \in F \cup {m}
  <2>1. CASE l \in F \cup {m}
    BY <1>3, <1>4, <1>7, <2>1
  <2>2. CASE l \notin F \cup {m}
    <3>1. m < l
      BY <1>2, <2>2
    <3>2. n < Rank(l, V)
      BY <1>2, <1>7, <3>1, RankGrows
    <3> QED
      BY <1>3, <2>2, <3>2
  <2> QED
    BY <2>1, <2>2
<1>9. First(n + 1, V) = {l \in V : Rank(l, V) < n + 1}
  BY DEF First
<1>10. First(n + 1, V) = F \cup {m}
  BY <1>1, <1>2, <1>8, <1>9
<1> QED
  BY <1>2, <1>10

\* First(n, V) has n lines, or fewer when it has all of them.
LEMMA FirstSize ==
    ASSUME NEW V \in SUBSET Nat, IsFiniteSet(V), NEW n \in Nat
    PROVE  /\ First(n, V) \in SUBSET V
           /\ Cardinality(First(n, V)) <= n
           /\ First(n, V) # V => Cardinality(First(n, V)) = n
<1> DEFINE Holds(i) == /\ Cardinality(First(i, V)) <= i
                       /\ First(i, V) # V => Cardinality(First(i, V)) = i
           Bad == {i \in Nat : ~Holds(i)}
<1>1. First(n, V) \in SUBSET V
  BY DEF First
<1>2. Holds(0)
  <2>1. \A l \in V : Rank(l, V) \in Nat
    BY RankType
  <2>2. \A l \in V : ~(Rank(l, V) < 0)
    BY <2>1
  <2>3. First(0, V) = {}
    BY <2>2 DEF First
  <2> QED
    BY <2>3, FS_EmptySet
<1>3. ASSUME NEW i \in Nat, Holds(i) PROVE Holds(i + 1)
  <2>1. CASE First(i, V) = V
    <3>1. \A l \in V : Rank(l, V) \in Nat /\ Rank(l, V) < i
      BY <2>1, RankType DEF First
    <3>2. \A l \in V : Rank(l, V) < i + 1
      BY <3>1
    <3>3. First(i + 1, V) = V
      BY <3>2 DEF First
    <3>4. Cardinality(V) \in Nat /\ Cardinality(V) <= i
      BY <1>3, <2>1, FS_CardinalityType
    <3> QED
      BY <3>3, <3>4
  <2>2. CASE First(i, V) # V
    <3>1. Cardinality(First(i, V)) = i
      BY <1>3, <2>2
    <3>2. PICK m \in V \ First(i, V) : First(i + 1, V) = First(i, V) \cup {m}
      BY <2>2, <3>1, FirstGrows
    <3>3. First(i, V) \in SUBSET V
      BY DEF First
    <3>4. IsFiniteSet(First(i, V))
      BY <3>3, FS_Subset
    <3>5. Cardinality(First(i + 1, V)) = i + 1
      BY <3>1, <3>2, <3>4, FS_AddElement
    <3> QED
      BY <3>5
  <2> QED
    BY <2>1, <2>2
<1>4. Bad = {}
  <2>1. SUFFICES ASSUME Bad # {} PROVE FALSE
    OBVIOUS
  <2> HIDE DEF Holds
  <2>2. PICK i \in Bad : \A j \in Bad : i <= j
    BY <2>1, MinimalNat
  <2>3. i # 0 /\ i \in Nat /\ ~Holds(i)
    BY <1>2, <2>2
  <2>4. i - 1 \in Nat /\ i - 1 \notin Bad
    BY <2>2, <2>3
  <2>5. Holds(i - 1)
    BY <2>4
  <2>6. Holds(i - 1 + 1)
    BY <1>3, <2>4, <2>5
  <2> QED
    BY <2>3, <2>6
<1> QED
  BY <1>1, <1>4

-----------------------------------------------------------------------------
(* What the parsers make of the output. *)

Replies == [status : {"none", "ok", "error", "timeout", "raised"},
            records : SUBSET Nat, verified : SUBSET Nat,
            skipped : Nat, filtered : Nat, truncated : BOOLEAN]

Told(answer) == Cardinality(answer.records) + answer.skipped + answer.filtered

\* A success accounts for every line the tool was handed, or is truncated.
Declared(answer) ==
    answer.status = "ok" => answer.truncated \/ Told(answer) = captured

\* A parser stopped at its last record, with every line up to it told.
CutShort(answer) ==
    /\ Cardinality(answer.records) = RecordCap
    /\ \E last \in answer.records :
          (\A l \in answer.records : l <= last) /\ Told(answer) = last

\* What a parser returns, and what one that stops at a cap returns.
Proper(answer) ==
    answer \in Replies /\ Declared(answer) /\ IsFiniteSet(answer.records)

Stopping(answer) ==
    /\ answer \in Replies /\ IsFiniteSet(answer.records)
    /\ Declared(answer) \/ CutShort(answer)

LEMMA CapsAreNat == OutputCap \in Nat /\ RecordCap \in Nat /\ LookupCap \in Nat
BY CapsAssumption

LEMMA AnswerProper ==
    ASSUME NEW status \in {"none", "error", "timeout", "raised"}
    PROVE  Proper(Answer(status)) /\ Stopping(Answer(status))
BY FS_EmptySet DEF Proper, Stopping, Replies, Declared, Answer

LEMMA TextShape ==
    ASSUME captured \in Nat, NEW t \in Texts
    PROVE  /\ t.lines \in SUBSET Nat /\ IsFiniteSet(t.lines)
           /\ t.truncated \in BOOLEAN
           /\ ~t.truncated => t.lines = 1 .. captured
           /\ t.truncated => t.lines # {}
           /\ \E n \in Nat : t.lines = 1 .. n
<1>1. PICK keep \in Nat, cut \in BOOLEAN : t = Capped(keep, cut)
  BY CapsAreNat DEF Texts
<1>2. CASE keep = captured
  <2>1. t.lines = 1 .. captured /\ ~t.truncated /\ t.truncated \in BOOLEAN
    BY <1>1, <1>2 DEF Capped
  <2>2. IsFiniteSet(t.lines) /\ t.lines \in SUBSET Nat
    BY <2>1, FS_Interval
  <2>3. \E n \in Nat : t.lines = 1 .. n
    BY <2>1
  <2> QED
    BY <2>1, <2>2, <2>3
<1>3. CASE keep # captured
  <2> DEFINE last == IF cut THEN keep + 2 ELSE keep + 1
  <2>1. t.lines = 1 .. last /\ t.truncated = TRUE
    BY <1>1, <1>3 DEF Capped
  <2>2. last \in Nat /\ 1 <= last
    OBVIOUS
  <2>3. 1 \in t.lines /\ t.lines \in SUBSET Nat
    BY <2>1, <2>2
  <2>4. IsFiniteSet(t.lines)
    BY <2>1, <2>2, FS_Interval
  <2> HIDE DEF last
  <2>5. \E n \in Nat : t.lines = 1 .. n
    BY <2>1, <2>2
  <2> QED
    BY <2>1, <2>3, <2>4, <2>5
<1> QED
  BY <1>2, <1>3

LEMMA OutputSize == captured \in Nat => Cardinality(1 .. captured) = captured
BY FS_Interval

\* Records and skipped lines are the lines read.
LEMMA RecordsTold ==
    ASSUME captured \in Nat, NEW t \in Texts, NEW v \in Readings(t),
           NEW read \in SUBSET t.lines, First(RecordCap, v) \subseteq read
    PROVE  LET answer == Records(t, read, v)
           IN  /\ answer \in Replies /\ IsFiniteSet(answer.records)
               /\ answer.records = First(RecordCap, v) /\ answer.filtered = 0
               /\ answer.truncated = t.truncated
               /\ Told(answer) = Cardinality(read)
<1> DEFINE kept == First(RecordCap, v)
           answer == Records(t, read, v)
<1>1. t.lines \in SUBSET Nat /\ IsFiniteSet(t.lines) /\ t.truncated \in BOOLEAN
  BY TextShape
<1>2. v \in SUBSET t.lines /\ v \in SUBSET Nat /\ kept \in SUBSET v
  BY <1>1 DEF Readings, First
<1>3. IsFiniteSet(v) /\ IsFiniteSet(read)
  BY <1>1, <1>2, FS_Subset
<1>4. IsFiniteSet(kept)
  BY <1>2, <1>3, FS_Subset
<1>5. /\ IsFiniteSet(read \ kept)
      /\ Cardinality(read \ kept) = Cardinality(read) - Cardinality(read \cap kept)
  BY <1>3, FS_Difference
<1>6. read \cap kept = kept
  OBVIOUS
<1>7. /\ Cardinality(read \ kept) \in Nat /\ Cardinality(read) \in Nat /\ Cardinality(kept) \in Nat
  BY <1>3, <1>4, <1>5, FS_CardinalityType
<1>8. /\ answer.records = kept /\ answer.skipped = Cardinality(read \ kept)
      /\ answer.filtered = 0 /\ answer.truncated = t.truncated
  BY DEF Records, Answer
<1>9. answer \in Replies
  <2>1. \A k \in SUBSET Nat, n \in Nat, b \in BOOLEAN :
           [Answer("ok") EXCEPT !.records = k, !.skipped = n, !.truncated = b] \in Replies
    BY DEF Answer, Replies
  <2>2. answer = [Answer("ok") EXCEPT !.records = kept,
                                      !.skipped = Cardinality(read \ kept),
                                      !.truncated = t.truncated]
    BY DEF Records
  <2>3. kept \in SUBSET Nat
    BY <1>2
  <2> HIDE DEF kept, answer
  <2> QED
    BY <1>1, <1>7, <2>1, <2>2, <2>3
<1>10. Cardinality(kept) + Cardinality(read \ kept) + 0 = Cardinality(read)
  <2> HIDE DEF kept, answer
  <2>1. Cardinality(read \ kept) = Cardinality(read) - Cardinality(kept)
    BY <1>5, <1>6
  <2> QED
    BY <1>7, <2>1
<1>11. Told(answer) = Cardinality(read)
  BY <1>8, <1>10 DEF Told
<1> HIDE DEF answer, kept
<1>12. /\ answer \in Replies /\ IsFiniteSet(answer.records)
       /\ answer.records = kept /\ answer.filtered = 0 /\ answer.truncated = t.truncated
       /\ Told(answer) = Cardinality(read)
  BY <1>4, <1>8, <1>9, <1>11
<1> QED
  BY <1>12 DEF answer, kept

\* The lines of lower rank than the cap are all lines, or those up to the last
\* record that is kept.
LEMMA LinesRead ==
    ASSUME NEW n \in Nat, NEW v \in SUBSET (1 .. n)
    PROVE  LET read == {l \in 1 .. n : Rank(l, v) < RecordCap}
               kept == First(RecordCap, v)
           IN  \/ read = 1 .. n
               \/ /\ Cardinality(kept) = RecordCap
                  /\ \E last \in kept : (\A l \in kept : l <= last) /\ read = 1 .. last
<1> DEFINE read == {l \in 1 .. n : Rank(l, v) < RecordCap}
           kept == First(RecordCap, v)
<1>0. \A k \in v : k \in Nat /\ 1 <= k /\ k <= n
  OBVIOUS
<1>1. v \in SUBSET Nat /\ IsFiniteSet(v) /\ RecordCap \in Nat \ {0}
  <2>1. IsFiniteSet(1 .. n)
    BY FS_Interval
  <2>2. IsFiniteSet(v)
    BY <2>1, FS_Subset
  <2> QED
    BY <1>0, <2>2, CapsAssumption
<1>2. /\ kept \in SUBSET v /\ Cardinality(kept) <= RecordCap
      /\ kept # v => Cardinality(kept) = RecordCap
  BY <1>1, FirstSize
<1>3. IsFiniteSet(kept) /\ Cardinality(kept) \in Nat
  BY <1>1, <1>2, FS_Subset, FS_CardinalityType
<1>4. \A l \in 1 .. n : Rank(l, v) \in Nat /\ Rank(l, v) <= Cardinality(v)
  BY <1>1, RankType
<1>5. CASE Cardinality(kept) # RecordCap
  <2>1. kept = v /\ Cardinality(v) < RecordCap
    BY <1>1, <1>2, <1>3, <1>5
  <2>2. \A l \in 1 .. n : Rank(l, v) < RecordCap
    BY <1>1, <1>3, <1>4, <2>1
  <2> QED
    BY <2>2
<1>6. CASE Cardinality(kept) = RecordCap
  <2>1. kept # {}
    BY <1>1, <1>6, FS_EmptySet
  <2> DEFINE bounds == {m \in Nat : \A l \in kept : l <= m}
  <2>2. n \in bounds
    BY <1>0, <1>2
  <2>3. PICK last \in bounds : \A m \in bounds : last <= m
    <3> HIDE DEF bounds
    <3>1. bounds \in SUBSET Nat
      BY DEF bounds
    <3> QED
      BY <2>2, <3>1, MinimalNat
  <2>4. last \in kept
    <3> SUFFICES ASSUME last \notin kept PROVE FALSE
      OBVIOUS
    <3>1. PICK k \in kept : k <= last
      BY <2>1, <2>3
    <3>2. k \in Nat /\ 1 <= k /\ last \in Nat /\ k # last
      BY <1>0, <1>2, <2>3, <3>1
    <3>3. last - 1 \in Nat
      BY <3>1, <3>2
    <3>4. \A l \in kept : l <= last - 1
      <4> SUFFICES ASSUME NEW l \in kept PROVE l <= last - 1
        OBVIOUS
      <4>1. l \in Nat /\ l <= last /\ l # last
        BY <1>0, <1>2, <2>3
      <4> QED
        BY <3>2, <4>1
    <3>5. last <= last - 1
      BY <2>3, <3>3, <3>4
    <3> QED
      BY <3>2, <3>5
  <2>5. last \in 1 .. n /\ last \in v /\ Rank(last, v) < RecordCap
    BY <1>2, <2>4 DEF First
  <2>6. ASSUME NEW l \in 1 .. n, l <= last PROVE Rank(l, v) < RecordCap
    <3> DEFINE L == {k \in v : k < l}
               M == {k \in v : k < last}
    <3>1. L \in SUBSET M /\ M \in SUBSET v
      <4>1. \A k \in v : k < l => k < last
        BY <1>0, <2>5, <2>6
      <4> QED
        BY <4>1
    <3>2. IsFiniteSet(M)
      BY <1>1, <3>1, FS_Subset
    <3>3. Cardinality(L) <= Cardinality(M) /\ IsFiniteSet(L)
      BY <3>1, <3>2, FS_Subset
    <3>4. Rank(l, v) <= Rank(last, v)
      BY <3>3 DEF Rank
    <3> QED
      BY <1>1, <1>4, <2>5, <3>4
  <2>7. ASSUME NEW l \in 1 .. n, last < l PROVE ~(Rank(l, v) < RecordCap)
    <3> DEFINE L == {k \in v : k < l}
    <3>1. kept \in SUBSET L /\ L \in SUBSET v
      <4>1. \A k \in kept : k \in v /\ k \in Nat /\ k <= last
        BY <1>1, <1>2, <2>3
      <4> QED
        BY <2>5, <2>7, <4>1
    <3>2. IsFiniteSet(L)
      BY <1>1, <3>1, FS_Subset
    <3>3. Cardinality(kept) <= Cardinality(L)
      BY <3>1, <3>2, FS_Subset
    <3>4. RecordCap <= Rank(l, v)
      BY <1>6, <3>3 DEF Rank
    <3> QED
      BY <1>1, <1>4, <3>4
  <2>8. read = 1 .. last
    BY <2>5, <2>6, <2>7
  <2> QED
    BY <1>6, <2>3, <2>4, <2>8
<1> QED
  BY <1>5, <1>6

LEMMA NmapProper ==
    ASSUME captured \in Nat, NEW t \in Texts, NEW v \in Readings(t)
    PROVE  Proper(NmapParsed(t, v))
<1>1. CASE t.lines = {} \/ v # t.lines
  BY <1>1, AnswerProper DEF NmapParsed
<1>2. CASE ~(t.lines = {} \/ v # t.lines)
  <2> DEFINE answer == NmapParsed(t, v)
  <2>1. answer = [Answer("ok") EXCEPT !.records = v, !.truncated = t.truncated]
    BY <1>2 DEF NmapParsed
  <2>2. answer.records = t.lines /\ answer.truncated = t.truncated
    BY <1>2, <2>1 DEF Answer
  <2>3. IsFiniteSet(t.lines) /\ answer \in Replies
    <3>1. /\ t.lines \in SUBSET Nat /\ IsFiniteSet(t.lines)
          /\ t.truncated \in BOOLEAN
      BY TextShape
    <3>2. answer = [status |-> "ok", records |-> v, verified |-> {}, skipped |-> 0,
                    filtered |-> 0, truncated |-> t.truncated]
      BY <2>1 DEF Answer
    <3>3. answer \in Replies
      BY <1>2, <3>1, <3>2 DEF Replies
    <3> QED
      BY <3>1, <3>3
  <2>4. ~t.truncated => Cardinality(t.lines) = captured
    BY TextShape, OutputSize
  <2>5. answer.skipped = 0 /\ answer.filtered = 0
    BY <2>1 DEF Answer
  <2>6. Cardinality(t.lines) \in Nat
    BY <2>3, FS_CardinalityType
  <2>7. Declared(answer)
    BY <2>2, <2>4, <2>5, <2>6 DEF Declared, Told
  <2> QED
    BY <2>2, <2>3, <2>7 DEF Proper
<1> QED
  BY <1>1, <1>2

LEMMA HttpxStops ==
    ASSUME captured \in Nat, NEW t \in Texts, NEW v \in Readings(t)
    PROVE  Stopping(HttpxParsed(t, v))
<1>1. CASE v = {} /\ t.lines # {}
  BY <1>1, AnswerProper DEF HttpxParsed
<1>2. CASE ~(v = {} /\ t.lines # {})
  <2> DEFINE read == {l \in t.lines : Rank(l, v) < RecordCap}
             kept == First(RecordCap, v)
             answer == Records(t, read, v)
  <2>1. HttpxParsed(t, v) = answer
    BY <1>2 DEF HttpxParsed
  <2>2. PICK n \in Nat : t.lines = 1 .. n
    BY TextShape
  <2>3. v \in SUBSET (1 .. n) /\ kept \subseteq read /\ read \in SUBSET t.lines
    BY <2>2 DEF Readings, First
  <2>4. /\ answer \in Replies /\ IsFiniteSet(answer.records) /\ answer.records = kept
        /\ answer.truncated = t.truncated /\ Told(answer) = Cardinality(read)
    BY <2>3, RecordsTold
  <2>5. read = {l \in 1 .. n : Rank(l, v) < RecordCap}
    BY <2>2
  <2>6. \/ read = 1 .. n
        \/ /\ Cardinality(kept) = RecordCap
           /\ \E last \in kept : (\A l \in kept : l <= last) /\ read = 1 .. last
    BY <2>3, <2>5, LinesRead
  <2> HIDE DEF read, kept, answer
  <2>7. CASE read = 1 .. n
    <3>1. ~t.truncated => Told(answer) = captured
      BY <2>2, <2>4, <2>7, TextShape, OutputSize
    <3> QED
      BY <2>1, <2>4, <3>1 DEF Stopping, Declared
  <2>8. CASE /\ Cardinality(kept) = RecordCap
             /\ \E last \in kept : (\A l \in kept : l <= last) /\ read = 1 .. last
    <3>1. PICK last \in kept : (\A l \in kept : l <= last) /\ read = 1 .. last
      BY <2>8
    <3>2. last \in Nat
      BY <2>4 DEF Replies
    <3>3. Told(answer) = last
      BY <2>4, <3>1, <3>2, FS_Interval
    <3> QED
      BY <2>1, <2>4, <2>8, <3>1, <3>3 DEF Stopping, CutShort
  <2> QED
    BY <2>6, <2>7, <2>8
<1> QED
  BY <1>1, <1>2

LEMMA NucleiStops ==
    ASSUME captured \in Nat, NEW t \in Texts, NEW v \in Readings(t)
    PROVE  Stopping(NucleiParsed(t, v))
<1>1. CASE t.lines = {}
  <2>1. Cardinality(1 .. captured) = captured /\ 1 .. captured = {}
    BY <1>1, TextShape, OutputSize
  <2>2. captured = 0
    BY <2>1, FS_EmptySet
  <2>3. NucleiParsed(t, v) = Answer("ok")
    BY <1>1 DEF NucleiParsed
  <2>4. Stopping(Answer("ok"))
    BY <2>2, FS_EmptySet DEF Stopping, Replies, Declared, Told, Answer
  <2> QED
    BY <2>3, <2>4
<1>2. CASE t.lines # {}
  BY <1>2, HttpxStops DEF NucleiParsed
<1> QED
  BY <1>1, <1>2

LEMMA AllLinesProper ==
    ASSUME captured \in Nat, NEW t \in Texts, NEW v \in Readings(t)
    PROVE  Proper(Records(t, t.lines, v)) /\ Records(t, t.lines, v).filtered = 0
<1> DEFINE answer == Records(t, t.lines, v)
<1>1. t.lines \in SUBSET t.lines /\ First(RecordCap, v) \subseteq t.lines
  BY DEF Readings, First
<1>2. /\ answer \in Replies /\ IsFiniteSet(answer.records) /\ answer.filtered = 0
      /\ answer.truncated = t.truncated /\ Told(answer) = Cardinality(t.lines)
  BY <1>1, RecordsTold
<1> HIDE DEF answer
<1>3. ~t.truncated => Cardinality(t.lines) = captured
  BY TextShape, OutputSize
<1>4. Proper(answer) /\ answer.filtered = 0
  BY <1>2, <1>3 DEF Proper, Declared
<1> QED
  BY <1>4 DEF answer

\* Dropping records that are not below the domain is counted too.
LEMMA DescendantsProper ==
    ASSUME captured \in Nat, NEW parsed, Proper(parsed), parsed.filtered = 0,
           NEW answer \in Descendants(parsed)
    PROVE  Proper(answer)
<1>1. PICK names \in SUBSET parsed.records : \E resolved \in Verified(names) :
          answer = [parsed EXCEPT !.records = names,
                                  !.filtered = Cardinality(parsed.records \ names),
                                  !.verified = resolved]
  BY DEF Descendants
<1>1a. PICK resolved \in Verified(names) :
          answer = [parsed EXCEPT !.records = names,
                                  !.filtered = Cardinality(parsed.records \ names),
                                  !.verified = resolved]
  BY <1>1
<1>2. parsed \in Replies /\ Declared(parsed) /\ IsFiniteSet(parsed.records)
  BY DEF Proper
<1>3. names \in SUBSET Nat /\ resolved \in SUBSET Nat
  <2>1. names \in SUBSET Nat
    BY <1>1, <1>2 DEF Replies
  <2>2. resolved = {} \/ resolved \in SUBSET First(LookupCap, names)
    BY <1>1a DEF Verified
  <2>3. First(LookupCap, names) \in SUBSET names
    BY DEF First
  <2> QED
    BY <2>1, <2>2, <2>3
<1>4. IsFiniteSet(names) /\ IsFiniteSet(parsed.records \ names)
  <2>1. parsed.records \ names \in SUBSET parsed.records
    OBVIOUS
  <2> QED
    BY <1>1, <1>2, <2>1, FS_Subset
<1>5. /\ Cardinality(parsed.records \ names) \in Nat
      /\ Cardinality(parsed.records \ names) = 0 => parsed.records \subseteq names
  BY <1>4, FS_CardinalityType, FS_EmptySet
<1>6. /\ answer.status = parsed.status /\ answer.records = names
      /\ answer.filtered = Cardinality(parsed.records \ names)
      /\ answer.skipped = parsed.skipped /\ answer.truncated = parsed.truncated
  BY <1>1a, <1>2 DEF Replies
<1>7. answer \in Replies
  BY <1>1a, <1>2, <1>3, <1>5 DEF Replies
<1>8. parsed.skipped \in Nat
  BY <1>2 DEF Replies
<1>9. Cardinality(names) + Cardinality(parsed.records \ names) = Cardinality(parsed.records)
  <2> DEFINE R == parsed.records
  <2>1. IsFiniteSet(R) /\ R \cap names = names
    BY <1>1, <1>2
  <2> HIDE DEF R
  <2>2. Cardinality(R \ names) = Cardinality(R) - Cardinality(names)
    BY <2>1, FS_Difference
  <2>3. Cardinality(R) \in Nat
    BY <2>1, FS_CardinalityType
  <2>4. Cardinality(names) \in Nat
    BY <1>4, FS_CardinalityType
  <2>5. Cardinality(names) + Cardinality(R \ names) = Cardinality(R)
    BY <2>2, <2>3, <2>4
  <2> QED
    BY <2>5 DEF R
<1>10. Told(answer) = Told(parsed)
  <2>1. Cardinality(names) \in Nat
    BY <1>4, FS_CardinalityType
  <2> QED
    BY <1>5, <1>6, <1>8, <1>9, <2>1 DEF Told
<1>11. Declared(answer)
  BY <1>2, <1>6, <1>10 DEF Declared
<1> QED
  BY <1>4, <1>6, <1>7, <1>11 DEF Proper

\* Whatever a tool is handed, its answer is proper, or stops at the cap.
LEMMA AnswersProper ==
    ASSUME captured \in Nat
    PROVE  /\ \A answer \in (NmapAnswers \cup SubfinderAnswers) \cup DnsxAnswers : Proper(answer)
           /\ \A answer \in HttpxAnswers \cup NucleiAnswers : Stopping(answer)
<1>1. \A answer \in NmapAnswers : Proper(answer)
  BY NmapProper DEF NmapAnswers
<1>2. \A answer \in HttpxAnswers : Stopping(answer)
  BY HttpxStops, AnswerProper DEF HttpxAnswers
<1>3. \A answer \in NucleiAnswers : Stopping(answer)
  BY NucleiStops, AnswerProper DEF NucleiAnswers
<1>4. \A answer \in SubfinderAnswers : Proper(answer)
  BY AllLinesProper, DescendantsProper DEF SubfinderAnswers, SubfinderParsed
<1>5. \A answer \in DnsxAnswers : Proper(answer)
  BY AllLinesProper DEF DnsxAnswers, DnsxParsed
<1> QED
  BY <1>1, <1>2, <1>3, <1>4, <1>5

-----------------------------------------------------------------------------
(* The reply. *)

ReplyInv ==
    /\ tool \in Tools /\ stage \in {"check", "call", "replied"} /\ exit \in {0, 1}
    /\ reply \in Replies
    /\ Declared(reply) \/ (tool \in {"httpx", "nuclei"} /\ CutShort(reply))

WholeInv == OutputInv /\ ToolInv /\ ReplyInv

LEMMA InitWholeInv == ToolInit => WholeInv
<1> SUFFICES ASSUME ToolInit PROVE WholeInv
  OBVIOUS
<1>1. OutputInv
  BY InitOutputInv DEF ToolInit
<1>2. reply = Answer("none")
  BY DEF ToolInit
<1>3. Proper(reply)
  BY <1>2, AnswerProper
<1>4. ReplyInv
  BY <1>3 DEF ToolInit, ReplyInv, Proper
<1> QED
  BY <1>1, <1>4, InitToolInv DEF WholeInv

LEMMA StepReplyInv == WholeInv /\ [ToolNext]_<<vars, toolVars>> => ReplyInv'
<1> SUFFICES ASSUME WholeInv, [ToolNext]_<<vars, toolVars>> PROVE ReplyInv'
  OBVIOUS
<1>1. /\ ReplyInv /\ Unanswered /\ Success /\ captured \in Nat
  BY DEF WholeInv, ToolInv, OutputInv, Counters
<1>2. CASE UNCHANGED toolVars /\ UNCHANGED captured
  BY <1>1, <1>2 DEF toolVars, ReplyInv, Declared, CutShort, Told
<1>3. CASE CancelRequested
  BY <1>2, <1>3 DEF CancelRequested, RequestCancel, call
<1>4. CASE CallRunner
  <2>1. UNCHANGED toolVars /\ reply.status # "ok"
    BY <1>1, <1>4 DEF CallRunner, Unanswered
  <2> QED
    BY <1>1, <2>1 DEF toolVars, ReplyInv, Declared
<1>5. CASE /\ UNCHANGED <<captured, tool>> /\ stage' \in {"check", "call", "replied"}
           /\ exit' \in {0, 1}
           /\ reply' = reply \/ Proper(reply')
                 \/ (tool \in {"httpx", "nuclei"} /\ Stopping(reply'))
  BY <1>1, <1>5 DEF ReplyInv, Declared, CutShort, Told, Proper, Stopping
<1>6. CASE CheckTargets
  <2>1. /\ UNCHANGED <<captured, tool, exit>> /\ stage' \in {"call", "replied"}
        /\ reply' = reply \/ reply' = Answer("error")
    BY <1>6 DEF CheckTargets, vars, call
  <2> QED
    BY <1>1, <1>5, <2>1, AnswerProper DEF ReplyInv
<1>7. ASSUME NEW answers, Conclude(answers),
             \/ \A answer \in answers : Proper(answer)
             \/ tool \in {"httpx", "nuclei"} /\ \A answer \in answers : Stopping(answer)
      PROVE  ReplyInv'
  <2>1. /\ UNCHANGED <<captured, tool>> /\ stage' = "replied" /\ exit' \in {0, 1}
        /\ reply' = Answer("timeout") \/ reply' = Answer("error") \/ reply' \in answers
    BY <1>7 DEF Conclude, vars, call
  <2>2. Proper(reply') \/ (tool \in {"httpx", "nuclei"} /\ Stopping(reply'))
    BY <1>7, <2>1, AnswerProper
  <2> QED
    BY <1>5, <2>1, <2>2
<1>8. CASE Nmap
  BY <1>1, <1>6, <1>7, <1>8, AnswersProper DEF Nmap
<1>9. CASE Httpx
  BY <1>1, <1>6, <1>7, <1>9, AnswersProper DEF Httpx
<1>10. CASE Nuclei
  BY <1>1, <1>6, <1>7, <1>10, AnswersProper DEF Nuclei
<1>11. CASE Subfinder
  BY <1>1, <1>6, <1>7, <1>11, AnswersProper DEF Subfinder
<1>12. CASE Dnsx
  BY <1>1, <1>6, <1>7, <1>12, AnswersProper DEF Dnsx
<1>13. CASE UNCHANGED <<vars, toolVars>>
  BY <1>2, <1>13 DEF vars, call
<1> QED
  BY <1>3, <1>4, <1>8, <1>9, <1>10, <1>11, <1>12, <1>13 DEF ToolNext, ToolStep

LEMMA StepWholeInv == WholeInv /\ [ToolNext]_<<vars, toolVars>> => WholeInv'
BY StepReplyInv, StepToolInv, StepOutputInv, ToolStepIsStep DEF WholeInv

\* The variables of a tool and of its call have their types, whatever the
\* scanner wrote and the parsers made of it.
THEOREM ToolTypeCorrect == ToolSpec => []ToolTypeOK
<1>1. WholeInv => ToolTypeOK
  BY TypeOfRunner DEF WholeInv, ReplyInv, Replies, ToolTypeOK
<1> QED
  BY InitWholeInv, StepWholeInv, <1>1, PTL DEF ToolSpec

\* For every output, cap and reading of a line, Tool.execute with a status of
\* success accounts for each line the scanner wrote, but for the lines behind
\* the last record of httpx and nuclei and for the output a helper withheld.
THEOREM LinesAreTold == ToolSpec => []LinesAreAccountedFor
<1>1. WholeInv => LinesAreAccountedFor
  <2>1. SUFFICES ASSUME WholeInv, reply.status = "ok"
                 PROVE  /\ captured = total.output \/ (captured = 0 /\ helper = "alive")
                        /\ \/ reply.truncated
                           \/ Told(reply) = captured
                           \/ tool \in {"httpx", "nuclei"} /\ CutShort(reply)
    BY DEF LinesAreAccountedFor, Counted, Told, CutShort
  <2>2. captured = total.output \/ (captured = 0 /\ helper = "alive")
    BY <2>1 DEF WholeInv, ToolInv, Success, OutputInv, Conserved
  <2>3. Declared(reply) \/ (tool \in {"httpx", "nuclei"} /\ CutShort(reply))
    BY <2>1 DEF WholeInv, ReplyInv
  <2> QED
    BY <2>1, <2>2, <2>3 DEF Declared
<1> QED
  BY InitWholeInv, StepWholeInv, <1>1, PTL DEF ToolSpec

=============================================================================
