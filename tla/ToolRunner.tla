----------------------------- MODULE ToolRunner -----------------------------
(***************************************************************************)
(* One call of the cancellation-aware subprocess runner,                   *)
(* make_cancelling_runner of backend/services/tool_runner.py: the polling  *)
(* loop, the cancel event another thread may set, the deadline, and the    *)
(* terminate - grace - kill - reap sequence over the scanner's process     *)
(* group, which is the scanner itself (the leader) and at most one helper  *)
(* it left running.                                                        *)
(*                                                                         *)
(* Time is discrete, one tick per POLL_INTERVAL_S.  Each tick the leader   *)
(* does one unit of its work or writes one chunk of output; it blocks on a *)
(* full pipe, and the runner reads the pipe only in communicate().         *)
(***************************************************************************)
EXTENDS Naturals

CONSTANTS MaxWork,       \* bound: ticks of work of a scanner
          MaxOutput,     \* bound: chunks of output of a scanner
          PipeCapacity,  \* chunks the pipe holds
          Timeout,       \* timeout_s, in ticks
          Grace,         \* GRACE_PERIOD_S, in ticks
          Reap,          \* time allowed after the kill, in ticks
          Helpers        \* may the scanner leave a helper behind?

ASSUME TimingAssumption == {MaxWork, MaxOutput, PipeCapacity, Timeout, Grace, Reap} \subseteq Nat

ASSUME HelpersAssumption == Helpers \subseteq BOOLEAN

VARIABLES
  (* the world *)
  now,       \* ticks since the call
  cancelled, \* the cancel event
  cancelAt,  \* when it was set, 0 until then
  leader,    \* unborn, running, zombie (exited, not waited for) or reaped
  work,      \* ticks of work the leader has left
  unwritten, \* chunks it has still to write
  stubborn,  \* members of the group that ignore SIGTERM
  helper,    \* none, alive (holding the pipe), mute (without the pipe) or dead
  pipe,      \* chunks in the pipe
  (* the call *)
  runner,    \* start, poll, asleep, reap, killed (reap after the kill) or done
  limit,     \* when the running communicate() expires
  got,       \* chunks read so far
  outcome,   \* record.outcome
  captured,  \* chunks handed to the tool
  (* history *)
  total,     \* work and output of the scanner
  endedBy    \* how the leader ended: itself or signal

world == <<now, cancelled, cancelAt, leader, work, unwritten, stubborn, helper, pipe>>
call  == <<runner, limit, got, outcome, captured>>
vars  == <<world, call, total, endedBy>>

Init ==
    /\ now = 0 /\ cancelled = FALSE /\ cancelAt = 0
    /\ leader = "unborn"
    /\ work \in 0 .. MaxWork /\ unwritten \in 0 .. MaxOutput
    /\ stubborn \in SUBSET {"leader", "helper"}
    /\ helper = "none"
    /\ pipe = 0
    /\ runner = "start" /\ limit = 0 /\ got = 0
    /\ outcome = "none" /\ captured = 0
    /\ total = [work |-> work, output |-> unwritten]
    /\ endedBy = "none"

\* communicate() has not met the end of the output and of the leader: a leader
\* that closed its output is waited for like one that holds the pipe, a helper
\* that closed or redirected its own is not.
PipeOpen == leader = "running" \/ helper = "alive"

-----------------------------------------------------------------------------
(* The world: other threads and the processes. *)

RequestCancel ==
    /\ runner # "done" /\ ~cancelled
    /\ cancelled' = TRUE /\ cancelAt' = now
    /\ UNCHANGED <<now, leader, work, unwritten, stubborn, helper, pipe, call, total, endedBy>>

\* What the leader does with its tick: work, write, wait for room or exit.
LeaderTick ==
    \/ /\ leader = "running" /\ work > 0
       /\ work' = work - 1
       /\ UNCHANGED <<leader, unwritten, pipe, endedBy>>
    \/ /\ leader = "running" /\ unwritten > 0 /\ pipe < PipeCapacity
       /\ unwritten' = unwritten - 1 /\ pipe' = pipe + 1
       /\ UNCHANGED <<leader, work, endedBy>>
    \/ /\ leader = "running" /\ unwritten > 0 /\ pipe = PipeCapacity
       /\ UNCHANGED <<leader, work, unwritten, pipe, endedBy>>
    \/ /\ leader = "running" /\ work = 0 /\ unwritten = 0
       /\ leader' = "zombie" /\ endedBy' = "itself"
       /\ UNCHANGED <<work, unwritten, pipe>>
    \/ /\ leader # "running"
       /\ UNCHANGED <<leader, work, unwritten, pipe, endedBy>>

\* A helper may end, and may let go of the pipe before it does.
HelperTick ==
    helper' \in CASE helper = "alive" -> {"alive", "mute", "dead"}
                  [] helper = "mute"  -> {"mute", "dead"}
                  [] OTHER            -> {helper}

\* Time passes while the runner sleeps or is blocked in communicate().
Tick ==
    /\ \/ runner = "asleep"
       \/ runner \in {"reap", "killed"} /\ PipeOpen /\ pipe = 0 /\ now < limit
    /\ now' = now + 1
    /\ LeaderTick /\ HelperTick
    /\ runner' = IF runner = "asleep" THEN "poll" ELSE runner
    /\ UNCHANGED <<cancelled, cancelAt, stubborn, limit, got, outcome, captured, total>>

-----------------------------------------------------------------------------
(* The runner. *)

\* Popen starts the scanner, or raises and the call returns at once.
Start ==
    /\ runner = "start"
    /\ \/ /\ leader' = "running"
          /\ \E leaves \in Helpers : helper' \in IF leaves THEN {"alive", "mute"} ELSE {"none"}
          /\ runner' = "poll"
          /\ UNCHANGED outcome
       \/ /\ runner' = "done" /\ outcome' = "error"
          /\ UNCHANGED <<leader, helper>>
    /\ UNCHANGED <<now, cancelled, cancelAt, work, unwritten, stubborn, pipe, limit, got,
                   captured, total, endedBy>>

\* Defect: signals reach the scanner but not the helper.
SignalLeaderOnly(Spared) ==
    /\ leader' = IF leader = "running" /\ "leader" \notin Spared THEN "zombie" ELSE leader
    /\ endedBy' = IF leader = "running" /\ "leader" \notin Spared THEN "signal" ELSE endedBy
    /\ UNCHANGED helper

\* killpg(getpgid(pid)): every member of the group but the spared ones ends.
\* Once the leader has been waited for its pid is unknown and nothing is sent.
SignalGroup(Spared) ==
    \/ /\ leader # "reaped"
       /\ leader' = IF leader = "running" /\ "leader" \notin Spared THEN "zombie" ELSE leader
       /\ endedBy' = IF leader = "running" /\ "leader" \notin Spared THEN "signal" ELSE endedBy
       /\ helper' = IF helper # "none" /\ "helper" \notin Spared THEN "dead" ELSE helper
    \/ /\ leader = "reaped"
       /\ UNCHANGED <<leader, helper, endedBy>>

\* Defect: the record keeps its default outcome.
StopUnrecorded(why) ==
    /\ outcome' = "completed"
    /\ SignalGroup(stubborn)
    /\ runner' = "reap" /\ limit' = now + Grace

\* Defect: an outcome outside the vocabulary of RunnerRecord.
StopSaysKilled(why) ==
    /\ outcome' = "killed"
    /\ SignalGroup(stubborn)
    /\ runner' = "reap" /\ limit' = now + Grace

\* The loop breaks: terminate the group, then communicate() with a limit.
Stop(why) ==
    /\ outcome' = why
    /\ SignalGroup(stubborn)
    /\ runner' = "reap" /\ limit' = now + Grace

\* One turn of the loop: cancel first, then the deadline, then the exit.
Poll ==
    /\ runner = "poll"
    /\ \/ cancelled /\ Stop("cancelled")
       \/ ~cancelled /\ now >= Timeout /\ Stop("timeout")
       \/ /\ ~cancelled /\ now < Timeout /\ leader # "running"
          /\ outcome' = "completed"
          /\ leader' = "reaped"
          /\ runner' = "reap" /\ limit' = now + Grace
          /\ UNCHANGED <<helper, endedBy>>
       \/ /\ ~cancelled /\ now < Timeout /\ leader = "running"
          /\ runner' = "asleep"
          /\ UNCHANGED <<leader, helper, endedBy, outcome, limit>>
    /\ UNCHANGED <<now, cancelled, cancelAt, work, unwritten, stubborn, pipe, got, captured, total>>

\* communicate() reads what is in the pipe.
Read ==
    /\ runner \in {"reap", "killed"} /\ pipe > 0
    /\ got' = got + pipe /\ pipe' = 0
    /\ UNCHANGED <<now, cancelled, cancelAt, leader, work, unwritten, stubborn, helper,
                   runner, limit, outcome, captured, total, endedBy>>

\* Defect: the call waits for the processes and does not read what is left.
WaitWithoutReading ==
    /\ runner \in {"reap", "killed"} /\ ~PipeOpen
    /\ leader' = "reaped"
    /\ captured' = got /\ runner' = "done"
    /\ UNCHANGED <<now, cancelled, cancelAt, work, unwritten, stubborn, helper, pipe,
                   limit, got, outcome, total, endedBy>>

\* End of file: communicate() waits for the leader and the call returns.
EndOfFile ==
    /\ runner \in {"reap", "killed"} /\ pipe = 0 /\ ~PipeOpen
    /\ leader' = "reaped"
    /\ captured' = got /\ runner' = "done"
    /\ UNCHANGED <<now, cancelled, cancelAt, work, unwritten, stubborn, helper, pipe,
                   limit, got, outcome, total, endedBy>>

\* The grace period is over: kill the group.
GraceExpires ==
    /\ runner = "reap" /\ pipe = 0 /\ PipeOpen /\ now >= limit
    /\ SignalGroup({})
    /\ runner' = "killed" /\ limit' = now + Reap
    /\ UNCHANGED <<now, cancelled, cancelAt, work, unwritten, stubborn, pipe, got, outcome,
                   captured, total>>

\* Defect: the wait after the kill starts again each time it expires.
ReapExpiresNever ==
    /\ runner = "killed" /\ pipe = 0 /\ PipeOpen /\ now >= limit
    /\ limit' = limit + Reap + 1
    /\ UNCHANGED <<world, runner, got, outcome, captured, total, endedBy>>

\* Defect: the wait after the kill has no limit, the call stays blocked.
ReapBlocks ==
    /\ runner = "killed" /\ pipe = 0 /\ PipeOpen /\ now >= limit
    /\ UNCHANGED vars

\* The kill did not close the pipe: what was read is thrown away.
ReapExpires ==
    /\ runner = "killed" /\ pipe = 0 /\ PipeOpen /\ now >= limit
    /\ captured' = 0 /\ runner' = "done"
    /\ UNCHANGED <<world, limit, got, outcome, total, endedBy>>

Step == \/ Tick \/ Start \/ Poll \/ Read \/ EndOfFile
        \/ GraceExpires \/ ReapExpires

Next == RequestCancel \/ Step

Spec == Init /\ [][Next]_vars

-----------------------------------------------------------------------------
Outcomes == {"none", "completed", "timeout", "cancelled", "error"}

\* Every variable has its type.
TypeOK ==
    /\ now \in Nat /\ cancelled \in BOOLEAN /\ cancelAt \in Nat
    /\ leader \in {"unborn", "running", "zombie", "reaped"}
    /\ work \in Nat /\ unwritten \in Nat
    /\ stubborn \subseteq {"leader", "helper"}
    /\ helper \in {"none", "alive", "mute", "dead"}
    /\ pipe \in Nat
    /\ runner \in {"start", "poll", "asleep", "reap", "killed", "done"}
    /\ limit \in Nat /\ got \in Nat /\ captured \in Nat
    /\ outcome \in Outcomes
    /\ total \in [work : Nat, output : Nat]
    /\ endedBy \in {"none", "itself", "signal"}

\* The outcome recorded for the audit is the truth: cancelled only after a
\* request, timeout only past the deadline, completed only for a scanner
\* that ended by itself.
OutcomeIsTrue ==
    /\ outcome = "cancelled" => cancelled
    /\ outcome = "timeout"   => now >= Timeout
    /\ outcome = "completed" => endedBy = "itself"

\* When a cancelled or timed-out call returns, the scanner has ended, whoever
\* ignores SIGTERM, and so has its helper.  The one exception is what the code
\* leaves of "kill the WHOLE group": SIGKILL follows only when communicate()
\* times out, so a helper that ignores SIGTERM and has let go of the pipe is
\* never killed if the scanner obeys.
OnlyTheMuteSurvive ==
    runner = "done" /\ outcome \in {"cancelled", "timeout"} =>
        /\ leader # "running" /\ helper # "alive"
        /\ helper = "mute" => "helper" \in stubborn

\* A call holds its worker thread no longer than the deadline plus the two
\* waits, and no longer than one poll plus the two waits after a cancel.
ReturnsInTime ==
    runner # "done" =>
        /\ now <= Timeout + Grace + Reap
        /\ cancelled => now <= cancelAt + 1 + Grace + Reap

=============================================================================
