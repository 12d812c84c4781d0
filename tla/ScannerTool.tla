---------------------------- MODULE ScannerTool -----------------------------
(***************************************************************************)
(* One execution of a scanner tool, Tool.execute of agent_core/tools: the  *)
(* second look at the allowlist, the call of the runner (ToolRunner), and  *)
(* what the tool makes of what the runner returns.  nmap writes one XML    *)
(* document; httpx, nuclei, subfinder and dnsx write one JSON object per   *)
(* line.  A chunk of the runner's model is one line of output.             *)
(*                                                                         *)
(* truncate_output keeps at most OutputCap lines, fewer when they exceed   *)
(* the byte limit, which may cut a line, and adds a line that says so.  A  *)
(* parser keeps RecordCap records.                                         *)
(***************************************************************************)
EXTENDS ToolRunner, Integers, FiniteSets

CONSTANTS OutputCap, \* MAX_OUTPUT_LINES
          RecordCap, \* records a parser keeps
          LookupCap  \* MAX_VERIFY_HOSTS

ASSUME CapsAssumption == {OutputCap, RecordCap, LookupCap} \subseteq Nat \ {0}

VARIABLES
  tool,  \* the tool that is executed
  stage, \* check, call or replied
  exit,  \* exit status of the scanner, 0 until the call has returned
  reply  \* ToolResult: status, records (numbers of their lines), verified
         \* ones of them, lines skipped, records filtered, truncated

toolVars == <<tool, stage, exit, reply>>

Tools == {"nmap", "httpx", "nuclei", "subfinder", "dnsx"}

Answer(status) ==
    [status |-> status, records |-> {}, verified |-> {}, skipped |-> 0,
     filtered |-> 0, truncated |-> FALSE]

ToolInit ==
    /\ Init
    /\ tool \in Tools
    /\ stage = "check" /\ exit = 0 /\ reply = Answer("none")

CallRunner ==
    /\ stage = "call"
    /\ Step
    /\ UNCHANGED toolVars

CancelRequested == RequestCancel /\ UNCHANGED toolVars

-----------------------------------------------------------------------------
(* What the tools are given to parse. *)

\* Defect: the head of a long output passes for all of it.
SilentHead(keep, cut) == [lines |-> 1 .. keep, torn |-> {}, truncated |-> FALSE]

\* truncate_output: the lines the parser is given, and those among them that
\* are no lines of the scanner: the one the byte limit cut and the notice.
Capped(keep, cut) ==
    IF keep = captured
    THEN [lines |-> 1 .. keep, torn |-> {}, truncated |-> FALSE]
    ELSE LET last == IF cut THEN keep + 2 ELSE keep + 1
         IN  [lines |-> 1 .. last, torn |-> keep + 1 .. last, truncated |-> TRUE]

\* What both limits may leave of the output.
Texts ==
    {Capped(keep, cut) : keep \in 0 .. IF captured <= OutputCap THEN captured ELSE OutputCap,
                         cut \in BOOLEAN}

\* The lines that turn out to be records.
Readings(text) == SUBSET (text.lines \ text.torn)

Rank(l, lines) == Cardinality({k \in lines : k < l})

First(n, lines) == {l \in lines : Rank(l, lines) < n}

\* A reply with these records, the other ones of the lines read skipped.
Records(text, read, valid) ==
    LET kept == First(RecordCap, valid)
    IN  [Answer("ok") EXCEPT !.records = kept,
                             !.skipped = Cardinality(read \ kept),
                             !.truncated = text.truncated]

-----------------------------------------------------------------------------
(* The five parsers. *)

\* parse_nmap_xml: one document, malformed unless all of it is there.
NmapParsed(text, valid) ==
    IF text.lines = {} \/ valid # text.lines THEN Answer("error")
    ELSE [Answer("ok") EXCEPT !.records = valid, !.truncated = text.truncated]

\* parse_httpx_jsonl: stops reading at the cap, so that the rest is not
\* counted, and raises if nothing on offer was a record.
HttpxParsed(text, valid) ==
    LET read == {l \in text.lines : Rank(l, valid) < RecordCap}
    IN  IF valid = {} /\ text.lines # {} THEN Answer("error")
        ELSE Records(text, read, valid)

\* parse_nuclei_jsonl: so does nuclei; an object without the identity of its
\* template is no record either, and an empty output is a clean target.
NucleiParsed(text, valid) ==
    IF text.lines = {} THEN Answer("ok") ELSE HttpxParsed(text, valid)

\* parse_subfinder_jsonl: every line is read and nothing raises.
SubfinderParsed(text, valid) == Records(text, text.lines, valid)

\* parse_dnsx_jsonl: likewise.
DnsxParsed(text, valid) == Records(text, text.lines, valid)

-----------------------------------------------------------------------------
(* The five tools. *)

\* Every target must be allowed, and the runner must take the arguments:
\* otherwise the tool answers without a process.
CheckTargets ==
    /\ stage = "check"
    /\ \/ stage' = "call" /\ UNCHANGED reply
       \/ stage' = "replied" /\ reply' = Answer("error")
    /\ UNCHANGED <<vars, tool, exit>>

\* Defect: the exit status of a stopped scanner is passed on.
ReturncodeOfProcess == IF outcome = "error" THEN 127 ELSE exit'

\* What the runner returns as the exit status.
Returncode ==
    CASE outcome = "cancelled" -> -1
      [] outcome = "error"     -> 127
      [] OTHER                 -> exit'

\* A timeout and an exit status other than 0 need no parser.
Conclude(answers) ==
    /\ stage = "call" /\ runner = "done"
    /\ stage' = "replied"
    /\ exit' \in {0, 1}
    /\ \/ outcome = "timeout" /\ reply' = Answer("timeout")
       \/ outcome # "timeout" /\ Returncode # 0 /\ reply' = Answer("error")
       \/ outcome # "timeout" /\ Returncode = 0 /\ reply' \in answers
    /\ UNCHANGED <<vars, tool>>

NmapAnswers == UNION {{NmapParsed(t, v) : v \in Readings(t)} : t \in Texts}

Nmap == tool = "nmap" /\ (CheckTargets \/ Conclude(NmapAnswers))

\* A line nested too deeply for json.loads raises through httpx and nuclei.
HttpxAnswers ==
    (UNION {{HttpxParsed(t, v) : v \in Readings(t)} : t \in Texts}) \cup {Answer("raised")}

Httpx == tool = "httpx" /\ (CheckTargets \/ Conclude(HttpxAnswers))

NucleiAnswers ==
    (UNION {{NucleiParsed(t, v) : v \in Readings(t)} : t \in Texts}) \cup {Answer("raised")}

Nuclei == tool = "nuclei" /\ (CheckTargets \/ Conclude(NucleiAnswers))

\* verify_hosts: the first LookupCap names, unless the scan is being
\* cancelled, which also ends it half way; a lookup may find nothing.
Verified(names) == IF cancelled THEN {{}} ELSE SUBSET First(LookupCap, names)

\* Of the records the proper descendants of the domain remain, each once.
Descendants(parsed) ==
    UNION {{[parsed EXCEPT !.records = names,
                           !.filtered = Cardinality(parsed.records \ names),
                           !.verified = resolved] : resolved \in Verified(names)} :
           names \in SUBSET parsed.records}

SubfinderAnswers ==
    UNION {UNION {Descendants(SubfinderParsed(t, v)) : v \in Readings(t)} : t \in Texts}

Subfinder == tool = "subfinder" /\ (CheckTargets \/ Conclude(SubfinderAnswers))

DnsxAnswers == UNION {{DnsxParsed(t, v) : v \in Readings(t)} : t \in Texts}

Dnsx == tool = "dnsx" /\ (CheckTargets \/ Conclude(DnsxAnswers))

ToolStep == CallRunner \/ Nmap \/ Httpx \/ Nuclei \/ Subfinder \/ Dnsx

ToolNext == CancelRequested \/ ToolStep

ToolSpec == ToolInit /\ [][ToolNext]_<<vars, toolVars>>

\* The worker thread runs and time passes.
FairToolSpec == ToolSpec /\ WF_<<vars, toolVars>>(ToolStep)

-----------------------------------------------------------------------------
\* Every variable of the tool and of its call has its type.
ToolTypeOK ==
    /\ TypeOK
    /\ tool \in Tools
    /\ stage \in {"check", "call", "replied"} /\ exit \in {0, 1}
    /\ reply \in [status : {"none", "ok", "error", "timeout", "raised"},
                  records : SUBSET Nat, verified : SUBSET Nat,
                  skipped : Nat, filtered : Nat, truncated : BOOLEAN]

\* A tool reports success only for a scanner that ended by itself, with exit
\* status 0, in a call that neither the cancel event nor the deadline ended,
\* whatever a stopped scanner wrote and however it ended.
OkIsEarned ==
    reply.status = "ok" => outcome = "completed" /\ endedBy = "itself" /\ exit = 0

Counted ==
    Cardinality(reply.records) + reply.skipped + reply.filtered

\* A success accounts for the output line by line.  What the scanner wrote is
\* what the tool got, unless a helper outlived both waits of the runner, which
\* then throws all of it away.  Each line the tool got is a record or counted,
\* or the reply is marked as truncated, except that httpx and nuclei stop at
\* their RecordCap-th record and do not count the lines behind it ("Count the
\* rest as skipped", says the parser, and breaks off).
LinesAreAccountedFor ==
    reply.status = "ok" =>
        /\ captured = total.output \/ (captured = 0 /\ helper = "alive")
        /\ \/ reply.truncated
           \/ Counted = captured
           \/ /\ tool \in {"httpx", "nuclei"} /\ Cardinality(reply.records) = RecordCap
              /\ \E last \in reply.records :
                    (\A l \in reply.records : l <= last) /\ Counted = last

\* Every execution of a tool ends with an answer.
EventuallyReplies == <>(stage = "replied")

=============================================================================
