---------------------------- MODULE PipelineRun -----------------------------
(***************************************************************************)
(* The steps of a scan in pipeline mode: PipelinePlanner.decide chooses,   *)
(* PromotedHttpxValidator around SafetyValidator accepts or rejects, the   *)
(* scanner runs and its observation feeds the next decision.  One action   *)
(* is one turn of the loop of AgentRuntime, whose own steps, cancellation  *)
(* included, are in module AgentRun.                                       *)
(*                                                                         *)
(* A target is the host or address it names: policies compare hosts, so    *)
(* schemes, ports and paths are left out.  DNS may answer differently when *)
(* the scope is resolved and when nmap runs.                               *)
(***************************************************************************)
EXTENDS Integers, Sequences, FiniteSets, Functions

CONSTANTS HostLists,  \* hosts of the host and url entries of a snapshot, in order
          Names,      \* host names in them
          Addresses,  \* IP addresses
          Promotable, \* names discovery may promote
          Foreign,    \* a host nobody authorized, where a redirect may lead
          NoUrl,      \* in a record that does not tell the requested URL
          MaxTargets, \* MAX_STAGE_TARGETS and MAX_PIPELINE_HOSTS
          StepLimits  \* values of max_steps

\* The list comprehension [x for x in s if x in S].  Unlike SelectSeq it takes
\* no operator, so that facts about it can be proved.
Only(s, S) ==
    LET only[n \in 0 .. Len(s)] ==
          IF n = 0 THEN << >>
          ELSE IF s[n] \in S THEN Append(only[n - 1], s[n]) ELSE only[n - 1]
    IN  only[Len(s)]

ASSUME HostsAssumption == HostLists \subseteq Seq(Names)

ASSUME LimitsAssumption == MaxTargets \in Nat \ {0} /\ StepLimits \subseteq Nat \ {0}

ASSUME ForeignAssumption ==
    /\ Foreign \notin Names \cup Addresses \cup Promotable
    /\ NoUrl \notin Names \cup Addresses \cup Promotable \cup {Foreign}

\* normalize_hostname refuses IP literals.
ASSUME PromotableAssumption == Promotable \cap Addresses = {}

VARIABLES
  (* the scan, fixed when it starts *)
  profile,   \* recon, web or full
  hosts,     \* of its snapshot; empty when it has only domains or networks
  seeds,     \* those the snapshot names by an http(s) URL
  resolved,  \* addresses the authorized hosts resolved to
  promoted,  \* sanitized promoted names
  maxSteps,
  (* state of the run *)
  status, step,
  done,      \* tools with an observation
  covered,   \* hosts some nmap decision named
  nmapUrls,  \* targets derived from open ports, in order
  services,  \* of httpx: Seq([url, final, ok])
  (* history *)
  executed,  \* pairs <<tool, target>> that ran
  rejected,  \* tools whose call was rejected
  why        \* summary of the Finish: none, empty, complete or budget

scan == <<profile, hosts, seeds, resolved, promoted, maxSteps>>
run  == <<status, step, done, covered, nmapUrls, services>>
vars == <<scan, run, executed, rejected, why>>

Tools == {"nmap", "httpx", "nuclei"}

Stages == [recon |-> {"nmap", "httpx"},
           web   |-> {"httpx", "nuclei"},
           full  |-> {"nmap", "httpx", "nuclei"}]

Init ==
    /\ profile \in DOMAIN Stages
    /\ hosts \in HostLists /\ seeds \in SUBSET Range(hosts)
    /\ resolved \in SUBSET Addresses
    /\ promoted \in {<<>>} \cup {<<p>> : p \in Promotable}
    /\ maxSteps \in StepLimits
    /\ status = "running" /\ step = 0 /\ done = {} /\ covered = {}
    /\ nmapUrls = <<>> /\ services = <<>>
    /\ executed = {} /\ rejected = {} /\ why = "none"

-----------------------------------------------------------------------------
(* The planner. *)

\* Defect: lists of targets keep their length.
Uncapped(s) == s

Capped(s) == IF Len(s) <= MaxTargets THEN s ELSE SubSeq(s, 1, MaxTargets)

\* Only the first MAX_PIPELINE_HOSTS hosts take part.
Hosts == Capped(hosts)

\* Positions of the hosts no nmap decision has named yet.
PendingNmap ==
    {i \in DOMAIN Hosts : "nmap" \in Stages[profile] /\ Hosts[i] \notin covered}

NextHost == Hosts[CHOOSE i \in PendingNmap : \A j \in PendingNmap : i <= j]

\* Steps the stages left will take: one per host for nmap.
Remaining ==
    Cardinality(PendingNmap) + Cardinality((Stages[profile] \ {"nmap"}) \ done)

\* URL entries of the snapshot, or every host when there is none.
Fallback ==
    LET urls == Capped(Only(hosts, seeds))
    IN  IF urls # <<>> THEN urls ELSE Hosts

HttpxBase == IF nmapUrls # <<>> THEN nmapUrls ELSE Fallback

\* Defect: promoted names first.
PromotedFirst ==
    Capped(promoted \o Only(HttpxBase, Range(HttpxBase) \ Range(promoted)))

\* Authorized targets first, promoted names after them.
HttpxTargets ==
    Capped(HttpxBase \o Only(promoted, Range(promoted) \ Range(HttpxBase)))

\* A record of httpx without the requested URL stands for the page its redirect
\* led to: the parser falls back to it, and so does the planner.
Named(service) == IF service.url = NoUrl THEN service.final ELSE service.url

\* Positions of the services whose URL no service before them has.
Fresh ==
    {i \in DOMAIN services :
        \A j \in 1 .. i - 1 : Named(services[j]) # Named(services[i])}

\* The fresh ones of them that did, or did not, answer 2xx.
Chosen(keep) ==
    Only([i \in DOMAIN services |-> i], {i \in Fresh : services[i].ok = keep})

\* Defect: the landing page of a redirect instead of the requested URL.
UrlsFollowRedirects(keep) ==
    LET chosen == Chosen(keep) IN [i \in DOMAIN chosen |-> services[chosen[i]].final]

\* Their URLs.
Urls(keep) ==
    LET chosen == Chosen(keep) IN [i \in DOMAIN chosen |-> Named(services[chosen[i]])]

\* Services that answered 2xx first.
NucleiTargets ==
    LET urls == Capped(Urls(TRUE) \o Urls(FALSE))
    IN  IF urls # <<>> THEN urls ELSE Fallback

\* Defect: the step of the closing decision is not counted.
FitsWithoutFinish == step + Remaining <= maxSteps

\* The stages left and the Finish after them fit into the step budget.
\* state.step already counts the step that decides.
Fits == step + 1 + Remaining + 1 <= maxSteps

-----------------------------------------------------------------------------
(* The validator. *)

Allowed == Range(hosts) \cup resolved

\* Promoted names are eligible for httpx and for nothing else; an empty list
\* of targets does not pass the schema.
Accepted(tool, targets) ==
    /\ targets # <<>>
    /\ Range(targets) \subseteq
          Allowed \cup (IF tool = "httpx" THEN Range(promoted) ELSE {})

-----------------------------------------------------------------------------
(* One turn of the loop. *)

Empty == Hosts = <<>> /\ promoted = <<>>

\* The planner's Finish, or the end of the steps, whichever the loop meets.
Conclude ==
    /\ status = "running"
    /\ step >= maxSteps \/ Empty \/ Remaining = 0 \/ ~Fits
    /\ IF step >= maxSteps
       THEN status' = "failed" /\ UNCHANGED <<step, why>>
       ELSE /\ status' = "finished" /\ step' = step + 1
            /\ why' = IF Empty THEN "empty" ELSE IF Remaining = 0 THEN "complete" ELSE "budget"
    /\ UNCHANGED <<scan, done, covered, nmapUrls, services, executed, rejected>>

Continue ==
    /\ status = "running" /\ step < maxSteps
    /\ ~Empty /\ Remaining > 0 /\ Fits
    /\ step' = step + 1
    /\ UNCHANGED <<scan, status, why>>

\* Any observation of a tool, a rejection included, completes its stage.
Call(tool, targets) ==
    /\ done' = done \cup {tool}
    /\ IF Accepted(tool, targets)
       THEN /\ executed' = executed \cup {<<tool, t>> : t \in Range(targets)}
            /\ UNCHANGED rejected
       ELSE /\ rejected' = rejected \cup {tool}
            /\ UNCHANGED executed

\* nmap on the next host: it reports an address with open ports, or it fails
\* or finds nothing.
Nmap ==
    /\ Continue /\ PendingNmap # {}
    /\ Call("nmap", <<NextHost>>)
    /\ covered' = covered \cup {NextHost}
    /\ \/ UNCHANGED nmapUrls
       \/ /\ Accepted("nmap", <<NextHost>>)
          /\ \E ip \in Addresses \ Range(nmapUrls) :
               nmapUrls' = Capped(Append(nmapUrls, ip))
    /\ UNCHANGED services

\* httpx on its targets: some of them answer, perhaps by a redirect, and the
\* record may lack the requested URL.
Httpx ==
    /\ Continue /\ PendingNmap = {} /\ "httpx" \notin done
    /\ Call("httpx", HttpxTargets)
    /\ \/ UNCHANGED services
       \/ /\ Accepted("httpx", HttpxTargets)
          /\ \E answer \in SUBSET Range(HttpxTargets) :
               \E ok \in SUBSET answer, named \in SUBSET answer,
                  final \in [answer -> Range(HttpxTargets) \cup {Foreign}] :
                 LET heard == Only(HttpxTargets, answer)
                 IN  services' = [i \in DOMAIN heard |->
                                    [url |-> IF heard[i] \in named THEN heard[i] ELSE NoUrl,
                                     final |-> final[heard[i]], ok |-> heard[i] \in ok]]
    /\ UNCHANGED <<covered, nmapUrls>>

Nuclei ==
    /\ Continue /\ PendingNmap = {} /\ "httpx" \in done
    /\ "nuclei" \in Stages[profile] \ done
    /\ Call("nuclei", NucleiTargets)
    /\ UNCHANGED <<covered, nmapUrls, services>>

Next == Conclude \/ Nmap \/ Httpx \/ Nuclei

Spec == Init /\ [][Next]_vars

-----------------------------------------------------------------------------
Targets == Names \cup Addresses \cup Promotable

TargetsOf(tool) == {t \in Targets : <<tool, t>> \in executed}

\* Every variable has its type, and no tool works on more than
\* MAX_STAGE_TARGETS targets.
TypeOK ==
    /\ profile \in DOMAIN Stages /\ hosts \in HostLists /\ seeds \subseteq Names
    /\ resolved \subseteq Addresses /\ promoted \in Seq(Promotable)
    /\ maxSteps \in StepLimits /\ step \in 0 .. maxSteps
    /\ status \in {"running", "finished", "failed"}
    /\ done \subseteq Tools /\ rejected \subseteq Tools
    /\ covered \subseteq Names
    /\ nmapUrls \in Seq(Addresses)
    /\ services \in Seq([url : Targets \cup {NoUrl}, final : Targets \cup {Foreign}, ok : BOOLEAN])
    /\ executed \subseteq Tools \X Targets
    /\ \A tool \in Tools : Cardinality(TargetsOf(tool)) <= MaxTargets
    /\ why \in {"none", "empty", "complete", "budget"}

\* Whatever is rejected, fails or finds nothing, the planner reaches its own
\* Finish: a pipeline run never dies at the step limit, and what its budget
\* cannot hold it does not begin.
NeverOutOfSteps ==
    /\ status # "failed"
    /\ why = "budget" => done = {} /\ executed = {} /\ rejected = {}

\* Nothing is lost on the way from stage to stage, whatever was promoted, found
\* twice or cut at a cap: an accepted httpx call probes every target that nmap,
\* or the snapshot, gave it, and an accepted nuclei call scans every service
\* that httpx reported.
StagesHandOver ==
    /\ "httpx" \in done \ rejected => Range(HttpxBase) \subseteq TargetsOf("httpx")
    /\ "nuclei" \in done \ rejected =>
         {Named(v) : v \in Range(services)} \subseteq TargetsOf("nuclei")

\* nmap saw only addresses the scope resolved to.
StableDNS == Range(nmapUrls) \subseteq resolved

\* No record without its URL led out of what the scan may touch.
RedirectsStay ==
    \A v \in Range(services) : v.url = NoUrl => v.final \in Allowed

\* A decision of the planner is rejected only because an address changed
\* between two lookups, because of a promoted name, or because a record did
\* not tell its URL and the redirect led away: partial answers, other
\* redirects and caps never make the planner leave the scope.
PlannerStaysInScope ==
    StableDNS /\ RedirectsStay /\ Range(promoted) \subseteq Allowed => rejected = {}

-----------------------------------------------------------------------------
(* What the code's comments say and its runs refute. *)

\* "The planner merges it into the HTTPX stage only; nmap/nuclei targeting is
\* unchanged": promotion never costs a scan its nuclei stage.
PromotionSparesNuclei ==
    StableDNS /\ RedirectsStay /\ hosts # <<>> => "nuclei" \notin rejected

=============================================================================
