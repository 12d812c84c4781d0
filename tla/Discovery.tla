----------------------------- MODULE Discovery ------------------------------
(***************************************************************************)
(* The discovery pre-stage of a scan: backend/services/discovery_service.py*)
(* called by ScanManager._run_discovery_pre_stage.  Subfinder is run on    *)
(* every parent of the snapshot, the names it returns are stored as        *)
(* assets, dnsx is run on them in batches, the answers are stored, and the *)
(* hosts that came through all of it are handed to the pipeline.           *)
(*                                                                         *)
(* All writes of the stage go through one session that is committed at the *)
(* end.  A statement that fails in the database leaves the session unusable*)
(* (broken): every later statement raises, and the commit raises or        *)
(* silently discards what was written.  Another thread may set the cancel  *)
(* event at any moment.                                                    *)
(***************************************************************************)
EXTENDS Integers, FiniteSets

CONSTANTS Parents,    \* number of discovery parents of the snapshot
          Hosts,      \* names Subfinder can return, numbered in sort order
          Under,      \* parent -> its proper descendants among Hosts
          BatchSize   \* MAX_DNSX_TARGETS

ASSUME CountAssumption == Parents \in Nat /\ BatchSize \in Nat \ {0}

ASSUME HostAssumption ==
    /\ Hosts \subseteq Int /\ IsFiniteSet(Hosts)
    /\ Under \in [1 .. Parents -> SUBSET Hosts]

VARIABLES
  at,        \* parents, subfinder, store, batches, dnsx, hosts, assets,
             \* promote, commit, returned or handed
  cancel,    \* the cancel event
  parent,    \* number of the current parent
  found,     \* valid names of the current Subfinder result
  sources,   \* host -> parents that returned it
  failed,    \* parent_failures
  queue,     \* eligible hosts not yet in a batch
  batch,     \* hosts of the current batch still to be handled
  answers,   \* host -> what dnsx said: none, cname or address
  verified, unverified,
  promoted,  \* DiscoveryResult.promoted
  outcome,   \* DiscoveryResult.status, or cancelled when the scan ends here
  (* the session *)
  rows,      \* hosts with an asset row written
  enriched,  \* hosts whose answer is written
  broken,    \* does every statement raise?
  saved,     \* [rows, enriched] as committed
  (* history *)
  stored,    \* parents whose names were stored without an error
  queried,   \* hosts dnsx was run on
  late       \* tools started after the cancel

walk    == <<at, cancel, parent, found, sources, failed>>
dns     == <<queue, batch, answers, verified, unverified>>
report  == <<promoted, outcome>>
session == <<rows, enriched, broken, saved>>
history == <<stored, queried, late>>
vars    == <<walk, dns, report, session, history>>

Init ==
    /\ at = "parents" /\ cancel = FALSE /\ parent = 1
    /\ found = {} /\ sources = [h \in Hosts |-> {}] /\ failed = {}
    /\ queue = {} /\ batch = {} /\ answers = [h \in Hosts |-> "none"]
    /\ verified = {} /\ unverified = {}
    /\ promoted = {} /\ outcome = "completed"
    /\ rows = {} /\ enriched = {} /\ broken = FALSE
    /\ saved = [rows |-> {}, enriched |-> {}]
    /\ stored = {} /\ queried = {} /\ late = 0

\* Another thread: ScanManager.request_cancel.
RequestCancel ==
    /\ ~cancel /\ at # "handed"
    /\ cancel' = TRUE
    /\ UNCHANGED <<at, parent, found, sources, failed, dns, report, session, history>>

\* Defect: the event has no is_set, and the default says no.
IsCancelledNever == FALSE

IsCancelled == cancel

\* The early returns: the work done so far is reported and nothing promoted.
Stop == /\ IsCancelled
        /\ at' = "commit" /\ outcome' = "cancelled"
        /\ UNCHANGED promoted

-----------------------------------------------------------------------------
(* Subfinder, parent by parent.  The asset of the parent itself, which is  *)
(* written with its names, is left out.                                    *)

NextParent == parent' = parent + 1 /\ at' = "parents"

BeginParent ==
    /\ at = "parents" /\ parent <= Parents
    /\ \/ Stop
       \/ ~IsCancelled /\ at' = "subfinder" /\ UNCHANGED report
    /\ UNCHANGED <<cancel, parent, found, sources, failed, dns, session, history>>

\* _invoke: cancelled meanwhile or rejected by the validator, the parent is
\* passed over; otherwise the tool starts.
InvokeSubfinder ==
    /\ at = "subfinder"
    /\ \/ NextParent /\ UNCHANGED late
       \/ /\ ~IsCancelled
          /\ at' = "subfinding" /\ UNCHANGED <<parent, late>>
    /\ UNCHANGED <<cancel, found, sources, failed, dns, report, session,
                   stored, queried>>

\* The tool runs: it fails or answers for another domain, or returns names,
\* of which only descendants of the parent are kept.
Subfinder ==
    /\ at = "subfinding"
    /\ late' = IF cancel THEN late + 1 ELSE late
    /\ \/ /\ failed' = failed \cup {parent} /\ NextParent
          /\ UNCHANGED <<found, sources>>
       \/ \E names \in SUBSET Under[parent] :
            /\ found' = names
            /\ sources' = [h \in Hosts |->
                             IF h \in names THEN sources[h] \cup {parent} ELSE sources[h]]
            /\ at' = "store"
            /\ UNCHANGED <<failed, parent>>
    /\ UNCHANGED <<cancel, dns, report, session, stored, queried>>

\* A statement fails in the database: what was written is lost.
Break == broken' = TRUE /\ rows' = {} /\ enriched' = {}

\* persist_assets_from_observations may store fewer names than were valid;
\* an exception that is not the database's may leave some of them stored.
StoreNames ==
    /\ at = "store"
    /\ \/ /\ Stop
          /\ UNCHANGED <<failed, parent, rows, enriched, broken, stored>>
       \/ /\ ~IsCancelled /\ NextParent /\ UNCHANGED report
          /\ \/ /\ ~broken
                /\ \E kept \in SUBSET found : rows' = rows \cup kept
                /\ stored' = stored \cup {parent}
                /\ UNCHANGED <<failed, enriched, broken>>
             \/ /\ ~broken
                /\ \E kept \in SUBSET found : rows' = rows \cup kept
                /\ failed' = failed \cup {parent}
                /\ UNCHANGED <<stored, enriched, broken>>
             \/ /\ Break
                /\ failed' = failed \cup {parent}
                /\ UNCHANGED stored
    /\ UNCHANGED <<cancel, found, sources, dns, saved, queried, late>>

-----------------------------------------------------------------------------
(* dnsx, batch by batch. *)

\* Defect: the hosts of a failed parent are queried like the others.
EligibleOfAnyParent == {h \in Hosts : sources[h] # {}}

\* Hosts that a parent without a failure returned.
Eligible == {h \in Hosts : sources[h] \ failed # {}}

EndParents ==
    /\ at = "parents" /\ parent > Parents
    /\ \/ Stop /\ UNCHANGED queue
       \/ /\ ~IsCancelled
          /\ queue' = Eligible
          /\ at' = IF Eligible = {} THEN "commit" ELSE "batches"
          /\ UNCHANGED report
    /\ UNCHANGED <<cancel, parent, found, sources, failed, batch, answers,
                   verified, unverified, session, history>>

\* The BatchSize first hosts of the queue.
Batch == {h \in queue : Cardinality({g \in queue : g < h}) < BatchSize}

NextBatch ==
    /\ at = "batches"
    /\ \/ Stop /\ UNCHANGED <<queue, batch>>
       \/ /\ ~IsCancelled /\ UNCHANGED report
          /\ IF queue = {}
             THEN at' = "assets" /\ UNCHANGED <<queue, batch>>
             ELSE /\ at' = "dnsx"
                  /\ batch' = Batch /\ queue' = queue \ Batch
    /\ UNCHANGED <<cancel, parent, found, sources, failed, answers, verified,
                   unverified, session, history>>

\* A batch without a usable result: not started, failed or without records.
GiveUpBatch ==
    /\ unverified' = unverified \cup batch /\ batch' = {}
    /\ at' = "batches"

InvokeDnsx ==
    /\ at = "dnsx"
    /\ \/ GiveUpBatch
       \/ /\ ~IsCancelled
          /\ at' = "querying" /\ UNCHANGED <<batch, unverified>>
    /\ UNCHANGED <<cancel, parent, found, sources, failed, queue, answers,
                   verified, report, session, history>>

Dnsx ==
    /\ at = "querying"
    /\ late' = IF cancel THEN late + 1 ELSE late
    /\ queried' = queried \cup batch
    /\ \/ GiveUpBatch /\ UNCHANGED answers
       \/ /\ \E said \in [batch -> {"none", "cname", "address"}] :
               answers' = [h \in Hosts |-> IF h \in batch THEN said[h] ELSE answers[h]]
          /\ at' = "hosts"
          /\ UNCHANGED <<batch, unverified>>
    /\ UNCHANGED <<cancel, parent, found, sources, failed, queue, verified,
                   report, session, stored>>

\* Defect: an answer counts whether or not it was written.
VerifiesUnwritten(h, written) == answers[h] = "address"

\* An answer with an address counts only when an asset was enriched by it.
Verifies(h, written) == answers[h] = "address" /\ written

Settle(h, written) ==
    /\ verified' = IF Verifies(h, written) THEN verified \cup {h} ELSE verified
    /\ unverified' = IF Verifies(h, written) THEN unverified \ {h} ELSE unverified \cup {h}

\* One host of the batch: its records are written to its asset, if it has
\* one; persist_dnsx may raise, in the database or not, and the loop goes on.
NextHost ==
    /\ at = "hosts"
    /\ \/ /\ batch = {}
          /\ at' = "batches"
          /\ UNCHANGED <<batch, verified, unverified, report, rows, enriched, broken>>
       \/ /\ batch # {} /\ Stop
          /\ UNCHANGED <<batch, verified, unverified, rows, enriched, broken>>
       \/ /\ batch # {} /\ ~IsCancelled
          /\ \E h \in batch :
               /\ \A g \in batch : h <= g
               /\ batch' = batch \ {h}
               /\ \/ /\ answers[h] # "none" /\ ~broken /\ h \in rows
                     /\ enriched' = enriched \cup {h}
                     /\ Settle(h, TRUE)
                     /\ UNCHANGED <<rows, broken>>
                  \/ /\ Settle(h, FALSE)
                     /\ UNCHANGED <<rows, enriched, broken>>
                  \/ /\ answers[h] # "none"
                     /\ Break
                     /\ Settle(h, FALSE)
          /\ UNCHANGED <<at, report>>
    /\ UNCHANGED <<cancel, parent, found, sources, failed, queue, answers, saved,
                   history>>

-----------------------------------------------------------------------------
(* Promotion, commit and hand-over. *)

\* Defect: a status the caller does not know.
CollapseSaysFailed == /\ promoted' = {} /\ outcome' = "failed"
                      /\ at' = "returned"

\* Defect: the result is returned although the commit raised.
CollapseKeepsResult == /\ UNCHANGED report
                       /\ at' = "returned"

\* An exception escapes the service: the stage reports nothing at all.
Collapse == /\ promoted' = {} /\ outcome' = "completed"
            /\ at' = "returned"

\* Hosts the query for assets may return; it raises in a broken session.
Existing == IF verified = {} THEN {{}}
            ELSE IF broken THEN {} ELSE {verified \cap rows}

Assets ==
    /\ at = "assets"
    /\ \/ Stop
       \/ /\ ~IsCancelled
          /\ \/ /\ \E existing \in Existing : promoted' = existing
                /\ at' = "promote" /\ UNCHANGED outcome
             \/ verified # {} /\ Collapse
    /\ UNCHANGED <<cancel, parent, found, sources, failed, dns, session, history>>

\* The second look at the event, after the query.
Promote ==
    /\ at = "promote"
    /\ \/ /\ IsCancelled /\ outcome' = "cancelled" /\ promoted' = {}
       \/ ~IsCancelled /\ UNCHANGED report
    /\ at' = "commit"
    /\ UNCHANGED <<cancel, parent, found, sources, failed, dns, session, history>>

\* The commit keeps everything, or raises; in a broken session it raises or
\* discards everything.
Commit ==
    /\ at = "commit"
    /\ \/ /\ saved' = IF broken THEN saved ELSE [rows |-> rows, enriched |-> enriched]
          /\ at' = "returned" /\ UNCHANGED report
       \/ Collapse /\ UNCHANGED saved
    /\ UNCHANGED <<cancel, parent, found, sources, failed, dns, rows, enriched,
                   broken, history>>

\* _execute goes on to the pipeline, or ends the scan as cancelled.
HandOver ==
    /\ at = "returned"
    /\ at' = "handed"
    /\ outcome' = IF outcome = "cancelled" \/ cancel THEN "cancelled" ELSE "completed"
    /\ UNCHANGED <<cancel, parent, found, sources, failed, dns, promoted, session,
                   history>>

Worker == \/ BeginParent \/ InvokeSubfinder \/ Subfinder \/ StoreNames
          \/ EndParents \/ NextBatch \/ InvokeDnsx \/ Dnsx \/ NextHost
          \/ Assets \/ Promote \/ Commit \/ HandOver

Next == RequestCancel \/ Worker

Spec == Init /\ [][Next]_vars

-----------------------------------------------------------------------------
\* Every variable has its type.
TypeOK ==
    /\ at \in {"parents", "subfinder", "subfinding", "store", "batches", "dnsx",
               "querying", "hosts", "assets", "promote", "commit", "returned", "handed"}
    /\ cancel \in BOOLEAN /\ parent \in 1 .. Parents + 1
    /\ found \subseteq Hosts /\ sources \in [Hosts -> SUBSET (1 .. Parents)]
    /\ failed \subseteq 1 .. Parents
    /\ queue \subseteq Hosts /\ batch \subseteq Hosts
    /\ answers \in [Hosts -> {"none", "cname", "address"}]
    /\ verified \subseteq Hosts /\ unverified \subseteq Hosts
    /\ promoted \subseteq Hosts /\ outcome \in {"completed", "cancelled"}
    /\ rows \subseteq Hosts /\ enriched \subseteq Hosts /\ broken \in BOOLEAN
    /\ saved \in [rows : SUBSET Hosts, enriched : SUBSET Hosts]
    /\ stored \subseteq 1 .. Parents /\ queried \subseteq Hosts
    /\ late \in Nat

\* Whatever the pipeline is handed is in the database: a promoted host has
\* its asset row and its DNS answer committed, although one session carries
\* the whole stage and a failure anywhere may take all of it away.
PromotedIsCommitted ==
    at \in {"returned", "handed"} => promoted \subseteq saved.rows \cap saved.enriched

\* dnsx is run only on names that a parent returned whose names could be
\* stored.
FailedParentsAreSkipped == \A h \in queried : sources[h] \cap stored # {}

\* After the cancel at most one more tool starts.
CancelStopsDiscovery == late <= 1

=============================================================================
