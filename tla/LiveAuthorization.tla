-------------------------- MODULE LiveAuthorization -------------------------
(***************************************************************************)
(* Authorizations of live_probe scans                                      *)
(* (backend/services/live_authorization_service.py): an administrator      *)
(* approves a record, suspends or revokes it; a scan is created with a     *)
(* snapshot of the record and an execution profile, each with a digest in  *)
(* a column of its own; a worker verifies all of them before it refuses    *)
(* the scan (stage 1 executes none).                                       *)
(*                                                                         *)
(* A request reads and commits in two steps, so requests overlap; time     *)
(* passes and the service is redeployed with another policy version.       *)
(* Columns may also be changed outside the service (a repair, a stale      *)
(* write), which the digests and the comparison with a fresh rendering are *)
(* there to detect.  A digest is modelled by the value it is taken of.     *)
(***************************************************************************)
EXTENDS Integers, FiniteSets

CONSTANTS Auths, Scans, Projects,
          Origins,
          Applications, \* what an administrator, or another user, may submit
          Requests,    \* suspend and revoke requests
          Versions,    \* of live_probe_policy_version
          MaxLifetime, \* live_probe_max_authorization_days, at least 1
          MaxTime,     \* bound: the clock
          MaxDeploys,  \* bound: redeployments
          MaxEdits,    \* bound: columns edited behind the service
          None

\* The ways to write an origin: its scheme and host in lower case or not, or
\* something else in their place, a port, and what may follow or precede them.
Spellings == [names  : Origins,
              scheme : {"lower", "mixed", "other"},
              host   : {"lower", "mixed", "address", "malformed"},
              port   : {"none", "default", "other"},
              rest   : {"none", "path", "query", "credentials", "wildcard"}]

ASSUME ApplicationsAssumption ==
    Applications \subseteq
      [by : {"admin", "owner"}, project : Projects,
       from : Nat \cup {None}, until : Nat \cup {None},
       origins : SUBSET Spellings, exclusions : SUBSET Spellings,
       evidence : {"none", "reference", "digest", "malformed"}]

ASSUME BoundsAssumption ==
    MaxLifetime \in Nat \ {0} /\ {MaxTime, MaxDeploys, MaxEdits} \subseteq Nat

TermType == [project : Projects, from : Nat, until : Nat,
             origins : SUBSET Origins, exclusions : SUBSET Origins]

RecordType == [terms : TermType, version : Versions,
               status : {"active", "suspended", "revoked"}]

ChangeType == [auth : Auths, to : {"suspended", "revoked"}]

Core == [auth : Auths, version : Versions, terms : TermType]

\* The execution profile: its own id, named by the scan it was minted for,
\* its bindings, and whether its budgets, policies, mode, executor and steps
\* are the constants of the server.
ProfileType == [id : Scans, scan : Scans, auth : Auths, project : Projects,
                version : Versions, pinned : BOOLEAN]

RowType == [auth : Auths, project : Projects, core : Core, embedded : Core,
            digest : Core, profile : ProfileType, profileDigest : ProfileType]

ASSUME NoneAssumption == None \notin Nat \cup RecordType \cup ChangeType \cup RowType

VARIABLES
  now, policy,
  record,    \* live_authorizations: [terms, version, status], or None
  change,    \* request -> [auth, to] it has read and will commit, or None
  opening,   \* scan -> row a create request is about to insert, or None
  row,       \* the live columns of scans, or None
  loaded,    \* the row the worker has loaded, or None
  verdict,   \* of the worker: none, verified or rejected
  edits, deploys,
  issued,    \* the row as it was inserted
  withdrawn  \* authorizations a suspend or a revoke was committed for

clock   == <<now, policy>>
counts  == <<edits, deploys>>
history == <<issued, withdrawn>>
vars == <<clock, record, change, opening, row, loaded, verdict, counts, history>>

Init ==
    /\ now = 0 /\ policy \in Versions
    /\ record = [a \in Auths |-> None] /\ change = [r \in Requests |-> None]
    /\ opening = [s \in Scans |-> None] /\ row = [s \in Scans |-> None]
    /\ loaded = [s \in Scans |-> None] /\ verdict = [s \in Scans |-> "none"]
    /\ edits = 0 /\ deploys = 0
    /\ issued = [s \in Scans |-> None] /\ withdrawn = {}

Effective(terms) == terms.origins \ terms.exclusions

-----------------------------------------------------------------------------
(* The record. *)

\* Names of the host in either case; addresses, however spelled, are refused.
IsHostName(spelling) == spelling.host \in {"lower", "mixed"}

\* parse_origin accepts a spelling, ...
IsOrigin(spelling) ==
    /\ spelling.rest = "none"
    /\ spelling.scheme \in {"lower", "mixed"}
    /\ IsHostName(spelling)
    /\ spelling.port \in {"none", "default"}

\* ... of a whole list all or none, ...
AreOrigins(spellings) == spellings # {} /\ \A sp \in spellings : IsOrigin(sp)

\* ... and takes all spellings of one origin for that origin.
Canonical(spellings) == {sp.names : sp \in spellings}

IsEvidence(evidence) == evidence \in {"reference", "digest"}

\* The record an application asks for; the window starts now and lasts as
\* long as it may unless the application says otherwise.
Asked(app) ==
    LET from == IF app.from = None THEN now ELSE app.from
    IN  [project |-> app.project, from |-> from,
         until |-> IF app.until = None THEN from + MaxLifetime ELSE app.until,
         origins |-> Canonical(app.origins), exclusions |-> Canonical(app.exclusions)]

\* Defect: the longest lifetime is not enforced.
WindowUnlimited(terms) == terms.from < terms.until

WindowHolds(terms) == terms.from < terms.until /\ terms.until <= terms.from + MaxLifetime

Approve(a) ==
    /\ record[a] = None
    /\ \E app \in Applications :
         /\ app.by = "admin"
         /\ AreOrigins(app.origins)
         /\ app.exclusions = {} \/ AreOrigins(app.exclusions)
         /\ Effective(Asked(app)) # {}
         /\ IsEvidence(app.evidence)
         /\ WindowHolds(Asked(app))
         /\ record' = [record EXCEPT ![a] =
                         [terms |-> Asked(app), version |-> policy, status |-> "active"]]
    /\ UNCHANGED <<clock, change, opening, row, loaded, verdict, counts, history>>

\* Statuses from which a record may be moved.
Movable(to) == IF to = "suspended" THEN {"active"} ELSE {"active", "suspended"}

ReadChange(r, a) ==
    /\ change[r] = None /\ record[a] # None
    /\ \E to \in {"suspended", "revoked"} :
         /\ record[a].status \in Movable(to)
         /\ change' = [change EXCEPT ![r] = [auth |-> a, to |-> to]]
    /\ UNCHANGED <<clock, record, opening, row, loaded, verdict, counts, history>>

\* The status read before is not looked at again.
CommitChange(r) ==
    /\ change[r] # None
    /\ record' = [record EXCEPT ![change[r].auth].status = change[r].to]
    /\ withdrawn' = withdrawn \cup {change[r].auth}
    /\ change' = [change EXCEPT ![r] = None]
    /\ UNCHANGED <<clock, opening, row, loaded, verdict, counts, issued>>

\* Defect: a suspended record still counts.
WorthyUnlessRevoked(a) ==
    /\ record[a] # None /\ record[a].status # "revoked"
    /\ record[a].terms.from <= now /\ now < record[a].terms.until
    /\ record[a].version = policy
    /\ Effective(record[a].terms) # {}

\* Whether a record may be used now.
Worthy(a) ==
    /\ record[a] # None /\ record[a].status = "active"
    /\ record[a].terms.from <= now /\ now < record[a].terms.until
    /\ record[a].version = policy
    /\ Effective(record[a].terms) # {}

\* Defect: the window starts when the payload is rendered.
RenderFromNow(a) ==
    [auth |-> a, version |-> record[a].version,
     terms |-> [record[a].terms EXCEPT !.from = now]]

\* The payload of a record.
Render(a) == [auth |-> a, version |-> record[a].version, terms |-> record[a].terms]

-----------------------------------------------------------------------------
(* The scan. *)

Profile(s, a, p) ==
    [id |-> s, scan |-> s, auth |-> a, project |-> p, version |-> policy, pinned |-> TRUE]

\* The record is validated and rendered with its profile in one request ...
ReadForScan(s, a) ==
    /\ row[s] = None /\ opening[s] = None
    /\ Worthy(a)
    /\ LET core == Render(a)
           project == record[a].terms.project
           profile == Profile(s, a, project)
       IN  opening' = [opening EXCEPT ![s] =
                         [auth |-> a, project |-> project,
                          core |-> core, embedded |-> core, digest |-> core,
                          profile |-> profile, profileDigest |-> profile]]
    /\ UNCHANGED <<clock, record, change, row, loaded, verdict, counts, history>>

Active(s) == row[s] # None /\ verdict[s] = "none"

\* ... that inserts them later, unless the project has an active scan.
InsertScan(s) ==
    /\ opening[s] # None
    /\ opening' = [opening EXCEPT ![s] = None]
    /\ IF \E t \in Scans : Active(t) /\ row[t].project = opening[s].project
       THEN UNCHANGED <<row, issued>>
       ELSE /\ row' = [row EXCEPT ![s] = opening[s]]
            /\ issued' = [issued EXCEPT ![s] = opening[s]]
    /\ UNCHANGED <<clock, record, change, loaded, verdict, counts, withdrawn>>

-----------------------------------------------------------------------------
(* Verification by the worker. *)

\* Defect: only the digest inside the snapshot is looked at.
SnapshotHoldsByItself(r) ==
    /\ r.embedded = r.core
    /\ r.core.version = policy
    /\ Effective(r.core.terms) # {}
    /\ r.core.terms.from <= now /\ now < r.core.terms.until

\* verify_snapshot_payload: what can be said without the record.
SnapshotHolds(r) ==
    /\ r.embedded = r.core /\ r.embedded = r.digest
    /\ r.core.version = policy
    /\ Effective(r.core.terms) # {}
    /\ r.core.terms.from <= now /\ now < r.core.terms.until

\* verify_execution_profile: the digest, every binding and every constant.
\* The profile's own id is compared with nothing.
ProfileHolds(s, r) ==
    /\ r.profileDigest = r.profile
    /\ r.profile.version = policy
    /\ r.profile.scan = s
    /\ r.profile.auth = r.auth /\ r.profile.auth = r.core.auth
    /\ r.profile.project = r.project
    /\ r.profile.pinned

\* The rest, with the record as it is now.
ParentHolds(r) ==
    /\ r.core.auth = r.auth
    /\ Worthy(r.core.auth)
    /\ Render(r.core.auth) = r.core
    /\ r.core.terms.project = record[r.core.auth].terms.project
    /\ r.project = record[r.core.auth].terms.project

Decide(s, outcome) == verdict' = [verdict EXCEPT ![s] = outcome]

VerifySnapshot(s) ==
    /\ Active(s) /\ loaded[s] = None
    /\ loaded' = [loaded EXCEPT ![s] = row[s]]
    /\ IF SnapshotHolds(row[s]) THEN UNCHANGED verdict ELSE Decide(s, "rejected")
    /\ UNCHANGED <<clock, record, change, opening, row, counts, history>>

VerifyParent(s) ==
    /\ loaded[s] # None /\ verdict[s] = "none"
    /\ Decide(s, IF ParentHolds(loaded[s]) /\ ProfileHolds(s, loaded[s])
                 THEN "verified" ELSE "rejected")
    /\ UNCHANGED <<clock, record, change, opening, row, loaded, counts, history>>

-----------------------------------------------------------------------------
(* The world around the service. *)

Tick ==
    /\ now < MaxTime
    /\ now' = now + 1
    /\ UNCHANGED <<policy, record, change, opening, row, loaded, verdict, counts, history>>

\* Requests and verifications under way are lost; recovery submits the
\* queued scans again.
Redeploy ==
    /\ deploys < MaxDeploys /\ deploys' = deploys + 1
    /\ policy' \in Versions
    /\ change' = [r \in Requests |-> None] /\ opening' = [s \in Scans |-> None]
    /\ loaded' = [s \in Scans |-> IF verdict[s] = "none" THEN None ELSE loaded[s]]
    /\ UNCHANGED <<now, record, row, verdict, edits, history>>

Rows == {t \in Scans : row[t] # None}

\* A profile with one field forged.
Forged(profile) ==
    {[profile EXCEPT !.id = t] : t \in Scans}
      \cup {[profile EXCEPT !.scan = t] : t \in Scans}
      \cup {[profile EXCEPT !.auth = a] : a \in Auths}
      \cup {[profile EXCEPT !.project = p] : p \in Projects}
      \cup {[profile EXCEPT !.version = v] : v \in Versions}
      \cup {[profile EXCEPT !.pinned = b] : b \in BOOLEAN}

\* One column of a scan takes another value that looks right: that of
\* another scan, a payload with every origin, a profile with a forged field,
\* or a digest computed again; one made while the worker holds the row shows
\* only after a restart, when it can be made as well.
EditScan(s) ==
    /\ edits < MaxEdits /\ edits' = edits + 1
    /\ Active(s) /\ loaded[s] = None
    /\ \/ \E core \in {row[t].core : t \in Rows}
                        \cup {[row[s].core EXCEPT !.terms.origins = Origins]},
             recomputed \in BOOLEAN :
            row' = [row EXCEPT ![s].core = core,
                               ![s].embedded = IF recomputed THEN core ELSE @]
       \/ row' = [row EXCEPT ![s].digest = row[s].core]
       \/ \E t \in Rows : row' = [row EXCEPT ![s].auth = row[t].auth]
       \/ \E profile \in {row[t].profile : t \in Rows} \cup Forged(row[s].profile) :
            row' = [row EXCEPT ![s].profile = profile]
       \/ row' = [row EXCEPT ![s].profileDigest = row[s].profile]
    /\ row' # row
    /\ UNCHANGED <<clock, record, change, opening, loaded, verdict, deploys, history>>

\* The origins or the end of a record are widened.
EditRecord(a) ==
    /\ edits < MaxEdits /\ edits' = edits + 1
    /\ record[a] # None
    /\ \/ record' = [record EXCEPT ![a].terms.origins = Origins]
       \/ record' = [record EXCEPT ![a].terms.until = @ + 1]
    /\ record' # record
    /\ UNCHANGED <<clock, change, opening, row, loaded, verdict, deploys, history>>

Next ==
    \/ \E a \in Auths : Approve(a) \/ EditRecord(a)
    \/ \E r \in Requests : CommitChange(r) \/ \E a \in Auths : ReadChange(r, a)
    \/ \E s \in Scans :
         \/ \E a \in Auths : ReadForScan(s, a)
         \/ InsertScan(s) \/ VerifySnapshot(s) \/ VerifyParent(s) \/ EditScan(s)
    \/ Tick \/ Redeploy

Spec == Init /\ [][Next]_vars

-----------------------------------------------------------------------------
\* Every variable has its type, and every approved record its lifetime unless
\* it was edited.
TypeOK ==
    /\ now \in 0 .. MaxTime /\ policy \in Versions
    /\ record \in [Auths -> RecordType \cup {None}]
    /\ change \in [Requests -> ChangeType \cup {None}]
    /\ {opening, row, loaded, issued} \subseteq [Scans -> RowType \cup {None}]
    /\ verdict \in [Scans -> {"none", "verified", "rejected"}]
    /\ edits = 0 =>
         \A a \in Auths : record[a] # None =>
            record[a].terms.until - record[a].terms.from \in 1 .. MaxLifetime
    /\ edits \in 0 .. MaxEdits /\ deploys \in 0 .. MaxDeploys
    /\ withdrawn \subseteq Auths

\* Two rows that differ at most in the id their profiles carry.
SameButForProfileId(r, q) ==
    [r EXCEPT !.profile.id = q.profile.id, !.profileDigest.id = q.profileDigest.id] = q

\* After the edit of one column a scan is verified only with the very columns
\* it was created with; after two edits, a forged value and its digest
\* recomputed included, at most the profile's own id is another: the code
\* compares it with nothing (README, section 6).
VerifiedAsIssued ==
    \A s \in Scans : verdict[s] = "verified" =>
        /\ edits <= 1 => loaded[s] = issued[s]
        /\ edits <= 2 => SameButForProfileId(loaded[s], issued[s])

\* The authorization behind a scan.
Parent(s) == issued[s].auth

\* A scan whose authorization was suspended or revoked before the worker
\* looked at it, be it while the scan was created, is never verified, unless
\* five columns were made to name another: key, payload, profile, digests.
WithdrawnNeverVerified ==
    [][\A s \in Scans :
         edits <= 4 /\ verdict[s] = "none" /\ verdict'[s] = "verified" =>
            Parent(s) \notin withdrawn]_vars

\* Nothing but an edit, a withdrawal, the end of the window or another policy
\* version turns a scan down: a snapshot goes on matching its record.
UntouchedIsVerified ==
    [][\A s \in Scans :
         verdict[s] = "none" /\ verdict'[s] = "rejected" =>
            \/ edits > 0 \/ Parent(s) \in withdrawn
            \/ now >= issued[s].core.terms.until
            \/ policy # issued[s].core.version]_vars

=============================================================================
