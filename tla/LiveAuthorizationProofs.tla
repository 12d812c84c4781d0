---------------------- MODULE LiveAuthorizationProofs -----------------------
(***************************************************************************)
(* Proofs about the authorizations of live_probe scans for any number of   *)
(* records, scans, requests, edits and redeployments: a scan whose record  *)
(* was withdrawn is not verified with fewer than five edits, one edit      *)
(* never goes unnoticed and two hide at most another profile id, and       *)
(* nothing but an edit, a withdrawal, the end of the window or another     *)
(* policy version turns a scan down.                                       *)
(***************************************************************************)
EXTENDS LiveAuthorization, TLAPS

Count(b) == IF b THEN 1 ELSE 0

\* A record was withdrawn exactly if it is no longer active.
WithdrawalInv ==
    \A a \in Auths :
        /\ a \in withdrawn => record[a] # None /\ record[a].status # "active"
        /\ record[a] # None /\ a \notin withdrawn => record[a].status = "active"

\* A request has read a record that exists.
ChangeInv == \A r \in Requests : change[r] # None => record[change[r].auth] # None

\* The way of a scan from its request to the worker.
StageInv(s) ==
    /\ opening[s] # None => row[s] = None
    /\ row[s] = None <=> issued[s] = None
    /\ loaded[s] # None => row[s] # None
    /\ verdict[s] # "none" => loaded[s] # None

\* A row as it was rendered: its columns agree with one another.
Rendered(s, r) ==
    /\ r.embedded = r.core /\ r.digest = r.core
    /\ r.core.auth = r.auth /\ r.core.terms.project = r.project
    /\ r.profileDigest = r.profile
    /\ r.profile = [id |-> s, scan |-> s, auth |-> r.auth, project |-> r.project,
                    version |-> r.core.version, pinned |-> TRUE]
    /\ Effective(r.core.terms) # {} /\ r.core.terms.from <= now
    /\ record[r.auth] # None

\* The record is no longer the one the row was rendered from.
Drifted(r) == Render(r.auth) # r.core

\* The columns in which one row differs from another, embedded digests aside.
Differences(r, i) ==
    Count(r.auth # i.auth) + Count(r.core # i.core) + Count(r.digest # i.digest)
      + Count(r.profile # i.profile) + Count(r.profileDigest # i.profileDigest)

\* A row of scan s: each difference from the one issued, and from the record,
\* has cost an edit.
CopyOf(s, r) ==
    /\ r.project = issued[s].project
    /\ Count(Drifted(issued[s])) + Differences(r, issued[s]) <= edits
    /\ edits = 0 => r = issued[s]

ScanInv(s) ==
    /\ StageInv(s)
    /\ opening[s] # None => Rendered(s, opening[s]) /\ Count(Drifted(opening[s])) <= edits
    /\ issued[s] # None => Rendered(s, issued[s])
    /\ row[s] # None => CopyOf(s, row[s])
    /\ loaded[s] # None => CopyOf(s, loaded[s])
    /\ verdict[s] = "none" /\ loaded[s] # None =>
         loaded[s].embedded = loaded[s].core /\ loaded[s].digest = loaded[s].core
    /\ verdict[s] = "verified" =>
         /\ edits <= 1 => loaded[s] = issued[s]
         /\ edits <= 2 => SameButForProfileId(loaded[s], issued[s])

IInv == TypeOK /\ WithdrawalInv /\ ChangeInv /\ \A s \in Scans : ScanInv(s)

-----------------------------------------------------------------------------
(* Type correctness. *)

\* A rendered record has the type of a payload.
LEMMA RenderType ==
    ASSUME TypeOK, NEW a \in Auths, record[a] # None
    PROVE  Render(a) \in Core
<1>1. record[a] \in RecordType
  BY DEF TypeOK
<1> QED
  BY <1>1 DEF Render, Core, RecordType

\* What an application asks for has the type of terms.
LEMMA AskedType ==
    ASSUME TypeOK, NEW app \in Applications
    PROVE  Asked(app) \in TermType
<1>1. app \in [by : {"admin", "owner"}, project : Projects,
               from : Nat \cup {None}, until : Nat \cup {None},
               origins : SUBSET Spellings, exclusions : SUBSET Spellings,
               evidence : {"none", "reference", "digest", "malformed"}]
  BY ApplicationsAssumption
<1>2. now \in Nat /\ MaxLifetime \in Nat
  BY BoundsAssumption DEF TypeOK
<1>3. \A names \in SUBSET Spellings : Canonical(names) \subseteq Origins
  BY DEF Canonical, Spellings
<1>4. Asked(app).from \in Nat /\ Asked(app).until \in Nat
  BY <1>1, <1>2 DEF Asked
<1> QED
  BY <1>1, <1>3, <1>4 DEF Asked, TermType

LEMMA InitType == Init => TypeOK
<1> SUFFICES ASSUME Init PROVE TypeOK
  OBVIOUS
<1>1. 0 \in 0 .. MaxTime /\ 0 \in 0 .. MaxEdits /\ 0 \in 0 .. MaxDeploys
  BY BoundsAssumption
<1> QED
  BY <1>1 DEF Init, TypeOK

\* A suspend or a revoke changes the status of one record, nothing else.
LEMMA CommittedRecord ==
    ASSUME TypeOK, ChangeInv, NEW r \in Requests, CommitChange(r)
    PROVE  \E a \in Auths, to \in {"suspended", "revoked"} :
              /\ record[a] \in RecordType /\ record[a] # None
              /\ record' = [record EXCEPT ![a] = [terms |-> record[a].terms,
                              version |-> record[a].version, status |-> to]]
              /\ withdrawn' = withdrawn \cup {a}
<1>1. change[r] # None
  BY DEF CommitChange
<1>2. change[r] \in ChangeType
  BY <1>1 DEF TypeOK
<1>3. change[r].auth \in Auths /\ change[r].to \in {"suspended", "revoked"}
  BY <1>2 DEF ChangeType
<1>4. record[change[r].auth] # None
  BY <1>1 DEF ChangeInv
<1>5. record[change[r].auth] \in RecordType
  BY <1>3, <1>4 DEF TypeOK
<1>6. [record[change[r].auth] EXCEPT !.status = change[r].to]
        = [terms |-> record[change[r].auth].terms,
           version |-> record[change[r].auth].version, status |-> change[r].to]
  BY <1>5 DEF RecordType
<1>7. record' = [record EXCEPT ![change[r].auth] =
                   [record[change[r].auth] EXCEPT !.status = change[r].to]]
  BY <1>3 DEF CommitChange, TypeOK
<1> QED
  BY <1>3, <1>4, <1>5, <1>6, <1>7 DEF CommitChange

\* An edit of a record changes its terms, but never their project.
LEMMA EditedRecord ==
    ASSUME TypeOK, NEW a \in Auths, EditRecord(a)
    PROVE  /\ record[a] \in RecordType /\ record[a] # None
           /\ \E terms \in TermType :
                /\ terms.project = record[a].terms.project
                /\ record' = [record EXCEPT ![a] = [terms |-> terms,
                                version |-> record[a].version, status |-> record[a].status]]
<1>1. record[a] \in RecordType /\ record[a] # None
  BY DEF EditRecord, TypeOK
<1> DEFINE wide == [record[a].terms EXCEPT !.origins = Origins]
           long == [record[a].terms EXCEPT !.until = @ + 1]
<1>2. record[a].terms \in TermType
  BY <1>1 DEF RecordType
<1>3. wide \in TermType /\ wide.project = record[a].terms.project
  BY <1>2 DEF TermType
<1>4. long \in TermType /\ long.project = record[a].terms.project
  BY <1>2 DEF TermType
<1>5. [record[a] EXCEPT !.terms.origins = Origins]
        = [terms |-> wide, version |-> record[a].version, status |-> record[a].status]
  BY <1>1 DEF RecordType
<1>6. [record[a] EXCEPT !.terms.until = @ + 1]
        = [terms |-> long, version |-> record[a].version, status |-> record[a].status]
  BY <1>1 DEF RecordType
<1>7. \/ record' = [record EXCEPT ![a] = [record[a] EXCEPT !.terms.origins = Origins]]
      \/ record' = [record EXCEPT ![a] = [record[a] EXCEPT !.terms.until = @ + 1]]
  BY DEF EditRecord, TypeOK
<1> HIDE DEF wide, long
<1> QED
  BY <1>1, <1>3, <1>4, <1>5, <1>6, <1>7

\* A forged profile has the type of one.
LEMMA ForgedType == \A profile \in ProfileType : Forged(profile) \subseteq ProfileType
BY DEF Forged, ProfileType

\* An edit of a scan leaves its project and changes at most one column.
LEMMA EditedRow ==
    ASSUME TypeOK, NEW s \in Scans, EditScan(s)
    PROVE  /\ row[s] \in RowType /\ row[s] # None
           /\ \E r \in RowType :
                /\ row' = [row EXCEPT ![s] = r]
                /\ r.project = row[s].project
                /\ \A i \in RowType : Differences(r, i) <= Differences(row[s], i) + 1
<1>1. row[s] \in RowType /\ row[s] # None
  BY DEF EditScan, Active, TypeOK
<1>2. \A t \in Rows : t \in Scans /\ row[t] \in RowType /\ row[t] # None
  BY DEF Rows, TypeOK
<1>3. CASE \E core \in {row[t].core : t \in Rows}
                        \cup {[row[s].core EXCEPT !.terms.origins = Origins]},
              recomputed \in BOOLEAN :
             row' = [row EXCEPT ![s].core = core,
                                ![s].embedded = IF recomputed THEN core ELSE @]
  <2>1. PICK core \in {row[t].core : t \in Rows}
                        \cup {[row[s].core EXCEPT !.terms.origins = Origins]},
             recomputed \in BOOLEAN :
             row' = [row EXCEPT ![s].core = core,
                                ![s].embedded = IF recomputed THEN core ELSE @]
    BY <1>3
  <2>2. row[s].core \in Core
    BY <1>1 DEF RowType
  <2>3. [row[s].core.terms EXCEPT !.origins = Origins] \in TermType
    BY <2>2 DEF Core, TermType
  <2>4. [row[s].core EXCEPT !.terms.origins = Origins]
          = [auth |-> row[s].core.auth, version |-> row[s].core.version,
             terms |-> [row[s].core.terms EXCEPT !.origins = Origins]]
    BY <2>2 DEF Core
  <2>5. [row[s].core EXCEPT !.terms.origins = Origins] \in Core
    BY <2>2, <2>3, <2>4 DEF Core
  <2>6. core \in Core
    BY <1>2, <2>5 DEF RowType
  <2> DEFINE emb == IF recomputed THEN core ELSE row[s].embedded
             r   == [row[s] EXCEPT !.core = core, !.embedded = emb]
  <2>7. emb \in Core
    BY <1>1, <2>6 DEF RowType
  <2>8. row' = [row EXCEPT ![s] = r]
    <3>1. CASE recomputed
      BY <1>1, <2>1, <3>1 DEF TypeOK, RowType
    <3>2. CASE ~recomputed
      BY <1>1, <2>1, <3>2 DEF TypeOK, RowType
    <3> QED
      BY <3>1, <3>2
  <2> HIDE DEF emb
  <2>9. r \in RowType /\ r.project = row[s].project /\ r.auth = row[s].auth
        /\ r.digest = row[s].digest /\ r.profile = row[s].profile
        /\ r.profileDigest = row[s].profileDigest
    BY <1>1, <2>6, <2>7 DEF RowType
  <2> HIDE DEF r
  <2>10. \A i \in RowType : Differences(r, i) <= Differences(row[s], i) + 1
    BY <2>9 DEF Differences, Count
  <2> QED
    BY <1>1, <2>8, <2>9, <2>10
<1>4. CASE row' = [row EXCEPT ![s].digest = row[s].core]
  <2> DEFINE r == [row[s] EXCEPT !.digest = row[s].core]
  <2>1. r \in RowType /\ r.project = row[s].project /\ r.auth = row[s].auth
        /\ r.core = row[s].core /\ r.profile = row[s].profile
        /\ r.profileDigest = row[s].profileDigest
    BY <1>1 DEF RowType
  <2>2. row' = [row EXCEPT ![s] = r]
    BY <1>4 DEF TypeOK
  <2> HIDE DEF r
  <2>3. \A i \in RowType : Differences(r, i) <= Differences(row[s], i) + 1
    BY <2>1 DEF Differences, Count
  <2> QED
    BY <1>1, <2>1, <2>2, <2>3
<1>5. CASE \E t \in Rows : row' = [row EXCEPT ![s].auth = row[t].auth]
  <2>1. PICK t \in Rows : row' = [row EXCEPT ![s].auth = row[t].auth]
    BY <1>5
  <2> DEFINE r == [row[s] EXCEPT !.auth = row[t].auth]
  <2>2. r \in RowType /\ r.project = row[s].project /\ r.core = row[s].core
        /\ r.digest = row[s].digest /\ r.profile = row[s].profile
        /\ r.profileDigest = row[s].profileDigest
    BY <1>1, <1>2 DEF RowType
  <2>3. row' = [row EXCEPT ![s] = r]
    BY <2>1 DEF TypeOK
  <2> HIDE DEF r
  <2>4. \A i \in RowType : Differences(r, i) <= Differences(row[s], i) + 1
    BY <2>2 DEF Differences, Count
  <2> QED
    BY <1>1, <2>2, <2>3, <2>4
<1>6. CASE \E profile \in {row[t].profile : t \in Rows} \cup Forged(row[s].profile) :
             row' = [row EXCEPT ![s].profile = profile]
  <2>1. PICK profile \in {row[t].profile : t \in Rows} \cup Forged(row[s].profile) :
             row' = [row EXCEPT ![s].profile = profile]
    BY <1>6
  <2>2. row[s].profile \in ProfileType /\ \A t \in Rows : row[t].profile \in ProfileType
    BY <1>1, <1>2 DEF RowType
  <2>3. profile \in ProfileType
    BY <2>1, <2>2, ForgedType
  <2> DEFINE r == [row[s] EXCEPT !.profile = profile]
  <2>4. r \in RowType /\ r.project = row[s].project /\ r.auth = row[s].auth
        /\ r.core = row[s].core /\ r.digest = row[s].digest
        /\ r.profileDigest = row[s].profileDigest
    BY <1>1, <2>3 DEF RowType
  <2>5. row' = [row EXCEPT ![s] = r]
    BY <2>1 DEF TypeOK
  <2> HIDE DEF r
  <2>6. \A i \in RowType : Differences(r, i) <= Differences(row[s], i) + 1
    BY <2>4 DEF Differences, Count
  <2> QED
    BY <1>1, <2>4, <2>5, <2>6
<1>7. CASE row' = [row EXCEPT ![s].profileDigest = row[s].profile]
  <2> DEFINE r == [row[s] EXCEPT !.profileDigest = row[s].profile]
  <2>1. r \in RowType /\ r.project = row[s].project /\ r.auth = row[s].auth
        /\ r.core = row[s].core /\ r.digest = row[s].digest
        /\ r.profile = row[s].profile
    BY <1>1 DEF RowType
  <2>2. row' = [row EXCEPT ![s] = r]
    BY <1>7 DEF TypeOK
  <2> HIDE DEF r
  <2>3. \A i \in RowType : Differences(r, i) <= Differences(row[s], i) + 1
    BY <2>1 DEF Differences, Count
  <2> QED
    BY <1>1, <2>1, <2>2, <2>3
<1> QED
  BY <1>3, <1>4, <1>5, <1>6, <1>7 DEF EditScan

\* A request renders a row of the right type.
LEMMA OpenedRow ==
    ASSUME TypeOK, NEW s \in Scans, NEW a \in Auths, ReadForScan(s, a)
    PROVE  /\ record[a] \in RecordType /\ record[a] # None
           /\ \E r \in RowType :
                /\ opening' = [opening EXCEPT ![s] = r]
                /\ r.auth = a /\ r.core = Render(a)
                /\ r.project = record[a].terms.project
                /\ r.embedded = r.core /\ r.digest = r.core
                /\ r.profile = Profile(s, a, r.project) /\ r.profileDigest = r.profile
<1>1. record[a] \in RecordType /\ record[a] # None
  BY DEF ReadForScan, Worthy, TypeOK
<1>2. Render(a) \in Core
  BY <1>1, RenderType
<1> DEFINE project == record[a].terms.project
           profile == Profile(s, a, project)
           r == [auth |-> a, project |-> project, core |-> Render(a),
                 embedded |-> Render(a), digest |-> Render(a),
                 profile |-> profile, profileDigest |-> profile]
<1>3. project \in Projects
  BY <1>1 DEF RecordType, TermType
<1>4. profile \in ProfileType
  BY <1>3 DEF Profile, ProfileType, TypeOK
<1>5. opening' = [opening EXCEPT ![s] = r]
  BY DEF ReadForScan
<1>6. r \in RowType
  BY <1>2, <1>3, <1>4 DEF RowType
<1> QED
  BY <1>1, <1>5, <1>6

LEMMA StepType == TypeOK /\ ChangeInv /\ [Next]_vars => TypeOK'
<1> SUFFICES ASSUME TypeOK, ChangeInv, [Next]_vars PROVE TypeOK'
  OBVIOUS
<1> USE BoundsAssumption
<1>1. ASSUME NEW a \in Auths, Approve(a) PROVE TypeOK'
  <2>1. PICK app \in Applications :
          /\ WindowHolds(Asked(app))
          /\ record' = [record EXCEPT ![a] =
                          [terms |-> Asked(app), version |-> policy, status |-> "active"]]
    BY <1>1 DEF Approve
  <2>2. Asked(app) \in TermType
    BY AskedType
  <2>3. Asked(app).until - Asked(app).from \in 1 .. MaxLifetime
    BY <2>2, <2>1 DEF WindowHolds, TermType
  <2>4. [terms |-> Asked(app), version |-> policy, status |-> "active"] \in RecordType
    BY <2>2 DEF RecordType, TypeOK
  <2>5. record' \in [Auths -> RecordType \cup {None}]
    BY <2>1, <2>4 DEF TypeOK
  <2>6. edits' = 0 => \A b \in Auths : record'[b] # None =>
          record'[b].terms.until - record'[b].terms.from \in 1 .. MaxLifetime
    <3> SUFFICES ASSUME edits' = 0, NEW b \in Auths, record'[b] # None
                 PROVE  record'[b].terms.until - record'[b].terms.from \in 1 .. MaxLifetime
      OBVIOUS
    <3>1. CASE b = a
      BY <2>1, <2>3, <3>1 DEF TypeOK
    <3>2. CASE b # a
      BY <1>1, <2>1, <3>2 DEF Approve, TypeOK, counts
    <3> QED
      BY <3>1, <3>2
  <2> QED
    BY <1>1, <2>5, <2>6 DEF Approve, TypeOK, clock, counts, history
<1>2. ASSUME NEW a \in Auths, EditRecord(a) PROVE TypeOK'
  <2>1. PICK terms \in TermType :
          record' = [record EXCEPT ![a] = [terms |-> terms, version |-> record[a].version,
                                           status |-> record[a].status]]
    BY <1>2, EditedRecord
  <2>2. record[a] \in RecordType
    BY <1>2, EditedRecord
  <2>3. record' \in [Auths -> RecordType \cup {None}]
    BY <2>1, <2>2 DEF TypeOK, RecordType
  <2>4. edits' \in 1 .. MaxEdits
    BY <1>2 DEF EditRecord, TypeOK
  <2> QED
    BY <1>2, <2>3, <2>4 DEF EditRecord, TypeOK, clock, history
<1>3. ASSUME NEW r \in Requests, NEW a \in Auths, ReadChange(r, a) PROVE TypeOK'
  BY <1>3 DEF ReadChange, ChangeType, TypeOK, clock, counts, history
<1>4. ASSUME NEW r \in Requests, CommitChange(r) PROVE TypeOK'
  <2>1. PICK a \in Auths, to \in {"suspended", "revoked"} :
          /\ record[a] \in RecordType /\ record[a] # None
          /\ record' = [record EXCEPT ![a] = [terms |-> record[a].terms,
                          version |-> record[a].version, status |-> to]]
          /\ withdrawn' = withdrawn \cup {a}
    BY <1>4, CommittedRecord
  <2>2. record' \in [Auths -> RecordType \cup {None}]
    BY <2>1 DEF TypeOK, RecordType
  <2>3. change' \in [Requests -> ChangeType \cup {None}]
    BY <1>4 DEF CommitChange, TypeOK
  <2>4. \A b \in Auths : record'[b] # None =>
          record[b] # None /\ record'[b].terms = record[b].terms
    BY <2>1 DEF TypeOK
  <2>5. UNCHANGED <<now, policy, opening, row, loaded, verdict, edits, deploys, issued>>
    BY <1>4 DEF CommitChange, clock, counts
  <2>6. withdrawn' \subseteq Auths
    BY <2>1 DEF TypeOK
  <2> QED
    BY <2>2, <2>3, <2>4, <2>5, <2>6 DEF TypeOK
<1>5. ASSUME NEW s \in Scans, NEW a \in Auths, ReadForScan(s, a) PROVE TypeOK'
  <2>1. opening' \in [Scans -> RowType \cup {None}]
    BY <1>5, OpenedRow DEF TypeOK
  <2> QED
    BY <1>5, <2>1 DEF ReadForScan, TypeOK, clock, counts, history
<1>6. ASSUME NEW s \in Scans, InsertScan(s) PROVE TypeOK'
  BY <1>6 DEF InsertScan, TypeOK, clock, counts
<1>7. ASSUME NEW s \in Scans, VerifySnapshot(s) PROVE TypeOK'
  BY <1>7 DEF VerifySnapshot, Decide, TypeOK, clock, counts, history
<1>8. ASSUME NEW s \in Scans, VerifyParent(s) PROVE TypeOK'
  BY <1>8 DEF VerifyParent, Decide, TypeOK, clock, counts, history
<1>9. ASSUME NEW s \in Scans, EditScan(s) PROVE TypeOK'
  <2>1. row' \in [Scans -> RowType \cup {None}]
    BY <1>9, EditedRow DEF TypeOK
  <2>2. edits' \in 1 .. MaxEdits
    BY <1>9 DEF EditScan, TypeOK
  <2> QED
    BY <1>9, <2>1, <2>2 DEF EditScan, TypeOK, clock, history
<1>10. CASE Tick
  BY <1>10 DEF Tick, TypeOK, counts, history
<1>11. CASE Redeploy
  BY <1>11 DEF Redeploy, TypeOK, history
<1>12. CASE UNCHANGED vars
  BY <1>12 DEF vars, TypeOK, clock, counts, history
<1> QED
  BY <1>1, <1>2, <1>3, <1>4, <1>5, <1>6, <1>7, <1>8, <1>9, <1>10, <1>11, <1>12 DEF Next

-----------------------------------------------------------------------------
(* The records. *)

\* None is no record and no row.
LEMMA NotNone ==
    /\ \A r \in RecordType : r # None
    /\ \A r \in RowType : r # None
BY NoneAssumption

\* Every step leaves the records that exist in place, and their versions;
\* only an edit changes their terms.
LEMMA RecordsStay ==
    ASSUME TypeOK, ChangeInv, [Next]_vars, NEW a \in Auths, record[a] # None
    PROVE  /\ record'[a] # None
           /\ record'[a].version = record[a].version
           /\ record'[a].terms = record[a].terms \/ edits' = edits + 1
<1>1. record[a] \in RecordType
  BY DEF TypeOK
<1>2. ASSUME NEW b \in Auths, Approve(b) PROVE record'[a] = record[a]
  BY <1>2 DEF Approve, TypeOK
<1>3. ASSUME NEW b \in Auths, EditRecord(b)
      PROVE  /\ record'[a] # None /\ record'[a].version = record[a].version
             /\ edits' = edits + 1
  <2>1. PICK terms \in TermType :
          record' = [record EXCEPT ![b] = [terms |-> terms, version |-> record[b].version,
                                           status |-> record[b].status]]
    BY <1>3, EditedRecord
  <2>2. record[b] \in RecordType
    BY <1>3, EditedRecord
  <2>3. [terms |-> terms, version |-> record[b].version, status |-> record[b].status]
          \in RecordType
    BY <2>2 DEF RecordType
  <2> QED
    BY <1>3, <2>1, <2>3, NotNone DEF TypeOK, EditRecord
<1>4. ASSUME NEW r \in Requests, CommitChange(r)
      PROVE  /\ record'[a] # None /\ record'[a].version = record[a].version
             /\ record'[a].terms = record[a].terms
  <2>1. PICK b \in Auths, to \in {"suspended", "revoked"} :
          /\ record[b] \in RecordType
          /\ record' = [record EXCEPT ![b] = [terms |-> record[b].terms,
                          version |-> record[b].version, status |-> to]]
    BY <1>4, CommittedRecord
  <2>2. [terms |-> record[b].terms, version |-> record[b].version, status |-> to]
          \in RecordType
    BY <2>1 DEF RecordType
  <2> QED
    BY <2>1, <2>2, NotNone DEF TypeOK
<1>5. ASSUME \/ \E r \in Requests, b \in Auths : ReadChange(r, b)
             \/ \E s \in Scans : \/ \E b \in Auths : ReadForScan(s, b)
                                 \/ InsertScan(s) \/ VerifySnapshot(s)
                                 \/ VerifyParent(s) \/ EditScan(s)
             \/ Tick \/ Redeploy \/ UNCHANGED vars
      PROVE  record' = record
  BY <1>5 DEF ReadChange, ReadForScan, InsertScan, VerifySnapshot, VerifyParent,
              EditScan, Tick, Redeploy, vars
<1> QED
  BY <1>1, <1>2, <1>3, <1>4, <1>5 DEF Next

LEMMA StepWithdrawal ==
    TypeOK /\ ChangeInv /\ WithdrawalInv /\ [Next]_vars => WithdrawalInv'
<1> SUFFICES ASSUME TypeOK, ChangeInv, WithdrawalInv, [Next]_vars PROVE WithdrawalInv'
  OBVIOUS
<1>1. ASSUME NEW a \in Auths, Approve(a) PROVE WithdrawalInv'
  <2>1. PICK app \in Applications :
          record' = [record EXCEPT ![a] =
                       [terms |-> Asked(app), version |-> policy, status |-> "active"]]
    BY <1>1 DEF Approve
  <2>2. a \notin withdrawn /\ withdrawn' = withdrawn
    BY <1>1 DEF Approve, WithdrawalInv, history
  <2> QED
    BY <2>1, <2>2 DEF TypeOK, WithdrawalInv
<1>2. ASSUME NEW a \in Auths, EditRecord(a) PROVE WithdrawalInv'
  <2>1. PICK terms \in TermType :
          record' = [record EXCEPT ![a] = [terms |-> terms, version |-> record[a].version,
                                           status |-> record[a].status]]
    BY <1>2, EditedRecord
  <2>2. record[a] # None /\ withdrawn' = withdrawn
    BY <1>2 DEF EditRecord, history
  <2>3. \A b \in Auths : record[b] # None => record'[b] # None
    BY RecordsStay
  <2>4. \A b \in Auths : record'[b] # None =>
          record[b] # None /\ record'[b].status = record[b].status
    BY <2>1, <2>2 DEF TypeOK
  <2> QED
    BY <2>2, <2>3, <2>4 DEF WithdrawalInv
<1>3. ASSUME NEW r \in Requests, CommitChange(r) PROVE WithdrawalInv'
  <2>1. PICK a \in Auths, to \in {"suspended", "revoked"} :
          /\ record[a] # None
          /\ record' = [record EXCEPT ![a] = [terms |-> record[a].terms,
                          version |-> record[a].version, status |-> to]]
          /\ withdrawn' = withdrawn \cup {a}
    BY <1>3, CommittedRecord
  <2>2. record'[a] # None
    BY <2>1, RecordsStay
  <2>3. record'[a].status = to /\ to # "active"
    BY <2>1 DEF TypeOK
  <2>4. \A b \in Auths : b # a => record'[b] = record[b]
    BY <2>1 DEF TypeOK
  <2> QED
    BY <2>1, <2>2, <2>3, <2>4 DEF WithdrawalInv
<1>4. ASSUME UNCHANGED <<record, withdrawn>> PROVE WithdrawalInv'
  BY <1>4 DEF WithdrawalInv
<1> QED
  BY <1>1, <1>2, <1>3, <1>4 DEF Next, ReadChange, ReadForScan, InsertScan, VerifySnapshot,
     VerifyParent, EditScan, Tick, Redeploy, vars, history

LEMMA StepChange == TypeOK /\ ChangeInv /\ [Next]_vars => ChangeInv'
<1> SUFFICES ASSUME TypeOK, ChangeInv, [Next]_vars,
                    NEW r \in Requests, change'[r] # None
             PROVE  record'[change'[r].auth] # None
  BY DEF ChangeInv
<1>1. CASE change'[r] = change[r]
  <2>1. change[r].auth \in Auths
    BY <1>1 DEF TypeOK, ChangeType
  <2> QED
    BY <1>1, <2>1, RecordsStay DEF ChangeInv
<1>2. ASSUME NEW q \in Requests, NEW a \in Auths, ReadChange(q, a), change'[r] # change[r]
      PROVE  record'[change'[r].auth] # None
  BY <1>2 DEF ReadChange, TypeOK
<1>3. ASSUME NEW q \in Requests, CommitChange(q) PROVE change'[r] = change[r]
  BY <1>3 DEF CommitChange, TypeOK
<1>4. CASE Redeploy
  BY <1>4 DEF Redeploy
<1> QED
  BY <1>1, <1>2, <1>3, <1>4 DEF Next, Approve, EditRecord, ReadForScan, InsertScan,
     VerifySnapshot, VerifyParent, EditScan, Tick, vars

-----------------------------------------------------------------------------
(* The scans. *)

\* Time passes and edits add up.
LEMMA CountersGrow ==
    ASSUME TypeOK, [Next]_vars
    PROVE  /\ now \in Nat /\ now' \in Nat /\ now <= now'
           /\ edits \in Nat /\ edits' \in {edits, edits + 1}
<1> USE BoundsAssumption DEF TypeOK
<1>1. CASE Tick
  BY <1>1 DEF Tick, counts
<1>2. CASE now' = now /\ edits' \in {edits, edits + 1}
  BY <1>2
<1> QED
  BY <1>1, <1>2 DEF Next, Approve, EditRecord, ReadChange, CommitChange, ReadForScan, InsertScan,
     VerifySnapshot, VerifyParent, EditScan, Redeploy, vars, clock, counts

\* What was issued stays as it is.
LEMMA IssuedStays ==
    ASSUME TypeOK, \A s \in Scans : StageInv(s), [Next]_vars,
           NEW t \in Scans, issued[t] # None
    PROVE  issued'[t] = issued[t]
<1>1. ASSUME NEW s \in Scans, InsertScan(s) PROVE issued'[t] = issued[t]
  BY <1>1 DEF InsertScan, StageInv, TypeOK
<1> QED
  BY <1>1 DEF Next, Approve, EditRecord, ReadChange, CommitChange, ReadForScan, VerifySnapshot,
     VerifyParent, EditScan, Tick, Redeploy, vars, history

\* A rendering that agreed with itself goes on doing so.
LEMMA RenderedStays ==
    ASSUME TypeOK, ChangeInv, [Next]_vars,
           NEW s \in Scans, NEW r \in RowType, Rendered(s, r)
    PROVE  Rendered(s, r)'
<1>1. r.auth \in Auths /\ r.core.terms.from \in Nat
  BY DEF RowType, Core, TermType
<1>2. record'[r.auth] # None
  BY <1>1, RecordsStay DEF Rendered
<1>3. r.core.terms.from <= now'
  BY <1>1, CountersGrow DEF Rendered
<1> QED
  BY <1>2, <1>3 DEF Rendered, Effective

\* A record drifts from a rendering only by an edit.
LEMMA DriftIsEdited ==
    ASSUME TypeOK, ChangeInv, [Next]_vars,
           NEW r \in RowType, record[r.auth] # None, edits' # edits + 1
    PROVE  Drifted(r)' <=> Drifted(r)
<1>1. r.auth \in Auths
  BY DEF RowType
<1>2. record'[r.auth].version = record[r.auth].version
      /\ record'[r.auth].terms = record[r.auth].terms
  BY <1>1, RecordsStay
<1> QED
  BY <1>2 DEF Drifted, Render

\* A row goes on being a copy of the one that was issued.
LEMMA CopyStays ==
    ASSUME TypeOK, ChangeInv, \A t \in Scans : StageInv(t), [Next]_vars,
           NEW s \in Scans, issued[s] # None, Rendered(s, issued[s]),
           NEW r \in RowType, CopyOf(s, r)
    PROVE  CopyOf(s, r)'
<1>1. issued[s] \in RowType
  BY DEF TypeOK
<1>2. issued'[s] = issued[s]
  BY <1>1, IssuedStays
<1>3. PICK i \in RowType : i = issued[s]
  BY <1>1
<1>4. issued'[s] = i
  BY <1>2, <1>3
<1> DEFINE differences == Differences(r, i)
<1>5. differences \in Nat
  BY DEF Differences, Count
<1>6. Count(Drifted(i)) + differences <= edits
  BY <1>3 DEF CopyOf, Count
<1>7. record[i.auth] # None
  BY <1>3 DEF Rendered
<1>8. edits \in Nat /\ edits' \in {edits, edits + 1}
  BY CountersGrow
<1>9. Count(Drifted(i)') + differences <= edits'
  <2> HIDE DEF differences
  <2>1. CASE edits' = edits + 1
    BY <1>5, <1>6, <1>8, <2>1 DEF Count
  <2>2. CASE edits' # edits + 1
    <3>1. Drifted(i)' <=> Drifted(i)
      BY <1>7, <2>2, DriftIsEdited
    <3> QED
      BY <1>6, <1>8, <2>2, <3>1 DEF Count
  <2> QED
    BY <2>1, <2>2
<1>10. Drifted(issued[s])' <=> Drifted(i)'
  BY <1>4 DEF Drifted, Render
<1>11. Count(Drifted(issued[s]))' + Differences(r, issued'[s]) <= edits'
  BY <1>4, <1>9, <1>10 DEF Count
<1>12. edits' = 0 => r = issued'[s]
  BY <1>2, <1>8 DEF CopyOf
<1>13. r.project = issued'[s].project
  BY <1>2 DEF CopyOf
<1> QED
  BY <1>11, <1>12, <1>13 DEF CopyOf

\* The stages of a scan follow one another.
LEMMA StepStage ==
    TypeOK /\ (\A s \in Scans : StageInv(s)) /\ [Next]_vars => \A s \in Scans : StageInv(s)'
<1> SUFFICES ASSUME TypeOK, \A t \in Scans : StageInv(t), [Next]_vars, NEW s \in Scans
             PROVE  StageInv(s)'
  OBVIOUS
<1> USE DEF StageInv, TypeOK
<1>1. ASSUME NEW t \in Scans, NEW a \in Auths, ReadForScan(t, a) PROVE StageInv(s)'
  BY <1>1 DEF ReadForScan, history
<1>2. ASSUME NEW t \in Scans, InsertScan(t) PROVE StageInv(s)'
  BY <1>2 DEF InsertScan
<1>3. ASSUME NEW t \in Scans, VerifySnapshot(t) PROVE StageInv(s)'
  BY <1>3, NotNone DEF VerifySnapshot, Decide, Active, history
<1>4. ASSUME NEW t \in Scans, VerifyParent(t) PROVE StageInv(s)'
  BY <1>4 DEF VerifyParent, Decide, history
<1>5. ASSUME NEW t \in Scans, EditScan(t) PROVE StageInv(s)'
  <2>1. /\ row[t] # None
        /\ \E r \in RowType : row' = [row EXCEPT ![t] = r]
    BY <1>5, EditedRow
  <2>2. UNCHANGED <<opening, loaded, verdict, issued>>
    BY <1>5 DEF EditScan, history
  <2>3. row'[s] = None <=> row[s] = None
    BY <2>1, NotNone
  <2> QED
    BY <2>2, <2>3
<1>6. CASE Redeploy
  BY <1>6 DEF Redeploy, history
<1>7. CASE UNCHANGED <<opening, row, loaded, verdict, issued>>
  BY <1>7
<1> QED
  BY <1>1, <1>2, <1>3, <1>4, <1>5, <1>6, <1>7 DEF Next, Approve, EditRecord, ReadChange,
     CommitChange, Tick, vars, history

\* A scan whose own variables stay.
LEMMA ScanStays ==
    ASSUME IInv, [Next]_vars, NEW s \in Scans,
           opening'[s] \in {opening[s], None}, row'[s] = row[s], issued'[s] = issued[s],
           \/ loaded'[s] = loaded[s] /\ verdict'[s] = verdict[s]
           \/ loaded'[s] = None /\ verdict'[s] = "none"
    PROVE  ScanInv(s)'
<1> USE DEF IInv
<1>1. \A t \in Scans : StageInv(t)
  BY DEF ScanInv
<1>2. StageInv(s)'
  BY <1>1, StepStage
<1>3. edits \in Nat /\ edits' \in {edits, edits + 1}
  BY CountersGrow
<1>4. ASSUME opening'[s] # None
      PROVE  (Rendered(s, opening[s]) /\ Count(Drifted(opening[s])) <= edits)'
  <2>1. PICK r \in RowType : r = opening[s]
    BY <1>4 DEF TypeOK
  <2>2. Rendered(s, r) /\ Count(Drifted(r)) <= edits
    BY <1>4, <2>1 DEF ScanInv
  <2>3. Rendered(s, r)'
    BY <2>2, RenderedStays
  <2>4. Count(Drifted(r)') <= edits'
    BY <1>3, <2>2, DriftIsEdited DEF Count, Rendered
  <2>5. opening'[s] = r
    BY <1>4, <2>1
  <2> QED
    BY <2>3, <2>4, <2>5 DEF Rendered, Drifted, Count, Render
<1>5. ASSUME issued[s] # None PROVE Rendered(s, issued[s])'
  <2>1. PICK r \in RowType : r = issued[s]
    BY <1>5 DEF TypeOK
  <2>2. Rendered(s, r)'
    BY <1>5, <2>1, RenderedStays DEF ScanInv
  <2> QED
    BY <2>1, <2>2 DEF Rendered
<1>6. ASSUME row[s] # None PROVE CopyOf(s, row[s])'
  <2>1. PICK r \in RowType : r = row[s]
    BY <1>6 DEF TypeOK
  <2>2. CopyOf(s, r)'
    BY <1>1, <1>6, <2>1, CopyStays DEF ScanInv, StageInv
  <2> QED
    BY <2>1, <2>2 DEF CopyOf
<1>7. ASSUME loaded'[s] # None PROVE CopyOf(s, loaded[s])'
  <2>1. PICK r \in RowType : r = loaded[s] /\ r = loaded'[s]
    BY <1>7 DEF TypeOK
  <2>2. loaded[s] # None
    BY <1>7, <2>1
  <2>3. CopyOf(s, r)'
    BY <1>1, <2>1, <2>2, CopyStays DEF ScanInv, StageInv
  <2> QED
    BY <2>1, <2>3 DEF CopyOf
<1>8. verdict'[s] = "verified" =>
        /\ edits' <= 1 => loaded'[s] = issued'[s]
        /\ edits' <= 2 => SameButForProfileId(loaded'[s], issued'[s])
  BY <1>3 DEF ScanInv
<1>9. verdict'[s] = "none" /\ loaded'[s] # None =>
        loaded'[s].embedded = loaded'[s].core /\ loaded'[s].digest = loaded'[s].core
  BY DEF ScanInv
<1> QED
  BY <1>2, <1>4, <1>5, <1>6, <1>7, <1>8, <1>9 DEF ScanInv

\* A request renders the record as it is.
LEMMA ReadKeepsScans ==
    ASSUME IInv, NEW t \in Scans, NEW a \in Auths, ReadForScan(t, a), NEW s \in Scans
    PROVE  ScanInv(s)'
<1>1. [Next]_vars
  BY DEF Next
<1>2. UNCHANGED <<now, policy, record, row, loaded, verdict, edits, issued>>
  BY DEF ReadForScan, clock, counts, history
<1>3. TypeOK /\ ChangeInv /\ ScanInv(s) /\ \A q \in Scans : StageInv(q)
  BY DEF IInv, ScanInv
<1>4. StageInv(s)'
  BY <1>1, <1>3, StepStage
<1>5. PICK r \in RowType :
        /\ opening' = [opening EXCEPT ![t] = r]
        /\ r.auth = a /\ r.core = Render(a)
        /\ r.project = record[a].terms.project
        /\ r.embedded = r.core /\ r.digest = r.core
        /\ r.profile = Profile(t, a, r.project) /\ r.profileDigest = r.profile
  BY <1>3, OpenedRow
<1>6. CASE s = t
  <2>1. opening'[s] = r
    BY <1>3, <1>5, <1>6 DEF TypeOK
  <2>2. Worthy(a)
    BY DEF ReadForScan
  <2>3. Rendered(s, r)
    BY <1>5, <1>6, <2>2 DEF Rendered, Render, Profile, Worthy
  <2>4. ~Drifted(r) /\ edits \in Nat
    BY <1>1, <1>3, <1>5, CountersGrow DEF Drifted
  <2>5. (Rendered(s, opening[s]) /\ Count(Drifted(opening[s])) <= edits)'
    BY <1>2, <2>1, <2>3, <2>4 DEF Rendered, Drifted, Render, Count
  <2> QED
    BY <1>2, <1>3, <1>4, <2>5 DEF ScanInv, Rendered, CopyOf, Drifted, Render
<1>7. CASE s # t
  <2>1. opening'[s] = opening[s]
    BY <1>3, <1>5, <1>7 DEF TypeOK
  <2> QED
    BY <1>1, <1>2, <2>1, ScanStays
<1> QED
  BY <1>6, <1>7

\* The row that is inserted is the one that was rendered.
LEMMA InsertKeepsScans ==
    ASSUME IInv, NEW t \in Scans, InsertScan(t), NEW s \in Scans
    PROVE  ScanInv(s)'
<1>1. [Next]_vars
  BY DEF Next
<1>2. UNCHANGED <<now, policy, record, loaded, verdict, edits>>
  BY DEF InsertScan, clock, counts
<1>3. TypeOK /\ ChangeInv /\ ScanInv(s) /\ \A q \in Scans : StageInv(q)
  BY DEF IInv, ScanInv
<1>4. StageInv(s)'
  BY <1>1, <1>3, StepStage
<1>5. opening'[s] \in {opening[s], None}
  BY <1>3 DEF InsertScan, TypeOK
<1>6. CASE row'[s] = row[s] /\ issued'[s] = issued[s]
  BY <1>1, <1>2, <1>5, <1>6, ScanStays
<1>7. CASE row'[s] # row[s] \/ issued'[s] # issued[s]
  <2>1. s = t /\ opening[s] # None /\ opening'[s] = None
    BY <1>3, <1>7 DEF InsertScan, TypeOK
  <2>2. PICK r \in RowType : r = opening[s]
    BY <1>3, <2>1 DEF TypeOK
  <2>3. row'[s] = r /\ issued'[s] = r
    BY <1>3, <1>7, <2>1, <2>2 DEF InsertScan, TypeOK
  <2>4. row[s] = None /\ loaded[s] = None /\ verdict[s] = "none"
    BY <1>3, <2>1 DEF StageInv
  <2>5. Rendered(s, r) /\ Count(Drifted(r)) <= edits
    BY <1>3, <2>1, <2>2 DEF ScanInv
  <2>6. Rendered(s, issued[s])'
    BY <1>2, <2>3, <2>5 DEF Rendered
  <2>7. CopyOf(s, row[s])'
    <3>1. edits \in Nat
      BY <1>1, <1>3, CountersGrow
    <3>2. Differences(r, r) = 0
      BY DEF Differences, Count
    <3>3. Count(Drifted(r)') + Differences(r, r) <= edits'
      BY <1>2, <2>5, <3>1, <3>2 DEF Drifted, Render, Count
    <3> QED
      BY <2>3, <3>3 DEF CopyOf, Drifted, Render
  <2> QED
    BY <1>2, <1>4, <2>1, <2>4, <2>6, <2>7 DEF ScanInv
<1> QED
  BY <1>6, <1>7

\* The worker loads the row of the scan ...
LEMMA SnapshotKeepsScans ==
    ASSUME IInv, NEW t \in Scans, VerifySnapshot(t), NEW s \in Scans
    PROVE  ScanInv(s)'
<1>1. [Next]_vars
  BY DEF Next
<1>2. UNCHANGED <<now, policy, record, opening, row, edits, issued>>
  BY DEF VerifySnapshot, clock, counts, history
<1>3. TypeOK /\ ScanInv(s) /\ \A q \in Scans : StageInv(q)
  BY DEF IInv, ScanInv
<1>4. CASE s = t
  <2>1. StageInv(s)'
    BY <1>1, <1>3, StepStage
  <2>2. row[s] # None /\ loaded'[s] = row[s] /\ verdict'[s] # "verified"
    BY <1>3, <1>4 DEF VerifySnapshot, Active, Decide, TypeOK
  <2>3. CopyOf(s, loaded[s])'
    BY <1>2, <1>3, <2>2 DEF ScanInv, CopyOf, Drifted, Render
  <2>4. verdict'[s] = "none" =>
          loaded'[s].embedded = loaded'[s].core /\ loaded'[s].digest = loaded'[s].core
    BY <1>3, <1>4, <2>2 DEF VerifySnapshot, SnapshotHolds, Decide, TypeOK
  <2> QED
    BY <1>2, <1>3, <2>1, <2>2, <2>3, <2>4 DEF ScanInv, Rendered, CopyOf, Drifted, Render
<1>5. CASE s # t
  <2>1. loaded'[s] = loaded[s] /\ verdict'[s] = verdict[s]
    BY <1>3, <1>5 DEF VerifySnapshot, Decide, TypeOK
  <2> QED
    BY <1>1, <1>2, <2>1, ScanStays
<1> QED
  BY <1>4, <1>5

\* A row that passes both halves of the verification.
Passes(s, r) ==
    /\ r.embedded = r.core /\ r.digest = r.core
    /\ ParentHolds(r) /\ ProfileHolds(s, r)

\* Four edits are too few to verify a scan under another authorization: key,
\* payload, profile and both digests name it, and none does as issued.
LEMMA VerifiedParent ==
    ASSUME IInv, NEW s \in Scans, loaded[s] # None, edits <= 4, Passes(s, loaded[s])
    PROVE  loaded[s].auth = issued[s].auth
<1> DEFINE r == loaded[s]
           i == issued[s]
<1>1. CopyOf(s, r) /\ Rendered(s, i)
  BY DEF IInv, ScanInv, StageInv
<1>2. edits \in Nat
  BY BoundsAssumption DEF IInv, TypeOK
<1>3. Passes(s, r)
  OBVIOUS
<1>4. Count(Drifted(i)) + Differences(r, i) <= edits
  BY <1>1 DEF CopyOf
<1> HIDE DEF r, i
<1> SUFFICES ASSUME r.auth # i.auth PROVE FALSE
  BY DEF r, i
<1>5. r.core # i.core
  BY <1>1, <1>3 DEF Passes, ParentHolds, Rendered
<1>6. r.profile # i.profile
  BY <1>1, <1>3 DEF Passes, ProfileHolds, Rendered
<1>7. r.digest # i.digest /\ r.profileDigest # i.profileDigest
  BY <1>1, <1>3, <1>5, <1>6 DEF Passes, ProfileHolds, Rendered
<1> QED
  BY <1>2, <1>4, <1>5, <1>6, <1>7 DEF Differences, Count

\* Two edits are too few to deceive the worker: a payload that is not the one
\* issued needs another digest and another record as well, and a profile
\* with its digest is bound to the scan in all but its own id.
LEMMA VerifiedIsIssued ==
    ASSUME IInv, NEW s \in Scans, loaded[s] # None, edits <= 2, Passes(s, loaded[s])
    PROVE  /\ edits <= 1 => loaded[s] = issued[s]
           /\ SameButForProfileId(loaded[s], issued[s])
<1> DEFINE r == loaded[s]
           i == issued[s]
<1>1. CopyOf(s, r) /\ i # None /\ Rendered(s, i)
  BY DEF IInv, ScanInv, StageInv
<1>2. r \in RowType /\ i \in RowType
  BY <1>1 DEF IInv, TypeOK
<1>3. edits \in Nat
  BY BoundsAssumption DEF IInv, TypeOK
<1>4. r.auth = i.auth
  BY <1>3, VerifiedParent
<1>5. Passes(s, r)
  OBVIOUS
<1>6. Count(Drifted(i)) + Differences(r, i) <= edits
  BY <1>1 DEF CopyOf
<1> HIDE DEF r, i
<1>7. Render(i.auth) = r.core
  BY <1>4, <1>5 DEF Passes, ParentHolds
<1>8. r.core = i.core
  <2> SUFFICES ASSUME r.core # i.core PROVE FALSE
    OBVIOUS
  <2>1. Drifted(i)
    BY <1>7 DEF Drifted
  <2>2. r.digest # i.digest
    BY <1>1, <1>5 DEF Passes, Rendered
  <2> QED
    BY <1>3, <1>6, <2>1, <2>2 DEF Differences, Count
<1>9. r.embedded = i.embedded /\ r.digest = i.digest
  BY <1>1, <1>5, <1>8 DEF Passes, Rendered
<1>10. r.project = i.project
  BY <1>1 DEF CopyOf, i
<1>11. r.profileDigest = r.profile /\ i.profileDigest = i.profile
  BY <1>1, <1>5 DEF Passes, ProfileHolds, Rendered
<1>12. ASSUME edits <= 1 PROVE r.profile = i.profile
  <2> SUFFICES ASSUME r.profile # i.profile PROVE FALSE
    OBVIOUS
  <2> QED
    BY <1>3, <1>6, <1>11, <1>12 DEF Differences, Count
<1>13. r.profile \in ProfileType /\ i.profile \in ProfileType
  BY <1>2 DEF RowType
<1>14. r.core.version = policy
  BY <1>5, <1>4, <1>7 DEF Passes, ParentHolds, Worthy, Render
<1>15. /\ r.profile.scan = i.profile.scan /\ r.profile.auth = i.profile.auth
       /\ r.profile.project = i.profile.project /\ r.profile.version = i.profile.version
       /\ r.profile.pinned = i.profile.pinned
  BY <1>1, <1>4, <1>5, <1>8, <1>10, <1>13, <1>14 DEF Passes, ProfileHolds, Rendered, ProfileType
<1>16. [r.profile EXCEPT !.id = i.profile.id] = i.profile
  BY <1>13, <1>15 DEF ProfileType
<1> DEFINE asIssued(p) == [p EXCEPT !.id = i.profile.id]
           asDigested(p) == [p EXCEPT !.id = i.profileDigest.id]
<1>17. [r EXCEPT !.profile.id = i.profile.id, !.profileDigest.id = i.profileDigest.id]
         = [r EXCEPT !.profile = asIssued(r.profile),
                     !.profileDigest = asDigested(r.profileDigest)]
  BY <1>2 DEF RowType
<1>18. SameButForProfileId(r, i)
  <2>1. asIssued(r.profile) = i.profile /\ asDigested(r.profileDigest) = i.profileDigest
    BY <1>11, <1>16
  <2> HIDE DEF asIssued, asDigested
  <2>2. [r EXCEPT !.profile = i.profile, !.profileDigest = i.profileDigest] = i
    BY <1>2, <1>4, <1>8, <1>9, <1>10 DEF RowType
  <2> QED
    BY <1>17, <2>1, <2>2 DEF SameButForProfileId
<1>19. edits <= 1 => r = i
  BY <1>2, <1>4, <1>8, <1>9, <1>10, <1>11, <1>12 DEF RowType
<1> QED
  BY <1>18, <1>19 DEF r, i

\* ... and decides about what it has loaded.
LEMMA ParentKeepsScans ==
    ASSUME IInv, NEW t \in Scans, VerifyParent(t), NEW s \in Scans
    PROVE  ScanInv(s)'
<1>1. [Next]_vars
  BY DEF Next
<1>2. UNCHANGED <<now, policy, record, opening, row, loaded, edits, issued>>
  BY DEF VerifyParent, clock, counts, history
<1>3. TypeOK /\ ScanInv(s) /\ \A q \in Scans : StageInv(q)
  BY DEF IInv, ScanInv
<1>4. CASE s = t
  <2>1. StageInv(s)'
    BY <1>1, <1>3, StepStage
  <2>2. loaded[s] # None /\ verdict[s] = "none" /\ verdict'[s] \in {"verified", "rejected"}
    BY <1>3, <1>4 DEF VerifyParent, Decide, TypeOK
  <2>3. verdict'[s] = "verified" =>
          ParentHolds(loaded[s]) /\ ProfileHolds(s, loaded[s])
    BY <1>3, <1>4 DEF VerifyParent, Decide, TypeOK
  <2>4. verdict'[s] = "verified" =>
          /\ edits <= 1 => loaded[s] = issued[s]
          /\ edits <= 2 => SameButForProfileId(loaded[s], issued[s])
    <3>1. edits \in Nat
      BY <1>1, <1>3, CountersGrow
    <3> QED
      BY <1>3, <2>2, <2>3, <3>1, VerifiedIsIssued DEF ScanInv, Passes
  <2> QED
    BY <1>2, <1>3, <2>1, <2>2, <2>4 DEF ScanInv, Rendered, CopyOf, Drifted, Render
<1>5. CASE s # t
  <2>1. verdict'[s] = verdict[s]
    BY <1>3, <1>5 DEF VerifyParent, Decide, TypeOK
  <2> QED
    BY <1>1, <1>2, <2>1, ScanStays
<1> QED
  BY <1>4, <1>5

\* An edited row is still a copy, one edit further away.
LEMMA EditKeepsScans ==
    ASSUME IInv, NEW t \in Scans, EditScan(t), NEW s \in Scans
    PROVE  ScanInv(s)'
<1>1. [Next]_vars
  BY DEF Next
<1>2. UNCHANGED <<now, policy, record, opening, loaded, verdict, issued>>
  BY DEF EditScan, clock, history
<1>3. TypeOK /\ ChangeInv /\ ScanInv(s) /\ \A q \in Scans : StageInv(q)
  BY DEF IInv, ScanInv
<1>4. StageInv(s)'
  BY <1>1, <1>3, StepStage
<1>5. edits' = edits + 1 /\ edits \in Nat
  BY <1>1, <1>3, CountersGrow DEF EditScan
<1>6. PICK r \in RowType :
        /\ row' = [row EXCEPT ![t] = r]
        /\ r.project = row[t].project
        /\ \A i \in RowType : Differences(r, i) <= Differences(row[t], i) + 1
  BY <1>3, EditedRow
<1>7. CASE s = t
  <2>1. row'[s] = r /\ row[s] # None
    BY <1>3, <1>6, <1>7, EditedRow DEF TypeOK
  <2>2. CopyOf(s, row[s]) /\ issued[s] # None
    BY <1>3, <2>1 DEF ScanInv, StageInv
  <2>3. PICK i \in RowType : i = issued[s]
    BY <1>3, <2>2 DEF TypeOK
  <2>4. Count(Drifted(i)) + Differences(row[s], i) <= edits
    BY <2>2, <2>3 DEF CopyOf
  <2>5. Differences(r, i) <= Differences(row[s], i) + 1
    BY <1>6, <1>7
  <2>6. r.project = i.project
    BY <1>6, <1>7, <2>2, <2>3 DEF CopyOf
  <2>7. Count(Drifted(i)) + Differences(r, i) <= edits + 1
    BY <1>5, <2>4, <2>5 DEF Differences, Count
  <2>8. CopyOf(s, row[s])'
    BY <1>2, <1>5, <2>1, <2>3, <2>6, <2>7 DEF CopyOf, Drifted, Render
  <2>9. (opening[s] # None => Rendered(s, opening[s]) /\ Count(Drifted(opening[s])) <= edits)'
    BY <1>3, <1>4, <2>1, NotNone DEF StageInv
  <2>10. Rendered(s, issued[s])'
    BY <1>2, <1>3, <2>2 DEF ScanInv, Rendered
  <2>11. (loaded[s] # None => CopyOf(s, loaded[s]))'
    <3> SUFFICES ASSUME loaded[s] # None PROVE CopyOf(s, loaded[s])'
      BY <1>2
    <3>1. PICK l \in RowType : l = loaded[s]
      BY <1>3 DEF TypeOK
    <3>2. CopyOf(s, l)'
      BY <1>1, <1>3, <2>2, <3>1, CopyStays DEF ScanInv
    <3> QED
      BY <1>2, <3>1, <3>2 DEF CopyOf
  <2> QED
    <3>1. loaded'[s] = None
      BY <1>7, <1>2 DEF EditScan
    <3>2. verdict'[s] # "verified"
      BY <1>4, <3>1 DEF StageInv
    <3> QED
      BY <1>2, <1>3, <1>4, <1>5, <2>8, <2>9, <2>10, <2>11, <3>1, <3>2 DEF ScanInv
<1>8. CASE s # t
  <2>1. row'[s] = row[s]
    BY <1>3, <1>6, <1>8 DEF TypeOK
  <2> QED
    BY <1>1, <1>2, <2>1, ScanStays
<1> QED
  BY <1>7, <1>8

LEMMA StepScans == IInv /\ [Next]_vars => \A s \in Scans : ScanInv(s)'
<1> SUFFICES ASSUME IInv, [Next]_vars, NEW s \in Scans PROVE ScanInv(s)'
  OBVIOUS
<1>1. CASE Redeploy
  <2>1. /\ opening'[s] = None /\ row'[s] = row[s] /\ issued'[s] = issued[s]
        /\ verdict'[s] = verdict[s]
        /\ loaded'[s] = loaded[s] \/ (loaded'[s] = None /\ verdict[s] = "none")
    BY <1>1 DEF Redeploy, history
  <2> QED
    BY <2>1, ScanStays
<1>2. CASE UNCHANGED <<opening, row, loaded, verdict, issued>>
  BY <1>2, ScanStays
<1>3. CASE \E t \in Scans : InsertScan(t) \/ VerifySnapshot(t) \/ VerifyParent(t) \/ EditScan(t)
  BY <1>3, InsertKeepsScans, SnapshotKeepsScans, ParentKeepsScans, EditKeepsScans
<1>4. CASE \E t \in Scans, a \in Auths : ReadForScan(t, a)
  BY <1>4, ReadKeepsScans
<1> QED
  BY <1>1, <1>2, <1>3, <1>4 DEF Next, Approve, EditRecord, ReadChange, CommitChange, Tick,
     vars, history

-----------------------------------------------------------------------------
(* The theorems. *)

LEMMA InitIInv == Init => IInv
<1> SUFFICES ASSUME Init PROVE IInv
  OBVIOUS
<1>1. TypeOK
  BY InitType
<1>2. WithdrawalInv /\ ChangeInv
  BY DEF Init, WithdrawalInv, ChangeInv
<1>3. \A s \in Scans : ScanInv(s)
  BY DEF Init, ScanInv, StageInv
<1> QED
  BY <1>1, <1>2, <1>3 DEF IInv

LEMMA StepIInv == IInv /\ [Next]_vars => IInv'
<1> SUFFICES ASSUME IInv, [Next]_vars PROVE IInv'
  OBVIOUS
<1>1. TypeOK' /\ WithdrawalInv' /\ ChangeInv'
  BY StepType, StepWithdrawal, StepChange DEF IInv
<1>2. \A s \in Scans : ScanInv(s)'
  BY StepScans
<1> QED
  BY <1>1, <1>2 DEF IInv

\* Every variable has its type, and every approved record its lifetime unless
\* it was edited.
THEOREM TypeCorrect == Spec => []TypeOK
<1>1. IInv => TypeOK
  BY DEF IInv
<1> QED
  BY InitIInv, StepIInv, <1>1, PTL DEF Spec

\* After one edit a scan is verified only with the very columns it was created
\* with, after two with those but for the id of its profile.
THEOREM TamperingIsNoticed == Spec => []VerifiedAsIssued
<1>1. IInv => VerifiedAsIssued
  BY DEF IInv, ScanInv, VerifiedAsIssued
<1> QED
  BY InitIInv, StepIInv, <1>1, PTL DEF Spec

\* A scan whose authorization was suspended or revoked is never verified,
\* however the requests overlap, while fewer than five columns were edited.
THEOREM WithdrawalIsFinal == Spec => WithdrawnNeverVerified
<1> DEFINE Kept ==
      \A s \in Scans :
         edits <= 4 /\ verdict[s] = "none" /\ verdict'[s] = "verified" =>
            Parent(s) \notin withdrawn
<1>1. IInv /\ [Next]_vars => Kept
  <2> SUFFICES ASSUME IInv, [Next]_vars, NEW s \in Scans,
                      edits <= 4, verdict[s] = "none", verdict'[s] = "verified"
               PROVE  Parent(s) \notin withdrawn
    OBVIOUS
  <2>1. VerifyParent(s)
    BY DEF IInv, TypeOK, Next, Approve, EditRecord, ReadChange, CommitChange, ReadForScan,
       InsertScan, VerifySnapshot, VerifyParent, EditScan, Tick, Redeploy, vars, Decide, history
  <2>2. loaded[s] # None /\ ParentHolds(loaded[s]) /\ ProfileHolds(s, loaded[s])
    BY <2>1 DEF VerifyParent, Decide, IInv, TypeOK
  <2>3. loaded[s].auth = Parent(s)
    <3>1. loaded[s].embedded = loaded[s].core /\ loaded[s].digest = loaded[s].core
      BY <2>2 DEF IInv, ScanInv
    <3> QED
      BY <2>2, <3>1, VerifiedParent DEF Parent, Passes
  <2>4. Worthy(loaded[s].auth)
    BY <2>2 DEF ParentHolds
  <2>5. loaded[s].auth \in Auths
    BY <2>2 DEF IInv, TypeOK, RowType
  <2> QED
    BY <2>3, <2>4, <2>5 DEF IInv, WithdrawalInv, Worthy
<1>2. IInv /\ [Next]_vars => [Kept]_vars
  BY <1>1
<1> QED
  BY InitIInv, StepIInv, <1>2, PTL DEF Spec, WithdrawnNeverVerified

\* Nothing but an edit, a withdrawal, the end of the window or another policy
\* version turns a scan down.
THEOREM UntouchedPasses == Spec => UntouchedIsVerified
<1> DEFINE Justified(s) ==
      \/ edits > 0 \/ Parent(s) \in withdrawn
      \/ now >= issued[s].core.terms.until
      \/ policy # issued[s].core.version
<1>1. ASSUME IInv, [Next]_vars, NEW s \in Scans, issued[s] # None,
             ~Justified(s), NEW r \in {row[s], loaded[s]}, r # None
      PROVE  SnapshotHolds(r) /\ ParentHolds(r) /\ ProfileHolds(s, r)
  <2>1. edits = 0
    BY <1>1, CountersGrow DEF IInv
  <2>2. r = issued[s] /\ Rendered(s, r) /\ Count(Drifted(r)) <= 0
    <3>1. CopyOf(s, r) /\ Rendered(s, issued[s])
      BY <1>1 DEF IInv, ScanInv
    <3>2. r = issued[s]
      BY <2>1, <3>1 DEF CopyOf
    <3>3. Count(Drifted(r)) <= 0
      BY <2>1, <3>1, <3>2 DEF CopyOf, Differences, Count
    <3> QED
      BY <3>1, <3>2, <3>3
  <2>3. r \in RowType
    BY <1>1, <2>2 DEF IInv, TypeOK
  <2>4. r.auth \in Auths /\ r.auth \notin withdrawn
    BY <1>1, <2>2, <2>3 DEF Parent, RowType
  <2>5. ~Drifted(r)
    BY <2>2 DEF Count
  <2>6. Render(r.auth) = r.core
    BY <2>5 DEF Drifted
  <2>7. now \in Nat /\ r.core.terms.until \in Nat
    BY <1>1, <2>3, CountersGrow DEF IInv, RowType, Core, TermType
  <2>8. now < r.core.terms.until /\ policy = r.core.version
    BY <1>1, <2>2, <2>7
  <2>9. record[r.auth] # None /\ record[r.auth].status = "active"
    BY <1>1, <2>2, <2>4 DEF IInv, WithdrawalInv, Rendered
  <2>10. Worthy(r.auth)
    BY <2>2, <2>6, <2>8, <2>9 DEF Worthy, Render, Rendered
  <2>11. r.core.terms.project = record[r.auth].terms.project
    BY <2>6 DEF Render
  <2> QED
    BY <2>2, <2>6, <2>8, <2>10, <2>11 DEF SnapshotHolds, ParentHolds, ProfileHolds, Rendered
<1>2. IInv /\ [Next]_vars =>
        \A s \in Scans : verdict[s] = "none" /\ verdict'[s] = "rejected" => Justified(s)
  <2> SUFFICES ASSUME IInv, [Next]_vars, NEW s \in Scans,
                      verdict[s] = "none", verdict'[s] = "rejected", ~Justified(s)
               PROVE  FALSE
    OBVIOUS
  <2> HIDE DEF Justified
  <2>1. VerifySnapshot(s) \/ VerifyParent(s)
    BY DEF IInv, TypeOK, Next, Approve, EditRecord, ReadChange, CommitChange, ReadForScan,
       InsertScan, VerifySnapshot, VerifyParent, EditScan, Tick, Redeploy, vars, Decide, history
  <2>2. CASE VerifySnapshot(s)
    <3>1. row[s] # None /\ ~SnapshotHolds(row[s])
      BY <2>2 DEF VerifySnapshot, Active, Decide, IInv, TypeOK
    <3>2. issued[s] # None
      BY <3>1 DEF IInv, ScanInv, StageInv
    <3> QED
      BY <1>1, <3>1, <3>2
  <2>3. CASE VerifyParent(s)
    <3>1. loaded[s] # None /\ ~(ParentHolds(loaded[s]) /\ ProfileHolds(s, loaded[s]))
      BY <2>3 DEF VerifyParent, Decide, IInv, TypeOK
    <3>2. issued[s] # None
      BY <3>1 DEF IInv, ScanInv, StageInv
    <3> QED
      BY <1>1, <3>1, <3>2
  <2> QED
    BY <2>1, <2>2, <2>3
<1>3. IInv /\ [Next]_vars =>
        [\A s \in Scans : verdict[s] = "none" /\ verdict'[s] = "rejected" => Justified(s)]_vars
  BY <1>2
<1> QED
  BY InitIInv, StepIInv, <1>3, PTL DEF Spec, UntouchedIsVerified

=============================================================================
