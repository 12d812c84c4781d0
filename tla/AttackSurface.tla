---------------------------- MODULE AttackSurface ----------------------------
(***************************************************************************)
(* What a scan stores about its targets, backend/services/                 *)
(* result_persistence.py: the assets of the discovery stage and their DNS  *)
(* answers, written through one session and committed together; the        *)
(* findings, each written and committed while the agent runs; and the      *)
(* asset pass of the scan's last transaction, which stores what the tools  *)
(* observed and links the findings that have no asset yet.                 *)
(*                                                                         *)
(* The unique index on (scan, asset_type, value) makes the pair            *)
(* <<type, value>> the identity of a row.  Names are compared in their     *)
(* normal form; a raw name, as a tool spells it, has one or has none.      *)
(* Katana, which no registry offers, and descriptive attributes are left   *)
(* out.                                                                    *)
(***************************************************************************)
EXTENDS Integers, Sequences, SequencesExt, FiniteSets, FiniteSetsExt

CONSTANTS RawNames,     \* names as tools and users spell them
          Normal,       \* raw name -> normal form, NoName if malformed
          Below,        \* name -> its proper descendants
          NoName,
          Snapshot,     \* target_snapshot: set of [type, value]
          Urls,         \* URLs tools report
          UrlHost,      \* url -> host, NoHost or Unparsable
          NoHost, Unparsable,
          ServiceAt,    \* ip or NoHost -> "host:port"
          Usable,       \* key -> answers of the right kind for it
          DnsCap,       \* values kept per key
          AssetCap,     \* MAX_ASSETS_PER_RUN
          LinkCap,      \* MAX_FINDING_LINKS
          Observable,   \* observations a tool may return
          Answerable,   \* dnsx records with the names that were queried
          Reportable,   \* findings nuclei may report
          ObsLimit      \* bound: observations and answers of each stage

\* normalize_hostname
NormalizeHostname(raw) == Normal[raw]

\* is_within_domain, the domain itself excepted.
Inside(raw, domain) == NormalizeHostname(raw) \in Below[domain]

Keys == {"a", "aaaa", "cname"}

ASSUME NamesAssumption ==
    /\ Normal \in [RawNames -> RawNames \cup {NoName}]
    /\ Below \in [RawNames -> SUBSET RawNames]
    /\ \A n \in RawNames : n \notin Below[n]
    /\ DOMAIN UrlHost = Urls /\ Unparsable \notin RawNames \cup DOMAIN ServiceAt
    /\ NoHost \in DOMAIN ServiceAt

\* A URL has a scheme, a service a port, and an address is no name: only the
\* rows of one name can have the same value.
ASSUME ValuesAssumption ==
    /\ RawNames \cap Urls = {} /\ RawNames \cap DOMAIN ServiceAt = {}
    /\ RawNames \cap Range(ServiceAt) = {} /\ Urls \cap DOMAIN ServiceAt = {}
    /\ Urls \cap Range(ServiceAt) = {} /\ DOMAIN ServiceAt \cap Range(ServiceAt) = {}

ASSUME CapsAssumption ==
    /\ {DnsCap, AssetCap} \subseteq Nat \ {0} /\ {LinkCap, ObsLimit} \subseteq Nat
    /\ Usable \in [Keys -> SUBSET Int]
    /\ \A k \in Keys : IsFiniteSet(Usable[k])

\* What a tool hands over: hosts and ports, URLs, or the domain subfinder was
\* run for with the names it found, resolved exactly if addresses come along.
ASSUME ObservableAssumption ==
    \A o \in Observable :
        /\ o.tool = "nmap"      => o.hosts \in Seq([ip : DOMAIN ServiceAt, open : BOOLEAN])
        /\ o.tool = "httpx"     => o.urls \in Seq(Urls)
        /\ o.tool = "subfinder" =>
             /\ o.domain \in RawNames
             /\ \A i \in DOMAIN o.subdomains :
                  o.subdomains[i].status =
                    IF o.subdomains[i].a = {} THEN "unverified" ELSE "resolved"
             /\ o.subdomains \in Seq([host : RawNames, a : SUBSET Int,
                                      status : {"unverified", "resolved"}])

VARIABLES
  phase,    \* discovery, answers, agent, stored or lost (no asset pass)
  assets,   \* committed rows: identity -> [host, parent, dns, status]
  draft,    \* rows as the session of the discovery stage sees them
  seen,     \* tool observations of the agent's run, in order
  findings, \* fingerprint -> [row, asset]
  (* history *)
  told,     \* <<identity, key, answer>> of every answer a row was given
  calls     \* calls of persistence in the discovery stage

vars == <<phase, assets, draft, seen, findings, told, calls>>

NoAsset == <<"none", "none">>
NoRows  == [id \in {} |-> {}]
NoDns   == [k \in Keys |-> {}]

Init ==
    /\ phase = "discovery"
    /\ assets = NoRows /\ draft = NoRows
    /\ seen = << >> /\ findings = NoRows
    /\ told = {} /\ calls = 0

-----------------------------------------------------------------------------
(* From observations to rows. *)

Row(type, value, host) ==
    [id |-> <<type, value>>, host |-> host, hint |-> NoAsset,
     dns |-> NoDns, status |-> "none"]

\* snapshot_parents: networks are no names.
SnapshotParents ==
    ({NormalizeHostname(e.value) : e \in {s \in Snapshot : s.type \in {"host", "domain"}}}
       \cup {UrlHost[e.value] : e \in {s \in Snapshot : s.type = "url"}})
    \cap RawNames

\* build_domain_asset
DomainRow(name) == Row("domain", name, name)

\* build_subdomain_asset: the domain is a hint, looked up when the row is
\* stored; what subfinder resolved itself comes with it.
SubdomainRow(name, domain, entry) ==
    [Row("subdomain", name, name) EXCEPT
        !.hint = <<"domain", domain>>,
        !.dns = [NoDns EXCEPT !["a"] = entry.a],
        !.status = entry.status]

\* The rows of the entries that are proper descendants of the domain.
DescendantRows(o, domain) ==
    FlattenSeq([i \in DOMAIN o.subdomains |->
        LET e == o.subdomains[i]
        IN  IF Inside(e.host, domain)
            THEN <<SubdomainRow(NormalizeHostname(e.host), domain, e)>> ELSE << >>])

\* Defect: the domain's row comes after those that hang below it.
DomainLast(o) ==
    LET domain == NormalizeHostname(o.domain)
    IN  IF domain \notin SnapshotParents THEN << >>
        ELSE DescendantRows(o, domain) \o <<DomainRow(domain)>>

\* The domain must be a parent of the snapshot.
SubfinderRows(o) ==
    LET domain == NormalizeHostname(o.domain)
    IN  IF domain \notin SnapshotParents THEN << >>
        ELSE <<DomainRow(domain)>> \o DescendantRows(o, domain)

\* nmap: a row for the address and one for each open port, which is not
\* attributed to any host if the address is missing.
ServiceRows(h) ==
    (IF h.ip = NoHost THEN << >> ELSE <<Row("host", h.ip, h.ip)>>) \o
    (IF h.open THEN <<Row("service", ServiceAt[h.ip], h.ip)>> ELSE << >>)

\* httpx: a URL urlparse rejects takes the host of the one before it, whose
\* result the variable still holds.
UrlRows(urls) ==
    [i \in DOMAIN urls |->
        LET parsed == {j \in 1 .. i : UrlHost[urls[j]] # Unparsable}
        IN  Row("url", urls[i], UrlHost[urls[Max(parsed)]])]

\* There is no result to hold yet: UnboundLocalError.
Raises(o) == o.tool = "httpx" /\ o.urls # << >> /\ UrlHost[o.urls[1]] = Unparsable

\* assets_from_observation: dnsx and nuclei yield no rows.
Derived(o) ==
    CASE o.tool = "nmap"      -> FlattenSeq([i \in DOMAIN o.hosts |-> ServiceRows(o.hosts[i])])
      [] o.tool = "httpx"     -> IF Raises(o) THEN << >> ELSE UrlRows(o.urls)
      [] o.tool = "subfinder" -> SubfinderRows(o)
      [] OTHER                -> << >>

AllDerived(observations) ==
    FlattenSeq([i \in DOMAIN observations |-> Derived(observations[i])])

\* Nothing is derived any more once the cap is reached.
PassRaises(observations) ==
    \E i \in DOMAIN observations :
        /\ Raises(observations[i])
        /\ Len(AllDerived(SubSeq(observations, 1, i - 1))) < AssetCap

\* persist_assets_from_observations: the first AssetCap rows, of which those
\* are added whose identity is new; parents are looked up afterwards.
New(rows, derived) ==
    LET cut == SubSeq(derived, 1, IF Len(derived) <= AssetCap THEN Len(derived) ELSE AssetCap)
    IN  {cut[i] : i \in {n \in DOMAIN cut :
            /\ cut[n].id \notin DOMAIN rows
            /\ \A k \in 1 .. n - 1 : cut[k].id # cut[n].id}}

Persisted(rows, new) ==
    LET ids    == DOMAIN rows \cup {r.id : r \in new}
        Stored(r) == [host |-> r.host, dns |-> r.dns, status |-> r.status,
                      parent |-> IF r.hint \in ids \ {r.id} THEN r.hint ELSE NoAsset]
    IN  [id \in ids |-> IF id \in DOMAIN rows THEN rows[id]
                        ELSE Stored(CHOOSE r \in new : r.id = id)]

\* What subfinder resolved itself.
Brought(new) ==
    UNION {{<<r.id, "a", x>> : x \in r.dns["a"]} : r \in new}

-----------------------------------------------------------------------------
(* DNS answers. *)

\* sorted(...)[:20]
Smallest(answers) == {x \in answers : Cardinality({y \in answers : y < x}) < DnsCap}

\* _normalize_dnsx_record: answers of the wrong kind are dropped.
Enrichment(record) == [k \in Keys |-> Smallest(record[k] \cap Usable[k])]

HasAddress(answers) == answers["a"] \cup answers["aaaa"] # {}

\* Defect: the last answer replaces the ones before it.
Replaced(row, answers) ==
    [row EXCEPT
        !.dns = [k \in Keys |-> IF answers[k] = {} THEN row.dns[k] ELSE answers[k]],
        !.status = IF HasAddress(answers) /\ row.status = "unverified" THEN "resolved"
                   ELSE row.status]

\* Defect: a status the schema does not know.
MergedSaysVerified(row, answers) == [row EXCEPT !.status = "verified"]

\* _merge_dns_values, and an address settles an unverified name.
Merged(row, answers) ==
    [row EXCEPT
        !.dns = [k \in Keys |-> IF answers[k] = {} THEN row.dns[k]
                                ELSE Smallest(Smallest(row.dns[k] \cap Usable[k]) \cup answers[k])],
        !.status = IF HasAddress(answers) /\ row.status = "unverified" THEN "resolved"
                   ELSE row.status]

\* The rows a record is about: it must be about a name that was queried.
Matching(rows, queried, record) ==
    {id \in DOMAIN rows : /\ id[1] \in {"host", "subdomain", "domain"}
                          /\ NormalizeHostname(record.host) # NoName
                          /\ NormalizeHostname(record.host) \in queried
                          /\ rows[id].host = NormalizeHostname(record.host)}

Enriched(rows, queried, record) ==
    [id \in DOMAIN rows |-> IF id \in Matching(rows, queried, record)
                            THEN Merged(rows[id], Enrichment(record)) ELSE rows[id]]

\* The answers of the right kind that these rows are given.
Given(rows, queried, record) ==
    LET answers == UNION {Usable[k] : k \in Keys}
    IN  {t \in Matching(rows, queried, record) \X Keys \X answers :
           t[3] \in record[t[2]] \cap Usable[t[2]]}

-----------------------------------------------------------------------------
(* Findings. *)

Present(fields) ==
    FlattenSeq([i \in DOMAIN fields |-> IF fields[i] # NoName THEN <<fields[i]>> ELSE << >>])

\* _finding_row_candidates: matched-at, host and ip, as far as there are any.
RowCandidates(f) == Present(<<f.matched, f.host, f.ip>>)

\* _finding_live_candidates: the finding's target, the first of them, leads.
LiveCandidates(f) ==
    LET row == RowCandidates(f) IN IF row = << >> THEN row ELSE <<Head(row)>> \o row

\* Several results of one template for one target are one finding.
Fingerprint(f) == <<f.template, SubSeq(LiveCandidates(f), 1, 1)>>

\* uq_findings_scan_fp
Recorded(f) == Fingerprint(f) \in DOMAIN findings

\* _candidate_host
CandidateHost(c) == IF c \in Urls THEN UrlHost[c] ELSE c

Exact(rows, c) == {id \in DOMAIN rows : id[2] = c}

OfHost(rows, c) ==
    {id \in DOMAIN rows : /\ CandidateHost(c) \notin {NoHost, Unparsable}
                          /\ rows[id].host = CandidateHost(c)}

\* Defect: the first row of the host will do.
ResolveGuessing(rows, candidates) ==
    LET some == {i \in DOMAIN candidates : OfHost(rows, candidates[i]) # {}}
    IN  IF some = {} THEN {NoAsset} ELSE OfHost(rows, candidates[Min(some)])

\* resolve_finding_asset_id: any row with the exact value of the first
\* candidate that has one, else the only row of the host of a candidate.
Resolve(rows, candidates) ==
    LET exact == {i \in DOMAIN candidates : Exact(rows, candidates[i]) # {}}
        sole  == {i \in DOMAIN candidates : Cardinality(OfHost(rows, candidates[i])) = 1}
    IN  IF exact # {} THEN Exact(rows, candidates[Min(exact)])
        ELSE IF sole # {} THEN OfHost(rows, candidates[Min(sole)])
        ELSE {NoAsset}

Unlinked == {fp \in DOMAIN findings : findings[fp].asset = NoAsset}

\* The findings with the assets chosen for them.
Linked(rows, chosen) ==
    LET Targets(fp) == Resolve(rows, RowCandidates(findings[fp].row))
    IN  {[fp \in DOMAIN findings |->
            IF fp \in chosen THEN [findings[fp] EXCEPT !.asset = link[fp]] ELSE findings[fp]] :
         link \in {l \in [chosen -> UNION {Targets(fp) : fp \in chosen}] :
                    \A fp \in chosen : l[fp] \in Targets(fp)}}

\* Defect: the findings are linked to what was stored before.
LinkFindingsFirst(rows) == findings' \in Linked(assets, Unlinked)

\* link_findings_to_assets: at most LinkCap of the findings without an asset.
LinkFindings(rows) ==
    \E chosen \in kSubset(Min({Cardinality(Unlinked), LinkCap}), Unlinked) :
        findings' \in Linked(rows, chosen)

-----------------------------------------------------------------------------
(* The discovery stage. *)

StoreNames ==
    /\ phase = "discovery" /\ calls < ObsLimit
    /\ \E o \in {x \in Observable : x.tool = "subfinder"} :
         LET new == New(draft, Derived(o))
         IN  /\ draft' = Persisted(draft, new)
             /\ told' = told \cup Brought(new)
    /\ calls' = calls + 1
    /\ UNCHANGED <<phase, assets, seen, findings>>

\* dnsx is run after all names are stored and may answer for other names.
\* One record stands for a call with several: they are applied in turn.
StoreAnswers ==
    /\ phase \in {"discovery", "answers"} /\ calls < 2 * ObsLimit
    /\ phase' = "answers"
    /\ \E answer \in Answerable :
         /\ draft' = Enriched(draft, answer.queried, answer.record)
         /\ told' = told \cup Given(draft, answer.queried, answer.record)
    /\ calls' = calls + 1
    /\ UNCHANGED <<assets, seen, findings>>

\* The stage commits, or a failure in the database takes all of it.
CommitDiscovery ==
    /\ phase \in {"discovery", "answers"}
    /\ phase' = "agent"
    /\ \/ assets' = draft /\ UNCHANGED <<draft, told>>
       \/ draft' = NoRows /\ told' = {} /\ UNCHANGED assets
    /\ UNCHANGED <<seen, findings, calls>>

(* The agent's run. *)

Observe ==
    /\ phase = "agent" /\ Len(seen) < ObsLimit
    /\ \E o \in Observable : seen' = Append(seen, o)
    /\ UNCHANGED <<phase, assets, draft, findings, told, calls>>

\* persist_finding: a duplicate changes nothing.
RecordFinding ==
    /\ phase = "agent"
    /\ \E f \in Reportable :
         /\ ~Recorded(f)
         /\ \E id \in Resolve(assets, LiveCandidates(f)) :
              findings' = [fp \in DOMAIN findings \cup {Fingerprint(f)} |->
                             IF fp = Fingerprint(f) THEN [row |-> f, asset |-> id]
                             ELSE findings[fp]]
    /\ UNCHANGED <<phase, assets, draft, seen, told, calls>>

\* The last transaction of the scan.  An exception of the asset pass is
\* caught and the rest is committed without it; a failure in the database
\* takes the transaction.
FinishScan ==
    /\ phase = "agent"
    /\ \/ /\ ~PassRaises(seen)
          /\ phase' = "stored"
          /\ LET new == New(assets, AllDerived(seen))
             IN  /\ assets' = Persisted(assets, new)
                 /\ told' = told \cup Brought(new)
          /\ LinkFindings(assets')
       \/ /\ phase' = "lost"
          /\ UNCHANGED <<assets, findings, told>>
    /\ UNCHANGED <<draft, seen, calls>>

Next == \/ StoreNames \/ StoreAnswers \/ CommitDiscovery
        \/ Observe \/ RecordFinding \/ FinishScan

Spec == Init /\ [][Next]_vars

-----------------------------------------------------------------------------
Statuses == {"none", "unverified", "resolved"}

\* What a row may be about, and whom it may be attributed to.
Identities ==
    ({"domain", "subdomain"} \X RawNames) \cup ({"host"} \X DOMAIN ServiceAt)
      \cup ({"service"} \X Range(ServiceAt)) \cup ({"url"} \X Urls)

Hosts == RawNames \cup DOMAIN ServiceAt \cup (Range(UrlHost) \ {Unparsable})

StoredRows == [host : Hosts, parent : Identities \cup {NoAsset},
               dns : [Keys -> SUBSET Int], status : Statuses]

\* Every row and every finding has its type, no row is attributed to what
\* urlparse rejected, and links lead to rows.
TypeOK ==
    /\ phase \in {"discovery", "answers", "agent", "stored", "lost"} /\ calls \in Nat
    /\ seen \in Seq(Observable)
    /\ \A rows \in {draft, assets} :
         /\ DOMAIN rows \subseteq Identities
         /\ \A id \in DOMAIN rows :
              rows[id] \in StoredRows /\ rows[id].parent \in DOMAIN rows \cup {NoAsset}
    /\ \A fp \in DOMAIN findings :
         /\ findings[fp].row \in Reportable
         /\ findings[fp].asset \in DOMAIN assets \cup {NoAsset}

\* The promotion gate holds in what is stored: a domain is a parent of the
\* snapshot, and every subdomain hangs below the row of a domain it is a
\* descendant of, however the cap cuts the batch and whichever of two nested
\* parents stored it first.
TreeIsRooted ==
    \A id \in DOMAIN assets :
        /\ id[1] = "domain" => id[2] \in SnapshotParents
        /\ id[1] = "subdomain" =>
             /\ assets[id].parent \in DOMAIN assets
             /\ assets[id].parent[1] = "domain"
             /\ id[2] \in Below[assets[id].parent[2]]

\* In whatever order answers arrive a row holds the smallest of those it was
\* given, none that it was not given (it may keep more than the smallest: what
\* subfinder brought is cut by no one before the first merge), and a name
\* counts as resolved exactly if one of them was an address.
DnsIsFaithful ==
    LET rows == IF phase \in {"discovery", "answers"} THEN draft ELSE assets
    IN  \A id \in DOMAIN rows :
        /\ \A k \in Keys :
             LET given == {t[3] : t \in {x \in told : x[1] = id /\ x[2] = k}}
             IN  /\ rows[id].dns[k] \subseteq given
                 /\ Smallest(given \cap Usable[k]) \subseteq rows[id].dns[k]
        /\ id[1] = "subdomain" =>
             (rows[id].status = "resolved" <=> \E t \in told : t[1] = id /\ t[2] # "cname")

\* The rows one name may have, which resolve_finding_asset_id does not tell apart.
SameName(name) == {<<"domain", name>>, <<"subdomain", name>>}

\* Of these rows no other can be meant by the candidates: no other has the
\* value of one of them, or, where none has, the host; but of the two rows of
\* a name the code takes the one that the database returns first.
Unambiguous(rows, candidates, id) ==
    \E c \in candidates :
        \/ id \in Exact(rows, c) /\ Exact(rows, c) \in {{id}, SameName(c)}
        \/ OfHost(rows, c) = {id} /\ \A d \in candidates : Exact(rows, d) = {}

\* A link is given once and is no guess: among the rows stored by then none
\* but the domain and the subdomain of one name can be mistaken for another
\* (README, section 6, on those two).
LinksAreUnambiguous ==
    [][\A fp \in DOMAIN findings' :
         LET f   == findings'[fp]
             was == IF fp \in DOMAIN findings THEN findings[fp].asset ELSE NoAsset
         IN  f.asset # was =>
               was = NoAsset /\ Unambiguous(assets', Range(RowCandidates(f.row)), f.asset)]_vars

\* When the asset pass has gone through, no finding is left without the asset
\* that it names, unless there were more findings than one pass links.
NothingLeftUnlinked ==
    phase = "stored" /\ Cardinality(DOMAIN findings) <= LinkCap =>
        \A fp \in Unlinked : Resolve(assets, RowCandidates(findings[fp].row)) = {NoAsset}

=============================================================================
