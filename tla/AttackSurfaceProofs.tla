------------------------ MODULE AttackSurfaceProofs ------------------------
(***************************************************************************)
(* For every snapshot, cap, observation, answer and finding: what a scan   *)
(* stores about its targets is rooted in the snapshot, holds the DNS       *)
(* answers it was given, and carries findings on rows they name, no guess. *)
(***************************************************************************)
EXTENDS AttackSurface, FiniteSetTheorems, SequenceTheorems, TLAPS

-----------------------------------------------------------------------------
(* Numbers and lists. *)

\* A nonempty set of numbers has a least element.
LEMMA MinimalNat ==
    ASSUME NEW T \in SUBSET Nat, T # {}
    PROVE  \E n \in T : \A m \in T : n <= m
<1>1. IsWellFoundedOn(OpToRel(<, Nat), Nat)
  BY NatLessThanWellFounded
<1>2. \E n \in T : \A m \in T : ~(<<m, n>> \in OpToRel(<, Nat))
  BY <1>1, WFMin
<1>3. \E n \in T : \A m \in T : ~(m < n)
  BY <1>2 DEF OpToRel
<1> QED
  BY <1>3

LEMMA MinProperties ==
    ASSUME NEW T \in SUBSET Nat, T # {}
    PROVE  Min(T) \in T /\ \A m \in T : Min(T) <= m
BY MinimalNat DEF Min

LEMMA MaxProperties ==
    ASSUME NEW n \in Nat, NEW T \in SUBSET (0 .. n), T # {}
    PROVE  Max(T) \in T
<1> DEFINE U == {i \in 0 .. n : n - i \in T}
<1>1. U \in SUBSET Nat /\ U # {}
  <2>1. PICK t \in T : TRUE
    OBVIOUS
  <2>2. n - t \in 0 .. n /\ n - (n - t) = t
    BY <2>1
  <2> QED
    BY <2>1, <2>2
<1>2. PICK u \in U : \A v \in U : u <= v
  BY <1>1, MinimalNat
<1>3. n - u \in T
  BY <1>2
<1>4. ASSUME NEW t \in T PROVE n - u >= t
  <2>1. t \in 0 .. n /\ u \in 0 .. n
    BY <1>2
  <2>2. n - t \in 0 .. n /\ n - (n - t) = t
    BY <2>1
  <2>3. n - t \in U
    BY <2>2
  <2>4. u <= n - t
    BY <1>2, <2>3
  <2> QED
    BY <2>1, <2>4
<1> QED
  BY <1>3, <1>4 DEF Max

LEMMA FunctionIsSeq ==
    ASSUME NEW X, NEW n \in Nat, NEW f \in [1 .. n -> X]
    PROVE  f \in Seq(X) /\ Len(f) = n
<1>1. f \in Seq(X)
  BY SeqDef
<1>2. DOMAIN f = 1 .. Len(f) /\ Len(f) \in Nat /\ DOMAIN f = 1 .. n
  BY <1>1, LenProperties
<1> QED
  BY <1>1, <1>2

LEMMA SingletonSeq ==
    ASSUME NEW X, NEW x \in X
    PROVE  << >> \in Seq(X) /\ <<x>> \in Seq(X) /\ Len(<<x>>) = 1 /\ <<x>>[1] = x
OBVIOUS

\* The function by which FlattenSeq concatenates s[1] to s[m].
IsFlatten(f, m, s) == f = [i \in 1 .. m |-> IF i = 1 THEN s[i] ELSE f[i - 1] \o s[i]]

LEMMA FlattenExists ==
    ASSUME NEW X, NEW s \in Seq(X)
    PROVE  \A n \in Nat : \E f : IsFlatten(f, n, s)
<1> DEFINE Bad == {n \in Nat : ~ \E f : IsFlatten(f, n, s)}
<1> SUFFICES ASSUME Bad # {} PROVE FALSE
  OBVIOUS
<1>1. PICK n \in Bad : \A m \in Bad : n <= m
  <2> Bad \in SUBSET Nat
    OBVIOUS
  <2> HIDE DEF Bad
  <2> QED
    BY MinimalNat
<1>2. CASE n = 0
  <2> DEFINE f == [i \in 1 .. 0 |-> s[i]]
  <2>1. f = [i \in 1 .. 0 |-> IF i = 1 THEN s[i] ELSE f[i - 1] \o s[i]]
    OBVIOUS
  <2> HIDE DEF f
  <2>2. IsFlatten(f, 0, s)
    BY <2>1 DEF IsFlatten
  <2> QED
    BY <1>1, <1>2, <2>2
<1>3. CASE n # 0
  <2>1. n - 1 \in Nat /\ n - 1 \notin Bad
    BY <1>1, <1>3
  <2>2. PICK f : IsFlatten(f, n - 1, s)
    BY <2>1
  <2> DEFINE g == [i \in 1 .. n |->
                     IF i < n THEN f[i] ELSE IF n = 1 THEN s[n] ELSE f[n - 1] \o s[n]]
  <2>3. ASSUME NEW i \in 1 .. n
        PROVE  g[i] = IF i = 1 THEN s[i] ELSE g[i - 1] \o s[i]
    <3>1. CASE i = n
      BY <3>1, <1>3, <2>1
    <3>2. CASE i # n
      <4>1. i \in 1 .. n - 1 /\ i < n /\ i - 1 < n /\ (i # 1 => i - 1 \in 1 .. n)
        BY <3>2, <2>1
      <4>2. f[i] = IF i = 1 THEN s[i] ELSE f[i - 1] \o s[i]
        BY <4>1, <2>2 DEF IsFlatten
      <4> QED
        BY <4>1, <4>2
    <3> QED
      BY <3>1, <3>2
  <2>4. g = [i \in 1 .. n |-> g[i]]
    OBVIOUS
  <2> HIDE DEF g
  <2>5. IsFlatten(g, n, s)
    BY <2>3, <2>4 DEF IsFlatten
  <2> QED
    BY <1>1, <2>5
<1> QED
  BY <1>2, <1>3

\* A set of lists that is closed under concatenation is closed under FlattenSeq.
LEMMA FlattenClosed ==
    ASSUME NEW C, << >> \in C, \A u \in C : \A v \in C : u \o v \in C,
           NEW s \in Seq(C)
    PROVE  FlattenSeq(s) \in C
<1>1. Len(s) \in Nat /\ \A i \in 1 .. Len(s) : s[i] \in C
  BY LenProperties, ElementOfSeq
<1>2. CASE Len(s) = 0
  BY <1>2, EmptySeq DEF FlattenSeq
<1>3. CASE Len(s) # 0
  <2> DEFINE f == CHOOSE g : IsFlatten(g, Len(s), s)
             Bad == {i \in 1 .. Len(s) : f[i] \notin C}
  <2>1. IsFlatten(f, Len(s), s)
    BY <1>1, FlattenExists
  <2>2. FlattenSeq(s) = f[Len(s)]
    BY <1>3 DEF FlattenSeq, IsFlatten
  <2> HIDE DEF f
  <2>3. \A i \in 1 .. Len(s) : f[i] = IF i = 1 THEN s[i] ELSE f[i - 1] \o s[i]
    BY <2>1 DEF IsFlatten
  <2>4. Bad = {}
    <3> SUFFICES ASSUME Bad # {} PROVE FALSE
      OBVIOUS
    <3>1. Bad \in SUBSET Nat
      BY <1>1
    <3>2. PICK i \in Bad : \A j \in Bad : i <= j
      BY <3>1, MinimalNat
    <3>3. i # 1
      BY <1>1, <2>3, <3>2
    <3>4. i - 1 \in 1 .. Len(s) /\ i - 1 \notin Bad
      BY <1>1, <3>2, <3>3
    <3> QED
      BY <1>1, <2>3, <3>2, <3>3, <3>4
  <2>5. Len(s) \in 1 .. Len(s)
    BY <1>1, <1>3
  <2> QED
    BY <2>2, <2>4, <2>5
<1> QED
  BY <1>2, <1>3

LEMMA FlattenType ==
    ASSUME NEW X, NEW s \in Seq(Seq(X))
    PROVE  FlattenSeq(s) \in Seq(X)
<1>1. << >> \in Seq(X) /\ \A u \in Seq(X) : \A v \in Seq(X) : u \o v \in Seq(X)
  BY EmptySeq, ConcatProperties
<1> QED
  BY <1>1, FlattenClosed

-----------------------------------------------------------------------------
(* The rows derived from observations. *)

\* Of a single row: what its type says about it and what comes with it.
DerivedRows ==
    {r \in [id : Identities, host : Hosts, hint : Identities \cup {NoAsset},
            dns : [Keys -> SUBSET Int], status : Statuses] :
       /\ \A k \in Keys : k # "a" => r.dns[k] = {}
       /\ r.id[1] = "domain" => r.id[2] \in SnapshotParents
       /\ r.id[1] = "subdomain" =>
            /\ r.hint[1] = "domain" /\ r.id[2] \in Below[r.hint[2]]
            /\ r.status = IF r.dns["a"] = {} THEN "unverified" ELSE "resolved"}

PlainRows == {r \in DerivedRows : r.id[1] \notin {"domain", "subdomain"}}

\* The domain a subdomain hangs below comes before it.
RootedSeqs ==
    {s \in Seq(DerivedRows) :
       \A n \in DOMAIN s : s[n].id[1] = "subdomain" =>
                             \E k \in 1 .. n - 1 : s[k].id = s[n].hint}

LEMMA RowIsPlain ==
    ASSUME NEW type \in {"host", "service", "url"}, NEW value,
           <<type, value>> \in Identities, NEW host \in Hosts
    PROVE  Row(type, value, host) \in PlainRows
<1> DEFINE r == Row(type, value, host)
<1>1. r.id = <<type, value>> /\ r.id[1] = type /\ r.id \in Identities
  BY DEF Row
<1>2. /\ r.host = host /\ r.hint = NoAsset /\ r.dns = NoDns /\ r.status = "none"
      /\ r = [id |-> r.id, host |-> r.host, hint |-> r.hint, dns |-> r.dns, status |-> r.status]
  BY DEF Row
<1>3. NoDns \in [Keys -> SUBSET Int] /\ \A k \in Keys : NoDns[k] = {}
  BY DEF NoDns
<1> HIDE DEF r
<1>4. r \in [id : Identities, host : Hosts, hint : Identities \cup {NoAsset},
             dns : [Keys -> SUBSET Int], status : Statuses]
  BY <1>1, <1>2, <1>3 DEF Statuses
<1> QED
  BY <1>1, <1>2, <1>3, <1>4 DEF PlainRows, DerivedRows, r

LEMMA DomainRowDerived ==
    ASSUME NEW name \in SnapshotParents
    PROVE  DomainRow(name) \in DerivedRows /\ DomainRow(name).id = <<"domain", name>>
<1> DEFINE r == DomainRow(name)
<1>1. name \in RawNames /\ name \in Hosts
  BY DEF SnapshotParents, Hosts
<1>2. r.id = <<"domain", name>> /\ r.id[1] = "domain" /\ r.id[2] = name /\ r.id \in Identities
  BY <1>1 DEF DomainRow, Row, Identities
<1>3. /\ r.host = name /\ r.hint = NoAsset /\ r.dns = NoDns /\ r.status = "none"
      /\ r = [id |-> r.id, host |-> r.host, hint |-> r.hint, dns |-> r.dns, status |-> r.status]
  BY DEF DomainRow, Row
<1>4. NoDns \in [Keys -> SUBSET Int] /\ \A k \in Keys : NoDns[k] = {}
  BY DEF NoDns
<1> HIDE DEF r
<1>5. r \in [id : Identities, host : Hosts, hint : Identities \cup {NoAsset},
             dns : [Keys -> SUBSET Int], status : Statuses]
  BY <1>1, <1>2, <1>3, <1>4 DEF Statuses
<1> QED
  BY <1>2, <1>3, <1>4, <1>5 DEF DerivedRows, r

\* The rows of subdomains of one domain.
RowsBelow(domain) ==
    {r \in DerivedRows : r.id[1] = "subdomain" /\ r.hint = <<"domain", domain>>}

LEMMA SubdomainRowFields ==
    ASSUME NEW name, NEW domain, NEW entry
    PROVE  SubdomainRow(name, domain, entry) =
             [id |-> <<"subdomain", name>>, host |-> name, hint |-> <<"domain", domain>>,
              dns |-> [NoDns EXCEPT !["a"] = entry.a], status |-> entry.status]
<1> DEFINE r == Row("subdomain", name, name)
           d == [NoDns EXCEPT !["a"] = entry.a]
<1>1. r = [id |-> <<"subdomain", name>>, host |-> name, hint |-> NoAsset,
           dns |-> NoDns, status |-> "none"]
  BY DEF Row
<1>2. SubdomainRow(name, domain, entry) =
        [r EXCEPT !.hint = <<"domain", domain>>, !.dns = d, !.status = entry.status]
  BY DEF SubdomainRow
<1> HIDE DEF r, d
<1>3. SubdomainRow(name, domain, entry) =
        [id |-> <<"subdomain", name>>, host |-> name, hint |-> <<"domain", domain>>,
         dns |-> d, status |-> entry.status]
  BY <1>1, <1>2
<1> QED
  BY <1>3 DEF d

LEMMA SubdomainRowDerived ==
    ASSUME NEW domain \in RawNames, NEW name \in Below[domain],
           NEW e \in [host : RawNames, a : SUBSET Int, status : {"unverified", "resolved"}],
           e.status = IF e.a = {} THEN "unverified" ELSE "resolved"
    PROVE  SubdomainRow(name, domain, e) \in RowsBelow(domain)
<1> DEFINE r == SubdomainRow(name, domain, e)
<1>1. name \in RawNames /\ name \in Hosts
  BY NamesAssumption DEF Hosts
<1>2. /\ r.id = <<"subdomain", name>> /\ r.id[1] = "subdomain" /\ r.id[2] = name
      /\ r.id \in Identities
  BY <1>1 DEF SubdomainRow, Row, Identities
<1>3. /\ r.hint = <<"domain", domain>> /\ r.hint[1] = "domain" /\ r.hint[2] = domain
      /\ r.hint \in Identities
  BY DEF SubdomainRow, Row, Identities
<1>4. /\ r.host = name /\ r.dns = [NoDns EXCEPT !["a"] = e.a] /\ r.status = e.status
      /\ r = [id |-> r.id, host |-> r.host, hint |-> r.hint, dns |-> r.dns, status |-> r.status]
  <2>1. r = [id |-> <<"subdomain", name>>, host |-> name, hint |-> <<"domain", domain>>,
             dns |-> [NoDns EXCEPT !["a"] = e.a], status |-> e.status]
    BY SubdomainRowFields
  <2> HIDE DEF r
  <2> QED
    BY <2>1
<1>5. /\ r.dns \in [Keys -> SUBSET Int] /\ r.dns["a"] = e.a
      /\ \A k \in Keys : k # "a" => r.dns[k] = {}
  BY <1>4 DEF NoDns, Keys
<1> HIDE DEF r
<1>6. r \in [id : Identities, host : Hosts, hint : Identities \cup {NoAsset},
             dns : [Keys -> SUBSET Int], status : Statuses]
  BY <1>1, <1>2, <1>3, <1>4, <1>5 DEF Statuses
<1>7. r \in DerivedRows
  BY <1>2, <1>3, <1>4, <1>5, <1>6 DEF DerivedRows
<1> QED
  BY <1>2, <1>3, <1>7 DEF RowsBelow, r

LEMMA RootedConcat ==
    /\ << >> \in RootedSeqs
    /\ \A u \in RootedSeqs : \A v \in RootedSeqs : u \o v \in RootedSeqs
<1>1. << >> \in RootedSeqs
  BY EmptySeq DEF RootedSeqs
<1>2. ASSUME NEW u \in RootedSeqs, NEW v \in RootedSeqs PROVE u \o v \in RootedSeqs
  <2>1. u \in Seq(DerivedRows) /\ v \in Seq(DerivedRows)
    BY DEF RootedSeqs
  <2> DEFINE w == u \o v
  <2>2. /\ w \in Seq(DerivedRows) /\ Len(w) = Len(u) + Len(v)
        /\ \A i \in 1 .. Len(u) + Len(v) : w[i] = IF i <= Len(u) THEN u[i] ELSE v[i - Len(u)]
    BY <2>1, ConcatProperties
  <2>3. /\ Len(u) \in Nat /\ Len(v) \in Nat
        /\ DOMAIN u = 1 .. Len(u) /\ DOMAIN v = 1 .. Len(v) /\ DOMAIN w = 1 .. Len(u) + Len(v)
    BY <2>1, <2>2, LenProperties
  <2> HIDE DEF w
  <2>4. ASSUME NEW n \in DOMAIN w, w[n].id[1] = "subdomain"
        PROVE  \E k \in 1 .. n - 1 : w[k].id = w[n].hint
    <3>1. CASE n <= Len(u)
      <4>1. n \in DOMAIN u /\ w[n] = u[n]
        BY <2>2, <2>3, <3>1
      <4>2. PICK k \in 1 .. n - 1 : u[k].id = u[n].hint
        BY <2>4, <4>1 DEF RootedSeqs
      <4>3. w[k] = u[k]
        BY <2>2, <2>3, <3>1, <4>2
      <4> QED
        BY <4>1, <4>2, <4>3
    <3>2. CASE ~(n <= Len(u))
      <4>1. n - Len(u) \in DOMAIN v /\ w[n] = v[n - Len(u)]
        BY <2>2, <2>3, <3>2
      <4>2. PICK k \in 1 .. (n - Len(u)) - 1 : v[k].id = v[n - Len(u)].hint
        BY <2>4, <4>1 DEF RootedSeqs
      <4>3. /\ k + Len(u) \in 1 .. n - 1 /\ k + Len(u) \in 1 .. Len(u) + Len(v)
            /\ ~(k + Len(u) <= Len(u)) /\ k + Len(u) - Len(u) = k
        BY <2>3, <3>2, <4>1, <4>2
      <4>4. w[k + Len(u)] = v[k]
        BY <2>2, <4>3
      <4> QED
        BY <4>1, <4>2, <4>3, <4>4
    <3> QED
      BY <3>1, <3>2
  <2> QED
    BY <2>2, <2>4 DEF RootedSeqs, w
<1> QED
  BY <1>1, <1>2

LEMMA PlainIsRooted ==
    ASSUME NEW s \in Seq(PlainRows)
    PROVE  s \in RootedSeqs
<1>1. s \in Seq(DerivedRows)
  BY SeqMonotonic DEF PlainRows
<1>2. \A n \in DOMAIN s : s[n] \in PlainRows
  BY LenProperties, ElementOfSeq
<1> QED
  BY <1>1, <1>2 DEF RootedSeqs, PlainRows

LEMMA ServiceRowsPlain ==
    ASSUME NEW h \in [ip : DOMAIN ServiceAt, open : BOOLEAN]
    PROVE  ServiceRows(h) \in Seq(PlainRows)
<1>1. h.ip \in DOMAIN ServiceAt /\ h.ip \in Hosts /\ ServiceAt[h.ip] \in Range(ServiceAt)
  BY DEF Hosts, Range
<1>2. Row("host", h.ip, h.ip) \in PlainRows /\ Row("service", ServiceAt[h.ip], h.ip) \in PlainRows
  BY <1>1, RowIsPlain DEF Identities
<1> DEFINE hosts == IF h.ip = NoHost THEN << >> ELSE <<Row("host", h.ip, h.ip)>>
           ports == IF h.open THEN <<Row("service", ServiceAt[h.ip], h.ip)>> ELSE << >>
<1>3. hosts \in Seq(PlainRows) /\ ports \in Seq(PlainRows)
  BY <1>2, SingletonSeq
<1> HIDE DEF hosts, ports
<1>4. hosts \o ports \in Seq(PlainRows)
  BY <1>3, ConcatProperties
<1> QED
  BY <1>4 DEF ServiceRows, hosts, ports

LEMMA UrlRowsPlain ==
    ASSUME NEW urls \in Seq(Urls), urls = << >> \/ UrlHost[urls[1]] # Unparsable
    PROVE  UrlRows(urls) \in Seq(PlainRows)
<1>1. Len(urls) \in Nat /\ DOMAIN urls = 1 .. Len(urls) /\ \A i \in 1 .. Len(urls) : urls[i] \in Urls
  BY LenProperties, ElementOfSeq
<1>2. ASSUME NEW i \in 1 .. Len(urls) PROVE UrlRows(urls)[i] \in PlainRows
  <2> DEFINE parsed == {j \in 1 .. i : UrlHost[urls[j]] # Unparsable}
  <2>1. i \in Nat /\ 1 \in 1 .. i
    BY <1>1
  <2>2. 1 \in parsed
    BY <1>1, <2>1, EmptySeq
  <2>3. parsed \in SUBSET (0 .. i)
    BY <2>1
  <2>4. Max(parsed) \in parsed
    BY <2>1, <2>2, <2>3, MaxProperties
  <2>5. urls[Max(parsed)] \in Urls
    BY <1>1, <2>1, <2>4
  <2>6. UrlHost[urls[Max(parsed)]] \in Hosts
    BY <2>4, <2>5, NamesAssumption DEF Hosts, Range
  <2>7. UrlRows(urls)[i] = Row("url", urls[i], UrlHost[urls[Max(parsed)]])
    BY <1>1 DEF UrlRows
  <2> HIDE DEF parsed
  <2> QED
    BY <1>1, <2>6, <2>7, RowIsPlain DEF Identities
<1>3. UrlRows(urls) \in [1 .. Len(urls) -> PlainRows]
  BY <1>1, <1>2 DEF UrlRows
<1> QED
  BY <1>1, <1>3, FunctionIsSeq

LEMMA SubfinderRowsRooted ==
    ASSUME NEW o \in Observable, o.tool = "subfinder"
    PROVE  SubfinderRows(o) \in RootedSeqs
<1> DEFINE domain == NormalizeHostname(o.domain)
           Entries == [host : RawNames, a : SUBSET Int, status : {"unverified", "resolved"}]
<1>1. o.subdomains \in Seq(Entries)
  BY ObservableAssumption
<1>2. /\ Len(o.subdomains) \in Nat /\ DOMAIN o.subdomains = 1 .. Len(o.subdomains)
      /\ \A i \in 1 .. Len(o.subdomains) : o.subdomains[i] \in Entries
  BY <1>1, LenProperties, ElementOfSeq
<1>3. CASE domain \notin SnapshotParents
  BY <1>3, RootedConcat DEF SubfinderRows
<1>4. CASE domain \in SnapshotParents
  <2>1. domain \in RawNames
    BY <1>4 DEF SnapshotParents
  <2> HIDE DEF domain
  <2> DEFINE pieces == [i \in DOMAIN o.subdomains |->
                          LET e == o.subdomains[i]
                          IN  IF Inside(e.host, domain)
                              THEN <<SubdomainRow(NormalizeHostname(e.host), domain, e)>>
                              ELSE << >>]
  <2>2. ASSUME NEW i \in 1 .. Len(o.subdomains) PROVE pieces[i] \in Seq(RowsBelow(domain))
    <3> DEFINE e == o.subdomains[i]
    <3>1. e \in Entries /\ e.status = IF e.a = {} THEN "unverified" ELSE "resolved"
      BY <1>2, ObservableAssumption
    <3>2. CASE Inside(e.host, domain)
      <4>1. SubdomainRow(NormalizeHostname(e.host), domain, e) \in RowsBelow(domain)
        BY <2>1, <3>1, <3>2, SubdomainRowDerived DEF Inside
      <4>2. pieces[i] = <<SubdomainRow(NormalizeHostname(e.host), domain, e)>>
        BY <1>2, <3>2
      <4> HIDE DEF pieces, e
      <4> QED
        BY <4>1, <4>2, SingletonSeq
    <3>3. CASE ~Inside(e.host, domain)
      <4>1. pieces[i] = << >>
        BY <1>2, <3>3
      <4> HIDE DEF pieces, e
      <4> QED
        BY <4>1, EmptySeq
    <3> QED
      BY <3>2, <3>3
  <2>3. pieces \in [1 .. Len(o.subdomains) -> Seq(RowsBelow(domain))]
    BY <1>2, <2>2
  <2>4. DescendantRows(o, domain) = FlattenSeq(pieces)
    BY DEF DescendantRows
  <2> HIDE DEF pieces
  <2>5. pieces \in Seq(Seq(RowsBelow(domain)))
    BY <1>2, <2>3, FunctionIsSeq
  <2> DEFINE d == DescendantRows(o, domain)
             w == <<DomainRow(domain)>> \o d
  <2>6. d \in Seq(RowsBelow(domain)) /\ d \in Seq(DerivedRows)
    <3>1. d \in Seq(RowsBelow(domain))
      BY <2>4, <2>5, FlattenType
    <3> QED
      BY <3>1, SeqMonotonic DEF RowsBelow
  <2>7. /\ <<DomainRow(domain)>> \in Seq(DerivedRows) /\ Len(<<DomainRow(domain)>>) = 1
        /\ <<DomainRow(domain)>>[1].id = <<"domain", domain>>
        /\ <<DomainRow(domain)>>[1].id[1] = "domain"
    BY <1>4, DomainRowDerived, SingletonSeq
  <2> HIDE DEF d
  <2>8. /\ w \in Seq(DerivedRows) /\ Len(w) = 1 + Len(d)
        /\ \A i \in 1 .. 1 + Len(d) : w[i] = IF i <= 1 THEN <<DomainRow(domain)>>[i] ELSE d[i - 1]
    BY <2>6, <2>7, ConcatProperties
  <2>9. Len(d) \in Nat /\ DOMAIN w = 1 .. 1 + Len(d)
    BY <2>6, <2>8, LenProperties
  <2> HIDE DEF w
  <2>10. ASSUME NEW n \in DOMAIN w, w[n].id[1] = "subdomain"
         PROVE  \E k \in 1 .. n - 1 : w[k].id = w[n].hint
    <3>1. w[1].id = <<"domain", domain>> /\ w[1].id[1] = "domain"
      BY <2>7, <2>8, <2>9
    <3>2. n # 1
      BY <2>10, <3>1
    <3>3. n - 1 \in 1 .. Len(d) /\ w[n] = d[n - 1] /\ 1 \in 1 .. n - 1
      BY <2>8, <2>9, <3>2
    <3>4. d[n - 1] \in RowsBelow(domain)
      BY <2>6, <3>3, ElementOfSeq
    <3>5. w[n].hint = <<"domain", domain>>
      BY <3>3, <3>4 DEF RowsBelow
    <3> QED
      BY <3>1, <3>3, <3>5
  <2>11. w \in RootedSeqs
    BY <2>8, <2>10 DEF RootedSeqs
  <2>12. SubfinderRows(o) = w
    BY <1>4 DEF SubfinderRows, w, d, domain
  <2> QED
    BY <2>11, <2>12
<1> QED
  BY <1>3, <1>4

LEMMA DerivedRooted ==
    ASSUME NEW o \in Observable
    PROVE  Derived(o) \in RootedSeqs
<1>1. CASE o.tool = "nmap"
  <2> DEFINE pieces == [i \in DOMAIN o.hosts |-> ServiceRows(o.hosts[i])]
  <2>1. o.hosts \in Seq([ip : DOMAIN ServiceAt, open : BOOLEAN])
    BY <1>1, ObservableAssumption
  <2>2. /\ Len(o.hosts) \in Nat /\ DOMAIN o.hosts = 1 .. Len(o.hosts)
        /\ \A i \in 1 .. Len(o.hosts) : o.hosts[i] \in [ip : DOMAIN ServiceAt, open : BOOLEAN]
    BY <2>1, LenProperties, ElementOfSeq
  <2>3. pieces \in [1 .. Len(o.hosts) -> Seq(PlainRows)]
    BY <2>2, ServiceRowsPlain
  <2>4. Derived(o) = FlattenSeq(pieces)
    BY <1>1 DEF Derived
  <2> HIDE DEF pieces
  <2>5. pieces \in Seq(Seq(PlainRows))
    BY <2>2, <2>3, FunctionIsSeq
  <2>6. FlattenSeq(pieces) \in Seq(PlainRows)
    BY <2>5, FlattenType
  <2> QED
    BY <2>4, <2>6, PlainIsRooted
<1>2. CASE o.tool = "httpx"
  <2>1. o.urls \in Seq(Urls)
    BY <1>2, ObservableAssumption
  <2>2. CASE Raises(o)
    BY <1>2, <2>2, RootedConcat DEF Derived
  <2>3. CASE ~Raises(o)
    <3>1. UrlRows(o.urls) \in Seq(PlainRows)
      BY <1>2, <2>1, <2>3, UrlRowsPlain DEF Raises
    <3> QED
      BY <1>2, <2>3, <3>1, PlainIsRooted DEF Derived
  <2> QED
    BY <2>2, <2>3
<1>3. CASE o.tool = "subfinder"
  BY <1>3, SubfinderRowsRooted DEF Derived
<1>4. CASE o.tool \notin {"nmap", "httpx", "subfinder"}
  BY <1>4, RootedConcat DEF Derived
<1> QED
  BY <1>1, <1>2, <1>3, <1>4

LEMMA AllDerivedRooted ==
    ASSUME NEW observations \in Seq(Observable)
    PROVE  AllDerived(observations) \in RootedSeqs
<1> DEFINE pieces == [i \in DOMAIN observations |-> Derived(observations[i])]
<1>1. /\ Len(observations) \in Nat /\ DOMAIN observations = 1 .. Len(observations)
      /\ \A i \in 1 .. Len(observations) : observations[i] \in Observable
  BY LenProperties, ElementOfSeq
<1>2. pieces \in [1 .. Len(observations) -> RootedSeqs]
  BY <1>1, DerivedRooted
<1>3. AllDerived(observations) = FlattenSeq(pieces)
  BY DEF AllDerived
<1> HIDE DEF pieces
<1>4. pieces \in Seq(RootedSeqs)
  BY <1>1, <1>2, FunctionIsSeq
<1> QED
  BY <1>3, <1>4, RootedConcat, FlattenClosed

-----------------------------------------------------------------------------
(* The rows that are stored. *)

Cut(derived) == SubSeq(derived, 1, IF Len(derived) <= AssetCap THEN Len(derived) ELSE AssetCap)

LEMMA CutRooted ==
    ASSUME NEW derived \in RootedSeqs
    PROVE  Cut(derived) \in RootedSeqs
<1> DEFINE m == IF Len(derived) <= AssetCap THEN Len(derived) ELSE AssetCap
           cut == Cut(derived)
<1>1. derived \in Seq(DerivedRows) /\ AssetCap \in Nat
  BY CapsAssumption DEF RootedSeqs
<1>2. Len(derived) \in Nat /\ DOMAIN derived = 1 .. Len(derived) /\ m \in Nat /\ m <= Len(derived)
  BY <1>1, LenProperties
<1>3. \A i \in 1 .. m : i \in DOMAIN derived /\ derived[i] \in DerivedRows
  BY <1>1, <1>2, ElementOfSeq
<1>4. cut = SubSeq(derived, 1, m)
  BY DEF Cut
<1> HIDE DEF m, cut
<1>5. /\ cut \in Seq(DerivedRows) /\ Len(cut) = IF 1 <= m THEN m - 1 + 1 ELSE 0
      /\ \A i \in 1 .. m - 1 + 1 : cut[i] = derived[1 + i - 1]
  BY <1>2, <1>3, <1>4, SubSeqProperties
<1>6. Len(cut) = m /\ DOMAIN cut = 1 .. m /\ \A i \in 1 .. m : cut[i] = derived[i]
  BY <1>2, <1>5, LenProperties
<1>7. ASSUME NEW n \in DOMAIN cut, cut[n].id[1] = "subdomain"
      PROVE  \E k \in 1 .. n - 1 : cut[k].id = cut[n].hint
  <2>1. n \in DOMAIN derived /\ derived[n] = cut[n]
    BY <1>3, <1>6
  <2>2. PICK k \in 1 .. n - 1 : derived[k].id = derived[n].hint
    BY <1>7, <2>1 DEF RootedSeqs
  <2>3. k \in 1 .. m
    BY <1>2, <1>6, <2>2
  <2> QED
    BY <1>6, <2>1, <2>2, <2>3
<1> QED
  BY <1>5, <1>7 DEF RootedSeqs, cut

Ids(new) == {r.id : r \in new}

\* Of the first rows those are new whose identity is; each identity among the
\* first rows is stored then.
LEMMA NewProperties ==
    ASSUME NEW rows, NEW derived \in RootedSeqs
    PROVE  /\ \A r \in New(rows, derived) : r \in DerivedRows /\ r.id \notin DOMAIN rows
           /\ \A r \in New(rows, derived), q \in New(rows, derived) : r.id = q.id => r = q
           /\ IsFiniteSet(Ids(New(rows, derived)))
           /\ \A r \in New(rows, derived) : r.id[1] = "subdomain" =>
                r.hint \in DOMAIN rows \cup Ids(New(rows, derived))
<1> DEFINE cut == Cut(derived)
           kept == {n \in DOMAIN cut : /\ cut[n].id \notin DOMAIN rows
                                       /\ \A k \in 1 .. n - 1 : cut[k].id # cut[n].id}
           new == New(rows, derived)
<1>1. cut \in RootedSeqs
  BY CutRooted
<1>2. cut \in Seq(DerivedRows)
  BY <1>1 DEF RootedSeqs
<1>3. /\ Len(cut) \in Nat /\ DOMAIN cut = 1 .. Len(cut)
      /\ \A n \in 1 .. Len(cut) : cut[n] \in DerivedRows
  BY <1>2, LenProperties, ElementOfSeq
<1>4. new = {cut[i] : i \in kept}
  BY DEF New, Cut
<1> HIDE DEF cut, new
<1>5. \A r \in new : r \in DerivedRows /\ r.id \notin DOMAIN rows
  BY <1>3, <1>4
<1>6. ASSUME NEW r \in new, NEW q \in new, r.id = q.id PROVE r = q
  <2>1. PICK i \in kept : r = cut[i]
    BY <1>4
  <2>2. PICK j \in kept : q = cut[j]
    BY <1>4
  <2>3. i \in Nat /\ j \in Nat /\ i >= 1 /\ j >= 1
    BY <1>3
  <2>4. ~(i < j) /\ ~(j < i)
    <3>1. CASE i < j
      BY <1>6, <2>1, <2>2, <2>3, <3>1
    <3>2. CASE j < i
      BY <1>6, <2>1, <2>2, <2>3, <3>2
    <3> QED
      BY <3>1, <3>2
  <2> QED
    BY <2>1, <2>2, <2>3, <2>4
<1>7. IsFiniteSet(Ids(new))
  <2> DEFINE f == [i \in kept |-> cut[i].id]
  <2>1. kept \in SUBSET (1 .. Len(cut)) /\ IsFiniteSet(1 .. Len(cut))
    BY <1>3, FS_Interval
  <2>2. IsFiniteSet(kept)
    BY <2>1, FS_Subset
  <2>3. \A i \in kept : cut[i].id \in Ids(new)
    BY <1>4 DEF Ids
  <2>4. \A id \in Ids(new) : \E i \in kept : cut[i].id = id
    BY <1>4 DEF Ids
  <2> HIDE DEF kept
  <2>5. f \in Surjection(kept, Ids(new))
    BY <2>3, <2>4 DEF Surjection
  <2> QED
    BY <2>2, <2>5, FS_Surjection
<1>8. ASSUME NEW n \in DOMAIN cut, cut[n].id \notin DOMAIN rows PROVE cut[n].id \in Ids(new)
  <2> DEFINE same == {m \in DOMAIN cut : cut[m].id = cut[n].id}
  <2>1. same \in SUBSET Nat /\ n \in same
    BY <1>3
  <2>2. PICK m \in same : \A k \in same : m <= k
    BY <2>1, MinimalNat
  <2>3. m \in DOMAIN cut /\ cut[m].id = cut[n].id
    BY <2>2
  <2>4. ASSUME NEW k \in 1 .. m - 1 PROVE cut[k].id # cut[m].id
    <3>1. k \in DOMAIN cut /\ ~(m <= k)
      BY <1>3, <2>3
    <3> QED
      BY <2>2, <2>3, <3>1
  <2>5. m \in kept
    BY <1>8, <2>3, <2>4
  <2> QED
    BY <1>4, <2>3, <2>5 DEF Ids
<1>9. ASSUME NEW r \in new, r.id[1] = "subdomain" PROVE r.hint \in DOMAIN rows \cup Ids(new)
  <2>1. PICK n \in DOMAIN cut : r = cut[n]
    BY <1>4
  <2>2. PICK k \in 1 .. n - 1 : cut[k].id = r.hint
    BY <1>1, <1>9, <2>1 DEF RootedSeqs
  <2>3. k \in DOMAIN cut
    BY <1>3, <2>1, <2>2
  <2> QED
    BY <1>8, <2>2, <2>3
<1> QED
  BY <1>5, <1>6, <1>7, <1>9 DEF new

\* What is true of all rows stored so far.
Sound(rows) ==
    /\ IsFiniteSet(DOMAIN rows) /\ DOMAIN rows \subseteq Identities
    /\ \A id \in DOMAIN rows :
         /\ rows[id] \in StoredRows
         /\ rows[id].parent \in DOMAIN rows \cup {NoAsset}
         /\ id[1] = "domain" => id[2] \in SnapshotParents
         /\ id[1] = "subdomain" =>
              /\ rows[id].parent \in DOMAIN rows
              /\ rows[id].parent[1] = "domain"
              /\ id[2] \in Below[rows[id].parent[2]]
              /\ rows[id].status \in {"unverified", "resolved"}

LEMMA PersistedRow ==
    ASSUME NEW rows, NEW derived \in RootedSeqs,
           NEW id \in Ids(New(rows, derived))
    PROVE  \E r \in New(rows, derived) :
             /\ r.id = id /\ id \notin DOMAIN rows /\ r \in DerivedRows
             /\ Persisted(rows, New(rows, derived))[id] =
                  [host |-> r.host, dns |-> r.dns, status |-> r.status,
                   parent |-> IF r.hint \in (DOMAIN rows \cup Ids(New(rows, derived))) \ {r.id}
                              THEN r.hint ELSE NoAsset]
<1> DEFINE new == New(rows, derived)
           r == CHOOSE q \in new : q.id = id
<1>1. \E q \in new : q.id = id
  BY DEF Ids
<1>2. r \in new /\ r.id = id
  BY <1>1
<1>3. id \notin DOMAIN rows /\ r \in DerivedRows
  BY <1>2, NewProperties
<1>4. Persisted(rows, new)[id] =
        [host |-> r.host, dns |-> r.dns, status |-> r.status,
         parent |-> IF r.hint \in (DOMAIN rows \cup Ids(new)) \ {r.id} THEN r.hint ELSE NoAsset]
  BY <1>3 DEF Persisted, Ids
<1> HIDE DEF r, new
<1> QED
  BY <1>2, <1>3, <1>4 DEF new

LEMMA PersistedKeeps ==
    ASSUME NEW rows, NEW new
    PROVE  /\ DOMAIN Persisted(rows, new) = DOMAIN rows \cup Ids(new)
           /\ \A id \in DOMAIN rows : Persisted(rows, new)[id] = rows[id]
BY DEF Persisted, Ids

LEMMA PersistedSound ==
    ASSUME NEW rows, Sound(rows), NEW derived \in RootedSeqs
    PROVE  Sound(Persisted(rows, New(rows, derived)))
<1> DEFINE new == New(rows, derived)
           next == Persisted(rows, new)
<1>1. /\ DOMAIN next = DOMAIN rows \cup Ids(new)
      /\ \A id \in DOMAIN rows : next[id] = rows[id]
  BY PersistedKeeps
<1>2. IsFiniteSet(DOMAIN next)
  <2>1. IsFiniteSet(DOMAIN rows) /\ IsFiniteSet(Ids(new))
    BY NewProperties DEF Sound
  <2> QED
    BY <1>1, <2>1, FS_Union
<1>3. Ids(new) \subseteq Identities
  <2>1. \A r \in new : r \in DerivedRows
    BY NewProperties
  <2>2. \A r \in DerivedRows : r.id \in Identities
    BY DEF DerivedRows
  <2> HIDE DEF new
  <2> QED
    BY <2>1, <2>2 DEF Ids
<1>4. ASSUME NEW id \in DOMAIN rows
      PROVE  /\ next[id] \in StoredRows
             /\ next[id].parent \in DOMAIN next \cup {NoAsset}
             /\ id[1] = "domain" => id[2] \in SnapshotParents
             /\ id[1] = "subdomain" =>
                  /\ next[id].parent \in DOMAIN next
                  /\ next[id].parent[1] = "domain"
                  /\ id[2] \in Below[next[id].parent[2]]
                  /\ next[id].status \in {"unverified", "resolved"}
  <2> HIDE DEF next, new
  <2> QED
    BY <1>1, <1>4 DEF Sound
<1>5. ASSUME NEW id \in Ids(new)
      PROVE  /\ next[id] \in StoredRows
             /\ next[id].parent \in DOMAIN next \cup {NoAsset}
             /\ id[1] = "domain" => id[2] \in SnapshotParents
             /\ id[1] = "subdomain" =>
                  /\ next[id].parent \in DOMAIN next
                  /\ next[id].parent[1] = "domain"
                  /\ id[2] \in Below[next[id].parent[2]]
                  /\ next[id].status \in {"unverified", "resolved"}
  <2>1. PICK r \in new :
          /\ r.id = id /\ r \in DerivedRows
          /\ next[id] = [host |-> r.host, dns |-> r.dns, status |-> r.status,
                         parent |-> IF r.hint \in (DOMAIN rows \cup Ids(new)) \ {r.id}
                                    THEN r.hint ELSE NoAsset]
    BY PersistedRow
  <2>2. r.id[1] = "subdomain" => r.hint \in DOMAIN rows \cup Ids(new)
    BY NewProperties
  <2> HIDE DEF next, new
  <2>3. /\ r.host \in Hosts /\ r.hint \in Identities \cup {NoAsset}
        /\ r.dns \in [Keys -> SUBSET Int] /\ r.status \in Statuses
    BY <2>1 DEF DerivedRows
  <2>4. /\ r.id[1] = "domain" => r.id[2] \in SnapshotParents
        /\ r.id[1] = "subdomain" =>
             /\ r.hint[1] = "domain" /\ r.id[2] \in Below[r.hint[2]]
             /\ r.status \in {"unverified", "resolved"}
    BY <2>1 DEF DerivedRows
  <2>5. next[id] \in StoredRows /\ next[id].parent \in DOMAIN next \cup {NoAsset}
    BY <1>1, <2>1, <2>3 DEF StoredRows
  <2>6. ASSUME id[1] = "subdomain" PROVE next[id].parent = r.hint
    <3>1. r.hint # r.id
      BY <2>1, <2>4, <2>6
    <3> QED
      BY <2>1, <2>2, <2>6, <3>1
  <2>7. next[id].status = r.status
    BY <2>1
  <2> QED
    BY <1>1, <2>1, <2>2, <2>4, <2>5, <2>6, <2>7
<1> QED
  <2> HIDE DEF next, new
  <2>1. DOMAIN next \subseteq Identities
    BY <1>1, <1>3 DEF Sound
  <2>2. Sound(next)
    BY <1>1, <1>2, <1>4, <1>5, <2>1 DEF Sound
  <2> QED
    BY <2>2 DEF next, new

-----------------------------------------------------------------------------
(* The smallest answers. *)

LEMMA SmallestSubset == \A S : Smallest(S) \subseteq S
BY DEF Smallest

\* Who is among the smallest of a set is so in each part of it.
LEMMA SmallestInPart ==
    ASSUME NEW B \in SUBSET Int, IsFiniteSet(B), NEW A \in SUBSET B, NEW x \in A,
           x \in Smallest(B)
    PROVE  x \in Smallest(A)
<1> DEFINE below(S) == {y \in S : y < x}
<1>1. below(A) \in SUBSET below(B) /\ below(B) \in SUBSET B
  OBVIOUS
<1>2. IsFiniteSet(below(B))
  BY <1>1, FS_Subset
<1>3. IsFiniteSet(below(A)) /\ Cardinality(below(A)) <= Cardinality(below(B))
  BY <1>1, <1>2, FS_Subset
<1>4. Cardinality(below(A)) \in Nat /\ Cardinality(below(B)) \in Nat /\ DnsCap \in Nat
  BY <1>2, <1>3, FS_CardinalityType, CapsAssumption
<1>5. Cardinality(below(B)) < DnsCap
  BY DEF Smallest
<1>6. Cardinality(below(A)) < DnsCap
  BY <1>3, <1>4, <1>5
<1> QED
  BY <1>6 DEF Smallest

\* Merging sorts and cuts, and forgets none of the smallest answers.
LEMMA SmallestOfMerge ==
    ASSUME NEW U \in SUBSET Int, IsFiniteSet(U), NEW G \in SUBSET U, NEW R \in SUBSET U,
           NEW D \in SUBSET G, Smallest(G) \subseteq D
    PROVE  Smallest(G \cup R) \subseteq Smallest(Smallest(D) \cup Smallest(R))
<1> SUFFICES ASSUME NEW x \in Smallest(G \cup R)
             PROVE  x \in Smallest(Smallest(D) \cup Smallest(R))
  OBVIOUS
<1> DEFINE both == G \cup R
           merged == Smallest(D) \cup Smallest(R)
<1>1. /\ both \in SUBSET Int /\ both \in SUBSET U /\ x \in both
      /\ G \in SUBSET both /\ R \in SUBSET both /\ D \in SUBSET both
      /\ merged \in SUBSET both
  BY SmallestSubset
<1>2. IsFiniteSet(both)
  BY <1>1, FS_Subset
<1>3. x \in merged
  <2>1. CASE x \in R
    <3>1. x \in Smallest(R)
      BY <1>1, <1>2, <2>1, SmallestInPart
    <3> QED
      BY <3>1
  <2>2. CASE x \in G
    <3>1. x \in Smallest(G)
      BY <1>1, <1>2, <2>2, SmallestInPart
    <3>2. x \in D
      BY <3>1
    <3>3. x \in Smallest(D)
      BY <1>1, <1>2, <3>2, SmallestInPart
    <3> QED
      BY <3>3
  <2> QED
    BY <1>1, <2>1, <2>2
<1> HIDE DEF both, merged
<1>4. x \in Smallest(both)
  BY DEF both
<1>5. x \in Smallest(merged)
  BY <1>1, <1>2, <1>3, <1>4, SmallestInPart
<1> QED
  BY <1>5 DEF merged

\* A cut that found nothing to keep found nothing.
LEMMA SmallestNonempty ==
    ASSUME NEW S \in SUBSET Int, IsFiniteSet(S), S # {}
    PROVE  Smallest(S) # {}
<1> DEFINE below(x) == {y \in S : y < x}
           T == {Cardinality(below(x)) : x \in S}
<1>1. ASSUME NEW x \in S PROVE IsFiniteSet(below(x)) /\ Cardinality(below(x)) \in Nat
  <2>1. below(x) \in SUBSET S
    OBVIOUS
  <2> HIDE DEF below
  <2> QED
    BY <2>1, FS_Subset, FS_CardinalityType
<1>2. T \in SUBSET Nat /\ T # {}
  BY <1>1
<1>3. PICK n \in T : \A m \in T : n <= m
  BY <1>2, MinimalNat
<1>4. PICK x \in S : n = Cardinality(below(x))
  BY <1>3
<1>5. below(x) = {}
  <2> SUFFICES ASSUME NEW y \in below(x) PROVE FALSE
    OBVIOUS
  <2>1. y \in S /\ y < x
    OBVIOUS
  <2>2. below(y) \in SUBSET below(x) /\ y \notin below(y)
    <3>1. S \subseteq Int /\ x \in Int /\ y \in Int
      BY <2>1
    <3>2. \A z \in S : z < y => z < x
      BY <2>1, <3>1
    <3>3. ~(y < y)
      BY <3>1
    <3> QED
      BY <3>2, <3>3
  <2>3. Cardinality(below(y)) \in T
    BY <2>1
  <2>4. Cardinality(below(x)) <= Cardinality(below(y))
    BY <1>3, <1>4, <2>3
  <2>5. /\ IsFiniteSet(below(x)) /\ Cardinality(below(x)) \in Nat
        /\ Cardinality(below(y)) \in Nat
    BY <1>1, <2>1
  <2>6. y \in below(x)
    OBVIOUS
  <2> HIDE DEF below
  <2>7. Cardinality(below(y)) <= Cardinality(below(x))
    BY <2>2, <2>5, FS_Subset
  <2>8. below(y) = below(x)
    BY <2>2, <2>4, <2>5, <2>7, FS_Subset
  <2> QED
    BY <2>2, <2>6, <2>8
<1>6. Cardinality(below(x)) < DnsCap
  <2> HIDE DEF below
  <2> QED
    BY <1>5, FS_EmptySet, CapsAssumption
<1> QED
  BY <1>4, <1>6 DEF Smallest

-----------------------------------------------------------------------------
(* DNS answers. *)

GivenTo(answers, id, k) == {t[3] : t \in {x \in answers : x[1] = id /\ x[2] = k}}

\* The rows hold what they were told.
Faithful(rows, answers) ==
    /\ answers \subseteq (DOMAIN rows) \X Keys \X Int
    /\ \A id \in DOMAIN rows, k \in Keys :
         /\ rows[id].dns[k] \subseteq GivenTo(answers, id, k)
         /\ Smallest(GivenTo(answers, id, k) \cap Usable[k]) \subseteq rows[id].dns[k]
    /\ \A id \in DOMAIN rows : id[1] = "subdomain" =>
         (rows[id].status = "resolved" <=> \E t \in answers : t[1] = id /\ t[2] # "cname")

LEMMA UsableType ==
    ASSUME NEW k \in Keys
    PROVE  Usable[k] \in SUBSET Int /\ IsFiniteSet(Usable[k])
BY CapsAssumption

LEMMA BroughtTriples ==
    ASSUME NEW rows, NEW derived \in RootedSeqs
    PROVE  \A t \in Brought(New(rows, derived)) :
             \E r \in New(rows, derived) : \E x \in r.dns["a"] : t = <<r.id, "a", x>>
BY DEF Brought

LEMMA PersistedFaithful ==
    ASSUME NEW rows, NEW answers, Faithful(rows, answers), NEW derived \in RootedSeqs
    PROVE  Faithful(Persisted(rows, New(rows, derived)),
                    answers \cup Brought(New(rows, derived)))
<1> DEFINE new == New(rows, derived)
           next == Persisted(rows, new)
           brought == Brought(new)
           all == answers \cup brought
<1>1. /\ DOMAIN next = DOMAIN rows \cup Ids(new)
      /\ \A id \in DOMAIN rows : next[id] = rows[id]
  BY PersistedKeeps
<1>2. \A r \in new : r \in DerivedRows /\ r.id \notin DOMAIN rows /\ r.id \in Ids(new)
  BY NewProperties DEF Ids
<1>3. \A r \in new, q \in new : r.id = q.id => r = q
  BY NewProperties
<1>4. \A t \in brought : \E r \in new : \E x \in r.dns["a"] : t = <<r.id, "a", x>>
  BY BroughtTriples
<1>5. \A r \in new : \A x \in r.dns["a"] : <<r.id, "a", x>> \in brought
  BY DEF Brought
<1>6. ASSUME NEW id \in Ids(new)
      PROVE  \E r \in new : r.id = id /\ next[id].dns = r.dns /\ next[id].status = r.status
  <2>1. PICK r \in new :
          /\ r.id = id
          /\ next[id] = [host |-> r.host, dns |-> r.dns, status |-> r.status,
                         parent |-> IF r.hint \in (DOMAIN rows \cup Ids(new)) \ {r.id}
                                    THEN r.hint ELSE NoAsset]
    BY PersistedRow
  <2> HIDE DEF next, new
  <2> QED
    BY <2>1
<1>7. \A r \in DerivedRows :
        /\ r.dns \in [Keys -> SUBSET Int] /\ "a" \in Keys
        /\ \A k \in Keys : k # "a" => r.dns[k] = {}
        /\ r.id[1] = "subdomain" =>
             r.status = IF r.dns["a"] = {} THEN "unverified" ELSE "resolved"
  BY DEF DerivedRows, Keys
<1> HIDE DEF new, next, brought
<1>8. all \subseteq (DOMAIN next) \X Keys \X Int
  <2>1. ASSUME NEW t \in brought PROVE t \in (DOMAIN next) \X Keys \X Int
    <3>1. PICK r \in new : \E x \in r.dns["a"] : t = <<r.id, "a", x>>
      BY <1>4
    <3>2. PICK x \in r.dns["a"] : t = <<r.id, "a", x>>
      BY <3>1
    <3>3. r.id \in DOMAIN next /\ "a" \in Keys /\ x \in Int
      BY <1>1, <1>2, <1>7, <3>2
    <3> QED
      BY <3>2, <3>3
  <2>2. ASSUME NEW t \in answers PROVE t \in (DOMAIN next) \X Keys \X Int
    BY <1>1 DEF Faithful
  <2> QED
    BY <2>1, <2>2
<1>9. ASSUME NEW id \in DOMAIN rows, NEW k \in Keys
      PROVE  GivenTo(all, id, k) = GivenTo(answers, id, k)
  <2>1. \A t \in brought : t[1] # id
    BY <1>2, <1>4
  <2> QED
    BY <2>1 DEF GivenTo
<1>10. ASSUME NEW id \in Ids(new), NEW k \in Keys
       PROVE  GivenTo(all, id, k) = next[id].dns[k]
  <2>1. PICK r \in new : r.id = id /\ next[id].dns = r.dns
    BY <1>6
  <2>2. \A t \in answers : t[1] # id
    BY <1>2, <2>1 DEF Faithful
  <2>3. ASSUME NEW t \in brought, t[1] = id PROVE t[2] = "a" /\ t[3] \in r.dns["a"]
    <3>1. PICK q \in new : \E x \in q.dns["a"] : t = <<q.id, "a", x>>
      BY <1>4
    <3>2. PICK x \in q.dns["a"] : t = <<q.id, "a", x>>
      BY <3>1
    <3>3. t[1] = q.id /\ t[2] = "a" /\ t[3] = x
      BY <3>2
    <3>4. q = r
      BY <1>3, <2>1, <2>3, <3>3
    <3> QED
      BY <3>3, <3>4
  <2>4. CASE k = "a"
    <3>1. \A x \in r.dns["a"] : <<id, "a", x>> \in brought
      BY <1>5, <2>1
    <3>2. ASSUME NEW x \in r.dns["a"] PROVE x \in GivenTo(all, id, "a")
      <4> DEFINE t == <<id, "a", x>>
      <4>1. t \in all /\ t[1] = id /\ t[2] = "a" /\ t[3] = x
        BY <3>1
      <4> HIDE DEF t
      <4> QED
        BY <4>1 DEF GivenTo
    <3>3. \A y \in GivenTo(all, id, "a") : y \in r.dns["a"]
      BY <2>2, <2>3 DEF GivenTo
    <3>4. GivenTo(all, id, "a") = r.dns["a"]
      BY <3>2, <3>3
    <3> QED
      BY <2>1, <2>4, <3>4
  <2>5. CASE k # "a"
    <3>1. GivenTo(all, id, k) = {}
      BY <2>2, <2>3, <2>5 DEF GivenTo
    <3>2. r.dns[k] = {}
      BY <1>2, <1>7, <2>5
    <3> QED
      BY <2>1, <3>1, <3>2
  <2> QED
    BY <2>4, <2>5
<1>11. ASSUME NEW id \in DOMAIN next, NEW k \in Keys
       PROVE  /\ next[id].dns[k] \subseteq GivenTo(all, id, k)
              /\ Smallest(GivenTo(all, id, k) \cap Usable[k]) \subseteq next[id].dns[k]
  <2>1. CASE id \in DOMAIN rows
    BY <1>1, <1>9, <2>1 DEF Faithful
  <2>2. CASE id \in Ids(new)
    BY <1>10, <2>2, SmallestSubset
  <2> QED
    BY <1>1, <2>1, <2>2
<1>12. ASSUME NEW id \in DOMAIN next, id[1] = "subdomain"
       PROVE  next[id].status = "resolved" <=> \E t \in all : t[1] = id /\ t[2] # "cname"
  <2>1. CASE id \in DOMAIN rows
    <3>1. \A t \in brought : t[1] # id
      BY <1>2, <1>4, <2>1
    <3> QED
      BY <1>1, <1>12, <2>1, <3>1 DEF Faithful
  <2>2. CASE id \in Ids(new)
    <3>1. PICK r \in new : r.id = id /\ next[id].dns = r.dns /\ next[id].status = r.status
      BY <1>6, <2>2
    <3>2. \A t \in answers : t[1] # id
      BY <1>2, <3>1 DEF Faithful
    <3>3. next[id].status = IF r.dns["a"] = {} THEN "unverified" ELSE "resolved"
      BY <1>2, <1>7, <1>12, <3>1
    <3>4. \A t \in brought : t[1] = id => r.dns["a"] # {}
      BY <1>3, <1>4, <3>1
    <3>5. ASSUME NEW x \in r.dns["a"] PROVE \E t \in all : t[1] = id /\ t[2] # "cname"
      <4>1. <<id, "a", x>> \in all
        BY <1>5, <3>1
      <4> QED
        BY <4>1
    <3> QED
      BY <3>2, <3>3, <3>4, <3>5
  <2> QED
    BY <1>1, <2>1, <2>2
<1>13. Faithful(next, all)
  BY <1>8, <1>11, <1>12 DEF Faithful
<1> QED
  BY <1>13 DEF new, next, brought

\* What becomes of the answers of a row to one query.
MergedKey(old, answers, k) ==
    IF answers = {} THEN old ELSE Smallest(Smallest(old \cap Usable[k]) \cup answers)

\* A merge changes the answers and the status of a row and nothing else.
LEMMA MergedRow ==
    ASSUME NEW row \in StoredRows, NEW record, NEW next, NEW answers,
           answers = Enrichment(record), next = Merged(row, answers)
    PROVE  /\ next \in StoredRows /\ next.parent = row.parent /\ next.host = row.host
           /\ \A k \in Keys : next.dns[k] = MergedKey(row.dns[k], answers[k], k)
           /\ next.status = IF HasAddress(answers) /\ row.status = "unverified"
                            THEN "resolved" ELSE row.status
<1> DEFINE merged == [k \in Keys |-> MergedKey(row.dns[k], answers[k], k)]
           status == IF HasAddress(answers) /\ row.status = "unverified"
                     THEN "resolved" ELSE row.status
<1>1. /\ row.host \in Hosts /\ row.parent \in Identities \cup {NoAsset}
      /\ row.dns \in [Keys -> SUBSET Int] /\ row.status \in Statuses
      /\ row = [host |-> row.host, parent |-> row.parent, dns |-> row.dns, status |-> row.status]
  BY DEF StoredRows
<1>2. merged \in [Keys -> SUBSET Int]
  <2>1. ASSUME NEW k \in Keys PROVE merged[k] \in SUBSET Int
    <3>1. row.dns[k] \in SUBSET Int /\ Usable[k] \in SUBSET Int
      BY <1>1, UsableType
    <3>2. answers[k] \in SUBSET Int
      BY <3>1, SmallestSubset DEF Enrichment
    <3>3. Smallest(row.dns[k] \cap Usable[k]) \cup answers[k] \in SUBSET Int
      BY <3>1, <3>2, SmallestSubset
    <3>4. Smallest(Smallest(row.dns[k] \cap Usable[k]) \cup answers[k]) \in SUBSET Int
      BY <3>3, SmallestSubset
    <3> QED
      BY <3>1, <3>4 DEF MergedKey
  <2> QED
    BY <2>1
<1>3. status \in Statuses
  BY <1>1 DEF Statuses
<1>4. next = [row EXCEPT !.dns = merged, !.status = status]
  BY DEF Merged, MergedKey
<1> HIDE DEF merged, status
<1>5. next = [host |-> row.host, parent |-> row.parent, dns |-> merged, status |-> status]
  BY <1>1, <1>4
<1>6. next \in StoredRows /\ next.parent = row.parent /\ next.host = row.host
  BY <1>1, <1>2, <1>3, <1>5 DEF StoredRows
<1> QED
  BY <1>5, <1>6 DEF merged, status

LEMMA EnrichedSound ==
    ASSUME NEW rows, Sound(rows), NEW queried, NEW record
    PROVE  Sound(Enriched(rows, queried, record))
<1> DEFINE next == Enriched(rows, queried, record)
<1>1. DOMAIN next = DOMAIN rows
  BY DEF Enriched
<1>2. ASSUME NEW id \in DOMAIN rows
      PROVE  /\ next[id] \in StoredRows /\ next[id].parent = rows[id].parent
             /\ rows[id].status \in {"unverified", "resolved"} =>
                  next[id].status \in {"unverified", "resolved"}
  <2>1. rows[id] \in StoredRows
    BY DEF Sound
  <2>2. CASE id \in Matching(rows, queried, record)
    <3>1. next[id] = Merged(rows[id], Enrichment(record))
      BY <2>2 DEF Enriched
    <3> HIDE DEF next
    <3> QED
      BY <2>1, <3>1, MergedRow
  <2>3. CASE id \notin Matching(rows, queried, record)
    <3>1. next[id] = rows[id]
      BY <2>3 DEF Enriched
    <3> HIDE DEF next
    <3> QED
      BY <2>1, <3>1
  <2> QED
    BY <2>2, <2>3
<1> HIDE DEF next
<1>3. IsFiniteSet(DOMAIN next) /\ DOMAIN next \subseteq Identities
  BY <1>1 DEF Sound
<1>4. Sound(next)
  BY <1>1, <1>2, <1>3 DEF Sound
<1> QED
  BY <1>4 DEF next

LEMMA GivenTriples ==
    ASSUME NEW rows, NEW queried, NEW record
    PROVE  /\ \A t \in Given(rows, queried, record) :
                /\ t[1] \in Matching(rows, queried, record) /\ t[2] \in Keys
                /\ t[3] \in record[t[2]] \cap Usable[t[2]]
                /\ t \in (DOMAIN rows) \X Keys \X Int
           /\ \A id \in Matching(rows, queried, record), k \in Keys :
                \A x \in record[k] \cap Usable[k] :
                  <<id, k, x>> \in Given(rows, queried, record)
<1>1. ASSUME NEW t \in Given(rows, queried, record)
      PROVE  /\ t[1] \in Matching(rows, queried, record) /\ t[2] \in Keys
             /\ t[3] \in record[t[2]] \cap Usable[t[2]]
             /\ t \in (DOMAIN rows) \X Keys \X Int
  <2>1. /\ t \in Matching(rows, queried, record) \X Keys \X UNION {Usable[k] : k \in Keys}
        /\ t[3] \in record[t[2]] \cap Usable[t[2]]
    BY DEF Given
  <2>2. t[1] \in Matching(rows, queried, record) /\ t[2] \in Keys /\ t = <<t[1], t[2], t[3]>>
    BY <2>1
  <2>3. t[1] \in DOMAIN rows /\ t[3] \in Int
    BY <2>1, <2>2, UsableType DEF Matching
  <2> QED
    BY <2>1, <2>2, <2>3
<1>2. ASSUME NEW id \in Matching(rows, queried, record), NEW k \in Keys,
             NEW x \in record[k] \cap Usable[k]
      PROVE  <<id, k, x>> \in Given(rows, queried, record)
  <2> DEFINE t == <<id, k, x>>
  <2>1. x \in UNION {Usable[j] : j \in Keys}
    OBVIOUS
  <2>2. /\ t \in Matching(rows, queried, record) \X Keys \X UNION {Usable[j] : j \in Keys}
        /\ t[2] = k /\ t[3] = x
    BY <2>1
  <2> HIDE DEF t
  <2>3. t \in Given(rows, queried, record)
    BY <2>2 DEF Given
  <2> QED
    BY <2>3 DEF t
<1> QED
  BY <1>1, <1>2

LEMMA EnrichedFaithful ==
    ASSUME NEW rows, Sound(rows), NEW answers, Faithful(rows, answers),
           NEW queried, NEW record
    PROVE  Faithful(Enriched(rows, queried, record),
                    answers \cup Given(rows, queried, record))
<1> DEFINE next == Enriched(rows, queried, record)
           given == Given(rows, queried, record)
           all == answers \cup given
           matching == Matching(rows, queried, record)
           R(k) == record[k] \cap Usable[k]
           G(id, k) == GivenTo(answers, id, k) \cap Usable[k]
<1>1. DOMAIN next = DOMAIN rows /\ matching \subseteq DOMAIN rows
  BY DEF Enriched, Matching
<1>2. /\ \A t \in given : /\ t[1] \in matching /\ t[2] \in Keys /\ t[3] \in R(t[2])
                          /\ t \in (DOMAIN rows) \X Keys \X Int
      /\ \A id \in matching, k \in Keys : \A x \in R(k) : <<id, k, x>> \in given
  BY GivenTriples
<1>3. ASSUME NEW id \in matching
      PROVE  /\ \A k \in Keys :
                  next[id].dns[k] = MergedKey(rows[id].dns[k], Smallest(R(k)), k)
             /\ next[id].status =
                  IF HasAddress(Enrichment(record)) /\ rows[id].status = "unverified"
                  THEN "resolved" ELSE rows[id].status
  <2>1. rows[id] \in StoredRows
    BY <1>1 DEF Sound
  <2>2. next[id] = Merged(rows[id], Enrichment(record))
    BY <1>1 DEF Enriched
  <2>3. \A k \in Keys : Enrichment(record)[k] = Smallest(R(k))
    BY DEF Enrichment
  <2> HIDE DEF next, R
  <2>4. /\ \A k \in Keys :
             next[id].dns[k] = MergedKey(rows[id].dns[k], Enrichment(record)[k], k)
        /\ next[id].status =
             IF HasAddress(Enrichment(record)) /\ rows[id].status = "unverified"
             THEN "resolved" ELSE rows[id].status
    BY <2>1, <2>2, MergedRow
  <2> QED
    BY <2>3, <2>4
<1>4. ASSUME NEW id \in DOMAIN rows \ matching PROVE next[id] = rows[id]
  BY <1>1 DEF Enriched
<1>5. HasAddress(Enrichment(record)) <=> Smallest(R("a")) \cup Smallest(R("aaaa")) # {}
  BY DEF HasAddress, Enrichment, Keys
<1>6. ASSUME NEW k \in Keys
      PROVE  R(k) \in SUBSET Int /\ IsFiniteSet(R(k)) /\ (Smallest(R(k)) = {} <=> R(k) = {})
  <2>1. R(k) \in SUBSET Usable[k] /\ Usable[k] \in SUBSET Int /\ IsFiniteSet(Usable[k])
    BY UsableType
  <2> HIDE DEF R
  <2>2. R(k) \in SUBSET Int /\ IsFiniteSet(R(k))
    BY <2>1, FS_Subset
  <2> QED
    BY <2>2, SmallestNonempty, SmallestSubset
<1> HIDE DEF next, given, matching
<1>7. all \subseteq (DOMAIN next) \X Keys \X Int
  BY <1>1, <1>2 DEF Faithful
<1>8. ASSUME NEW id \in DOMAIN rows \ matching, NEW k \in Keys
      PROVE  GivenTo(all, id, k) = GivenTo(answers, id, k)
  BY <1>2 DEF GivenTo
<1>9. ASSUME NEW id \in matching, NEW k \in Keys
      PROVE  GivenTo(all, id, k) = GivenTo(answers, id, k) \cup R(k)
  <2>1. ASSUME NEW x \in R(k) PROVE x \in GivenTo(all, id, k)
    <3> DEFINE t == <<id, k, x>>
    <3>1. t \in all /\ t[1] = id /\ t[2] = k /\ t[3] = x
      BY <1>2
    <3> HIDE DEF t
    <3> QED
      BY <3>1 DEF GivenTo
  <2>2. \A t \in given : t[2] = k => t[3] \in R(k)
    BY <1>2
  <2> HIDE DEF R
  <2>3. \A x \in GivenTo(all, id, k) : x \in GivenTo(answers, id, k) \/ x \in R(k)
    BY <2>2 DEF GivenTo
  <2>4. \A x \in GivenTo(answers, id, k) : x \in GivenTo(all, id, k)
    BY DEF GivenTo
  <2> QED
    BY <2>1, <2>3, <2>4
<1>10. ASSUME NEW id \in DOMAIN rows, NEW k \in Keys
       PROVE  /\ rows[id].dns[k] \subseteq GivenTo(answers, id, k)
              /\ Smallest(G(id, k)) \subseteq rows[id].dns[k]
  BY DEF Faithful
<1>11. ASSUME NEW id \in matching, NEW k \in Keys
       PROVE  /\ next[id].dns[k] \subseteq GivenTo(all, id, k)
              /\ Smallest(GivenTo(all, id, k) \cap Usable[k]) \subseteq next[id].dns[k]
  <2> DEFINE U == Usable[k]
             D == rows[id].dns[k] \cap U
             dns == rows[id].dns[k]
  <2>1. U \in SUBSET Int /\ IsFiniteSet(U) /\ G(id, k) \in SUBSET U /\ R(k) \in SUBSET U
    BY UsableType
  <2>2. /\ dns \subseteq GivenTo(answers, id, k)
        /\ Smallest(G(id, k)) \subseteq dns
    BY <1>1, <1>10
  <2>3. D \in SUBSET G(id, k) /\ Smallest(G(id, k)) \subseteq D
    BY <2>2, SmallestSubset
  <2>4. GivenTo(all, id, k) \cap U = G(id, k) \cup R(k)
    BY <1>9
  <2>5. R(k) \subseteq GivenTo(all, id, k) /\ GivenTo(answers, id, k) \subseteq GivenTo(all, id, k)
    BY <1>9
  <2> DEFINE g == G(id, k)  r == R(k)
  <2>6. CASE r = {}
    <3>1. next[id].dns[k] = dns
      BY <1>3, <1>6, <2>6 DEF MergedKey
    <3>2. GivenTo(all, id, k) \cap U = g
      BY <2>4, <2>6
    <3> QED
      BY <2>2, <2>5, <3>1, <3>2
  <2>7. CASE r # {}
    <3>1. next[id].dns[k] = Smallest(Smallest(D) \cup Smallest(r))
      BY <1>3, <1>6, <2>7 DEF MergedKey
    <3>2. Smallest(Smallest(D) \cup Smallest(r)) \subseteq D \cup r
      BY SmallestSubset
    <3> HIDE DEF r, g
    <3>3. Smallest(g \cup r) \subseteq Smallest(Smallest(D) \cup Smallest(r))
      <4>1. g \in SUBSET U /\ r \in SUBSET U /\ D \in SUBSET g /\ Smallest(g) \subseteq D
        BY <2>1, <2>3 DEF g, r
      <4> HIDE DEF D, U
      <4> QED
        BY <2>1, <4>1, SmallestOfMerge
    <3>4. D \subseteq GivenTo(all, id, k) /\ r \subseteq GivenTo(all, id, k)
      BY <2>2, <2>5 DEF r
    <3>5. GivenTo(all, id, k) \cap U = g \cup r
      BY <2>4 DEF g, r
    <3> HIDE DEF D, U
    <3>6. /\ next[id].dns[k] \subseteq GivenTo(all, id, k)
          /\ Smallest(GivenTo(all, id, k) \cap U) \subseteq next[id].dns[k]
      BY <3>1, <3>2, <3>3, <3>4, <3>5
    <3> QED
      BY <3>6 DEF U
  <2> QED
    BY <2>6, <2>7
<1>12. ASSUME NEW id \in DOMAIN next, NEW k \in Keys
       PROVE  /\ next[id].dns[k] \subseteq GivenTo(all, id, k)
              /\ Smallest(GivenTo(all, id, k) \cap Usable[k]) \subseteq next[id].dns[k]
  <2>1. CASE id \in matching
    BY <1>11, <2>1
  <2>2. CASE id \notin matching
    BY <1>1, <1>4, <1>8, <1>10, <2>2
  <2> QED
    BY <2>1, <2>2
<1>13. ASSUME NEW id \in DOMAIN next, id[1] = "subdomain"
       PROVE  next[id].status = "resolved" <=> \E t \in all : t[1] = id /\ t[2] # "cname"
  <2>1. /\ rows[id].status \in {"unverified", "resolved"}
        /\ rows[id].status = "resolved" <=> \E t \in answers : t[1] = id /\ t[2] # "cname"
    BY <1>1, <1>13 DEF Sound, Faithful
  <2>2. CASE id \notin matching
    <3>1. \A t \in given : t[1] # id
      BY <1>2, <2>2
    <3> QED
      BY <1>1, <1>4, <2>1, <2>2, <3>1
  <2>3. CASE id \in matching
    <3>1. HasAddress(Enrichment(record)) <=> R("a") \cup R("aaaa") # {}
      BY <1>5, <1>6 DEF Keys
    <3>2. ASSUME NEW x \in R("a") \cup R("aaaa")
          PROVE  \E t \in given : t[1] = id /\ t[2] # "cname"
      <4>1. PICK k \in {"a", "aaaa"} : x \in R(k)
        OBVIOUS
      <4>2. <<id, k, x>> \in given
        BY <1>2, <2>3, <4>1 DEF Keys
      <4> QED
        BY <4>2
    <3>3. ASSUME NEW t \in given, t[2] # "cname" PROVE R("a") \cup R("aaaa") # {}
      BY <1>2, <3>3 DEF Keys
    <3> HIDE DEF R
    <3>4. HasAddress(Enrichment(record)) <=> \E t \in given : t[1] = id /\ t[2] # "cname"
      BY <3>1, <3>2, <3>3
    <3>5. next[id].status = "resolved" <=>
            rows[id].status = "resolved" \/ HasAddress(Enrichment(record))
      BY <1>3, <2>1, <2>3
    <3> QED
      BY <2>1, <3>4, <3>5
  <2> QED
    BY <2>2, <2>3
<1>14. Faithful(next, all)
  BY <1>7, <1>12, <1>13 DEF Faithful
<1> QED
  BY <1>14 DEF next, given

-----------------------------------------------------------------------------
(* Findings and the rows they are linked to. *)

LEMMA CandidatesAreSeqs ==
    ASSUME NEW f
    PROVE  /\ RowCandidates(f) \in Seq({f.matched, f.host, f.ip})
           /\ LiveCandidates(f) \in Seq({f.matched, f.host, f.ip})
           /\ \A i \in DOMAIN RowCandidates(f) : \E j \in DOMAIN LiveCandidates(f) :
                LiveCandidates(f)[j] = RowCandidates(f)[i]
           /\ \A j \in DOMAIN LiveCandidates(f) : \E i \in DOMAIN RowCandidates(f) :
                RowCandidates(f)[i] = LiveCandidates(f)[j]
<1> DEFINE X == {f.matched, f.host, f.ip}
           fields == <<f.matched, f.host, f.ip>>
           pieces == [i \in DOMAIN fields |->
                        IF fields[i] # NoName THEN <<fields[i]>> ELSE << >>]
           row == RowCandidates(f)
           live == LiveCandidates(f)
<1>1. DOMAIN fields = 1 .. 3 /\ \A i \in 1 .. 3 : fields[i] \in X
  OBVIOUS
<1>2. row = FlattenSeq(pieces)
  BY DEF RowCandidates, Present
<1> HIDE DEF fields, X, row
<1>3. \A i \in 1 .. 3 : pieces[i] \in Seq(X)
  BY <1>1, SingletonSeq
<1>4. pieces \in [1 .. 3 -> Seq(X)]
  BY <1>1, <1>3
<1> HIDE DEF pieces
<1>5. row \in Seq(X)
  BY <1>2, <1>4, FunctionIsSeq, FlattenType
<1>6. CASE row = << >>
  <2>1. live = row
    BY <1>6 DEF LiveCandidates, row
  <2> HIDE DEF live
  <2>2. /\ live \in Seq(X)
        /\ \A i \in DOMAIN row : \E j \in DOMAIN live : live[j] = row[i]
        /\ \A j \in DOMAIN live : \E i \in DOMAIN row : row[i] = live[j]
    BY <1>5, <2>1
  <2> QED
    BY <1>5, <2>2 DEF live, row, X
<1>7. CASE row # << >>
  <2>1. live = <<Head(row)>> \o row
    BY <1>7 DEF LiveCandidates, row
  <2>2. Head(row) \in X /\ <<Head(row)>> \in Seq(X) /\ Len(<<Head(row)>>) = 1
    BY <1>5, <1>7, HeadTailProperties, SingletonSeq
  <2> HIDE DEF live
  <2>3. /\ live \in Seq(X) /\ Len(live) = 1 + Len(row)
        /\ \A j \in 1 .. 1 + Len(row) :
             live[j] = IF j <= 1 THEN <<Head(row)>>[j] ELSE row[j - 1]
    BY <1>5, <2>1, <2>2, ConcatProperties
  <2>4. Len(row) \in Nat /\ DOMAIN row = 1 .. Len(row) /\ DOMAIN live = 1 .. 1 + Len(row)
    BY <1>5, <2>3, LenProperties
  <2>5. ASSUME NEW i \in DOMAIN row PROVE \E j \in DOMAIN live : live[j] = row[i]
    <3>1. i + 1 \in DOMAIN live /\ live[i + 1] = row[i]
      BY <2>3, <2>4
    <3> QED
      BY <3>1
  <2>6. ASSUME NEW j \in DOMAIN live PROVE \E i \in DOMAIN row : row[i] = live[j]
    <3>1. CASE j <= 1
      <4>1. j = 1 /\ live[j] = Head(row)
        BY <2>2, <2>3, <2>4, <3>1
      <4>2. 1 \in DOMAIN row /\ row[1] = Head(row)
        BY <1>5, <1>7, <2>4, EmptySeq
      <4> QED
        BY <4>1, <4>2
    <3>2. CASE ~(j <= 1)
      <4>1. j - 1 \in DOMAIN row /\ live[j] = row[j - 1]
        BY <2>3, <2>4, <3>2
      <4> QED
        BY <4>1
    <3> QED
      BY <3>1, <3>2
  <2> QED
    BY <1>5, <2>3, <2>5, <2>6 DEF live, row, X
<1> QED
  BY <1>6, <1>7

LEMMA SameCandidates ==
    ASSUME NEW f
    PROVE  Range(LiveCandidates(f)) = Range(RowCandidates(f))
<1>1. ASSUME NEW c \in Range(LiveCandidates(f)) PROVE c \in Range(RowCandidates(f))
  <2>1. PICK j \in DOMAIN LiveCandidates(f) : c = LiveCandidates(f)[j]
    BY DEF Range
  <2>2. PICK i \in DOMAIN RowCandidates(f) : RowCandidates(f)[i] = LiveCandidates(f)[j]
    BY CandidatesAreSeqs
  <2> QED
    BY <2>1, <2>2 DEF Range
<1>2. ASSUME NEW c \in Range(RowCandidates(f)) PROVE c \in Range(LiveCandidates(f))
  <2>1. PICK i \in DOMAIN RowCandidates(f) : c = RowCandidates(f)[i]
    BY DEF Range
  <2>2. PICK j \in DOMAIN LiveCandidates(f) : LiveCandidates(f)[j] = RowCandidates(f)[i]
    BY CandidatesAreSeqs
  <2> QED
    BY <2>1, <2>2 DEF Range
<1> QED
  BY <1>1, <1>2

\* Rows of one value are one row, or the two of one name.
LEMMA ValuesTell ==
    ASSUME NEW rows, Sound(rows), NEW c, NEW id \in Exact(rows, c)
    PROVE  Exact(rows, c) \in {{id}, SameName(c)}
<1>1. \A q \in Exact(rows, c) : q \in Identities /\ q[2] = c
  BY DEF Exact, Sound
<1>2. CASE c \in RawNames
  <2>1. \A q \in Exact(rows, c) : q \in SameName(c)
    BY <1>1, <1>2, ValuesAssumption DEF Identities, SameName
  <2> QED
    BY <2>1 DEF SameName
<1>3. CASE c \notin RawNames
  <2>1. \A q \in Exact(rows, c) : q = id
    BY <1>1, <1>3, ValuesAssumption DEF Identities
  <2> QED
    BY <2>1
<1> QED
  BY <1>2, <1>3

\* What the resolution chooses is no guess.
LEMMA ResolveUnambiguous ==
    ASSUME NEW rows, Sound(rows), NEW X, NEW candidates \in Seq(X)
    PROVE  /\ \A id \in Resolve(rows, candidates) :
                id # NoAsset => Unambiguous(rows, Range(candidates), id)
           /\ Resolve(rows, candidates) \subseteq (DOMAIN rows) \cup {NoAsset}
           /\ NoAsset \in Resolve(rows, candidates) => Resolve(rows, candidates) = {NoAsset}
<1> DEFINE exact == {i \in DOMAIN candidates : Exact(rows, candidates[i]) # {}}
           sole  == {i \in DOMAIN candidates : Cardinality(OfHost(rows, candidates[i])) = 1}
           found == Resolve(rows, candidates)
<1>1. /\ DOMAIN candidates \subseteq Nat
      /\ exact \in SUBSET Nat /\ sole \in SUBSET Nat
  BY LenProperties
<1>2. NoAsset \notin DOMAIN rows
  BY DEF Sound, Identities, NoAsset
<1>3. found = IF exact # {} THEN Exact(rows, candidates[Min(exact)])
              ELSE IF sole # {} THEN OfHost(rows, candidates[Min(sole)]) ELSE {NoAsset}
  BY DEF Resolve
<1>4. CASE exact # {}
  <2>1. Min(exact) \in exact
    BY <1>1, <1>4, MinProperties
  <2>2. Min(exact) \in DOMAIN candidates
    BY <2>1
  <2>3. found = Exact(rows, candidates[Min(exact)])
    BY <1>3, <1>4
  <2> HIDE DEF found, exact
  <2>4. candidates[Min(exact)] \in Range(candidates)
    BY <2>2 DEF Range
  <2>5. found \subseteq DOMAIN rows
    BY <2>3 DEF Exact
  <2>6. \A id \in found : found \in {{id}, SameName(candidates[Min(exact)])}
    BY <2>3, ValuesTell
  <2> QED
    BY <1>2, <2>3, <2>4, <2>5, <2>6 DEF Unambiguous, found
<1>5. CASE exact = {} /\ sole # {}
  <2>1. Min(sole) \in sole
    BY <1>1, <1>5, MinProperties
  <2>2. Min(sole) \in DOMAIN candidates /\ Cardinality(OfHost(rows, candidates[Min(sole)])) = 1
    BY <2>1
  <2>3. found = OfHost(rows, candidates[Min(sole)])
    BY <1>3, <1>5
  <2>8. \A d \in Range(candidates) : Exact(rows, d) = {}
    BY <1>5 DEF Range
  <2>9. candidates[Min(sole)] \in Range(candidates)
    BY <2>2 DEF Range
  <2> HIDE DEF found, exact, sole
  <2>4. found \in SUBSET DOMAIN rows
    BY <2>3 DEF OfHost
  <2>5. IsFiniteSet(found)
    BY <2>4, FS_Subset DEF Sound
  <2>6. \E id : found = {id}
    BY <2>2, <2>3, <2>5, FS_Singleton
  <2>7. \A id \in found : id \in DOMAIN rows /\ OfHost(rows, candidates[Min(sole)]) = {id}
    BY <2>3, <2>4, <2>6
  <2> QED
    BY <1>2, <2>7, <2>8, <2>9 DEF Unambiguous, found
<1>6. CASE exact = {} /\ sole = {}
  <2>1. found = {NoAsset}
    BY <1>3, <1>6
  <2> HIDE DEF found, exact, sole
  <2> QED
    BY <2>1 DEF found
<1> QED
  BY <1>4, <1>5, <1>6

FindingRows == [row : Reportable, asset : Identities \cup {NoAsset}]

FindingsInv ==
    /\ IsFiniteSet(DOMAIN findings)
    /\ \A fp \in DOMAIN findings :
         /\ findings[fp] \in FindingRows
         /\ findings[fp].asset \in DOMAIN assets \cup {NoAsset}

\* What a linking pass does to the findings.
LEMMA LinkingPass ==
    ASSUME FindingsInv, NEW rows, Sound(rows), LinkFindings(rows)
    PROVE  \E chosen \in SUBSET Unlinked :
             /\ Cardinality(chosen) = Min({Cardinality(Unlinked), LinkCap})
             /\ DOMAIN findings' = DOMAIN findings
             /\ \A fp \in (DOMAIN findings) \ chosen : findings'[fp] = findings[fp]
             /\ \A fp \in chosen :
                  /\ findings'[fp].row = findings[fp].row
                  /\ findings'[fp].asset \in Resolve(rows, RowCandidates(findings[fp].row))
                  /\ findings'[fp] \in FindingRows
<1>1. PICK chosen \in kSubset(Min({Cardinality(Unlinked), LinkCap}), Unlinked) :
          findings' \in Linked(rows, chosen)
  BY DEF LinkFindings
<1>2. /\ chosen \in SUBSET Unlinked
      /\ Cardinality(chosen) = Min({Cardinality(Unlinked), LinkCap})
  BY DEF kSubset
<1>3. chosen \subseteq DOMAIN findings
  BY <1>2 DEF Unlinked
<1> DEFINE Targets(fp) == Resolve(rows, RowCandidates(findings[fp].row))
<1>4. PICK link \in {l \in [chosen -> UNION {Targets(fp) : fp \in chosen}] :
                       \A fp \in chosen : l[fp] \in Targets(fp)} :
          findings' = [fp \in DOMAIN findings |->
                         IF fp \in chosen THEN [findings[fp] EXCEPT !.asset = link[fp]]
                         ELSE findings[fp]]
  BY <1>1 DEF Linked
<1>5. \A fp \in chosen : link[fp] \in Targets(fp)
  BY <1>4
<1>6. /\ DOMAIN findings' = DOMAIN findings
      /\ \A fp \in (DOMAIN findings) \ chosen : findings'[fp] = findings[fp]
      /\ \A fp \in chosen : findings'[fp] = [findings[fp] EXCEPT !.asset = link[fp]]
  BY <1>3, <1>4
<1> HIDE DEF Targets
<1>7. ASSUME NEW fp \in chosen
      PROVE  /\ findings'[fp].row = findings[fp].row
             /\ findings'[fp].asset \in Targets(fp)
             /\ findings'[fp] \in FindingRows
  <2>1. findings[fp] \in FindingRows
    BY <1>3 DEF FindingsInv
  <2>2. link[fp] \in Targets(fp) /\ findings'[fp] = [findings[fp] EXCEPT !.asset = link[fp]]
    BY <1>5, <1>6
  <2>3. Targets(fp) \subseteq (DOMAIN rows) \cup {NoAsset}
    BY CandidatesAreSeqs, ResolveUnambiguous DEF Targets
  <2>4. link[fp] \in Identities \cup {NoAsset}
    BY <2>2, <2>3 DEF Sound
  <2> QED
    BY <2>1, <2>2, <2>4 DEF FindingRows
<1> QED
  BY <1>2, <1>6, <1>7 DEF Targets

-----------------------------------------------------------------------------
(* The inductive invariant. *)

Discovering == phase \in {"discovery", "answers"}

Current == IF Discovering THEN draft ELSE assets

Control ==
    /\ phase \in {"discovery", "answers", "agent", "stored", "lost"}
    /\ calls \in Nat
    /\ seen \in Seq(Observable)

\* Nothing is committed before the discovery stage is.
Uncommitted == Discovering => assets = NoRows

Inv ==
    /\ Control
    /\ Uncommitted
    /\ Sound(draft) /\ Sound(assets)
    /\ Faithful(Current, told)
    /\ FindingsInv
    /\ NothingLeftUnlinked

LEMMA NoRowsSound == Sound(NoRows) /\ Faithful(NoRows, {})
<1>1. DOMAIN NoRows = {} /\ \A id \in DOMAIN NoRows : FALSE
  BY DEF NoRows
<1>2. IsFiniteSet(DOMAIN NoRows)
  BY <1>1, FS_EmptySet
<1> QED
  BY <1>1, <1>2 DEF Sound, Faithful

LEMMA InitInv == Init => Inv
<1> SUFFICES ASSUME Init PROVE Inv
  OBVIOUS
<1>1. Control /\ Uncommitted /\ Discovering
  BY EmptySeq DEF Init, Control, Uncommitted, Discovering
<1>2. Sound(draft) /\ Sound(assets) /\ Faithful(Current, told)
  BY <1>1, NoRowsSound DEF Init, Current
<1>3. FindingsInv
  <2>1. DOMAIN findings = {}
    BY DEF Init, NoRows
  <2> QED
    BY <2>1, FS_EmptySet DEF FindingsInv
<1>4. NothingLeftUnlinked
  BY DEF Init, NothingLeftUnlinked
<1> QED
  BY <1>1, <1>2, <1>3, <1>4 DEF Inv

\* What does not touch the findings or the assets keeps what is known of them.
LEMMA FindingsKept ==
    FindingsInv /\ UNCHANGED <<findings, assets>> => FindingsInv'
BY DEF FindingsInv

LEMMA StoreNamesInv == Inv /\ StoreNames => Inv'
<1> SUFFICES ASSUME Inv, StoreNames PROVE Inv'
  OBVIOUS
<1>1. PICK o \in Observable :
        /\ draft' = Persisted(draft, New(draft, Derived(o)))
        /\ told' = told \cup Brought(New(draft, Derived(o)))
  BY DEF StoreNames
<1>2. /\ phase = "discovery" /\ phase' = phase /\ calls' = calls + 1
      /\ UNCHANGED <<assets, seen, findings>>
  BY DEF StoreNames
<1>3. Derived(o) \in RootedSeqs
  BY DerivedRooted
<1>4. Sound(draft')
  BY <1>1, <1>3, PersistedSound DEF Inv
<1>5. Faithful(draft', told')
  <2>1. Faithful(draft, told)
    BY <1>2 DEF Inv, Current, Discovering
  <2> QED
    BY <1>1, <1>3, <2>1, PersistedFaithful
<1>6. Faithful(Current', told')
  BY <1>2, <1>5 DEF Current, Discovering
<1>7. Control' /\ Uncommitted' /\ Sound(assets')
  BY <1>2 DEF Inv, Control, Uncommitted, Discovering
<1>8. FindingsInv' /\ NothingLeftUnlinked'
  BY <1>2, FindingsKept DEF Inv, NothingLeftUnlinked
<1> QED
  BY <1>4, <1>6, <1>7, <1>8 DEF Inv

LEMMA StoreAnswersInv == Inv /\ StoreAnswers => Inv'
<1> SUFFICES ASSUME Inv, StoreAnswers PROVE Inv'
  OBVIOUS
<1>1. PICK answer \in Answerable :
        /\ draft' = Enriched(draft, answer.queried, answer.record)
        /\ told' = told \cup Given(draft, answer.queried, answer.record)
  BY DEF StoreAnswers
<1>2. /\ Discovering /\ phase' = "answers" /\ calls' = calls + 1
      /\ UNCHANGED <<assets, seen, findings>>
  BY DEF StoreAnswers, Discovering
<1>3. Sound(draft')
  BY <1>1, EnrichedSound DEF Inv
<1>4. Faithful(draft', told')
  BY <1>1, <1>2, EnrichedFaithful DEF Inv, Current
<1>5. Faithful(Current', told')
  BY <1>2, <1>4 DEF Current, Discovering
<1>6. Control' /\ Uncommitted' /\ Sound(assets')
  BY <1>2 DEF Inv, Control, Uncommitted, Discovering
<1>7. FindingsInv' /\ NothingLeftUnlinked'
  BY <1>2, FindingsKept DEF Inv, NothingLeftUnlinked
<1> QED
  BY <1>3, <1>5, <1>6, <1>7 DEF Inv

LEMMA CommitDiscoveryInv == Inv /\ CommitDiscovery => Inv'
<1> SUFFICES ASSUME Inv, CommitDiscovery PROVE Inv'
  OBVIOUS
<1>1. Discovering /\ phase' = "agent" /\ UNCHANGED <<seen, findings, calls>>
  BY DEF CommitDiscovery, Discovering
<1>2. assets = NoRows
  BY <1>1 DEF Inv, Uncommitted
<1>3. \/ assets' = draft /\ UNCHANGED <<draft, told>>
      \/ draft' = NoRows /\ told' = {} /\ UNCHANGED assets
  BY DEF CommitDiscovery
<1>4. Sound(draft') /\ Sound(assets') /\ Faithful(assets', told')
  BY <1>1, <1>2, <1>3, NoRowsSound DEF Inv, Current
<1>5. Faithful(Current', told')
  BY <1>1, <1>4 DEF Current, Discovering
<1>6. Control' /\ Uncommitted'
  BY <1>1 DEF Inv, Control, Uncommitted, Discovering
<1>7. FindingsInv'
  <2>1. \A fp \in DOMAIN findings : findings[fp].asset \in DOMAIN assets' \cup {NoAsset}
    BY <1>2, NoRowsSound DEF Inv, FindingsInv, NoRows
  <2> QED
    BY <1>1, <2>1 DEF Inv, FindingsInv
<1>8. NothingLeftUnlinked'
  BY <1>1 DEF NothingLeftUnlinked
<1> QED
  BY <1>4, <1>5, <1>6, <1>7, <1>8 DEF Inv

LEMMA ObserveInv == Inv /\ Observe => Inv'
<1> SUFFICES ASSUME Inv, Observe PROVE Inv'
  OBVIOUS
<1>1. PICK o \in Observable : seen' = Append(seen, o)
  BY DEF Observe
<1>2. phase = "agent" /\ UNCHANGED <<phase, assets, draft, findings, told, calls>>
  BY DEF Observe
<1>3. Control' /\ Uncommitted'
  BY <1>1, <1>2, AppendProperties DEF Inv, Control, Uncommitted, Discovering
<1>4. Sound(draft') /\ Sound(assets') /\ Faithful(Current', told')
  BY <1>2 DEF Inv, Current, Discovering
<1>5. FindingsInv' /\ NothingLeftUnlinked'
  BY <1>2, FindingsKept DEF Inv, NothingLeftUnlinked
<1> QED
  BY <1>3, <1>4, <1>5 DEF Inv

LEMMA RecordFindingInv == Inv /\ RecordFinding => Inv'
<1> SUFFICES ASSUME Inv, RecordFinding PROVE Inv'
  OBVIOUS
<1>0. PICK f \in Reportable :
        \E id \in Resolve(assets, LiveCandidates(f)) :
          findings' = [fp \in (DOMAIN findings) \cup {Fingerprint(f)} |->
                         IF fp = Fingerprint(f) THEN [row |-> f, asset |-> id]
                         ELSE findings[fp]]
  BY DEF RecordFinding
<1>1. PICK id \in Resolve(assets, LiveCandidates(f)) :
        findings' = [fp \in (DOMAIN findings) \cup {Fingerprint(f)} |->
                       IF fp = Fingerprint(f) THEN [row |-> f, asset |-> id] ELSE findings[fp]]
  BY <1>0
<1>2. phase = "agent" /\ UNCHANGED <<phase, assets, draft, seen, told, calls>>
  BY DEF RecordFinding
<1>3. Control' /\ Uncommitted'
  BY <1>2 DEF Inv, Control, Uncommitted, Discovering
<1>4. Sound(draft') /\ Sound(assets') /\ Faithful(Current', told')
  BY <1>2 DEF Inv, Current, Discovering
<1>5. FindingsInv'
  <2>1. id \in DOMAIN assets \cup {NoAsset}
    BY CandidatesAreSeqs, ResolveUnambiguous DEF Inv
  <2>2. id \in Identities \cup {NoAsset}
    BY <2>1 DEF Inv, Sound
  <2>3. IsFiniteSet(DOMAIN findings')
    BY <1>1, FS_AddElement DEF Inv, FindingsInv
  <2>4. ASSUME NEW fp \in DOMAIN findings'
        PROVE  /\ findings'[fp] \in FindingRows
               /\ findings'[fp].asset \in DOMAIN assets' \cup {NoAsset}
    <3>1. CASE fp = Fingerprint(f)
      <4>1. findings'[fp] = [row |-> f, asset |-> id]
        BY <1>1, <3>1
      <4> QED
        BY <1>2, <2>1, <2>2, <4>1 DEF FindingRows
    <3>2. CASE fp # Fingerprint(f)
      <4>1. fp \in DOMAIN findings /\ findings'[fp] = findings[fp]
        BY <1>1, <3>2
      <4> QED
        BY <1>2, <4>1 DEF Inv, FindingsInv
    <3> QED
      BY <3>1, <3>2
  <2> QED
    BY <2>3, <2>4 DEF FindingsInv
<1>6. NothingLeftUnlinked'
  BY <1>2 DEF NothingLeftUnlinked
<1> QED
  BY <1>3, <1>4, <1>5, <1>6 DEF Inv

LEMMA FinishScanInv == Inv /\ FinishScan => Inv'
<1> SUFFICES ASSUME Inv, FinishScan PROVE Inv'
  OBVIOUS
<1>1. phase = "agent" /\ UNCHANGED <<draft, seen, calls>>
  BY DEF FinishScan
<1>2. CASE phase' = "lost" /\ UNCHANGED <<assets, findings, told>>
  <2>1. Control' /\ Uncommitted'
    BY <1>1, <1>2 DEF Inv, Control, Uncommitted, Discovering
  <2>2. Sound(draft') /\ Sound(assets') /\ Faithful(Current', told')
    BY <1>1, <1>2 DEF Inv, Current, Discovering
  <2>3. FindingsInv' /\ NothingLeftUnlinked'
    BY <1>2, FindingsKept DEF Inv, NothingLeftUnlinked
  <2> QED
    BY <2>1, <2>2, <2>3 DEF Inv
<1>3. CASE /\ phase' = "stored"
           /\ assets' = Persisted(assets, New(assets, AllDerived(seen)))
           /\ told' = told \cup Brought(New(assets, AllDerived(seen)))
           /\ LinkFindings(assets')
  <2>1. AllDerived(seen) \in RootedSeqs
    BY AllDerivedRooted DEF Inv, Control
  <2>2. Sound(assets') /\ Sound(draft')
    BY <1>1, <1>3, <2>1, PersistedSound DEF Inv
  <2>3. Faithful(assets', told')
    <3>1. Faithful(assets, told)
      BY <1>1 DEF Inv, Current, Discovering
    <3> QED
      BY <1>3, <2>1, <3>1, PersistedFaithful
  <2>4. Faithful(Current', told')
    BY <1>3, <2>3 DEF Current, Discovering
  <2>5. Control' /\ Uncommitted'
    BY <1>1, <1>3 DEF Inv, Control, Uncommitted, Discovering
  <2>6. PICK chosen \in SUBSET Unlinked :
          /\ Cardinality(chosen) = Min({Cardinality(Unlinked), LinkCap})
          /\ DOMAIN findings' = DOMAIN findings
          /\ \A fp \in (DOMAIN findings) \ chosen : findings'[fp] = findings[fp]
          /\ \A fp \in chosen :
               /\ findings'[fp].row = findings[fp].row
               /\ findings'[fp].asset \in Resolve(assets', RowCandidates(findings[fp].row))
               /\ findings'[fp] \in FindingRows
    BY <1>3, <2>2, LinkingPass DEF Inv
  <2>7. Unlinked \in SUBSET DOMAIN findings
    BY DEF Unlinked
  <2>8. FindingsInv'
    <3>1. DOMAIN assets \subseteq DOMAIN assets'
      BY <1>3, PersistedKeeps
    <3>2. ASSUME NEW fp \in DOMAIN findings
          PROVE  /\ findings'[fp] \in FindingRows
                 /\ findings'[fp].asset \in DOMAIN assets' \cup {NoAsset}
      <4>1. CASE fp \in chosen
        <5>1. Resolve(assets', RowCandidates(findings[fp].row)) \subseteq
                DOMAIN assets' \cup {NoAsset}
          BY <2>2, CandidatesAreSeqs, ResolveUnambiguous
        <5> QED
          BY <2>6, <4>1, <5>1
      <4>2. CASE fp \notin chosen
        BY <2>6, <3>1, <4>2 DEF Inv, FindingsInv
      <4> QED
        BY <4>1, <4>2
    <3> QED
      BY <2>6, <3>2 DEF Inv, FindingsInv
  <2>9. NothingLeftUnlinked'
    <3>1. SUFFICES ASSUME Cardinality(DOMAIN findings) <= LinkCap,
                          NEW fp \in Unlinked'
                   PROVE  Resolve(assets', RowCandidates(findings'[fp].row)) = {NoAsset}
      BY <2>6 DEF NothingLeftUnlinked
    <3>2. IsFiniteSet(DOMAIN findings)
      BY DEF Inv, FindingsInv
    <3>3. /\ IsFiniteSet(Unlinked) /\ Cardinality(Unlinked) <= Cardinality(DOMAIN findings)
          /\ Cardinality(Unlinked) \in Nat /\ Cardinality(DOMAIN findings) \in Nat
          /\ LinkCap \in Nat
      BY <2>7, <3>2, FS_Subset, FS_CardinalityType, CapsAssumption
    <3>4. Cardinality(chosen) = Cardinality(Unlinked)
      <4> DEFINE T == {Cardinality(Unlinked), LinkCap}
      <4>1. Min(T) \in T /\ \A m \in T : Min(T) <= m
        BY <3>3, MinProperties
      <4>2. Cardinality(Unlinked) <= LinkCap
        BY <3>1, <3>3
      <4>3. Min(T) = Cardinality(Unlinked)
        BY <3>3, <4>1, <4>2
      <4> QED
        BY <2>6, <4>3
    <3>5. chosen = Unlinked
      BY <3>3, <3>4, FS_Subset
    <3>6. fp \in DOMAIN findings /\ findings'[fp].asset = NoAsset
      BY <2>6, <3>1 DEF Unlinked
    <3>7. fp \in chosen
      <4>1. CASE fp \notin chosen
        BY <2>6, <3>5, <3>6, <4>1 DEF Unlinked
      <4> QED
        BY <4>1
    <3>8. NoAsset \in Resolve(assets', RowCandidates(findings[fp].row))
      BY <2>6, <3>6, <3>7
    <3>9. Resolve(assets', RowCandidates(findings[fp].row)) = {NoAsset}
      BY <2>2, <3>8, CandidatesAreSeqs, ResolveUnambiguous
    <3> QED
      BY <2>6, <3>7, <3>9
  <2> QED
    BY <2>2, <2>4, <2>5, <2>8, <2>9 DEF Inv
<1> QED
  BY <1>2, <1>3 DEF FinishScan

LEMMA StepInv == Inv /\ [Next]_vars => Inv'
<1>1. Inv /\ UNCHANGED vars => Inv'
  <2> SUFFICES ASSUME Inv, UNCHANGED vars PROVE Inv'
    OBVIOUS
  <2>1. UNCHANGED <<phase, assets, draft, seen, findings, told, calls>>
    BY DEF vars
  <2>2. Control' /\ Uncommitted' /\ Sound(draft') /\ Sound(assets') /\ Faithful(Current', told')
    BY <2>1 DEF Inv, Control, Uncommitted, Discovering, Current
  <2>3. FindingsInv' /\ NothingLeftUnlinked'
    BY <2>1, FindingsKept DEF Inv, NothingLeftUnlinked, Unlinked
  <2> QED
    BY <2>2, <2>3 DEF Inv
<1> QED
  BY <1>1, StoreNamesInv, StoreAnswersInv, CommitDiscoveryInv, ObserveInv,
     RecordFindingInv, FinishScanInv DEF Next

THEOREM Invariance == Spec => []Inv
BY InitInv, StepInv, PTL DEF Spec

-----------------------------------------------------------------------------
(* What the runs check, for every scan. *)

\* The rows of both tables and the findings have their types whatever the
\* tools report, and a link leads to a stored row (result_persistence.py,
\* finding_links.py).
THEOREM TypeCorrect == Spec => []TypeOK
<1>1. Inv => TypeOK
  <2> SUFFICES ASSUME Inv PROVE TypeOK
    OBVIOUS
  <2>1. \A rows \in {draft, assets} :
          /\ DOMAIN rows \subseteq Identities
          /\ \A id \in DOMAIN rows :
               rows[id] \in StoredRows /\ rows[id].parent \in DOMAIN rows \cup {NoAsset}
    BY DEF Inv, Sound
  <2>2. \A fp \in DOMAIN findings :
          /\ findings[fp].row \in Reportable
          /\ findings[fp].asset \in DOMAIN assets \cup {NoAsset}
    BY DEF Inv, FindingsInv, FindingRows
  <2> QED
    BY <2>1, <2>2 DEF Inv, Control, TypeOK
<1> QED
  BY <1>1, Invariance, PTL

\* Every stored subdomain hangs below the row of a domain of the snapshot,
\* however the cap of one pass cuts the batch (build_subdomain_asset and
\* persist_assets_from_observations).
THEOREM TreeRooted == Spec => []TreeIsRooted
<1>1. Inv => TreeIsRooted
  BY DEF Inv, Sound, TreeIsRooted
<1> QED
  BY <1>1, Invariance, PTL

\* A row keeps the smallest of the DNS answers it was given and none that it
\* was not given, in whatever order they came and however the merges cut them
\* (apply_dnsx_enrichment, _merge_dns_values).
THEOREM DnsFaithful == Spec => []DnsIsFaithful
<1>1. Inv => DnsIsFaithful
  BY DEF Inv, Current, Discovering, Faithful, GivenTo, DnsIsFaithful
<1> QED
  BY <1>1, Invariance, PTL

\* After the asset pass no finding lacks the asset that it names, unless there
\* were more findings than one pass links (link_findings_to_assets).
THEOREM NothingUnlinked == Spec => []NothingLeftUnlinked
<1>1. Inv => NothingLeftUnlinked
  BY DEF Inv
<1> QED
  BY <1>1, Invariance, PTL

\* What LinksAreUnambiguous asks of a finding in a step.
LinkIsNoGuess(fp) ==
    LET f   == findings'[fp]
        was == IF fp \in DOMAIN findings THEN findings[fp].asset ELSE NoAsset
    IN  f.asset # was =>
          was = NoAsset /\ Unambiguous(assets', Range(RowCandidates(f.row)), f.asset)

LEMMA RecordingIsNoGuess ==
    ASSUME Inv, RecordFinding, NEW fp \in DOMAIN findings'
    PROVE  LinkIsNoGuess(fp)
<1>0. PICK f \in Reportable :
        /\ ~Recorded(f)
        /\ \E id \in Resolve(assets, LiveCandidates(f)) :
             findings' = [p \in (DOMAIN findings) \cup {Fingerprint(f)} |->
                            IF p = Fingerprint(f) THEN [row |-> f, asset |-> id]
                            ELSE findings[p]]
  BY DEF RecordFinding
<1>1. PICK id \in Resolve(assets, LiveCandidates(f)) :
        findings' = [p \in (DOMAIN findings) \cup {Fingerprint(f)} |->
                       IF p = Fingerprint(f) THEN [row |-> f, asset |-> id] ELSE findings[p]]
  BY <1>0
<1>2. assets' = assets
  BY DEF RecordFinding
<1>3. CASE fp # Fingerprint(f)
  <2>1. fp \in DOMAIN findings /\ findings'[fp] = findings[fp]
    BY <1>1, <1>3
  <2> QED
    BY <2>1 DEF LinkIsNoGuess
<1>4. CASE fp = Fingerprint(f)
  <2>1. findings'[fp] = [row |-> f, asset |-> id] /\ fp \notin DOMAIN findings
    BY <1>0, <1>1, <1>4 DEF Recorded
  <2>2. findings'[fp].row = f /\ findings'[fp].asset = id
    BY <2>1
  <2>3. id # NoAsset => Unambiguous(assets, Range(LiveCandidates(f)), id)
    BY CandidatesAreSeqs, ResolveUnambiguous DEF Inv
  <2> QED
    BY <1>2, <2>1, <2>2, <2>3, SameCandidates DEF LinkIsNoGuess
<1> QED
  BY <1>3, <1>4

LEMMA FinishingIsNoGuess ==
    ASSUME Inv, FinishScan, NEW fp \in DOMAIN findings'
    PROVE  LinkIsNoGuess(fp)
<1>1. CASE findings' = findings
  BY <1>1 DEF LinkIsNoGuess
<1>2. CASE /\ assets' = Persisted(assets, New(assets, AllDerived(seen)))
           /\ LinkFindings(assets')
  <2>1. AllDerived(seen) \in RootedSeqs
    BY AllDerivedRooted DEF Inv, Control
  <2>2. Sound(assets')
    BY <1>2, <2>1, PersistedSound DEF Inv
  <2>3. PICK chosen \in SUBSET Unlinked :
          /\ Cardinality(chosen) = Min({Cardinality(Unlinked), LinkCap})
          /\ DOMAIN findings' = DOMAIN findings
          /\ \A p \in (DOMAIN findings) \ chosen : findings'[p] = findings[p]
          /\ \A p \in chosen :
               /\ findings'[p].row = findings[p].row
               /\ findings'[p].asset \in Resolve(assets', RowCandidates(findings[p].row))
               /\ findings'[p] \in FindingRows
    BY <1>2, <2>2, LinkingPass DEF Inv
  <2>4. fp \in DOMAIN findings
    BY <2>3
  <2>5. CASE fp \notin chosen
    BY <2>3, <2>4, <2>5 DEF LinkIsNoGuess
  <2>6. CASE fp \in chosen
    <3> DEFINE f == findings[fp].row
    <3>1. /\ findings'[fp].row = f
          /\ findings'[fp].asset \in Resolve(assets', RowCandidates(f))
          /\ findings[fp].asset = NoAsset
      BY <2>3, <2>6 DEF Unlinked
    <3> HIDE DEF f
    <3>2. findings'[fp].asset # NoAsset =>
            Unambiguous(assets', Range(RowCandidates(f)), findings'[fp].asset)
      BY <2>2, <3>1, CandidatesAreSeqs, ResolveUnambiguous
    <3> QED
      BY <2>4, <3>1, <3>2 DEF LinkIsNoGuess
  <2> QED
    BY <2>5, <2>6
<1> QED
  BY <1>1, <1>2 DEF FinishScan

\* A finding is linked once and never by a guess: among the rows stored by
\* then only the domain and the subdomain of one name can be mistaken for one
\* another (resolve_finding_asset_id, persist_finding, link_findings_to_assets).
THEOREM LinksUnambiguous == Spec => LinksAreUnambiguous
<1>1. Inv /\ [Next]_vars => [\A fp \in DOMAIN findings' : LinkIsNoGuess(fp)]_vars
  <2> SUFFICES ASSUME Inv, Next, NEW fp \in DOMAIN findings'
               PROVE  LinkIsNoGuess(fp)
    OBVIOUS
  <2>1. CASE findings' = findings
    BY <2>1 DEF LinkIsNoGuess
  <2>2. CASE RecordFinding
    BY <2>2, RecordingIsNoGuess
  <2>3. CASE FinishScan
    BY <2>3, FinishingIsNoGuess
  <2> QED
    BY <2>1, <2>2, <2>3 DEF Next, StoreNames, StoreAnswers, CommitDiscovery, Observe
<1>2. [][\A fp \in DOMAIN findings' : LinkIsNoGuess(fp)]_vars <=> LinksAreUnambiguous
  BY DEF LinksAreUnambiguous, LinkIsNoGuess
<1> QED
  BY <1>1, <1>2, Invariance, PTL DEF Spec

=============================================================================
