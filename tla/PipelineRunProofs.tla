------------------------- MODULE PipelineRunProofs --------------------------
(***************************************************************************)
(* For every snapshot, profile, budget and answer of the scanners: the     *)
(* budget is never overrun, no target is lost between the stages, and the  *)
(* gate rejects a decision of the planner for three reasons only.          *)
(*                                                                         *)
(* The lists of the planner are recursive functions, and an induction over *)
(* a list takes the smallest length for which the claim would fail         *)
(* (MinimalNat): the induction theorems of the library need an operator    *)
(* for an argument, which the provers cannot instantiate.                  *)
(***************************************************************************)
EXTENDS PipelineRun, FiniteSetTheorems, SequenceTheorems, TLAPS

-----------------------------------------------------------------------------
(* Lists. *)

\* A nonempty set of numbers has a least element.
LEMMA MinimalNat ==
    ASSUME NEW T \in SUBSET Nat, T # {}
    PROVE  \E n \in T : \A m \in T : n <= m
<1>1. IsWellFoundedOn(OpToRel(<, Nat), Nat)
  BY NatLessThanWellFounded
<1>2. \E n \in T : \A m \in T : ~(<<m, n>> \in OpToRel(<, Nat))
  BY <1>1, WFMin
<1>3. \E n \in T : \A m \in T : ~(m < n)
  BY <1>2 DEF OpToRel
<1> QED
  BY <1>3

LEMMA RangeOfAppend ==
    ASSUME NEW X, NEW s \in Seq(X), NEW x \in X
    PROVE  Range(Append(s, x)) = Range(s) \cup {x}
<1>1. /\ Append(s, x) \in Seq(X) /\ Len(s) \in Nat /\ Len(Append(s, x)) = Len(s) + 1
      /\ \A i \in 1 .. Len(s) : Append(s, x)[i] = s[i]
      /\ Append(s, x)[Len(s) + 1] = x
  BY AppendProperties, LenProperties
<1>2. Range(Append(s, x)) = {Append(s, x)[i] : i \in 1 .. Len(s) + 1}
  BY <1>1, RangeEquality
<1>3. Range(s) = {s[i] : i \in 1 .. Len(s)}
  BY RangeEquality
<1>4. 1 .. Len(s) + 1 = (1 .. Len(s)) \cup {Len(s) + 1}
  BY <1>1
<1> QED
  BY <1>1, <1>2, <1>3, <1>4

\* A list has at most as many different elements as places.
LEMMA RangeSize ==
    ASSUME NEW X, NEW s \in Seq(X)
    PROVE  IsFiniteSet(Range(s)) /\ Cardinality(Range(s)) <= Len(s)
<1>1. Len(s) \in Nat /\ s \in [1 .. Len(s) -> X] /\ Range(s) = {s[i] : i \in 1 .. Len(s)}
  BY LenProperties, RangeEquality
<1>2. s \in Surjection(1 .. Len(s), Range(s))
  BY <1>1 DEF Surjection
<1>3. IsFiniteSet(1 .. Len(s)) /\ Cardinality(1 .. Len(s)) = Len(s)
  BY <1>1, FS_Interval
<1> QED
  BY <1>2, <1>3, FS_Surjection

\* A cap shortens a list but never empties it.
LEMMA CappedProperties ==
    ASSUME NEW X, NEW s \in Seq(X)
    PROVE  /\ Capped(s) \in Seq(X)
           /\ Len(Capped(s)) <= MaxTargets
           /\ Range(Capped(s)) \subseteq Range(s)
           /\ s # << >> => Capped(s) # << >>
<1>1. CASE Len(s) <= MaxTargets
  BY <1>1 DEF Capped
<1>2. CASE ~(Len(s) <= MaxTargets)
  <2>1. MaxTargets \in Nat \ {0} /\ Len(s) \in Nat /\ DOMAIN s = 1 .. Len(s)
    BY LimitsAssumption, LenProperties
  <2>2. \A i \in 1 .. MaxTargets : s[i] \in X
    BY <2>1, <1>2, ElementOfSeq
  <2>3. /\ Capped(s) \in Seq(X) /\ Len(Capped(s)) = MaxTargets
        /\ \A i \in 1 .. MaxTargets : Capped(s)[i] = s[i]
    BY <1>2, <2>1, <2>2, SubSeqProperties DEF Capped
  <2>4. Range(Capped(s)) = {Capped(s)[i] : i \in 1 .. MaxTargets}
    BY <2>3, RangeEquality
  <2>5. Range(Capped(s)) \subseteq Range(s)
    BY <2>1, <2>3, <2>4, <1>2 DEF Range
  <2>6. Capped(s) # << >>
    BY <2>1, <2>3, EmptySeq
  <2> QED
    BY <2>1, <2>3, <2>5, <2>6
<1> QED
  BY <1>1, <1>2

\* A cap spares the head of a list.
LEMMA HeadSurvives ==
    ASSUME NEW X, NEW s \in Seq(X), NEW t \in Seq(X), Len(s) <= MaxTargets
    PROVE  Range(s) \subseteq Range(Capped(s \o t))
<1> DEFINE u == s \o t
<1>1. /\ u \in Seq(X) /\ Len(u) = Len(s) + Len(t) /\ Len(s) \in Nat /\ Len(t) \in Nat
      /\ \A i \in 1 .. Len(s) : u[i] = s[i]
  BY ConcatProperties, LenProperties
<1> HIDE DEF u
<1>2. Capped(u) \in Seq(X)
  BY <1>1, CappedProperties
<1>3. \A i \in 1 .. Len(s) : i \in 1 .. Len(Capped(u)) /\ Capped(u)[i] = s[i]
  <2>1. CASE Len(u) <= MaxTargets
    BY <2>1, <1>1 DEF Capped
  <2>2. CASE ~(Len(u) <= MaxTargets)
    <3>1. MaxTargets \in Nat \ {0}
      BY LimitsAssumption
    <3>2. \A i \in 1 .. MaxTargets : u[i] \in X
      BY <2>2, <3>1, <1>1, ElementOfSeq
    <3>3. /\ Len(SubSeq(u, 1, MaxTargets)) = MaxTargets
          /\ \A i \in 1 .. MaxTargets : SubSeq(u, 1, MaxTargets)[i] = u[i]
      BY <3>1, <3>2, SubSeqProperties
    <3>4. Capped(u) = SubSeq(u, 1, MaxTargets)
      BY <2>2 DEF Capped
    <3> QED
      BY <3>1, <3>3, <3>4, <1>1
  <2> QED
    BY <2>1, <2>2
<1>4. /\ Range(s) = {s[i] : i \in 1 .. Len(s)}
      /\ Range(Capped(u)) = {Capped(u)[i] : i \in 1 .. Len(Capped(u))}
  BY <1>2, RangeEquality
<1>5. Range(s) \subseteq Range(Capped(u))
  BY <1>3, <1>4
<1> QED
  BY <1>5 DEF u

\* f is the recursion of Only, for the first n elements of s.
IsOnly(f, n, s, S) ==
    f = [i \in 0 .. n |-> IF i = 0 THEN << >>
                          ELSE IF s[i] \in S THEN Append(f[i - 1], s[i]) ELSE f[i - 1]]

\* A list of any length has such a recursion, by the least one that had none.
LEMMA OnlyExists ==
    ASSUME NEW X, NEW s \in Seq(X), NEW S
    PROVE  \A n \in Nat : \E f : IsOnly(f, n, s, S)
<1> DEFINE Bad == {n \in Nat : ~ \E f : IsOnly(f, n, s, S)}
<1> SUFFICES ASSUME Bad # {} PROVE FALSE
  OBVIOUS
<1>1. PICK n \in Bad : \A m \in Bad : n <= m
  <2> Bad \in SUBSET Nat
    OBVIOUS
  <2> HIDE DEF Bad
  <2> QED
    BY MinimalNat
<1>2. CASE n = 0
  <2> DEFINE f == [i \in 0 .. 0 |-> << >>]
  <2>1. IsOnly(f, 0, s, S)
    BY DEF IsOnly
  <2> QED
    BY <1>1, <1>2, <2>1
<1>3. CASE n # 0
  <2>1. n - 1 \in Nat /\ n - 1 \notin Bad
    BY <1>1, <1>3
  <2>2. PICK f : IsOnly(f, n - 1, s, S)
    BY <2>1
  <2> DEFINE g == [i \in 0 .. n |->
                     IF i < n THEN f[i]
                     ELSE IF s[n] \in S THEN Append(f[n - 1], s[n]) ELSE f[n - 1]]
  <2>3. ASSUME NEW i \in 0 .. n
        PROVE  g[i] = IF i = 0 THEN << >>
                      ELSE IF s[i] \in S THEN Append(g[i - 1], s[i]) ELSE g[i - 1]
    <3>1. CASE i = n
      BY <3>1, <1>3, <2>1
    <3>2. CASE i # n
      <4>1. i \in 0 .. n - 1 /\ i < n /\ i - 1 < n
        BY <3>2, <2>1
      <4>2. f[i] = IF i = 0 THEN << >>
                   ELSE IF s[i] \in S THEN Append(f[i - 1], s[i]) ELSE f[i - 1]
        BY <4>1, <2>2 DEF IsOnly
      <4> QED
        BY <4>1, <4>2
    <3> QED
      BY <3>1, <3>2
  <2>4. g = [i \in 0 .. n |-> g[i]]
    OBVIOUS
  <2> HIDE DEF g
  <2>5. IsOnly(g, n, s, S)
    BY <2>3, <2>4 DEF IsOnly
  <2> QED
    BY <1>1, <2>5
<1> QED
  BY <1>2, <1>3

LEMMA OnlyUnfolds ==
    ASSUME NEW X, NEW s \in Seq(X), NEW S
    PROVE  \E f : IsOnly(f, Len(s), s, S) /\ Only(s, S) = f[Len(s)]
<1> DEFINE f == CHOOSE g : IsOnly(g, Len(s), s, S)
<1>1. IsOnly(f, Len(s), s, S)
  BY OnlyExists
<1>2. Only(s, S) = f[Len(s)]
  BY DEF Only, IsOnly
<1> QED
  BY <1>1, <1>2

\* A filter keeps exactly the elements it should.
LEMMA OnlyProperties ==
    ASSUME NEW X, NEW s \in Seq(X), NEW S
    PROVE  /\ Only(s, S) \in Seq(X)
           /\ Range(Only(s, S)) = Range(s) \cap S
           /\ Len(Only(s, S)) <= Len(s)
<1>1. PICK f : IsOnly(f, Len(s), s, S) /\ Only(s, S) = f[Len(s)]
  BY OnlyUnfolds
<1> DEFINE Good(n) == /\ f[n] \in Seq(X)
                      /\ Range(f[n]) = {s[i] : i \in 1 .. n} \cap S
                      /\ Len(f[n]) <= n
           Bad == {n \in 0 .. Len(s) : ~ Good(n)}
<1>2. ASSUME NEW n \in 0 .. Len(s), n # 0 => Good(n - 1)
      PROVE  Good(n)
  <2>1. CASE n = 0
    <3>1. f[0] = << >>
      BY <1>1 DEF IsOnly
    <3>2. Range(<< >>) = {} /\ {s[i] : i \in 1 .. 0} = {}
      BY DEF Range
    <3> QED
      BY <2>1, <3>1, <3>2
  <2>2. CASE n # 0
    <3>1. f[n] = IF s[n] \in S THEN Append(f[n - 1], s[n]) ELSE f[n - 1]
      BY <1>1, <2>2 DEF IsOnly
    <3>2. Good(n - 1) /\ s[n] \in X /\ n - 1 \in Nat
      BY <1>2, <2>2
    <3> HIDE DEF Good
    <3>3. {s[i] : i \in 1 .. n} = {s[i] : i \in 1 .. n - 1} \cup {s[n]}
      BY <3>2, <2>2
    <3>4. CASE s[n] \in S
      <4>1. /\ f[n] \in Seq(X) /\ Len(f[n]) = Len(f[n - 1]) + 1
            /\ f[n] = Append(f[n - 1], s[n])
        BY <3>1, <3>2, <3>4, AppendProperties DEF Good
      <4>2. Range(f[n]) = Range(f[n - 1]) \cup {s[n]}
        BY <4>1, <3>2, RangeOfAppend DEF Good
      <4> QED
        BY <4>1, <4>2, <3>2, <3>3, <3>4 DEF Good
    <3>5. CASE s[n] \notin S
      BY <3>1, <3>2, <3>3, <3>5 DEF Good
    <3> QED
      BY <3>4, <3>5
  <2> QED
    BY <2>1, <2>2
<1> HIDE DEF Good
<1>3. Bad = {}
  <2> SUFFICES ASSUME Bad # {} PROVE FALSE
    OBVIOUS
  <2>1. PICK n \in Bad : \A m \in Bad : n <= m
    <3> Bad \in SUBSET Nat
      OBVIOUS
    <3> HIDE DEF Bad
    <3> QED
      BY MinimalNat
  <2>2. n # 0 => Good(n - 1)
    BY <2>1
  <2> QED
    BY <1>2, <2>1, <2>2
<1>4. Good(Len(s))
  BY <1>3
<1>5. Range(s) = {s[i] : i \in 1 .. Len(s)}
  BY RangeEquality
<1> QED
  BY <1>1, <1>4, <1>5 DEF Good

\* Two filters that share nothing keep no more than there is.
LEMMA OnlyDisjoint ==
    ASSUME NEW X, NEW s \in Seq(X), NEW S, NEW T, S \cap T = {}
    PROVE  Len(Only(s, S)) + Len(Only(s, T)) <= Len(s)
<1>1. PICK f : IsOnly(f, Len(s), s, S) /\ Only(s, S) = f[Len(s)]
  BY OnlyUnfolds
<1>2. PICK g : IsOnly(g, Len(s), s, T) /\ Only(s, T) = g[Len(s)]
  BY OnlyUnfolds
<1> DEFINE Good(n) == /\ f[n] \in Seq(X) /\ g[n] \in Seq(X)
                      /\ Len(f[n]) + Len(g[n]) <= n
           Bad == {n \in 0 .. Len(s) : ~ Good(n)}
<1>3. ASSUME NEW n \in 0 .. Len(s), n # 0 => Good(n - 1)
      PROVE  Good(n)
  <2>1. CASE n = 0
    BY <2>1, <1>1, <1>2 DEF IsOnly
  <2>2. CASE n # 0
    <3>1. /\ f[n] = IF s[n] \in S THEN Append(f[n - 1], s[n]) ELSE f[n - 1]
          /\ g[n] = IF s[n] \in T THEN Append(g[n - 1], s[n]) ELSE g[n - 1]
      BY <1>1, <1>2, <2>2 DEF IsOnly
    <3>2. s[n] \in X /\ n - 1 \in Nat /\ n \in Nat
      BY <2>2, LenProperties, ElementOfSeq
    <3>3. Good(n - 1)
      <4> HIDE DEF Good
      <4> QED
        BY <1>3, <2>2
    <3>4. PICK a \in Seq(X) : a = f[n - 1]
      BY <3>3
    <3>5. PICK b \in Seq(X) : b = g[n - 1]
      BY <3>3
    <3>6. /\ Append(a, s[n]) \in Seq(X) /\ Append(b, s[n]) \in Seq(X)
          /\ Len(Append(a, s[n])) = Len(a) + 1 /\ Len(Append(b, s[n])) = Len(b) + 1
          /\ Len(a) \in Nat /\ Len(b) \in Nat
      BY <3>2, AppendProperties, LenProperties
    <3>7. Len(a) + Len(b) <= n - 1
      BY <3>3, <3>4, <3>5
    <3>8. CASE s[n] \in S
      <4>1. f[n] = Append(a, s[n]) /\ g[n] = b
        BY <3>1, <3>4, <3>5, <3>8
      <4>2. Len(f[n]) + Len(g[n]) <= n
        BY <4>1, <3>2, <3>6, <3>7
      <4> QED
        BY <4>1, <4>2, <3>6
    <3>9. CASE s[n] \notin S
      <4>1. f[n] = a /\ (g[n] = Append(b, s[n]) \/ g[n] = b)
        BY <3>1, <3>4, <3>5, <3>9
      <4>2. Len(f[n]) + Len(g[n]) <= n
        BY <4>1, <3>2, <3>6, <3>7
      <4> QED
        BY <4>1, <4>2, <3>6
    <3> QED
      BY <3>8, <3>9
  <2> QED
    BY <2>1, <2>2
<1> HIDE DEF Good
<1>4. Bad = {}
  <2> SUFFICES ASSUME Bad # {} PROVE FALSE
    OBVIOUS
  <2>1. PICK n \in Bad : \A m \in Bad : n <= m
    <3> Bad \in SUBSET Nat
      OBVIOUS
    <3> HIDE DEF Bad
    <3> QED
      BY MinimalNat
  <2>2. n # 0 => Good(n - 1)
    BY <2>1
  <2> QED
    BY <1>3, <2>1, <2>2
<1>5. Good(Len(s))
  BY <1>4
<1> QED
  BY <1>1, <1>2, <1>5 DEF Good

-----------------------------------------------------------------------------
(* What the planner proposes. *)

\* Where a redirect may lead, and what httpx may report.
Pages == Targets \cup {Foreign}

Reports == [url : Targets \cup {NoUrl}, final : Pages, ok : BOOLEAN]

\* The parts of TypeOK that do not count.
Types ==
    /\ profile \in DOMAIN Stages /\ hosts \in Seq(Names) /\ seeds \subseteq Names
    /\ resolved \subseteq Addresses /\ promoted \in Seq(Promotable)
    /\ maxSteps \in Nat \ {0} /\ step \in 0 .. maxSteps
    /\ done \subseteq Tools /\ covered \subseteq Names /\ nmapUrls \in Seq(Addresses)
    /\ services \in Seq(Reports)

LEMMA TypesFromTypeOK == TypeOK => Types
  BY HostsAssumption, LimitsAssumption DEF TypeOK, Types, Reports, Pages

LEMMA HostsType ==
    ASSUME Types
    PROVE  /\ Hosts \in Seq(Names) /\ Len(Hosts) <= MaxTargets
           /\ Range(Hosts) \subseteq Range(hosts)
           /\ hosts # << >> => Hosts # << >>
           /\ Hosts # << >> => hosts # << >>
<1>1. hosts \in Seq(Names)
  BY DEF Types
<1>2. hosts = << >> => Hosts = << >>
  BY LimitsAssumption DEF Hosts, Capped
<1> QED
  BY <1>1, <1>2, CappedProperties DEF Hosts

\* The next host is one no decision has named.
LEMMA NextHostType ==
    ASSUME Types, PendingNmap # {}
    PROVE  /\ NextHost \in Range(Hosts) /\ NextHost \in Names /\ NextHost \notin covered
           /\ \E i \in PendingNmap : NextHost = Hosts[i]
<1>1. Hosts \in Seq(Names) /\ Len(Hosts) \in Nat /\ DOMAIN Hosts = 1 .. Len(Hosts)
  BY HostsType, LenProperties
<1>2. PendingNmap \in SUBSET Nat
  BY <1>1 DEF PendingNmap
<1>3. \E i \in PendingNmap : \A j \in PendingNmap : i <= j
  BY <1>2, MinimalNat
<1>4. \E i \in PendingNmap : NextHost = Hosts[i]
  BY <1>3 DEF NextHost
<1>5. PICK i \in PendingNmap : NextHost = Hosts[i]
  BY <1>4
<1>6. i \in DOMAIN Hosts /\ Hosts[i] \notin covered /\ Hosts[i] \in Names
  BY <1>1, <1>5, ElementOfSeq DEF PendingNmap
<1> QED
  BY <1>4, <1>5, <1>6 DEF Range

LEMMA FallbackType ==
    ASSUME Types
    PROVE  /\ Fallback \in Seq(Names) /\ Len(Fallback) <= MaxTargets
           /\ Range(Fallback) \subseteq Range(hosts)
           /\ hosts # << >> => Fallback # << >>
<1>1. hosts \in Seq(Names)
  BY DEF Types
<1>2. Only(hosts, seeds) \in Seq(Names) /\ Range(Only(hosts, seeds)) \subseteq Range(hosts)
  BY <1>1, OnlyProperties
<1>3. /\ Capped(Only(hosts, seeds)) \in Seq(Names)
      /\ Len(Capped(Only(hosts, seeds))) <= MaxTargets
      /\ Range(Capped(Only(hosts, seeds))) \subseteq Range(hosts)
  BY <1>2, CappedProperties
<1> QED
  BY <1>3, HostsType DEF Fallback

\* Authorized targets, then promoted names; at least one of them.
LEMMA HttpxTargetsType ==
    ASSUME Types
    PROVE  /\ HttpxTargets \in Seq(Targets) /\ Len(HttpxTargets) <= MaxTargets
           /\ Range(HttpxTargets) \subseteq Range(nmapUrls) \cup Range(hosts) \cup Range(promoted)
           /\ ~Empty => HttpxTargets # << >>
           /\ Len(nmapUrls) <= MaxTargets => Range(HttpxBase) \subseteq Range(HttpxTargets)
<1> DEFINE rest == Only(promoted, Range(promoted) \ Range(HttpxBase))
<1>1. /\ HttpxBase \in Seq(Targets)
      /\ Range(HttpxBase) \subseteq Range(nmapUrls) \cup Range(hosts)
      /\ hosts # << >> => HttpxBase # << >>
  <2>1. Names \subseteq Targets /\ Addresses \subseteq Targets
    BY DEF Targets
  <2>2. Fallback \in Seq(Targets) /\ nmapUrls \in Seq(Targets)
    BY <2>1, FallbackType, SeqMonotonic DEF Types
  <2> QED
    BY <2>2, FallbackType DEF HttpxBase
<1>2. promoted \in Seq(Targets)
  <2>1. Promotable \subseteq Targets
    BY DEF Targets
  <2> QED
    BY <2>1, SeqMonotonic DEF Types
<1>3. rest \in Seq(Targets) /\ Range(rest) = Range(promoted) \ Range(HttpxBase)
  <2>1. /\ rest \in Seq(Targets)
        /\ Range(rest) = Range(promoted) \cap (Range(promoted) \ Range(HttpxBase))
    BY <1>2, OnlyProperties
  <2> QED
    BY <2>1
<1> HIDE DEF rest
<1>4. /\ HttpxBase \o rest \in Seq(Targets)
      /\ Range(HttpxBase \o rest) = Range(HttpxBase) \cup Range(rest)
  BY <1>1, <1>3, ConcatProperties, RangeConcatenation
<1>5. ~Empty => HttpxBase \o rest # << >>
  <2> SUFFICES ASSUME ~Empty, HttpxBase = << >>
               PROVE  rest # << >>
    BY <1>1, <1>3, ConcatEqualIffEmpty
  <2>1. Hosts = << >>
    BY <1>1, HostsType
  <2>2. promoted # << >> /\ Range(HttpxBase) = {}
    BY <2>1 DEF Empty, Range
  <2>3. Len(promoted) \in Nat \ {0} /\ DOMAIN promoted = 1 .. Len(promoted)
    BY <1>2, <2>2, EmptySeq, LenProperties
  <2>4. promoted[1] \in Range(promoted)
    BY <2>3 DEF Range
  <2>5. Range(<< >>) = {}
    BY DEF Range
  <2> QED
    BY <1>3, <2>2, <2>4, <2>5
<1>6. HttpxTargets = Capped(HttpxBase \o rest)
  BY DEF HttpxTargets, rest
<1>7. Len(nmapUrls) <= MaxTargets => Len(HttpxBase) <= MaxTargets
  BY FallbackType DEF HttpxBase
<1>8. Len(nmapUrls) <= MaxTargets => Range(HttpxBase) \subseteq Range(Capped(HttpxBase \o rest))
  BY <1>1, <1>3, <1>7, HeadSurvives
<1> QED
  BY <1>1, <1>3, <1>4, <1>5, <1>6, <1>8, CappedProperties

LEMMA NamedType == \A v \in Reports : Named(v) \in Pages
  BY DEF Named, Reports, Pages

\* The URLs of the fresh services of one kind.
LEMMA UrlsType ==
    ASSUME Types, NEW keep
    PROVE  /\ Urls(keep) \in Seq(Pages) /\ Len(Urls(keep)) = Len(Chosen(keep))
           /\ Range(Urls(keep)) =
                {Named(services[i]) : i \in {j \in Fresh : services[j].ok = keep}}
<1> DEFINE all == [i \in DOMAIN services |-> i]
           kept == {i \in Fresh : services[i].ok = keep}
           chosen == Chosen(keep)
<1>1. services \in Seq(Reports) /\ Len(services) \in Nat /\ DOMAIN services = 1 .. Len(services)
  BY LenProperties DEF Types
<1>2. all \in Seq(1 .. Len(services)) /\ Range(all) = 1 .. Len(services)
  <2>1. all \in [1 .. Len(services) -> 1 .. Len(services)]
    BY <1>1
  <2> QED
    BY <1>1, <2>1, SeqDef DEF Range
<1>3. chosen = Only(all, kept)
  BY DEF Chosen
<1>4. chosen \in Seq(1 .. Len(services)) /\ Range(chosen) = (1 .. Len(services)) \cap kept
  <2> HIDE DEF all, kept, chosen
  <2> QED
    BY <1>2, <1>3, OnlyProperties
<1>5. Range(chosen) = kept
  BY <1>1, <1>4 DEF Fresh
<1> HIDE DEF chosen, kept, all
<1>6. Len(chosen) \in Nat /\ DOMAIN chosen = 1 .. Len(chosen)
  BY <1>4, LenProperties
<1>7. \A i \in 1 .. Len(chosen) : chosen[i] \in 1 .. Len(services)
  BY <1>4, <1>6, ElementOfSeq
<1>8. \A i \in 1 .. Len(chosen) : Named(services[chosen[i]]) \in Pages
  <2>1. \A j \in 1 .. Len(services) : services[j] \in Reports
    BY <1>1, ElementOfSeq
  <2> QED
    BY <1>7, <2>1, NamedType
<1>9. Urls(keep) = [i \in 1 .. Len(chosen) |-> Named(services[chosen[i]])]
  BY <1>6 DEF Urls, chosen
<1>10. Urls(keep) \in [1 .. Len(chosen) -> Pages]
  BY <1>8, <1>9
<1>11. Urls(keep) \in Seq(Pages) /\ Len(Urls(keep)) = Len(chosen)
  BY <1>6, <1>10, SeqDef, LenProperties
<1>12. Range(Urls(keep)) = {Named(services[chosen[i]]) : i \in 1 .. Len(chosen)}
  BY <1>9 DEF Range
<1>13. Range(chosen) = {chosen[i] : i \in 1 .. Len(chosen)}
  BY <1>6 DEF Range
<1>14. Range(Urls(keep)) = {Named(services[i]) : i \in kept}
  BY <1>5, <1>12, <1>13
<1> QED
  BY <1>11, <1>14 DEF kept, chosen

\* Every service is named by a fresh one.
LEMMA FreshCovers ==
    ASSUME Types
    PROVE  {Named(services[i]) : i \in Fresh} = {Named(v) : v \in Range(services)}
<1>1. Len(services) \in Nat /\ DOMAIN services = 1 .. Len(services)
  BY LenProperties DEF Types
<1>2. ASSUME NEW i \in 1 .. Len(services)
      PROVE  \E j \in Fresh : Named(services[j]) = Named(services[i])
  <2> DEFINE same == {j \in 1 .. Len(services) : Named(services[j]) = Named(services[i])}
  <2>1. same \in SUBSET Nat /\ same # {}
    BY <1>1
  <2>2. PICK j \in same : \A k \in same : j <= k
    <3> HIDE DEF same
    <3> QED
      BY <2>1, MinimalNat
  <2>3. \A k \in 1 .. j - 1 : k \in 1 .. Len(services) /\ ~(j <= k)
    BY <1>1, <2>2
  <2>4. \A k \in 1 .. j - 1 : Named(services[k]) # Named(services[j])
    BY <2>2, <2>3
  <2> QED
    BY <1>1, <2>2, <2>4 DEF Fresh
<1>3. Range(services) = {services[i] : i \in 1 .. Len(services)}
  BY <1>1 DEF Range
<1>4. Fresh \subseteq 1 .. Len(services)
  BY <1>1 DEF Fresh
<1> QED
  BY <1>2, <1>3, <1>4

\* nuclei is given what every service names, or the snapshot's targets.
LEMMA NucleiTargetsType ==
    ASSUME Types
    PROVE  /\ NucleiTargets \in Seq(Pages) /\ Len(NucleiTargets) <= MaxTargets
           /\ Range(NucleiTargets) \subseteq {Named(v) : v \in Range(services)} \cup Range(hosts)
           /\ hosts # << >> => NucleiTargets # << >>
           /\ Len(services) <= MaxTargets =>
                {Named(v) : v \in Range(services)} \subseteq Range(NucleiTargets)
<1> DEFINE both == Urls(TRUE) \o Urls(FALSE)
           names == {Named(v) : v \in Range(services)}
<1>1. /\ Urls(TRUE) \in Seq(Pages) /\ Len(Urls(TRUE)) = Len(Chosen(TRUE))
      /\ Urls(FALSE) \in Seq(Pages) /\ Len(Urls(FALSE)) = Len(Chosen(FALSE))
      /\ Range(Urls(TRUE)) = {Named(services[i]) : i \in {j \in Fresh : services[j].ok = TRUE}}
      /\ Range(Urls(FALSE)) = {Named(services[i]) : i \in {j \in Fresh : services[j].ok = FALSE}}
  BY UrlsType
<1>2. \A i \in Fresh : services[i].ok = TRUE \/ services[i].ok = FALSE
  <2>1. \A i \in DOMAIN services : services[i] \in Reports
    BY ElementOfSeq, LenProperties DEF Types
  <2> QED
    BY <2>1 DEF Fresh, Reports
<1>3. Range(Urls(TRUE)) \cup Range(Urls(FALSE)) = {Named(services[i]) : i \in Fresh}
  BY <1>1, <1>2
<1>4. /\ both \in Seq(Pages) /\ Range(both) = names
      /\ Len(both) = Len(Chosen(TRUE)) + Len(Chosen(FALSE))
  <2>1. both \in Seq(Pages) /\ Len(both) = Len(Urls(TRUE)) + Len(Urls(FALSE))
    BY <1>1, ConcatProperties
  <2>2. Range(both) = Range(Urls(TRUE)) \cup Range(Urls(FALSE))
    BY <1>1, RangeConcatenation
  <2> QED
    BY <1>1, <1>3, <2>1, <2>2, FreshCovers
<1>5. Len(both) <= Len(services)
  <2> DEFINE all == [i \in DOMAIN services |-> i]
             yes == {i \in Fresh : services[i].ok = TRUE}
             no  == {i \in Fresh : services[i].ok = FALSE}
  <2>1. Len(services) \in Nat /\ DOMAIN services = 1 .. Len(services)
    BY LenProperties DEF Types
  <2>2. all \in [1 .. Len(services) -> Nat]
    BY <2>1
  <2>3. all \in Seq(Nat) /\ Len(all) = Len(services)
    BY <2>1, <2>2, SeqDef, LenProperties
  <2>4. yes \cap no = {}
    OBVIOUS
  <2>5. Chosen(TRUE) = Only(all, yes) /\ Chosen(FALSE) = Only(all, no)
    BY DEF Chosen
  <2> HIDE DEF all, yes, no
  <2> QED
    BY <1>4, <2>3, <2>4, <2>5, OnlyDisjoint
<1> HIDE DEF both
<1>6. /\ Capped(both) \in Seq(Pages) /\ Len(Capped(both)) <= MaxTargets
      /\ Range(Capped(both)) \subseteq names
      /\ Capped(both) = << >> => both = << >>
  BY <1>4, CappedProperties
<1>7. Fallback \in Seq(Pages)
  <2>1. Names \subseteq Pages
    BY DEF Targets, Pages
  <2> QED
    BY <2>1, FallbackType, SeqMonotonic
<1>8. NucleiTargets = IF Capped(both) # << >> THEN Capped(both) ELSE Fallback
  BY DEF NucleiTargets, both
<1>9. Len(services) <= MaxTargets => Capped(both) = both
  <2>1. Len(services) \in Nat /\ Len(both) \in Nat /\ MaxTargets \in Nat
    BY <1>4, LenProperties, LimitsAssumption DEF Types
  <2> QED
    BY <1>5, <2>1 DEF Capped
<1>10. both = << >> => names = {}
  BY <1>4 DEF Range
<1> HIDE DEF names
<1>11. Len(services) <= MaxTargets => names \subseteq Range(NucleiTargets)
  BY <1>4, <1>6, <1>8, <1>9, <1>10
<1>12. /\ NucleiTargets \in Seq(Pages) /\ Len(NucleiTargets) <= MaxTargets
       /\ Range(NucleiTargets) \subseteq names \cup Range(hosts)
       /\ hosts # << >> => NucleiTargets # << >>
  BY <1>6, <1>7, <1>8, FallbackType
<1> QED
  BY <1>11, <1>12 DEF names

LEMMA PendingFinite ==
    ASSUME Types
    PROVE  IsFiniteSet(PendingNmap) /\ IsFiniteSet((Stages[profile] \ {"nmap"}) \ done)
<1>1. Len(Hosts) \in Nat /\ DOMAIN Hosts = 1 .. Len(Hosts)
  BY HostsType, LenProperties
<1>2. PendingNmap \in SUBSET (1 .. Len(Hosts)) /\ IsFiniteSet(1 .. Len(Hosts))
  <2>1. PendingNmap \in SUBSET (1 .. Len(Hosts))
    BY <1>1 DEF PendingNmap
  <2>2. IsFiniteSet(1 .. Len(Hosts))
    BY <1>1, FS_Interval
  <2> QED
    BY <2>1, <2>2
<1>3. IsFiniteSet(Tools)
  <2>1. Tools = (({} \cup {"nmap"}) \cup {"httpx"}) \cup {"nuclei"}
    BY DEF Tools
  <2> QED
    BY <2>1, FS_EmptySet, FS_AddElement
<1>4. (Stages[profile] \ {"nmap"}) \ done \in SUBSET Tools
  BY DEF Types, Stages, Tools
<1> QED
  BY <1>2, <1>3, <1>4, FS_Subset

LEMMA RemainingType == Types => Remaining \in Nat
  BY PendingFinite, FS_CardinalityType DEF Remaining

LEMMA RemainingTypeNext == (Types => Remaining \in Nat)'
  BY RemainingType, PTL

-----------------------------------------------------------------------------
(* The invariants. *)

\* A tool without an observation has done nothing, nmap has only touched
\* hosts a decision named, and the cap holds for what nmap contributed.
Bookkeeping ==
    /\ covered \subseteq Range(Hosts)
    /\ TargetsOf("nmap") \subseteq covered
    /\ \A tool \in Tools \ done : TargetsOf(tool) = {} /\ tool \notin rejected
    /\ Len(nmapUrls) <= MaxTargets

\* Once the run has begun, what is left of it keeps fitting the budget.
BudgetKept ==
    /\ status # "failed"
    /\ status = "running" => step < maxSteps /\ why = "none"
    /\ status = "running" /\ done # {} => Fits
    /\ why = "budget" => done = {}

\* Stages run in their order, what one hands on no longer changes once the next
\* has begun, and a report is no longer than the list it answers.
Handover ==
    /\ "httpx" \notin done => services = << >> /\ "nuclei" \notin done
    /\ "httpx" \in done => PendingNmap = {}
    /\ Len(services) <= MaxTargets
    /\ StagesHandOver

\* Why no decision is rejected: what httpx reported is in scope too.
ReportsInScope ==
    StableDNS /\ RedirectsStay /\ Range(promoted) \subseteq Allowed =>
        rejected = {} /\ {Named(v) : v \in Range(services)} \subseteq Allowed

IInv == TypeOK /\ Bookkeeping /\ BudgetKept /\ Handover /\ ReportsInScope

LEMMA InitInv == Init => IInv
<1> SUFFICES ASSUME Init PROVE IInv
  OBVIOUS
<1>1. hosts \in Seq(Names) /\ maxSteps \in Nat \ {0} /\ MaxTargets \in Nat
  BY HostsAssumption, LimitsAssumption DEF Init
<1>2. seeds \subseteq Names
  BY <1>1, RangeOfSeq DEF Init
<1>3. promoted \in Seq(Promotable)
  <2>1. << >> \in Seq(Promotable) /\ \A p \in Promotable : <<p>> \in Seq(Promotable)
    OBVIOUS
  <2>2. promoted = << >> \/ \E p \in Promotable : promoted = <<p>>
    BY DEF Init
  <2> QED
    BY <2>1, <2>2
<1>4. \A tool \in Tools : TargetsOf(tool) = {}
  BY DEF Init, TargetsOf
<1>5. Range(<< >>) = {} /\ Len(<< >>) = 0
  BY DEF Range
<1>6. TypeOK
  <2>1. \A tool \in Tools : Cardinality(TargetsOf(tool)) <= MaxTargets
    <3> SUFFICES ASSUME NEW tool \in Tools
                 PROVE  Cardinality(TargetsOf(tool)) <= MaxTargets
      OBVIOUS
    <3>1. TargetsOf(tool) = {} /\ Cardinality({}) = 0
      BY <1>4, FS_EmptySet
    <3> QED
      BY <1>1, <3>1
  <2>2. \A S : << >> \in Seq(S)
    BY EmptySeq
  <2>3. /\ profile \in DOMAIN Stages /\ hosts \in HostLists /\ resolved \subseteq Addresses
        /\ maxSteps \in StepLimits /\ step \in 0 .. maxSteps
        /\ status = "running" /\ why = "none"
        /\ done = {} /\ rejected = {} /\ covered = {} /\ executed = {}
        /\ nmapUrls = << >> /\ services = << >>
    BY <1>1 DEF Init
  <2> QED
    BY <1>2, <1>3, <2>1, <2>2, <2>3 DEF TypeOK
<1>7. Bookkeeping
  BY <1>1, <1>4, <1>5 DEF Init, Bookkeeping, Tools
<1>8. BudgetKept
  BY <1>1 DEF Init, BudgetKept
<1>9. ReportsInScope
  BY <1>5 DEF Init, ReportsInScope
<1>10. Handover
  BY <1>1, <1>5 DEF Init, Handover, StagesHandOver
<1> QED
  BY <1>6, <1>7, <1>8, <1>9, <1>10 DEF IInv

\* What a call adds: all its targets or a rejection, of its own tool.
LEMMA CallEffect ==
    ASSUME TypeOK, NEW tool \in Tools, NEW targets \in Seq(Pages), Call(tool, targets)
    PROVE  /\ executed' \subseteq Tools \X Targets
           /\ done' = done \cup {tool} /\ done' \subseteq Tools
           /\ rejected' \subseteq rejected \cup {tool} /\ rejected' \subseteq Tools
           /\ rejected \subseteq rejected'
           /\ Accepted(tool, targets) =>
                rejected' = rejected /\ Range(targets) \subseteq TargetsOf(tool)'
           /\ ~Accepted(tool, targets) => tool \in rejected'
           /\ TargetsOf(tool)' \subseteq TargetsOf(tool) \cup Range(targets)
           /\ \A u \in Tools \ {tool} : TargetsOf(u)' = TargetsOf(u)
<1>1. Accepted(tool, targets) => Range(targets) \subseteq Targets
  <2>1. Types
    BY TypesFromTypeOK
  <2>2. /\ Range(hosts) \subseteq Names /\ Range(promoted) \subseteq Promotable
        /\ resolved \subseteq Addresses
    BY <2>1, RangeOfSeq DEF Types
  <2> QED
    BY <2>2 DEF Accepted, Allowed, Targets
<1>2. CASE Accepted(tool, targets)
  <2>1. executed' = executed \cup {<<tool, t>> : t \in Range(targets)} /\ rejected' = rejected
    BY <1>2 DEF Call
  <2>2. executed' \subseteq Tools \X Targets
    BY <1>1, <1>2, <2>1 DEF TypeOK
  <2>3. /\ TargetsOf(tool)' \subseteq TargetsOf(tool) \cup Range(targets)
        /\ \A u \in Tools \ {tool} : TargetsOf(u)' = TargetsOf(u)
    BY <2>1 DEF TargetsOf
  <2>4. Range(targets) \subseteq TargetsOf(tool)'
    BY <1>1, <1>2, <2>1 DEF TargetsOf
  <2> QED
    BY <1>2, <2>1, <2>2, <2>3, <2>4 DEF Call, TypeOK
<1>3. CASE ~Accepted(tool, targets)
  <2>1. executed' = executed /\ rejected' = rejected \cup {tool}
    BY <1>3 DEF Call
  <2>2. \A u \in Tools : TargetsOf(u)' = TargetsOf(u)
    BY <2>1 DEF TargetsOf
  <2> QED
    BY <1>3, <2>1, <2>2 DEF Call, TypeOK
<1> QED
  BY <1>2, <1>3

\* A tool that works on a list within the cap works within the cap.
LEMMA WithinCap ==
    ASSUME NEW X, NEW s \in Seq(X), Len(s) <= MaxTargets, NEW T \in SUBSET Range(s)
    PROVE  Cardinality(T) <= MaxTargets
<1>1. IsFiniteSet(Range(s)) /\ Cardinality(Range(s)) <= Len(s) /\ Len(s) \in Nat
  BY RangeSize, LenProperties
<1>2. IsFiniteSet(T) /\ Cardinality(T) <= Cardinality(Range(s))
  BY <1>1, FS_Subset
<1> QED
  BY <1>1, <1>2, FS_CardinalityType, LimitsAssumption

\* What nmap adds to the URLs: all it had before stays, within the cap.
LEMMA NmapUrlsGrow ==
    ASSUME Types, Len(nmapUrls) <= MaxTargets, NEW ip \in Addresses,
           nmapUrls' = Capped(Append(nmapUrls, ip))
    PROVE  /\ nmapUrls' \in Seq(Addresses) /\ Len(nmapUrls') <= MaxTargets
           /\ Range(nmapUrls) \subseteq Range(nmapUrls')
<1> DEFINE s == Append(nmapUrls, ip)
<1>1. nmapUrls \in Seq(Addresses)
  BY DEF Types
<1>2. /\ s \in Seq(Addresses) /\ Len(s) = Len(nmapUrls) + 1 /\ Len(nmapUrls) \in Nat
      /\ \A i \in 1 .. Len(nmapUrls) : s[i] = nmapUrls[i]
  BY <1>1, AppendProperties, LenProperties
<1> HIDE DEF s
<1>3. Capped(s) \in Seq(Addresses) /\ Len(Capped(s)) <= MaxTargets
  BY <1>2, CappedProperties
<1>4. \A i \in 1 .. Len(nmapUrls) : i \in 1 .. Len(Capped(s)) /\ Capped(s)[i] = nmapUrls[i]
  <2>1. CASE Len(s) <= MaxTargets
    BY <2>1, <1>2 DEF Capped
  <2>2. CASE ~(Len(s) <= MaxTargets)
    <3>1. MaxTargets \in Nat \ {0} /\ Len(nmapUrls) = MaxTargets
      BY <2>2, <1>2, LimitsAssumption
    <3>2. \A i \in 1 .. MaxTargets : s[i] \in Addresses
      BY <3>1, <1>2, ElementOfSeq
    <3>3. Len(SubSeq(s, 1, MaxTargets)) = MaxTargets
          /\ \A i \in 1 .. MaxTargets : SubSeq(s, 1, MaxTargets)[i] = s[i]
      BY <3>1, <3>2, SubSeqProperties
    <3>4. Capped(s) = SubSeq(s, 1, MaxTargets)
      BY <2>2 DEF Capped
    <3> QED
      BY <3>1, <3>3, <3>4, <1>2
  <2> QED
    BY <2>1, <2>2
<1>5. Range(nmapUrls) = {nmapUrls[i] : i \in 1 .. Len(nmapUrls)}
      /\ Range(Capped(s)) = {Capped(s)[i] : i \in 1 .. Len(Capped(s))}
  BY <1>1, <1>3, RangeEquality
<1>6. Range(nmapUrls) \subseteq Range(Capped(s))
  BY <1>4, <1>5
<1>7. nmapUrls' = Capped(s)
  BY DEF s
<1> QED
  BY <1>3, <1>6, <1>7

\* Every stage takes at least one step off what remains.
LEMMA RemainingFalls ==
    ASSUME Types, Types', UNCHANGED scan,
           \/ PendingNmap # {} /\ done' = done \cup {"nmap"} /\ covered' = covered \cup {NextHost}
           \/ \E tool \in {"httpx", "nuclei"} :
                /\ tool \in Stages[profile] \ done /\ done' = done \cup {tool}
                /\ UNCHANGED covered
    PROVE  Remaining' <= Remaining - 1
<1> DEFINE P == PendingNmap
           Q == (Stages[profile] \ {"nmap"}) \ done
           PP == PendingNmap'
           QQ == (Stages[profile] \ {"nmap"}) \ done'
<1>1. Hosts' = Hosts /\ Stages[profile]' = Stages[profile]
  BY DEF scan, Hosts, Capped
<1>2. /\ PP = {i \in DOMAIN Hosts : "nmap" \in Stages[profile] /\ Hosts[i] \notin covered'}
      /\ P = {i \in DOMAIN Hosts : "nmap" \in Stages[profile] /\ Hosts[i] \notin covered}
  BY <1>1 DEF PendingNmap, scan
<1>3. IsFiniteSet(P) /\ IsFiniteSet(Q)
  BY PendingFinite
<1>4. /\ Remaining = Cardinality(P) + Cardinality(Q)
      /\ Remaining' = Cardinality(PP) + Cardinality(QQ)
  BY <1>1 DEF Remaining, scan
<1>5. CASE PendingNmap # {} /\ done' = done \cup {"nmap"} /\ covered' = covered \cup {NextHost}
  <2>1. PICK i \in PendingNmap : NextHost = Hosts[i]
    BY <1>5, NextHostType
  <2>2. PP \subseteq P \ {i} /\ i \in P
    BY <1>2, <1>5, <2>1
  <2>3. QQ = Q
    BY <1>5
  <2> HIDE DEF P, Q, PP, QQ
  <2>4. IsFiniteSet(P \ {i}) /\ Cardinality(P \ {i}) = Cardinality(P) - 1
    BY <1>3, <2>2, FS_RemoveElement
  <2>5. IsFiniteSet(PP) /\ Cardinality(PP) <= Cardinality(P \ {i})
    BY <2>2, <2>4, FS_Subset
  <2> QED
    BY <1>3, <1>4, <2>3, <2>4, <2>5, FS_CardinalityType
<1>6. ASSUME NEW tool \in {"httpx", "nuclei"}, tool \in Stages[profile] \ done,
             done' = done \cup {tool}, UNCHANGED covered
      PROVE  Remaining' <= Remaining - 1
  <2>1. PP = P
    BY <1>2, <1>6
  <2>2. QQ = Q \ {tool} /\ tool \in Q
    BY <1>6
  <2> HIDE DEF P, Q, PP, QQ
  <2>3. IsFiniteSet(QQ) /\ Cardinality(QQ) = Cardinality(Q) - 1
    BY <1>3, <2>2, FS_RemoveElement
  <2> QED
    BY <1>3, <1>4, <2>1, <2>3, FS_CardinalityType
<1> QED
  BY <1>5, <1>6

LEMMA ConcludeInv == IInv /\ Conclude => IInv'
<1> SUFFICES ASSUME IInv, Conclude PROVE IInv'
  OBVIOUS
<1>1. TypeOK /\ Bookkeeping /\ BudgetKept /\ Handover /\ ReportsInScope /\ Types
  BY TypesFromTypeOK DEF IInv
<1>2. step < maxSteps /\ step \in Nat /\ maxSteps \in Nat
  BY <1>1 DEF BudgetKept, Conclude, Types
<1>3. /\ status' = "finished" /\ step' = step + 1
      /\ why' = IF Empty THEN "empty" ELSE IF Remaining = 0 THEN "complete" ELSE "budget"
      /\ Empty \/ Remaining = 0 \/ ~Fits
  BY <1>2 DEF Conclude
<1>4. /\ UNCHANGED <<profile, hosts, seeds, resolved, promoted, maxSteps>>
      /\ UNCHANGED <<done, covered, nmapUrls, services, executed, rejected>>
  BY DEF Conclude, scan
<1>5. TypeOK'
  <2>1. \A tool \in Tools : TargetsOf(tool)' = TargetsOf(tool)
    BY <1>4 DEF TargetsOf
  <2>2. step' \in 0 .. maxSteps
    BY <1>2, <1>3
  <2> QED
    BY <1>1, <1>3, <1>4, <2>1, <2>2 DEF TypeOK
<1>6. Bookkeeping'
  BY <1>1, <1>4 DEF Bookkeeping, Hosts, Capped, TargetsOf
<1>7. BudgetKept'
  <2>1. why' = "budget" => ~Fits
    BY <1>3
  <2> QED
    BY <1>1, <1>3, <1>4, <2>1 DEF BudgetKept, Conclude
<1>8. ReportsInScope'
  BY <1>1, <1>4 DEF ReportsInScope, StableDNS, RedirectsStay, Allowed, Named
<1>9. Handover'
  <2>1. \A tool \in Tools : TargetsOf(tool)' = TargetsOf(tool)
    BY <1>4 DEF TargetsOf
  <2>2. StagesHandOver'
    BY <1>1, <1>4, <2>1 DEF Handover, StagesHandOver, HttpxBase, Fallback, Hosts, Capped, Named, Tools
  <2> QED
    BY <1>1, <1>4, <2>2 DEF Handover, PendingNmap, Hosts, Capped
<1> QED
  BY <1>5, <1>6, <1>7, <1>8, <1>9 DEF IInv

\* A turn that runs a stage leaves room for the turns after it.
LEMMA ContinueBudget ==
    ASSUME IInv, Continue, Types', done' # {}, Remaining' <= Remaining - 1
    PROVE  BudgetKept' /\ step' \in 0 .. maxSteps
<1>1. /\ step \in Nat /\ maxSteps \in Nat /\ Remaining \in Nat /\ Remaining' \in Nat
      /\ Types
  <2>1. Types
    BY TypesFromTypeOK DEF IInv
  <2>2. Remaining \in Nat
    BY <2>1, RemainingType
  <2>3. Remaining' \in Nat
    BY RemainingTypeNext
  <2> QED
    BY <2>1, <2>2, <2>3 DEF Types
<1>2. /\ step + 1 + Remaining + 1 <= maxSteps /\ status = "running"
      /\ step' = step + 1 /\ maxSteps' = maxSteps /\ status' = status /\ why' = why
  BY DEF Continue, Fits, scan
<1>3. Fits'
  <2>1. Fits' = (step' + 1 + Remaining' + 1 <= maxSteps')
    BY DEF Fits
  <2> HIDE DEF Remaining
  <2>2. step' + 1 + Remaining' + 1 <= maxSteps'
    <3>1. ASSUME NEW n \in Nat, NEW m \in Nat, NEW r \in Nat, NEW q \in Nat,
                 n + 1 + r + 1 <= m, q <= r - 1
          PROVE  (n + 1) + 1 + q + 1 <= m
      BY <3>1
    <3> QED
      BY <1>1, <1>2, <3>1
  <2> QED
    BY <2>1, <2>2
<1>4. step' < maxSteps' /\ why' = "none"
  BY <1>1, <1>2 DEF IInv, BudgetKept
<1> QED
  BY <1>1, <1>2, <1>3, <1>4 DEF BudgetKept

LEMMA NmapInv == IInv /\ Nmap => IInv'
<1> SUFFICES ASSUME IInv, Nmap PROVE IInv'
  OBVIOUS
<1>1. TypeOK /\ Bookkeeping /\ BudgetKept /\ Handover /\ ReportsInScope /\ Types
  BY TypesFromTypeOK DEF IInv
<1>2. /\ UNCHANGED <<profile, hosts, seeds, resolved, promoted, maxSteps>>
      /\ UNCHANGED <<status, why, services>>
      /\ step' = step + 1 /\ step < maxSteps
      /\ covered' = covered \cup {NextHost} /\ PendingNmap # {}
      /\ Call("nmap", <<NextHost>>)
  BY DEF Nmap, Continue, scan
<1>3. /\ NextHost \in Range(Hosts) /\ NextHost \in Names
      /\ NextHost \in Range(hosts)
  BY <1>1, <1>2, NextHostType, HostsType
<1>4. <<NextHost>> \in Seq(Pages) /\ Range(<<NextHost>>) = {NextHost}
  BY <1>3 DEF Targets, Pages, Range
<1>5. /\ executed' \subseteq Tools \X Targets
      /\ done' = done \cup {"nmap"} /\ done' \subseteq Tools
      /\ rejected' \subseteq rejected \cup {"nmap"} /\ rejected' \subseteq Tools
      /\ Accepted("nmap", <<NextHost>>) => rejected' = rejected
      /\ TargetsOf("nmap")' \subseteq TargetsOf("nmap") \cup {NextHost}
      /\ \A u \in Tools \ {"nmap"} : TargetsOf(u)' = TargetsOf(u)
  BY <1>1, <1>2, <1>4, CallEffect DEF Tools
<1>6. /\ nmapUrls' \in Seq(Addresses) /\ Len(nmapUrls') <= MaxTargets
      /\ Range(nmapUrls) \subseteq Range(nmapUrls')
  <2>1. CASE UNCHANGED nmapUrls
    BY <1>1, <2>1 DEF Types, Bookkeeping
  <2>2. CASE \E ip \in Addresses : nmapUrls' = Capped(Append(nmapUrls, ip))
    BY <1>1, <2>2, NmapUrlsGrow DEF Bookkeeping
  <2> QED
    BY <2>1, <2>2 DEF Nmap
<1>7. Hosts' = Hosts
  BY <1>2 DEF Hosts, Capped
<1>8. Bookkeeping'
  BY <1>1, <1>2, <1>3, <1>5, <1>6, <1>7 DEF Bookkeeping
<1>9. Types'
  <2>1. step' \in 0 .. maxSteps'
    BY <1>1, <1>2 DEF Types
  <2> QED
    BY <1>1, <1>2, <1>3, <1>5, <1>6, <2>1 DEF Types
<1>10. BudgetKept'
  <2>1. Remaining' <= Remaining - 1
    BY <1>1, <1>2, <1>5, <1>9, RemainingFalls DEF scan
  <2>2. done' # {} /\ Continue
    BY <1>5 DEF Nmap
  <2> QED
    BY <1>9, <2>1, <2>2, ContinueBudget
<1>11. TypeOK'
  <2>1. ASSUME NEW tool \in Tools
        PROVE  Cardinality(TargetsOf(tool)') <= MaxTargets
    <3>1. CASE tool = "nmap"
      <4>1. TargetsOf(tool)' \in SUBSET Range(Hosts)
        BY <1>7, <1>8, <3>1 DEF Bookkeeping
      <4> QED
        BY <4>1, <1>1, HostsType, WithinCap
    <3>2. CASE tool # "nmap"
      BY <1>1, <1>5, <3>2 DEF TypeOK
    <3> QED
      BY <3>1, <3>2
  <2> QED
    BY <1>1, <1>2, <1>5, <1>9, <2>1 DEF TypeOK, Types
<1>12. ReportsInScope'
  <2>1. Accepted("nmap", <<NextHost>>)
    BY <1>3, <1>4 DEF Accepted, Allowed
  <2>2. StableDNS' => StableDNS
    BY <1>2, <1>6 DEF StableDNS
  <2>3. Allowed' = Allowed /\ rejected' = rejected
    BY <1>2, <1>5, <2>1 DEF Allowed
  <2>4. RedirectsStay' = RedirectsStay
    BY <1>2, <2>3 DEF RedirectsStay
  <2> QED
    BY <1>1, <1>2, <2>2, <2>3, <2>4 DEF ReportsInScope, Named
<1>13. Handover'
  <2>1. "httpx" \notin done' /\ "nuclei" \notin done'
    BY <1>1, <1>2, <1>5 DEF Handover
  <2>2. StagesHandOver'
    BY <2>1 DEF StagesHandOver
  <2> QED
    BY <1>1, <1>2, <2>1, <2>2 DEF Handover
<1> QED
  BY <1>8, <1>10, <1>11, <1>12, <1>13 DEF IInv

\* The records httpx gives of the targets it heard of.
Report(heard, ok, named, final) ==
    [i \in DOMAIN heard |-> [url |-> IF heard[i] \in named THEN heard[i] ELSE NoUrl,
                             final |-> final[heard[i]], ok |-> heard[i] \in ok]]

\* What httpx reports are targets it was given, or a landing page for want of
\* the URL; no more than it was given.
LEMMA HttpxReports ==
    ASSUME Types, NEW answer \in SUBSET Range(HttpxTargets), NEW ok, NEW named,
           NEW final \in [answer -> Range(HttpxTargets) \cup {Foreign}],
           NEW report,
           report = Report(Only(HttpxTargets, answer), ok, named, final)
    PROVE  /\ report \in Seq(Reports) /\ Len(report) <= MaxTargets
           /\ \A v \in Range(report) :
                 Named(v) \in Range(HttpxTargets) \/ (v.url = NoUrl /\ Named(v) = v.final)
<1> DEFINE heard == Only(HttpxTargets, answer)
<1>1. HttpxTargets \in Seq(Targets) /\ Len(HttpxTargets) <= MaxTargets
  BY HttpxTargetsType
<1>2. /\ heard \in Seq(Targets) /\ Range(heard) = Range(HttpxTargets) \cap answer
      /\ Len(heard) <= Len(HttpxTargets)
  BY <1>1, OnlyProperties
<1>3. report = [i \in DOMAIN heard |->
                  [url |-> IF heard[i] \in named THEN heard[i] ELSE NoUrl,
                   final |-> final[heard[i]], ok |-> heard[i] \in ok]]
  BY DEF Report
<1> HIDE DEF heard
<1>4. Len(heard) \in Nat /\ DOMAIN heard = 1 .. Len(heard) /\ Len(HttpxTargets) \in Nat
  BY <1>1, <1>2, LenProperties
<1>5. Range(HttpxTargets) \subseteq Targets
  BY <1>1, RangeOfSeq
<1>6. \A i \in 1 .. Len(heard) : heard[i] \in answer /\ heard[i] \in Range(HttpxTargets)
  <2>1. \A i \in 1 .. Len(heard) : heard[i] \in Range(heard)
    BY <1>4 DEF Range
  <2> QED
    BY <1>2, <2>1
<1>7. ASSUME NEW i \in 1 .. Len(heard)
      PROVE  /\ report[i] \in Reports
             /\ \/ Named(report[i]) \in Range(HttpxTargets)
                \/ report[i].url = NoUrl /\ Named(report[i]) = report[i].final
  <2>1. report[i] = [url |-> IF heard[i] \in named THEN heard[i] ELSE NoUrl,
                     final |-> final[heard[i]], ok |-> heard[i] \in ok]
    BY <1>3, <1>4
  <2>2. heard[i] \in answer /\ heard[i] \in Range(HttpxTargets) /\ heard[i] \in Targets
    BY <1>5, <1>6
  <2>3. final[heard[i]] \in Pages
    BY <1>5, <2>2 DEF Pages
  <2>4. report[i] \in Reports
    <3>1. \A url \in Targets \cup {NoUrl}, page \in Pages, b \in BOOLEAN :
             [url |-> url, final |-> page, ok |-> b] \in Reports
      BY DEF Reports
    <3>2. /\ (IF heard[i] \in named THEN heard[i] ELSE NoUrl) \in Targets \cup {NoUrl}
          /\ (heard[i] \in ok) \in BOOLEAN
      BY <2>2
    <3> QED
      BY <2>1, <2>3, <3>1, <3>2
  <2>5. CASE heard[i] \in named
    <3>1. report[i].url = heard[i]
      BY <2>1, <2>5
    <3> QED
      BY <2>2, <2>4, <3>1 DEF Named
  <2>6. CASE heard[i] \notin named
    BY <2>1, <2>4, <2>6 DEF Named
  <2> QED
    BY <2>4, <2>5, <2>6
<1>8. report \in [1 .. Len(heard) -> Reports]
  BY <1>3, <1>4, <1>7
<1>9. report \in Seq(Reports) /\ Len(report) = Len(heard)
  BY <1>4, <1>8, SeqDef, LenProperties
<1>10. \A v \in Range(report) : \E i \in 1 .. Len(heard) : v = report[i]
  BY <1>8 DEF Range
<1>11. Len(report) <= MaxTargets
  BY <1>1, <1>2, <1>4, <1>9, LimitsAssumption
<1>12. ASSUME NEW v \in Range(report)
       PROVE  Named(v) \in Range(HttpxTargets) \/ (v.url = NoUrl /\ Named(v) = v.final)
  <2>1. PICK i \in 1 .. Len(heard) : v = report[i]
    BY <1>10
  <2> QED
    BY <1>7, <2>1
<1> QED
  BY <1>9, <1>11, <1>12

LEMMA HttpxInv == IInv /\ Httpx => IInv'
<1> SUFFICES ASSUME IInv, Httpx PROVE IInv'
  OBVIOUS
<1>1. TypeOK /\ Bookkeeping /\ BudgetKept /\ Handover /\ ReportsInScope /\ Types
  BY TypesFromTypeOK DEF IInv
<1>2. /\ UNCHANGED <<profile, hosts, seeds, resolved, promoted, maxSteps>>
      /\ UNCHANGED <<status, why, covered, nmapUrls>>
      /\ step' = step + 1 /\ step < maxSteps
      /\ "httpx" \notin done /\ ~Empty /\ Call("httpx", HttpxTargets)
  BY DEF Httpx, Continue, scan
<1>3. /\ HttpxTargets \in Seq(Targets) /\ Len(HttpxTargets) <= MaxTargets
      /\ Range(HttpxTargets) \subseteq Range(nmapUrls) \cup Range(hosts) \cup Range(promoted)
      /\ HttpxTargets # << >> /\ Range(HttpxBase) \subseteq Range(HttpxTargets)
  BY <1>1, <1>2, HttpxTargetsType DEF Bookkeeping
<1> HttpxTargets \in Seq(Pages)
  BY <1>3, SeqMonotonic DEF Pages
<1>4. /\ executed' \subseteq Tools \X Targets
      /\ done' = done \cup {"httpx"} /\ done' \subseteq Tools
      /\ rejected' \subseteq rejected \cup {"httpx"} /\ rejected' \subseteq Tools
      /\ Accepted("httpx", HttpxTargets) =>
           rejected' = rejected /\ Range(HttpxTargets) \subseteq TargetsOf("httpx")'
      /\ ~Accepted("httpx", HttpxTargets) => "httpx" \in rejected'
      /\ TargetsOf("httpx")' \subseteq TargetsOf("httpx") \cup Range(HttpxTargets)
      /\ \A u \in Tools \ {"httpx"} : TargetsOf(u)' = TargetsOf(u)
  BY <1>1, <1>2, <1>3, CallEffect DEF Tools
<1>5. TargetsOf("httpx")' \subseteq Range(HttpxTargets)
  BY <1>1, <1>2, <1>4 DEF Bookkeeping, Tools
<1>6. /\ services' \in Seq(Reports) /\ Len(services') <= MaxTargets
      /\ \A v \in Range(services') :
            \/ v \in Range(services)
            \/ Named(v) \in Range(HttpxTargets)
            \/ v.url = NoUrl /\ Named(v) = v.final
  <2>1. CASE UNCHANGED services
    BY <1>1, <2>1 DEF Types, Handover
  <2>2. CASE ~UNCHANGED services
    <3>1. PICK answer \in SUBSET Range(HttpxTargets) :
            \E ok \in SUBSET answer, named \in SUBSET answer,
               final \in [answer -> Range(HttpxTargets) \cup {Foreign}] :
               LET heard == Only(HttpxTargets, answer)
               IN  services' = [i \in DOMAIN heard |->
                                  [url |-> IF heard[i] \in named THEN heard[i] ELSE NoUrl,
                                   final |-> final[heard[i]], ok |-> heard[i] \in ok]]
      BY <2>2 DEF Httpx
    <3>2. PICK ok \in SUBSET answer, named \in SUBSET answer,
               final \in [answer -> Range(HttpxTargets) \cup {Foreign}] :
               LET heard == Only(HttpxTargets, answer)
               IN  services' = [i \in DOMAIN heard |->
                                  [url |-> IF heard[i] \in named THEN heard[i] ELSE NoUrl,
                                   final |-> final[heard[i]], ok |-> heard[i] \in ok]]
      BY <3>1
    <3>3. /\ services' \in Seq(Reports) /\ Len(services') <= MaxTargets
          /\ \A v \in Range(services') :
                Named(v) \in Range(HttpxTargets) \/ (v.url = NoUrl /\ Named(v) = v.final)
      <4> DEFINE report == services'
      <4>1. report = Report(Only(HttpxTargets, answer), ok, named, final)
        BY <3>2 DEF Report
      <4> HIDE DEF report
      <4>2. /\ report \in Seq(Reports) /\ Len(report) <= MaxTargets
            /\ \A v \in Range(report) :
                  Named(v) \in Range(HttpxTargets) \/ (v.url = NoUrl /\ Named(v) = v.final)
        BY <1>1, <4>1, HttpxReports
      <4> QED
        BY <4>2 DEF report
    <3> QED
      BY <3>3
  <2> QED
    BY <2>1, <2>2
<1>7. Hosts' = Hosts
  BY <1>2 DEF Hosts, Capped
<1>8. Bookkeeping'
  <2>1. TargetsOf("nmap")' = TargetsOf("nmap")
    BY <1>4 DEF Tools
  <2>2. \A tool \in Tools \ done' : TargetsOf(tool)' = {} /\ tool \notin rejected'
    BY <1>1, <1>4 DEF Bookkeeping
  <2> QED
    BY <1>1, <1>2, <1>7, <2>1, <2>2 DEF Bookkeeping
<1>9. Types'
  <2>1. step' \in 0 .. maxSteps'
    BY <1>1, <1>2 DEF Types
  <2> QED
    BY <1>1, <1>2, <1>4, <1>6, <2>1 DEF Types
<1>10. BudgetKept'
  <2>1. "httpx" \in Stages[profile] \ done
    BY <1>1, <1>2 DEF Types, Stages
  <2>2. Remaining' <= Remaining - 1
    BY <1>1, <1>2, <1>4, <1>9, <2>1, RemainingFalls DEF scan
  <2>3. done' # {} /\ Continue
    BY <1>4 DEF Httpx
  <2> QED
    BY <1>9, <2>2, <2>3, ContinueBudget
<1>11. TypeOK'
  <2>1. ASSUME NEW tool \in Tools
        PROVE  Cardinality(TargetsOf(tool)') <= MaxTargets
    <3>1. CASE tool = "httpx"
      <4>1. TargetsOf(tool)' \in SUBSET Range(HttpxTargets)
        BY <1>5, <3>1
      <4> QED
        BY <4>1, <1>3, WithinCap
    <3>2. CASE tool # "httpx"
      BY <1>1, <1>4, <3>2 DEF TypeOK
    <3> QED
      BY <3>1, <3>2
  <2> QED
    BY <1>1, <1>2, <1>4, <1>9, <2>1 DEF TypeOK, Types, Reports, Pages
<1>12. ReportsInScope'
  <2>1. StableDNS' = StableDNS /\ Allowed' = Allowed
    BY <1>2 DEF StableDNS, Allowed
  <2> SUFFICES ASSUME StableDNS, RedirectsStay', Range(promoted) \subseteq Allowed
               PROVE  rejected' = {} /\ \A v \in Range(services') : Named(v) \in Allowed
    BY <1>2, <2>1 DEF ReportsInScope, Named
  <2>2. Range(HttpxTargets) \subseteq Allowed
    BY <1>3 DEF StableDNS, Allowed
  <2>3. Accepted("httpx", HttpxTargets)
    BY <1>3, <2>2 DEF Accepted
  <2>4. services = << >> /\ Range(<< >>) = {}
    BY <1>1, <1>2 DEF Handover, Range
  <2>5. RedirectsStay
    BY <2>4 DEF RedirectsStay
  <2>6. \A v \in Range(services') : v.url = NoUrl => v.final \in Allowed
    BY <2>1 DEF RedirectsStay
  <2>7. \A v \in Range(services') : Named(v) \in Allowed
    BY <1>6, <2>2, <2>4, <2>6
  <2> QED
    BY <1>1, <1>4, <2>3, <2>5, <2>7 DEF ReportsInScope
<1>13. Handover'
  <2>1. PendingNmap = {} /\ PendingNmap' = PendingNmap /\ "nuclei" \notin done'
    BY <1>1, <1>2, <1>4, <1>7 DEF Handover, Httpx, PendingNmap
  <2>2. HttpxBase' = HttpxBase
    BY <1>2, <1>7 DEF HttpxBase, Fallback, Capped
  <2>3. StagesHandOver'
    BY <1>3, <1>4, <2>1, <2>2 DEF StagesHandOver
  <2> QED
    BY <1>4, <1>6, <2>1, <2>3 DEF Handover
<1> QED
  BY <1>8, <1>10, <1>11, <1>12, <1>13 DEF IInv

LEMMA NucleiInv == IInv /\ Nuclei => IInv'
<1> SUFFICES ASSUME IInv, Nuclei PROVE IInv'
  OBVIOUS
<1>1. TypeOK /\ Bookkeeping /\ BudgetKept /\ Handover /\ ReportsInScope /\ Types
  BY TypesFromTypeOK DEF IInv
<1>2. /\ UNCHANGED <<profile, hosts, seeds, resolved, promoted, maxSteps>>
      /\ UNCHANGED <<status, why, covered, nmapUrls, services>>
      /\ step' = step + 1 /\ step < maxSteps
      /\ "nuclei" \in Stages[profile] \ done /\ ~Empty /\ Call("nuclei", NucleiTargets)
  BY DEF Nuclei, Continue, scan
<1>3. /\ NucleiTargets \in Seq(Pages) /\ Len(NucleiTargets) <= MaxTargets
      /\ Range(NucleiTargets) \subseteq {Named(v) : v \in Range(services)} \cup Range(hosts)
      /\ hosts # << >> => NucleiTargets # << >>
      /\ {Named(v) : v \in Range(services)} \subseteq Range(NucleiTargets)
  BY <1>1, NucleiTargetsType DEF Handover
<1>4. /\ executed' \subseteq Tools \X Targets
      /\ done' = done \cup {"nuclei"} /\ done' \subseteq Tools
      /\ rejected' \subseteq rejected \cup {"nuclei"} /\ rejected' \subseteq Tools
      /\ rejected \subseteq rejected'
      /\ Accepted("nuclei", NucleiTargets) =>
           rejected' = rejected /\ Range(NucleiTargets) \subseteq TargetsOf("nuclei")'
      /\ ~Accepted("nuclei", NucleiTargets) => "nuclei" \in rejected'
      /\ TargetsOf("nuclei")' \subseteq TargetsOf("nuclei") \cup Range(NucleiTargets)
      /\ \A u \in Tools \ {"nuclei"} : TargetsOf(u)' = TargetsOf(u)
  BY <1>1, <1>2, <1>3, CallEffect DEF Tools
<1>5. TargetsOf("nuclei")' \subseteq Range(NucleiTargets)
  BY <1>1, <1>2, <1>4 DEF Bookkeeping, Tools
<1>6. Hosts' = Hosts
  BY <1>2 DEF Hosts, Capped
<1>7. Bookkeeping'
  <2>1. TargetsOf("nmap")' = TargetsOf("nmap")
    BY <1>4 DEF Tools
  <2>2. \A tool \in Tools \ done' : TargetsOf(tool)' = {} /\ tool \notin rejected'
    BY <1>1, <1>4 DEF Bookkeeping
  <2> QED
    BY <1>1, <1>2, <1>6, <2>1, <2>2 DEF Bookkeeping
<1>8. Types'
  <2>1. step' \in 0 .. maxSteps'
    BY <1>1, <1>2 DEF Types
  <2> QED
    BY <1>1, <1>2, <1>4, <2>1 DEF Types
<1>9. BudgetKept'
  <2>1. Remaining' <= Remaining - 1
    BY <1>1, <1>2, <1>4, <1>8, RemainingFalls DEF scan
  <2>2. done' # {} /\ Continue
    BY <1>4 DEF Nuclei
  <2> QED
    BY <1>8, <2>1, <2>2, ContinueBudget
<1>10. TypeOK'
  <2>1. ASSUME NEW tool \in Tools
        PROVE  Cardinality(TargetsOf(tool)') <= MaxTargets
    <3>1. CASE tool = "nuclei"
      <4>1. TargetsOf(tool)' \in SUBSET Range(NucleiTargets)
        BY <1>5, <3>1
      <4> QED
        BY <4>1, <1>3, WithinCap
    <3>2. CASE tool # "nuclei"
      BY <1>1, <1>4, <3>2 DEF TypeOK
    <3> QED
      BY <3>1, <3>2
  <2> QED
    BY <1>1, <1>2, <1>4, <1>8, <2>1 DEF TypeOK, Types
<1>11. ReportsInScope'
  <2>1. /\ StableDNS' = StableDNS /\ Allowed' = Allowed
        /\ RedirectsStay' = RedirectsStay
    BY <1>2 DEF StableDNS, RedirectsStay, Allowed
  <2> SUFFICES ASSUME StableDNS, RedirectsStay, Range(promoted) \subseteq Allowed
               PROVE  rejected' = {} /\ \A v \in Range(services') : Named(v) \in Allowed
    BY <1>2, <2>1 DEF ReportsInScope, Named
  <2>2. {Named(v) : v \in Range(services)} \subseteq Allowed /\ rejected = {}
    BY <1>1 DEF ReportsInScope
  \* A promoted name that is authorized is a host of the snapshot.
  <2>3. hosts # << >>
    <3> SUFFICES ASSUME hosts = << >> PROVE FALSE
      OBVIOUS
    <3>1. Hosts = << >> /\ Range(hosts) = {}
      BY <1>1, HostsType DEF Range
    <3>2. promoted # << >> /\ promoted \in Seq(Promotable) /\ resolved \subseteq Addresses
      BY <1>1, <1>2, <3>1 DEF Empty, Types
    <3>3. Len(promoted) \in Nat \ {0} /\ DOMAIN promoted = 1 .. Len(promoted)
      BY <3>2, EmptySeq, LenProperties
    <3>4. promoted[1] \in Range(promoted) /\ promoted[1] \in Promotable
      BY <3>2, <3>3, ElementOfSeq DEF Range
    <3>5. promoted[1] \in Addresses
      BY <3>1, <3>2, <3>4 DEF Allowed
    <3> QED
      BY <3>4, <3>5, PromotableAssumption
  <2>4. Accepted("nuclei", NucleiTargets)
    BY <1>3, <2>2, <2>3 DEF Accepted, Allowed
  <2> QED
    BY <1>2, <1>4, <2>2, <2>4
<1>12. Handover'
  <2>1. /\ PendingNmap' = PendingNmap /\ HttpxBase' = HttpxBase
        /\ "httpx" \in done
    BY <1>2, <1>6 DEF Nuclei, PendingNmap, HttpxBase, Fallback, Capped
  <2>2. TargetsOf("httpx")' = TargetsOf("httpx") /\ ("httpx" \in rejected => "httpx" \in rejected')
    BY <1>4 DEF Tools
  <2>3. StagesHandOver'
    BY <1>1, <1>2, <1>3, <1>4, <2>1, <2>2 DEF Handover, StagesHandOver, Named
  <2> QED
    BY <1>1, <1>2, <1>4, <2>1, <2>3 DEF Handover
<1> QED
  BY <1>7, <1>9, <1>10, <1>11, <1>12 DEF IInv

LEMMA StutterInv == IInv /\ UNCHANGED vars => IInv'
  BY DEF IInv, TypeOK, Bookkeeping, BudgetKept, Handover, StagesHandOver, ReportsInScope,
         vars, scan, run, TargetsOf, Hosts, Capped, HttpxBase, Fallback, Fits, Remaining,
         PendingNmap, StableDNS, RedirectsStay, Allowed, Named

(* Everything above is an invariant of a run in pipeline mode.             *)
THEOREM Invariance == Spec => []IInv
<1>1. IInv /\ [Next]_vars => IInv'
  BY ConcludeInv, NmapInv, HttpxInv, NucleiInv, StutterInv DEF Next
<1> QED
  BY InitInv, <1>1, PTL DEF Spec

-----------------------------------------------------------------------------
(* What follows from it. *)

(* Every variable of a run keeps its type, and no tool of a pipeline works *)
(* on more than MAX_STAGE_TARGETS targets.                                 *)
THEOREM TypeCorrect == Spec => []TypeOK
<1>1. IInv => TypeOK
  BY DEF IInv
<1> QED
  BY Invariance, <1>1, PTL

(* The budget check of PipelinePlanner.decide is right: no run dies at the *)
(* step limit, and one that gives up for want of budget has run nothing.   *)
THEOREM BudgetSuffices == Spec => []NeverOutOfSteps
<1>1. IInv => NeverOutOfSteps
  <2> SUFFICES ASSUME IInv, why = "budget"
               PROVE  done = {} /\ executed = {} /\ rejected = {}
    BY DEF IInv, BudgetKept, NeverOutOfSteps
  <2>1. done = {} /\ executed \subseteq Tools \X Targets /\ rejected \subseteq Tools
    BY DEF IInv, BudgetKept, TypeOK
  <2>2. \A tool \in Tools : TargetsOf(tool) = {} /\ tool \notin rejected
    BY <2>1 DEF IInv, Bookkeeping
  <2> QED
    BY <2>1, <2>2 DEF TargetsOf
<1> QED
  BY Invariance, <1>1, PTL

(* With stable DNS, no promoted name outside the scope and no record whose *)
(* URL is missing redirected out of it, the gate rejects no decision of    *)
(* the planner, whatever nmap and httpx report.                            *)
THEOREM PlannerInScope == Spec => []PlannerStaysInScope
<1>1. IInv => PlannerStaysInScope
  BY DEF IInv, ReportsInScope, PlannerStaysInScope
<1> QED
  BY Invariance, <1>1, PTL

(* For every list, cap and answer an accepted httpx call probes all that   *)
(* nmap or the snapshot gave it, and an accepted nuclei call scans every   *)
(* service httpx reported: the caps and the removal of duplicates in       *)
(* PipelinePlanner lose nothing on the way from stage to stage.            *)
THEOREM StagesAreConnected == Spec => []StagesHandOver
<1>1. IInv => StagesHandOver
  BY DEF IInv, Handover
<1> QED
  BY Invariance, <1>1, PTL

=============================================================================
