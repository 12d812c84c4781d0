-------------------------- MODULE MCAttackSurface ---------------------------
(***************************************************************************)
(* AttackSurface for TLC: the nested parents d and s.d, names in several   *)
(* spellings, an address, a URL that urlparse rejects, and inputs that     *)
(* exceed every cap.                                                       *)
(***************************************************************************)
EXTENDS AttackSurface

MCRawNames == {"d", "s.d", "t.s.d", "x", "S.D.", "*.d"}

MCNormal == [n \in MCRawNames |-> CASE n = "S.D." -> "s.d"
                                    [] n = "*.d"  -> NoName
                                    [] OTHER      -> n]

MCBelow == [n \in MCRawNames |-> CASE n = "d"   -> {"s.d", "t.s.d"}
                                   [] n = "s.d" -> {"t.s.d"}
                                   [] OTHER     -> {}]

MCSnapshot == {[type |-> "domain", value |-> "d"], [type |-> "url", value |-> "http://s.d/"],
               [type |-> "cidr", value |-> "10.0.0.0/8"]}

MCUrls == {"http://s.d/", "http://x/", "http://[x"}

MCUrlHost == [u \in MCUrls |-> CASE u = "http://s.d/" -> "s.d"
                                 [] u = "http://x/"   -> "x"
                                 [] OTHER             -> Unparsable]

MCServiceAt == [h \in {"10.0.0.1", NoHost} |->
                  IF h = NoHost THEN "unknown:80" ELSE "10.0.0.1:80"]

\* 1 to 3 are IPv4 addresses, 4 is an IPv6 address and 5 a name.
MCUsable == [k \in Keys |-> CASE k = "a"    -> {1, 2, 3}
                              [] k = "aaaa" -> {4}
                              [] OTHER      -> {5}]

Entry(host, a) ==
    [host |-> host, a |-> a, status |-> IF a = {} THEN "unverified" ELSE "resolved"]

MCObservable ==
    {[tool |-> "subfinder", domain |-> "d",
      subdomains |-> <<Entry("S.D.", {3, 4}), Entry("*.d", {}), Entry("t.s.d", {}), Entry("x", {})>>],
     [tool |-> "subfinder", domain |-> "S.D.", subdomains |-> <<Entry("t.s.d", {}), Entry("d", {1})>>],
     [tool |-> "subfinder", domain |-> "x", subdomains |-> <<Entry("x", {1})>>],
     [tool |-> "nmap", hosts |-> <<[ip |-> "10.0.0.1", open |-> TRUE], [ip |-> NoHost, open |-> TRUE]>>],
     [tool |-> "nmap", hosts |-> <<[ip |-> "10.0.0.1", open |-> FALSE]>>],
     [tool |-> "httpx", urls |-> <<"http://s.d/", "http://[x">>],
     [tool |-> "httpx", urls |-> <<"http://[x", "http://x/">>],
     [tool |-> "dnsx"]}

Answer(host, a, aaaa, cname) ==
    [queried |-> {"s.d", "t.s.d"},
     record |-> [host |-> host, a |-> a, aaaa |-> aaaa, cname |-> cname]]

MCAnswerable ==
    {Answer("s.d", {1, 2, 3}, {}, {}), Answer("S.D.", {2}, {1, 4}, {5}),
     Answer("t.s.d", {}, {}, {5}), Answer("t.s.d", {3, 4}, {}, {}),
     Answer("d", {1}, {}, {}), Answer("*.d", {1}, {}, {})}

Reported(template, matched, host, ip) ==
    [template |-> template, matched |-> matched, host |-> host, ip |-> ip]

MCReportable ==
    {Reported("t1", "http://s.d/", "s.d", NoName), Reported("t1", "http://s.d/", "d", NoName),
     Reported("t2", "10.0.0.1:80", "x", "10.0.0.1"), Reported("t3", "http://[x", "x", NoName),
     Reported("t4", NoName, "http://x/", NoName)}

=============================================================================
