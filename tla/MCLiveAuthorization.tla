------------------------ MODULE MCLiveAuthorization -------------------------
(***************************************************************************)
(* LiveAuthorization with two records, two scans and two policy versions.  *)
(***************************************************************************)
EXTENDS LiveAuthorization, TLC

CONSTANTS o1, o2, p1, p2, a1, a2, c1, c2, v1, v2

Plain(o) == [names |-> o, scheme |-> "lower", host |-> "lower", port |-> "none",
             rest |-> "none"]

Spelled(o) == [Plain(o) EXCEPT !.host = "mixed", !.port = "default"]

Narrow == [by |-> "admin", project |-> p1, from |-> 0, until |-> None,
           origins |-> {Plain(o1)}, exclusions |-> {}, evidence |-> "reference"]

\* A narrow authorization and a shorter one for the other project whose
\* exclusion is spelled in another way than its origins; the others are
\* refused: emptied by an exclusion, too long, over before it starts, for an
\* address, without evidence, or not submitted by an administrator.
MCApplications ==
    {Narrow,
     [Narrow EXCEPT !.project = p2, !.from = 1, !.until = 2, !.evidence = "digest",
                    !.origins = {Plain(o1), Spelled(o1), Plain(o2)},
                    !.exclusions = {Spelled(o2)}],
     [Narrow EXCEPT !.exclusions = {Spelled(o1)}],
     [Narrow EXCEPT !.until = 3],
     [Narrow EXCEPT !.from = None, !.until = 0],
     [Narrow EXCEPT !.origins = {Plain(o1), [Plain(o2) EXCEPT !.host = "address"]}],
     [Narrow EXCEPT !.evidence = "none"],
     [Narrow EXCEPT !.by = "owner"]}

\* Records, scans and policy versions are interchangeable; the projects and
\* origins, which the terms tell apart, are not.
AuthSymmetry == Permutations(Auths) \cup Permutations(Scans) \cup Permutations(Versions)

=============================================================================
