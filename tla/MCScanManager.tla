--------------------------- MODULE MCScanManager ---------------------------
(***************************************************************************)
(* ScanManager on small instances: two scans of one project, and for the   *)
(* pool a third scan of another project.                                   *)
(***************************************************************************)
EXTENDS ScanManager, TLC

CONSTANTS s1, s2, s3, p1, p2

MCProjectOf == [s \in Scans |-> IF s = s3 THEN p2 ELSE p1]

\* The two scans of one project, and the cancel requests, are interchangeable.
ScanSymmetry == Permutations(Requests) \cup Permutations({s1, s2})

=============================================================================
