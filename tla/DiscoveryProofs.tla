-------------------------- MODULE DiscoveryProofs ---------------------------
(***************************************************************************)
(* Proofs about the discovery pre-stage, for every number of parents and   *)
(* hosts, every batch size and every failure: what it promotes is          *)
(* committed, the names of failed parents are never queried, and a cancel  *)
(* lets at most one more tool start.                                       *)
(***************************************************************************)
EXTENDS Discovery, TLAPS

\* The parent being handled exists.
ParentInv == at \in {"subfinder", "subfinding", "store"} => parent \in 1 .. Parents

\* A host with a parent whose names were stored.
FromStored == {h \in Hosts : sources[h] \cap stored # {}}

\* While parents are walked, what a host came from was stored or failed, or
\* is being stored; what is queried later came from a stored parent.
SourcesInv ==
    /\ at \in {"parents", "subfinder", "subfinding"} =>
         \A h \in Hosts : sources[h] \subseteq stored \cup failed
    /\ at = "store" =>
         \A h \in Hosts : sources[h] \subseteq stored \cup failed \cup {parent}
    /\ queue \cup batch \cup queried \subseteq FromStored

\* Nothing is promoted before every host was handled; what is promoted is
\* written, and no statement has failed since.
PromotionInv ==
    /\ enriched \subseteq rows
    /\ ~broken => verified \subseteq enriched
    /\ at \notin {"promote", "commit", "returned", "handed"} => promoted = {}
    /\ at \in {"promote", "commit"} /\ promoted # {} => ~broken /\ promoted \subseteq enriched
    /\ at \in {"returned", "handed"} => promoted \subseteq saved.rows \cap saved.enriched

\* The one late tool was about to start when the event was set.
CancelInv ==
    /\ late \in {0, 1}
    /\ late = 1 => cancel /\ at \notin {"subfinding", "querying"}

IInv == TypeOK /\ ParentInv /\ SourcesInv /\ PromotionInv /\ CancelInv

LEMMA InitIInv == Init => IInv
<1> SUFFICES ASSUME Init PROVE IInv
  OBVIOUS
<1>1. TypeOK
  <2>1. parent \in 1 .. Parents + 1
    BY CountAssumption DEF Init
  <2>2. sources \in [Hosts -> SUBSET (1 .. Parents)]
    BY DEF Init
  <2> QED
    BY <2>1, <2>2 DEF Init, TypeOK
<1>2. SourcesInv
  BY DEF Init, SourcesInv
<1>3. ParentInv /\ PromotionInv /\ CancelInv
  BY DEF Init, ParentInv, PromotionInv, CancelInv
<1> QED
  BY <1>1, <1>2, <1>3 DEF IInv

-----------------------------------------------------------------------------
LEMMA StepType == IInv /\ [Next]_vars => TypeOK' /\ ParentInv'
<1> SUFFICES ASSUME IInv, [Next]_vars PROVE TypeOK' /\ ParentInv'
  OBVIOUS
<1>a. TypeOK /\ ParentInv
  BY DEF IInv
<1>b. \A p \in 1 .. Parents : Under[p] \subseteq Hosts
  BY HostAssumption
<1> USE <1>a DEF TypeOK, ParentInv, walk, dns, report, session, history
<1>1. CASE RequestCancel
  BY <1>1 DEF RequestCancel
<1>2. CASE BeginParent
  BY <1>2, CountAssumption DEF BeginParent, Stop
<1>3. CASE InvokeSubfinder
  BY <1>3, CountAssumption DEF InvokeSubfinder, NextParent
<1>4. CASE Subfinder
  <2>1. parent \in 1 .. Parents /\ parent + 1 \in 1 .. Parents + 1
    BY <1>4, CountAssumption DEF Subfinder
  <2>2. CASE failed' = failed \cup {parent} /\ NextParent /\ UNCHANGED <<found, sources>>
    BY <1>4, <2>1, <2>2 DEF Subfinder, NextParent
  <2>3. CASE \E names \in SUBSET Under[parent] :
               /\ found' = names
               /\ sources' = [h \in Hosts |->
                     IF h \in names THEN sources[h] \cup {parent} ELSE sources[h]]
               /\ at' = "store" /\ UNCHANGED <<failed, parent>>
    <3>1. found' \subseteq Hosts /\ sources' \in [Hosts -> SUBSET (1 .. Parents)]
      BY <2>1, <2>3, <1>b
    <3> QED
      BY <1>4, <2>1, <2>3, <3>1 DEF Subfinder
  <2> QED
    BY <1>4, <2>2, <2>3 DEF Subfinder
<1>5. CASE StoreNames
  <2>1. parent \in 1 .. Parents /\ parent + 1 \in 1 .. Parents + 1
    BY <1>5, CountAssumption DEF StoreNames
  <2>2. parent' \in 1 .. Parents + 1 /\ at' \in {"commit", "parents"}
    BY <1>5, <2>1 DEF StoreNames, NextParent, Stop
  <2>3. rows' \subseteq Hosts /\ enriched' \subseteq Hosts /\ broken' \in BOOLEAN
    BY <1>5 DEF StoreNames, Break
  <2>4. failed' \subseteq 1 .. Parents /\ stored' \subseteq 1 .. Parents
    BY <1>5, <2>1 DEF StoreNames
  <2>5. promoted' \subseteq Hosts /\ outcome' \in {"completed", "cancelled"}
    BY <1>5 DEF StoreNames, Stop
  <2> QED
    BY <1>5, <2>2, <2>3, <2>4, <2>5 DEF StoreNames
<1>6. CASE EndParents
  BY <1>6 DEF EndParents, Eligible, Stop
<1>7. CASE NextBatch
  BY <1>7 DEF NextBatch, Batch, Stop
<1>8. CASE InvokeDnsx
  BY <1>8 DEF InvokeDnsx, GiveUpBatch
<1>9. CASE Dnsx
  BY <1>9 DEF Dnsx, GiveUpBatch
<1>10. CASE NextHost
  BY <1>10 DEF NextHost, Stop, Settle, Verifies, Break
<1>11. CASE Assets
  BY <1>11 DEF Assets, Stop, Collapse, Existing
<1>12. CASE Promote
  BY <1>12 DEF Promote
<1>13. CASE Commit
  BY <1>13 DEF Commit, Collapse
<1>14. CASE HandOver
  BY <1>14 DEF HandOver
<1>15. CASE UNCHANGED vars
  BY <1>15 DEF vars
<1> QED
  BY <1>1, <1>2, <1>3, <1>4, <1>5, <1>6, <1>7, <1>8, <1>9, <1>10, <1>11,
     <1>12, <1>13, <1>14, <1>15 DEF Next, Worker

-----------------------------------------------------------------------------
LEMMA StepSources == IInv /\ [Next]_vars => SourcesInv'
<1> SUFFICES ASSUME IInv, [Next]_vars PROVE SourcesInv'
  OBVIOUS
<1>a. TypeOK /\ ParentInv /\ SourcesInv
  BY DEF IInv
<1> USE <1>a DEF SourcesInv, FromStored, walk, dns, report, session, history
<1>1. CASE RequestCancel
  BY <1>1 DEF RequestCancel
<1>2. CASE BeginParent
  BY <1>2 DEF BeginParent, Stop
<1>3. CASE InvokeSubfinder
  BY <1>3 DEF InvokeSubfinder, NextParent
<1>4. CASE Subfinder
  BY <1>4 DEF Subfinder, NextParent, TypeOK
<1>5. CASE StoreNames
  BY <1>5 DEF StoreNames, NextParent, Stop, Break
<1>6. CASE EndParents
  BY <1>6 DEF EndParents, Eligible, Stop
<1>7. CASE NextBatch
  BY <1>7 DEF NextBatch, Batch, Stop
<1>8. CASE InvokeDnsx
  BY <1>8 DEF InvokeDnsx, GiveUpBatch
<1>9. CASE Dnsx
  BY <1>9 DEF Dnsx, GiveUpBatch
<1>10. CASE NextHost
  BY <1>10 DEF NextHost, Stop
<1>11. CASE Assets \/ Promote \/ Commit \/ HandOver
  BY <1>11 DEF Assets, Promote, Commit, HandOver, Stop, Collapse
<1>12. CASE UNCHANGED vars
  BY <1>12 DEF vars
<1> QED
  BY <1>1, <1>2, <1>3, <1>4, <1>5, <1>6, <1>7, <1>8, <1>9, <1>10, <1>11, <1>12
     DEF Next, Worker

LEMMA StepPromotion == IInv /\ [Next]_vars => PromotionInv'
<1> SUFFICES ASSUME IInv, [Next]_vars PROVE PromotionInv'
  OBVIOUS
<1>a. PromotionInv
  BY DEF IInv
<1> USE <1>a DEF PromotionInv, walk, dns, report, session, history
<1>1. CASE RequestCancel
  BY <1>1 DEF RequestCancel
<1>2. CASE BeginParent \/ InvokeSubfinder \/ Subfinder
  BY <1>2 DEF BeginParent, InvokeSubfinder, Subfinder, NextParent, Stop
<1>3. CASE StoreNames
  BY <1>3 DEF StoreNames, NextParent, Stop, Break
<1>4. CASE EndParents \/ NextBatch \/ InvokeDnsx \/ Dnsx
  BY <1>4 DEF EndParents, NextBatch, InvokeDnsx, Dnsx, GiveUpBatch, Stop
<1>5. CASE NextHost
  BY <1>5 DEF NextHost, Stop, Settle, Verifies, Break
<1>6. CASE Assets
  BY <1>6 DEF Assets, Stop, Collapse, Existing
<1>7. CASE Promote
  BY <1>7 DEF Promote
<1>8. CASE Commit
  BY <1>8 DEF Commit, Collapse
<1>9. CASE HandOver
  BY <1>9 DEF HandOver
<1>10. CASE UNCHANGED vars
  BY <1>10 DEF vars
<1> QED
  BY <1>1, <1>2, <1>3, <1>4, <1>5, <1>6, <1>7, <1>8, <1>9, <1>10 DEF Next, Worker

LEMMA StepCancel == IInv /\ [Next]_vars => CancelInv'
<1> SUFFICES ASSUME CancelInv, [Next]_vars PROVE CancelInv'
  BY DEF IInv
<1> USE DEF CancelInv, IsCancelled, walk, dns, report, session, history
<1>1. CASE RequestCancel
  BY <1>1 DEF RequestCancel
<1>2. CASE BeginParent \/ StoreNames \/ EndParents \/ NextBatch
  BY <1>2 DEF BeginParent, StoreNames, EndParents, NextBatch, NextParent, Stop
<1>3. CASE InvokeSubfinder \/ InvokeDnsx
  BY <1>3 DEF InvokeSubfinder, InvokeDnsx, NextParent, GiveUpBatch
<1>4. CASE Subfinder \/ Dnsx
  BY <1>4 DEF Subfinder, Dnsx, NextParent, GiveUpBatch
<1>5. CASE NextHost \/ Assets \/ Promote \/ Commit \/ HandOver
  BY <1>5 DEF NextHost, Assets, Promote, Commit, HandOver, Stop, Collapse
<1>6. CASE UNCHANGED vars
  BY <1>6 DEF vars
<1> QED
  BY <1>1, <1>2, <1>3, <1>4, <1>5, <1>6 DEF Next, Worker

LEMMA InvariantHolds == Spec => []IInv
<1>1. IInv /\ [Next]_vars => IInv'
  BY StepType, StepSources, StepPromotion, StepCancel DEF IInv
<1> QED
  BY InitIInv, <1>1, PTL DEF Spec

-----------------------------------------------------------------------------
\* Every variable of the stage keeps its type, for every number of parents
\* and hosts.
THEOREM TypeCorrect == Spec => []TypeOK
BY InvariantHolds, PTL DEF IInv

\* What DiscoveryService.run hands to the pipeline was committed by the one
\* session that carries the stage, whichever statement failed.
THEOREM PromotionIsCommitted == Spec => []PromotedIsCommitted
<1>1. IInv => PromotedIsCommitted
  BY DEF IInv, PromotionInv, PromotedIsCommitted
<1> QED
  BY InvariantHolds, <1>1, PTL

\* dnsx is never given a name that came from failed parents only, in any
\* batch.
THEOREM FailedParentsAreNotQueried == Spec => []FailedParentsAreSkipped
<1>1. IInv => FailedParentsAreSkipped
  BY DEF IInv, SourcesInv, FromStored, FailedParentsAreSkipped
<1> QED
  BY InvariantHolds, <1>1, PTL

\* The cancel event, set at any moment of the stage, lets at most the tool
\* run that was about to start.
THEOREM CancelIsHeeded == Spec => []CancelStopsDiscovery
<1>1. IInv => CancelStopsDiscovery
  BY DEF IInv, CancelInv, CancelStopsDiscovery
<1> QED
  BY InvariantHolds, <1>1, PTL

=============================================================================
