------------------------ MODULE ChatRequestsProofs ------------------------
(***************************************************************************)
(* Theorems about overlapping chat requests, for any number of them.       *)
(***************************************************************************)
EXTENDS ChatRequests, FiniteSetTheorems, TLAPS

USE ChatAssumption

-----------------------------------------------------------------------------
(* The inductive invariant                                                 *)

InHandle == {r \in Requests : pc[r] \in Inside}

\* Two requests inside handle() know of each other.
Acquainted ==
    \A r, q \in Requests : r # q /\ r \in InHandle /\ q \in InHandle => q \in met[r]

\* What the shared objects hold was put there by the request itself, or by one
\* that has been inside handle() since.
SharedByInsiders ==
    \A r \in Requests :
        /\ pc[r] = "search" => aclFilter \in {r} \cup met[r]
        /\ pc[r] = "summary" => lastSummary \in {r, "none"} \cup met[r]
        /\ pc[r] = "guardrail" => searched[r] = "none" /\ reported[r] = "none"

ChatInv ==
    /\ TypeOK
    /\ GaugeCountsInside
    /\ Acquainted
    /\ SharedByInsiders
    /\ ForeignOnlyWhenOverlapping
    /\ OnlyAnswersAreStored

-----------------------------------------------------------------------------
(* Lemmas                                                                  *)

\* Requests that go in and out of handle() are counted one by one.
LEMMA InsideCount ==
    ASSUME TypeOK, NEW r \in Requests, NEW from, NEW to, Goes(r, from, to)
    PROVE  /\ IsFiniteSet(InHandle) /\ Cardinality(InHandle) \in Nat
           /\ from \notin Inside /\ to \in Inside
                 => Cardinality(InHandle') = Cardinality(InHandle) + 1
           /\ from \in Inside /\ to \notin Inside
                 => Cardinality(InHandle') = Cardinality(InHandle) - 1
           /\ (from \in Inside <=> to \in Inside) => InHandle' = InHandle
<1>1. IsFiniteSet(InHandle) /\ Cardinality(InHandle) \in Nat
  <2>1. InHandle \subseteq Requests
    BY DEF InHandle
  <2>2. QED
    BY <2>1, FS_Subset, FS_CardinalityType
<1>2. pc[r] = from /\ \A q \in Requests : pc'[q] = IF q = r THEN to ELSE pc[q]
  BY DEF Goes, TypeOK
<1>3. CASE from \notin Inside /\ to \in Inside
  <2>1. InHandle' = InHandle \cup {r} /\ r \notin InHandle
    BY <1>2, <1>3 DEF InHandle
  <2>2. QED
    BY <1>1, <1>3, <2>1, FS_AddElement
<1>4. CASE from \in Inside /\ to \notin Inside
  <2>1. InHandle' = InHandle \ {r} /\ r \in InHandle
    BY <1>2, <1>4 DEF InHandle
  <2>2. QED
    BY <1>1, <1>4, <2>1, FS_RemoveElement
<1>5. CASE from \in Inside <=> to \in Inside
  <2>1. InHandle' = InHandle
    BY <1>2, <1>5 DEF InHandle
  <2>2. QED
    BY <1>1, <1>5, <2>1
<1>6. QED
  BY <1>3, <1>4, <1>5

\* Before the first request nobody is inside.
LEMMA ChatInit == Init => ChatInv
<1> SUFFICES ASSUME Init PROVE ChatInv
  OBVIOUS
<1>1. InHandle = {} /\ Cardinality(InHandle) = 0
  <2>1. InHandle = {}
    BY DEF Init, InHandle, Inside
  <2>2. QED
    BY <2>1, FS_EmptySet
<1>2. TypeOK
  BY DEF Init, TypeOK, Owner
<1>3. GaugeCountsInside /\ Acquainted
  BY <1>1 DEF Init, GaugeCountsInside, Acquainted, InHandle
<1>4. SharedByInsiders /\ ForeignOnlyWhenOverlapping /\ OnlyAnswersAreStored
  BY DEF Init, SharedByInsiders, ForeignOnlyWhenOverlapping,
     OnlyAnswersAreStored
<1>5. QED
  BY <1>2, <1>3, <1>4 DEF ChatInv

\* A step between two places outside handle(), or two places inside it, that leaves
\* gauge and history alone keeps the count and the acquaintances.
LEMMA SameCompany ==
    ASSUME ChatInv, NEW r \in Requests, NEW from, NEW to, Goes(r, from, to),
           from \in Inside <=> to \in Inside, UNCHANGED <<active, met>>
    PROVE  GaugeCountsInside' /\ Acquainted'
<1>1. InHandle' = InHandle
  BY InsideCount DEF ChatInv
<1>2. QED
  BY <1>1 DEF ChatInv, GaugeCountsInside, Acquainted, InHandle

\* The one decrement of a request that leaves handle().
LEMMA LeaveCompany ==
    ASSUME ChatInv, NEW r \in Requests, NEW from \in Inside, NEW to, to \notin Inside,
           Goes(r, from, to), active' = active - 1, UNCHANGED met
    PROVE  GaugeCountsInside' /\ Acquainted' /\ active' \in Nat
<1>1. Cardinality(InHandle') = Cardinality(InHandle) - 1 /\ Cardinality(InHandle) \in Nat
  BY InsideCount DEF ChatInv
<1>2. r \in InHandle /\ InHandle' = InHandle \ {r}
  BY DEF Goes, ChatInv, TypeOK, InHandle
<1>3. Cardinality(InHandle') \in Nat
  BY <1>2, InsideCount, FS_RemoveElement, FS_CardinalityType DEF ChatInv
<1>4. active = Cardinality(InHandle)
  BY DEF ChatInv, GaugeCountsInside, InHandle
<1>5. GaugeCountsInside' /\ active' \in Nat
  BY <1>1, <1>3, <1>4 DEF GaugeCountsInside, InHandle
<1>6. Acquainted'
  BY <1>2 DEF ChatInv, Acquainted
<1>7. QED
  BY <1>5, <1>6

-----------------------------------------------------------------------------
(* The steps of a request                                                  *)

\* Admission: the newcomer and those inside meet.
LEMMA AdmitStep == ASSUME ChatInv, NEW r \in Requests, Admit(r) PROVE ChatInv'
<1>1. /\ Goes(r, "guardrail", "message") /\ active' = active + 1
      /\ met' = [q \in Requests |-> CASE q = r -> InHandle
                                       [] q \in InHandle -> met[q] \cup {r}
                                       [] OTHER -> met[q]]
      /\ UNCHANGED <<aclFilter, lastSummary, searched, reported, stored, blocked>>
  BY DEF Admit, InHandle
<1>2. "guardrail" \notin Inside /\ "message" \in Inside
  BY DEF Inside
<1>3. pc[r] = "guardrail" /\ \A q \in Requests : pc'[q] = IF q = r THEN "message" ELSE pc[q]
  BY <1>1 DEF Goes, ChatInv, TypeOK
<1>4. r \notin InHandle /\ InHandle' = InHandle \cup {r}
  BY <1>2, <1>3 DEF InHandle
<1>5. /\ met'[r] = InHandle
      /\ \A q \in InHandle : met'[q] = met[q] \cup {r}
      /\ \A q \in Requests \ {r} : met[q] \subseteq met'[q]
      /\ met' \in [Requests -> SUBSET Requests]
  <2>1. InHandle \subseteq Requests
    BY DEF InHandle
  <2>2. QED
    BY <2>1, <1>1, <1>4 DEF ChatInv, TypeOK
<1>6. GaugeCountsInside'
  <2>1. Cardinality(InHandle') = Cardinality(InHandle) + 1
    BY <1>1, <1>2, InsideCount DEF ChatInv
  <2>2. QED
    BY <2>1, <1>1 DEF ChatInv, GaugeCountsInside, InHandle
<1>7. Acquainted'
  BY <1>4, <1>5 DEF ChatInv, Acquainted
<1>8. TypeOK'
  BY <1>1, <1>2, <1>5 DEF ChatInv, TypeOK, Goes
<1>9. SharedByInsiders'
  BY <1>1, <1>3, <1>5 DEF ChatInv, SharedByInsiders
<1>10. ForeignOnlyWhenOverlapping'
  BY <1>1, <1>3, <1>5 DEF ChatInv, ForeignOnlyWhenOverlapping, SharedByInsiders
<1>11. OnlyAnswersAreStored'
  BY <1>1, <1>3 DEF ChatInv, OnlyAnswersAreStored
<1>12. QED
  BY <1>6, <1>7, <1>8, <1>9, <1>10, <1>11 DEF ChatInv

\* The steps between admission and the way out.
LEMMA InsideStep ==
    ASSUME ChatInv, NEW r \in Requests,
           \/ SaveUserMessage(r) \/ StashFilter(r) \/ Search(r) \/ Synthesize(r)
           \/ Mask(r) \/ ReadSummary(r)
    PROVE  ChatInv'
<1>1. GaugeCountsInside' /\ Acquainted'
  <2>1. \E from \in Inside, to \in Inside : Goes(r, from, to)
    BY DEF SaveUserMessage, StashFilter, Search, Synthesize, Mask, ReadSummary, Inside
  <2>2. UNCHANGED <<active, met>>
    BY DEF SaveUserMessage, StashFilter, Search, Synthesize, Mask, ReadSummary
  <2>3. QED
    BY <2>1, <2>2, SameCompany
<1>2. met[r] \subseteq Requests
  BY DEF ChatInv, TypeOK
<1>3. CASE SaveUserMessage(r)
  BY <1>1, <1>3 DEF SaveUserMessage, Goes, Inside, ChatInv, TypeOK, SharedByInsiders, ForeignOnlyWhenOverlapping, OnlyAnswersAreStored
<1>4. CASE StashFilter(r)
  <2>1. /\ pc[r] = "stash" /\ aclFilter' = r
        /\ \A q \in Requests : pc'[q] = IF q = r THEN "search" ELSE pc[q]
        /\ UNCHANGED <<lastSummary, searched, reported, stored, blocked, active, met>>
    BY <1>4 DEF StashFilter, Goes, ChatInv, TypeOK
  <2>2. \A q \in Requests \ {r} : pc[q] = "search" => r \in met[q]
    BY <2>1 DEF ChatInv, Acquainted, InHandle, Inside
  <2>3. SharedByInsiders'
    BY <2>1, <2>2 DEF ChatInv, SharedByInsiders
  <2>4. TypeOK'
    BY <1>4, <2>1 DEF ChatInv, TypeOK, StashFilter, Goes, Inside, Owner
  <2>5. ForeignOnlyWhenOverlapping' /\ OnlyAnswersAreStored'
    BY <2>1 DEF ChatInv, ForeignOnlyWhenOverlapping, OnlyAnswersAreStored
  <2>6. QED
    BY <1>1, <2>3, <2>4, <2>5 DEF ChatInv
<1>5. CASE Search(r)
  <2>1. /\ pc[r] = "search"
        /\ \A q \in Requests : pc'[q] = IF q = r THEN "synthesize" ELSE pc[q]
        /\ \A q \in Requests : searched'[q] = IF q = r THEN aclFilter ELSE searched[q]
        /\ UNCHANGED <<aclFilter, lastSummary, reported, stored, blocked, active, met>>
    BY <1>5 DEF Search, Goes, ChatInv, TypeOK
  <2>2. aclFilter \in {r} \cup met[r] /\ aclFilter # "none"
    BY <2>1, <1>2 DEF ChatInv, SharedByInsiders
  <2>3. TypeOK'
    BY <1>5, <2>1 DEF ChatInv, TypeOK, Search, Goes, Inside
  <2>4. SharedByInsiders' /\ ForeignOnlyWhenOverlapping'
    BY <2>1, <2>2 DEF ChatInv, SharedByInsiders, ForeignOnlyWhenOverlapping
  <2>5. OnlyAnswersAreStored'
    BY <2>1, <2>2 DEF ChatInv, OnlyAnswersAreStored
  <2>6. QED
    BY <1>1, <2>3, <2>4, <2>5 DEF ChatInv
<1>6. CASE Synthesize(r)
  BY <1>1, <1>6 DEF Synthesize, Goes, Inside, ChatInv, TypeOK, SharedByInsiders, ForeignOnlyWhenOverlapping, OnlyAnswersAreStored
<1>7. CASE Mask(r)
  <2>1. /\ pc[r] = "mask" /\ lastSummary' \in {r, "none"}
        /\ \A q \in Requests : pc'[q] = IF q = r THEN "summary" ELSE pc[q]
        /\ UNCHANGED <<aclFilter, searched, reported, stored, blocked, active, met>>
    BY <1>7 DEF Mask, Goes, ChatInv, TypeOK
  <2>2. \A q \in Requests \ {r} : pc[q] = "summary" => r \in met[q]
    BY <2>1 DEF ChatInv, Acquainted, InHandle, Inside
  <2>3. SharedByInsiders'
    BY <2>1, <2>2 DEF ChatInv, SharedByInsiders
  <2>4. TypeOK'
    BY <1>7, <2>1 DEF ChatInv, TypeOK, Mask, Goes, Inside, Owner
  <2>5. ForeignOnlyWhenOverlapping' /\ OnlyAnswersAreStored'
    BY <2>1 DEF ChatInv, ForeignOnlyWhenOverlapping, OnlyAnswersAreStored
  <2>6. QED
    BY <1>1, <2>3, <2>4, <2>5 DEF ChatInv
<1>8. CASE ReadSummary(r)
  <2>1. /\ pc[r] = "summary"
        /\ \A q \in Requests : pc'[q] = IF q = r THEN "persist" ELSE pc[q]
        /\ \A q \in Requests : reported'[q] = IF q = r THEN lastSummary ELSE reported[q]
        /\ UNCHANGED <<aclFilter, lastSummary, searched, stored, blocked, active, met>>
    BY <1>8 DEF ReadSummary, Goes, ChatInv, TypeOK
  <2>2. TypeOK'
    BY <1>8, <2>1 DEF ChatInv, TypeOK, ReadSummary, Goes, Inside
  <2>3. SharedByInsiders' /\ ForeignOnlyWhenOverlapping'
    BY <2>1 DEF ChatInv, SharedByInsiders, ForeignOnlyWhenOverlapping
  <2>4. OnlyAnswersAreStored'
    BY <2>1 DEF ChatInv, OnlyAnswersAreStored
  <2>5. QED
    BY <1>1, <2>2, <2>3, <2>4 DEF ChatInv
<1>9. QED
  BY <1>3, <1>4, <1>5, <1>6, <1>7, <1>8

\* The two ways out of handle().
LEMMA LeaveStep ==
    ASSUME ChatInv, NEW r \in Requests, Persist(r) \/ HandleFails(r) PROVE ChatInv'
<1>1. PICK from \in Inside, to \in {"commit", "failed"} : Goes(r, from, to)
  BY DEF Persist, HandleFails, Inside
<1>2. /\ active' = active - 1
      /\ UNCHANGED <<aclFilter, lastSummary, searched, reported, stored, blocked, met>>
  BY DEF Persist, HandleFails
<1>3. GaugeCountsInside' /\ Acquainted' /\ active' \in Nat
  BY <1>1, <1>2, LeaveCompany DEF Inside
<1>4. /\ pc[r] \in Inside
      /\ \A q \in Requests : pc'[q] = IF q = r THEN to ELSE pc[q]
  BY <1>1 DEF Goes, ChatInv, TypeOK
<1>5. TypeOK'
  BY <1>1, <1>2, <1>3 DEF ChatInv, TypeOK, Goes
<1>6. SharedByInsiders' /\ ForeignOnlyWhenOverlapping'
  BY <1>2, <1>4 DEF ChatInv, SharedByInsiders, ForeignOnlyWhenOverlapping
<1>7. OnlyAnswersAreStored'
  BY <1>2, <1>4 DEF ChatInv, OnlyAnswersAreStored, Inside
<1>8. QED
  BY <1>3, <1>5, <1>6, <1>7 DEF ChatInv

\* What happens before and after handle().
LEMMA OutsideStep ==
    ASSUME ChatInv, NEW r \in Requests, Block(r) \/ Commit(r) \/ CommitFails(r)
    PROVE  ChatInv'
<1>1. PICK from \in {"guardrail", "commit"}, to \in {"refused", "answered", "commitFailed"} :
         Goes(r, from, to) /\ (to = "refused" <=> from = "guardrail")
  BY DEF Block, Commit, CommitFails
<1>2. UNCHANGED <<active, met, aclFilter, lastSummary, searched, reported>>
  BY DEF Block, Commit, CommitFails
<1>3. GaugeCountsInside' /\ Acquainted'
  BY <1>1, <1>2, SameCompany DEF Inside
<1>4. /\ pc[r] = from
      /\ \A q \in Requests : pc'[q] = IF q = r THEN to ELSE pc[q]
  BY <1>1 DEF Goes, ChatInv, TypeOK
<1>5. TypeOK'
  BY <1>1, <1>2 DEF ChatInv, TypeOK, Goes, Block, Commit, CommitFails
<1>6. SharedByInsiders' /\ ForeignOnlyWhenOverlapping'
  BY <1>2, <1>4 DEF ChatInv, SharedByInsiders, ForeignOnlyWhenOverlapping
<1>8. OnlyAnswersAreStored'
  BY <1>1, <1>4 DEF ChatInv, OnlyAnswersAreStored, Block, Commit, CommitFails, Goes
<1>9. QED
  BY <1>3, <1>5, <1>6, <1>8 DEF ChatInv

\* Every step preserves the invariant.
LEMMA ChatInductive == ChatInv /\ [Next]_vars => ChatInv'
<1>1. ChatInv /\ UNCHANGED vars => ChatInv'
  BY DEF vars, GaugeCountsInside, Acquainted, InHandle, ChatInv, TypeOK, SharedByInsiders, ForeignOnlyWhenOverlapping, OnlyAnswersAreStored
<1>2. ASSUME ChatInv, Next PROVE ChatInv'
  BY <1>2, AdmitStep, InsideStep, LeaveStep, OutsideStep DEF Next
<1>3. QED
  BY <1>1, <1>2

-----------------------------------------------------------------------------
(* Theorems                                                                *)

\* The invariant above holds however requests overlap.
THEOREM ChatInvariant == Spec => []ChatInv
  BY ChatInit, ChatInductive, PTL DEF Spec

\* The gauge is exact: no way out of handle() is counted twice or not at all.
THEOREM GaugeExact == Spec => []GaugeCountsInside
<1>1. ChatInv => GaugeCountsInside
  BY DEF ChatInv
<1>2. QED
  BY <1>1, ChatInvariant, PTL

\* The bound on what the shared filter and masker can mix up: requests that were
\* inside handle() at the same time, and no others.
THEOREM MixupNeedsOverlap == Spec => []ForeignOnlyWhenOverlapping
<1>1. ChatInv => ForeignOnlyWhenOverlapping
  BY DEF ChatInv
<1>2. QED
  BY <1>1, ChatInvariant, PTL

\* What is stored belongs to a request that was answered, or whose commit's reply was
\* lost; no error inside handle() leaves a message behind.
THEOREM StoredIffAnswered == Spec => []OnlyAnswersAreStored
<1>1. ChatInv => OnlyAnswersAreStored
  BY DEF ChatInv
<1>2. QED
  BY <1>1, ChatInvariant, PTL
=============================================================================
