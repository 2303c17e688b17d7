--------------------------- MODULE ServicesProofs ---------------------------
(***************************************************************************)
(* Theorems about components that share no state with one another, for     *)
(* every value of their constants: a turn of the agent, the way of a       *)
(* question through the chat service, a pass of the drift detector, the    *)
(* scan for sensitive words and the lists it uses, the conversation memory *)
(* and the prompts, and the verdict on a disliked answer.                  *)
(*                                                                         *)
(* Where the code goes through a sequence, element by element, the loop is *)
(* a recursive function in its module.  A lemma shows that its recursion   *)
(* has a solution and what its values are; a predicate on the first n      *)
(* elements and what has been made of them is then carried from n - 1 to   *)
(* n, and UpToInduction takes it to the end.                               *)
(***************************************************************************)
EXTENDS AgentLoop, QueryPath, DriftDetector, SensitiveWords, ConversationMemory,
        AttributionRules, QueueLemmas

USE AgentAssumption

-----------------------------------------------------------------------------
(* Facts about the plan                                                    *)

\* plan_node's plan: the sub-queries 1..n in order.
LEMMA FirstPlan ==
    ASSUME NEW n \in Nat, NEW p, p = [i \in 1..n |-> i]
    PROVE  p \in Seq(Nat) /\ Len(p) = n /\ \A i \in 1..n : p[i] = i
<1>1. p \in [1..n -> Nat]
  OBVIOUS
<1>2. p \in Seq(Nat)
  BY <1>1, SeqDef
<1>3. Len(p) = n
  BY <1>1, <1>2, LenProperties
<1>4. QED
  BY <1>2, <1>3

\* rewrite_node's plan: one position is new, all others are as they were.
LEMMA RewrittenPlan ==
    ASSUME TurnTypeOK, Rewrite, index < Len(plan)
    PROVE  /\ plan' \in Seq(Nat)
           /\ Len(plan') = Len(plan)
           /\ \A i \in 1..Len(plan) : plan'[i] = IF i = index + 1 THEN written + 1
                                                                  ELSE plan[i]
<1>1. Len(plan) \in Nat
  BY LenProperties DEF TurnTypeOK
<1>2. index + 1 \in 1..Len(plan) /\ written + 1 \in Nat
  BY <1>1 DEF TurnTypeOK
<1>3. plan' = [plan EXCEPT ![index + 1] = written + 1]
  BY DEF Rewrite
<1>4. QED
  BY <1>2, <1>3, ExceptSeq DEF TurnTypeOK

-----------------------------------------------------------------------------
(* The inductive invariant                                                 *)

\* Where the index stands in the plan at each node.
IndexPlaced ==
    /\ IF node = "plan" THEN plan = <<>> /\ index = 0 /\ retrieved = <<>> /\ iteration = 0
                      ELSE plan # <<>>
    /\ index <= Len(plan)
    /\ node \in {"retrieve", "rewrite"} => index < Len(plan)
    /\ node = "retrieve" => iteration < MaxIterations
    /\ node \in {"synthesize", "answered"} /\ ~truncated /\ decision # "answer" =>
          index = Len(plan)

\* What is searched is what stands behind the index; a sub-query ahead of it is
\* searched only if it is about to be rewritten or nothing more will be retrieved.
NoneSearchedAhead ==
    /\ IsInjective(retrieved)
    /\ \A q \in Range(retrieved) : q <= written
    /\ \A i \in 1..Len(plan) : plan[i] <= written
    /\ \A i, j \in 1..Len(plan) : plan[i] = plan[j] => i = j
    /\ \A i \in 1..Len(plan) :
          i > index /\ plan[i] \in Range(retrieved) =>
             \/ node = "rewrite" /\ i = index + 1
             \/ node = "route" /\ decision = "answer"
             \/ node \in {"synthesize", "answered", "error"}

TurnInv ==
    /\ TurnTypeOK
    /\ IndexPlaced
    /\ RetrievalsBounded
    /\ SearchedBehindIndex
    /\ NoneSearchedAhead

\* Before its first node the turn has searched nothing.
LEMMA TurnBegins == TurnInit => TurnInv
<1> SUFFICES ASSUME TurnInit PROVE TurnInv
  OBVIOUS
<1>1. <<>> \in Seq(Nat) /\ Len(<<>>) = 0
  BY EmptySeq
<1>2. Range(<<>>) = {} /\ IsInjective(<<>>)
  BY QueueEmpty
<1>3. TurnTypeOK
  BY <1>1 DEF TurnInit, TurnTypeOK
<1>4. IndexPlaced /\ RetrievalsBounded
  BY <1>1 DEF TurnInit, IndexPlaced, RetrievalsBounded
<1>5. SearchedBehindIndex /\ NoneSearchedAhead
  BY <1>1, <1>2 DEF TurnInit, SearchedBehindIndex, NoneSearchedAhead
<1>6. QED
  BY <1>3, <1>4, <1>5 DEF TurnInv

\* The plan is made of new sub-queries.
LEMMA PlanStep == TurnInv /\ Plan => TurnInv'
<1> SUFFICES ASSUME TurnInv, Plan PROVE TurnInv'
  OBVIOUS
<1>1. PICK n \in 1..PlanLimit : plan' = [i \in 1..n |-> i] /\ written' = n
  BY DEF Plan
<1>2. n \in Nat /\ n >= 1
  OBVIOUS
<1>3. plan' \in Seq(Nat) /\ Len(plan') = n /\ \A i \in 1..n : plan'[i] = i
  BY <1>1, <1>2, FirstPlan
<1>4. plan' # <<>>
  BY <1>2, <1>3, EmptySeq
<1>5. /\ node = "plan" /\ node' = "retrieve" /\ index' = 0 /\ iteration' = 0
      /\ retrieved' = <<>> /\ Range(retrieved') = {} /\ IsInjective(retrieved')
      /\ Len(retrieved') = 0
      /\ UNCHANGED <<decision, fallback, truncated>>
  BY QueueEmpty, EmptySeq DEF Plan, TurnInv, IndexPlaced
<1>6. TurnTypeOK'
  BY <1>1, <1>2, <1>3, <1>5, EmptySeq DEF TurnTypeOK, TurnInv
<1>7. IndexPlaced' /\ RetrievalsBounded' /\ SearchedBehindIndex'
  BY <1>2, <1>3, <1>4, <1>5 DEF IndexPlaced, RetrievalsBounded, SearchedBehindIndex
<1>8. NoneSearchedAhead'
  BY <1>1, <1>2, <1>3, <1>5 DEF NoneSearchedAhead
<1>9. QED
  BY <1>6, <1>7, <1>8 DEF TurnInv

\* A retrieval searches the one sub-query behind which the index moves.
LEMMA RetrieveStep == TurnInv /\ Retrieve => TurnInv'
<1> SUFFICES ASSUME TurnInv, Retrieve PROVE TurnInv'
  OBVIOUS
<1>1. /\ node = "retrieve" /\ index < Len(plan) /\ iteration < MaxIterations
      /\ plan # <<>>
  BY DEF Retrieve, TurnInv, IndexPlaced
<1>2. /\ plan \in Seq(Nat) /\ Len(plan) \in Nat /\ index \in Nat /\ iteration \in Nat
      /\ retrieved \in Seq(Nat) /\ Len(retrieved) \in Nat
  BY LenProperties DEF TurnInv, TurnTypeOK
<1>3. index + 1 \in 1..Len(plan) /\ plan[index + 1] \in Nat
  BY <1>1, <1>2, ElementOfSeq
<1>4. /\ node' = "reflect" /\ iteration' = iteration + 1 /\ index' = index + 1
      /\ retrieved' = Append(retrieved, plan[index + 1])
      /\ {fallback', truncated'} \subseteq BOOLEAN
      /\ UNCHANGED <<decision, plan, written, truncated>>
  <2>1. {fallback', truncated'} \subseteq BOOLEAN
    <3>1. fallback \in BOOLEAN /\ truncated \in BOOLEAN
      BY DEF TurnInv, TurnTypeOK
    <3>2. fallback' \in {fallback, TRUE} /\ truncated' = truncated
      BY <1>1 DEF Retrieve
    <3>3. QED
      BY <3>1, <3>2, Zenon
  <2>2. QED
    BY <1>1, <2>1 DEF Retrieve
<1>5. plan[index + 1] \notin Range(retrieved)
  BY <1>1, <1>2, <1>3 DEF TurnInv, NoneSearchedAhead
<1>6. /\ retrieved' \in Seq(Nat)
      /\ Range(retrieved') = Range(retrieved) \cup {plan[index + 1]}
      /\ IsInjective(retrieved')
  BY <1>2, <1>3, <1>4, <1>5, QueuePush DEF TurnInv, NoneSearchedAhead
<1>7. Len(retrieved') = Len(retrieved) + 1
  BY <1>2, <1>3, <1>4, AppendProperties
<1>8. TurnTypeOK'
  BY <1>2, <1>4, <1>6 DEF TurnTypeOK, TurnInv
<1>9. IndexPlaced' /\ RetrievalsBounded'
  BY <1>1, <1>2, <1>4, <1>7 DEF IndexPlaced, RetrievalsBounded, TurnInv
<1>10. SearchedBehindIndex'
  BY <1>1, <1>2, <1>4, <1>6 DEF SearchedBehindIndex, TurnInv
<1>11. NoneSearchedAhead'
  <2>1. \A q \in Range(retrieved') : q <= written'
    BY <1>3, <1>4, <1>6 DEF TurnInv, NoneSearchedAhead
  <2>2. ASSUME NEW i \in 1..Len(plan), i > index + 1
        PROVE  plan[i] \notin Range(retrieved')
    <3>1. plan[i] # plan[index + 1]
      BY <2>2, <1>2, <1>3 DEF TurnInv, NoneSearchedAhead
    <3>2. plan[i] \notin Range(retrieved)
      BY <2>2, <1>1, <1>2 DEF TurnInv, NoneSearchedAhead
    <3>3. QED
      BY <3>1, <3>2, <1>6
  <2>3. QED
    BY <2>1, <2>2, <1>4, <1>6 DEF TurnInv, NoneSearchedAhead
<1>12. QED
  BY <1>8, <1>9, <1>10, <1>11 DEF TurnInv

\* A failed retrieval ends the turn.
LEMMA RetrieveFailsStep == TurnInv /\ RetrieveFails => TurnInv'
  BY DEF TurnInv, RetrieveFails, TurnTypeOK, IndexPlaced, RetrievalsBounded,
     SearchedBehindIndex, NoneSearchedAhead

\* The index goes back by one at most, and only to a sub-query to be rewritten.
LEMMA ReflectStep == TurnInv /\ Reflect => TurnInv'
<1> SUFFICES ASSUME TurnInv, Reflect PROVE TurnInv'
  OBVIOUS
<1>1. /\ plan \in Seq(Nat) /\ Len(plan) \in Nat \ {0} /\ index \in Nat
      /\ node = "reflect" /\ index <= Len(plan)
  BY EmptySeq DEF TurnInv, TurnTypeOK, IndexPlaced, Reflect
<1>2. CASE decision' = "rewrite"
  <2>1. /\ node' = "rewrite" /\ index' = (IF index = 0 THEN 0 ELSE index - 1)
        /\ UNCHANGED <<plan, iteration, retrieved, written, fallback, truncated>>
    BY <1>2 DEF Reflect
  <2>2. index' \in Nat /\ index' <= index /\ index <= index' + 1 /\ index' < Len(plan)
    BY <2>1, <1>1
  <2>3. TurnTypeOK' /\ IndexPlaced' /\ RetrievalsBounded' /\ SearchedBehindIndex'
    BY <2>1, <2>2, <1>1, <1>2 DEF TurnInv, TurnTypeOK, IndexPlaced, RetrievalsBounded,
       SearchedBehindIndex, ReflectDecision
  <2>4. NoneSearchedAhead'
    BY <2>1, <2>2, <1>1 DEF TurnInv, NoneSearchedAhead
  <2>5. QED
    BY <2>3, <2>4 DEF TurnInv
<1>3. CASE decision' # "rewrite"
  <2>1. /\ node' = "route" /\ decision' \in ReflectDecision
        /\ UNCHANGED <<plan, index, iteration, retrieved, written, fallback, truncated>>
    BY <1>3 DEF Reflect
  <2>2. TurnTypeOK' /\ IndexPlaced' /\ RetrievalsBounded' /\ SearchedBehindIndex'
    BY <2>1, <1>1 DEF TurnInv, TurnTypeOK, IndexPlaced, RetrievalsBounded, SearchedBehindIndex
  <2>3. NoneSearchedAhead'
    BY <2>1, <1>1 DEF TurnInv, NoneSearchedAhead
  <2>4. QED
    BY <2>2, <2>3 DEF TurnInv
<1>4. QED
  BY <1>2, <1>3

\* The rewritten sub-query is a new one and takes the place of the searched one.
LEMMA RewriteStep == TurnInv /\ Rewrite => TurnInv'
<1> SUFFICES ASSUME TurnInv, Rewrite PROVE TurnInv'
  OBVIOUS
<1>1. /\ node = "rewrite" /\ index < Len(plan) /\ plan # <<>>
      /\ node' = "route" /\ written' = written + 1
      /\ UNCHANGED <<index, iteration, decision, retrieved, fallback, truncated>>
  BY DEF Rewrite, TurnInv, IndexPlaced
<1>2. /\ plan' \in Seq(Nat)
      /\ Len(plan') = Len(plan)
      /\ \A i \in 1..Len(plan) : plan'[i] = IF i = index + 1 THEN written + 1 ELSE plan[i]
  BY <1>1, RewrittenPlan DEF TurnInv
<1>3. /\ Len(plan) \in Nat /\ index \in Nat /\ written \in Nat
      /\ \A i \in 1..Len(plan) : plan[i] \in Nat
      /\ \A q \in Range(retrieved) : q \in Nat
  BY LenProperties, ElementOfSeq, RangeOfSeq DEF TurnInv, TurnTypeOK
<1>4. plan' # <<>>
  BY <1>1, <1>2, <1>3, EmptySeq
<1>5. TurnTypeOK'
  <2>1. written' \in Nat
    BY <1>1, <1>3
  <2>2. QED
    BY <2>1, <1>1, <1>2 DEF TurnInv, TurnTypeOK
<1>6. IndexPlaced' /\ RetrievalsBounded'
  BY <1>1, <1>2, <1>3, <1>4 DEF TurnInv, IndexPlaced, RetrievalsBounded
<1>7. NoneSearchedAhead'
  <2>1. \A q \in Range(retrieved) : q <= written'
    BY <1>1, <1>3 DEF TurnInv, NoneSearchedAhead
  <2>2. ASSUME NEW i \in 1..Len(plan) PROVE plan'[i] <= written'
    <3>1. plan[i] \in Nat /\ plan[i] <= written
      BY <1>3 DEF TurnInv, NoneSearchedAhead
    <3>2. QED
      BY <3>1, <1>1, <1>2, <1>3
  <2>3. \A i, j \in 1..Len(plan) : plan'[i] = plan'[j] => i = j
    BY <1>1, <1>2, <1>3 DEF TurnInv, NoneSearchedAhead
  <2>4. written + 1 \notin Range(retrieved)
    BY <1>3 DEF TurnInv, NoneSearchedAhead
  <2>5. \A i \in 1..Len(plan) : i > index => plan'[i] \notin Range(retrieved)
    BY <2>4, <1>1, <1>2, <1>3 DEF TurnInv, NoneSearchedAhead
  <2>6. QED
    BY <2>1, <2>2, <2>3, <2>5, <1>1, <1>2 DEF TurnInv, NoneSearchedAhead
<1>8. SearchedBehindIndex'
  BY <1>1, <1>2, <1>3 DEF TurnInv, SearchedBehindIndex
<1>9. QED
  BY <1>5, <1>6, <1>7, <1>8 DEF TurnInv

\* After a failed rewrite nothing more is retrieved.
LEMMA RewriteFailsStep == TurnInv /\ RewriteFails => TurnInv'
  BY DEF TurnInv, RewriteFails, TurnTypeOK, IndexPlaced, RetrievalsBounded,
     SearchedBehindIndex, NoneSearchedAhead, ReflectDecision

\* The loop goes on only below both of its bounds.
LEMMA RouteStep == TurnInv /\ Route => TurnInv'
<1> SUFFICES ASSUME TurnInv, Route PROVE TurnInv'
  OBVIOUS
<1>1. Len(plan) \in Nat /\ index \in Nat /\ iteration \in Nat
  BY LenProperties DEF TurnInv, TurnTypeOK
<1>2. /\ node = "route"
      /\ UNCHANGED <<plan, index, iteration, decision, retrieved, written, fallback>>
  BY DEF Route
<1>3. CASE ShouldContinue
  BY <1>1, <1>2, <1>3 DEF Route, ShouldContinue, TurnInv, TurnTypeOK, IndexPlaced,
     RetrievalsBounded, SearchedBehindIndex, NoneSearchedAhead
<1>4. CASE ~ShouldContinue
  <2>1. node' = "synthesize" /\ truncated' = (iteration >= MaxIterations)
    BY <1>4 DEF Route
  <2>2. truncated' \in BOOLEAN /\ (~truncated' => ~ (iteration >= MaxIterations))
    <3>1. CASE iteration >= MaxIterations
      BY <3>1, <2>1, Zenon
    <3>2. CASE ~ (iteration >= MaxIterations)
      <4>1. (iteration >= MaxIterations) = FALSE
        BY <3>2, <1>1
      <4>2. truncated' = FALSE
        BY <4>1, <2>1, Zenon
      <4>3. QED
        BY <4>2, <3>2
    <3>3. QED
      BY <3>1, <3>2
  <2>3. ~truncated' /\ decision # "answer" => index = Len(plan)
    BY <2>2, <1>1, <1>4 DEF ShouldContinue, TurnInv, IndexPlaced
  <2>4. TurnTypeOK' /\ RetrievalsBounded' /\ SearchedBehindIndex' /\ NoneSearchedAhead'
    BY <2>1, <2>2, <1>1, <1>2 DEF TurnInv, TurnTypeOK, RetrievalsBounded,
       SearchedBehindIndex, NoneSearchedAhead
  <2>5. IndexPlaced'
    BY <2>1, <2>3, <1>1, <1>2 DEF TurnInv, IndexPlaced
  <2>6. QED
    BY <2>4, <2>5 DEF TurnInv
<1>5. QED
  BY <1>3, <1>4

\* The answer changes none of it.
LEMMA SynthesizeStep == TurnInv /\ Synthesize => TurnInv'
  BY DEF TurnInv, Synthesize, TurnTypeOK, IndexPlaced, RetrievalsBounded,
     SearchedBehindIndex, NoneSearchedAhead

\* Every step of a turn preserves the invariant.
LEMMA TurnInductive == TurnInv /\ [TurnNext]_turnVars => TurnInv'
<1>1. TurnInv /\ UNCHANGED turnVars => TurnInv'
  BY DEF TurnInv, turnVars, TurnTypeOK, IndexPlaced, RetrievalsBounded, SearchedBehindIndex,
     NoneSearchedAhead
<1>2. QED
  BY <1>1, PlanStep, RetrieveStep, RetrieveFailsStep, ReflectStep, RewriteStep,
     RewriteFailsStep, RouteStep, SynthesizeStep DEF TurnNext

-----------------------------------------------------------------------------
(* Theorems                                                                *)

\* The invariant above holds throughout every turn.
THEOREM TurnInvariant == TurnSpec => []TurnInv
  BY TurnBegins, TurnInductive, PTL DEF TurnSpec

\* A turn retrieves at most max_iterations times, whatever the model answers.
THEOREM IterationBudget == TurnSpec => []RetrievalsBounded
<1>1. TurnInv => RetrievalsBounded
  BY DEF TurnInv
<1>2. QED
  BY <1>1, TurnInvariant, PTL

\* No sub-query is retrieved twice, although rewrites move the index back: the
\* rewritten sub-query replaces the searched one, and a failed rewrite ends the loop.
THEOREM EachSearchedOnce == TurnSpec => []NothingSearchedTwice
<1>1. TurnInv => NothingSearchedTwice
  BY DEF TurnInv, NoneSearchedAhead, NothingSearchedTwice
<1>2. QED
  BY <1>1, TurnInvariant, PTL

\* An answer that was neither truncated nor asked for rests on the whole plan.
THEOREM WholePlanSearched == TurnSpec => []CompleteUnlessStopped
<1>1. TurnInv => CompleteUnlessStopped
  <2> SUFFICES ASSUME TurnInv, node = "answered", ~truncated, decision # "answer"
               PROVE  Range(plan) \subseteq Range(retrieved)
    BY DEF CompleteUnlessStopped
  <2>1. index = Len(plan) /\ \A i \in 1..Len(plan) : plan[i] \in Range(retrieved)
    BY DEF TurnInv, IndexPlaced, SearchedBehindIndex
  <2>2. Range(plan) = {plan[i] : i \in 1..Len(plan)}
    BY RangeEquality DEF TurnInv, TurnTypeOK
  <2>3. QED
    BY <2>1, <2>2
<1>2. QED
  BY <1>1, TurnInvariant, PTL

\* Once made, a plan keeps its length: rewrites replace and never append.
THEOREM PlanLengthStands == TurnSpec => PlanKeepsItsLength
<1>1. TurnInv /\ [TurnNext]_turnVars => [plan # <<>> => Len(plan') = Len(plan)]_turnVars
  <2> SUFFICES ASSUME TurnInv, TurnNext, plan # <<>> PROVE Len(plan') = Len(plan)
    OBVIOUS
  <2>1. CASE Plan
    BY <2>1 DEF Plan, TurnInv, IndexPlaced
  <2>2. CASE Rewrite
    BY <2>2, RewrittenPlan DEF Rewrite, TurnInv, IndexPlaced
  <2>3. CASE ~Plan /\ ~Rewrite
    BY <2>3 DEF TurnNext, Retrieve, RetrieveFails, Reflect, RewriteFails, Route, Synthesize
  <2>4. QED
    BY <2>1, <2>2, <2>3
<1>2. QED
  BY <1>1, TurnInvariant, PTL DEF TurnSpec, PlanKeepsItsLength

HIDE AgentAssumption


-----------------------------------------------------------------------------
(* The way of a question                                                   *)

\* What a merged filter admits, its base admits: _and only ever narrows.
LEMMA BothNarrows ==
    ASSUME NEW p, NEW base, NEW extra, Matches(p, Both(base, extra))
    PROVE  Matches(p, base)
  BY DEF Matches, Both

\* A search returns matching points.
LEMMA HitsMatch ==
    ASSUME NEW f, NEW k, NEW hits \in Hits(f, k)
    PROVE  \A p \in hits : Matches(p, f)
  BY DEF Hits, kSubset

\* EvidenceIsPermitted is inductive: both stages of a search find permitted points only,
\* and every other step passes on what they found, or less.
LEMMA PermittedInductive == EvidenceIsPermitted /\ [QueryNext]_queryVars => EvidenceIsPermitted'
<1> SUFFICES ASSUME EvidenceIsPermitted, [QueryNext]_queryVars
             PROVE  EvidenceIsPermitted'
  OBVIOUS
<1>0. ASSUME scope' = scope,
             \A p \in parents' \cup evidence' \cup cited' \cup saved' :
                 p \in parents \cup evidence \cup cited \cup saved \/ Matches(p, scope)
      PROVE  EvidenceIsPermitted'
  BY <1>0 DEF EvidenceIsPermitted, Matches
<1>1. CASE CheckQuery \/ EnsureConversation \/ ChooseRoute \/ SearchFails \/ AgentGoesOn
             \/ AnswerFails \/ KeepAgentAnswer \/ PostProcess \/ UNCHANGED queryVars
  <2>1. UNCHANGED <<scope, parents, evidence, cited, saved>>
    BY <1>1 DEF CheckQuery, EnsureConversation, ChooseRoute, SearchFails, AgentGoesOn,
                AnswerFails, KeepAgentAnswer, PostProcess, Results, queryVars
  <2>2. QED
    BY <1>0, <2>1
<1>2. CASE SearchParents
  <2>1. \A p \in parents' : Matches(p, scope)
    BY <1>2, HitsMatch, BothNarrows DEF SearchParents
  <2>2. QED
    BY <1>0, <1>2, <2>1 DEF SearchParents
<1>3. CASE SearchChildren
  <2> DEFINE within == IF parents = {} THEN scope
                       ELSE Both(scope, ParentIdFilter({p.id : p \in parents}))
  <2>1. PICK hits \in Hits(within, ChildTopK) :
            evidence' = IF route = "direct" THEN hits ELSE evidence \cup parents \cup hits
    BY <1>3 DEF SearchChildren
  <2>2. \A p \in hits : Matches(p, scope)
    BY HitsMatch, BothNarrows
  <2> HIDE DEF within
  <2>3. UNCHANGED <<scope, parents, cited, saved>>
    BY <1>3 DEF SearchChildren
  <2>4. QED
    BY <1>0, <2>1, <2>2, <2>3
<1>4. CASE AnswerDirectly
  <2>1. cited' \subseteq evidence /\ UNCHANGED <<scope, parents, evidence, saved>>
    BY <1>4 DEF AnswerDirectly, kSubset
  <2>2. QED
    BY <1>0, <2>1
<1>5. CASE AgentAnswers \/ LongContext
  BY <1>0, <1>5 DEF AgentAnswers, LongContext
<1>6. CASE RecordCitations
  BY <1>0, <1>6 DEF RecordCitations
<1>7. QED
  BY <1>1, <1>2, <1>3, <1>4, <1>5, <1>6 DEF QueryNext

\* For every index, every filter of a caller and every limit: whatever route, round or
\* fallback an answer takes (chat_service.py, two_stage.py, citations.py), no chunk reaches
\* the model, the response or the stored citations that the caller may not see.
THEOREM OnlyPermittedEvidence == QuerySpec => []EvidenceIsPermitted
<1>1. QueryInit => EvidenceIsPermitted
  BY DEF QueryInit, EvidenceIsPermitted
<1>2. QED
  BY <1>1, PermittedInductive, PTL DEF QuerySpec

-----------------------------------------------------------------------------
(* A pass of the drift detector                                            *)

Tried == quiet \cup failed \cup refused \cup returned

\* What was not taken back.
Lasting == {t \in returned : \A u \in refused : ~Earlier(t, u)}

\* The triples that a pass is to look at.
Agenda == IF listed THEN Triples ELSE OfTheSystem

OneFate ==
    /\ quiet \cap failed = {} /\ quiet \cap refused = {} /\ quiet \cap returned = {}
    /\ failed \cap refused = {} /\ failed \cap returned = {} /\ refused \cap returned = {}

\* The inductive strengthening of PassAccounted: what was tried comes before what is still
\* to come, so a rollback takes exactly the rows of what was counted before.
PassInv ==
    /\ phase \in {"start", "loop", "done"} /\ listed \in BOOLEAN
    /\ OneFate
    /\ \A r \in Tried, u \in todo : Earlier(r, u)
    /\ phase = "start" => Tried = {} /\ todo = {} /\ listed
    /\ phase # "start" => Tried \cup todo = Agenda
    /\ phase = "done" => todo = {}
    /\ alerts \cup flushed \subseteq returned
    /\ phase # "done" => alerts = {}
    /\ phase # "done" /\ session = "live" => flushed = Lasting
    /\ phase = "done" => alerts = {} \/ (session = "live" /\ alerts = Lasting)

LEMMA EarlierOnce ==
    ASSUME NEW t \in Triples, NEW u \in Triples, Earlier(t, u)
    PROVE  ~Earlier(u, t)
<1>1. t[1] \in Int /\ t[2] \in Int /\ u[1] \in Int /\ u[2] \in Int
  BY DriftAssumption DEF Triples
<1>2. QED
  BY <1>1 DEF Earlier

LEMMA TakenInOrder ==
    ASSUME PassInv, NEW t, Take(t)
    PROVE  /\ phase = "loop" /\ phase' = "loop" /\ listed' = listed /\ alerts' = alerts
           /\ alerts = {} /\ t \in Triples /\ t \notin Tried /\ Tried \subseteq Triples
           /\ (Tried \cup {t}) \cup todo' = Agenda
           /\ \A r \in Tried \cup {t}, u \in todo' : Earlier(r, u)
           /\ \A r \in Tried : Earlier(r, t) /\ ~Earlier(t, r)
<1>1. /\ phase = "loop" /\ phase' = "loop" /\ listed' = listed /\ alerts' = alerts
      /\ alerts = {} /\ t \in todo /\ todo' = todo \ {t} /\ Tried \cup todo = Agenda
      /\ \A u \in todo : u = t \/ Earlier(t, u)
      /\ \A r \in Tried, u \in todo : Earlier(r, u)
  BY DEF Take, PassInv
<1>2. Agenda \subseteq Triples
  BY DriftAssumption DEF Agenda, Triples, OfTheSystem
<1>3. t \in Triples /\ Tried \subseteq Triples
  BY <1>1, <1>2
<1>4. \A r \in Tried : Earlier(r, t) /\ ~Earlier(t, r)
  BY <1>1, <1>3, EarlierOnce
<1>5. t \notin Tried
  BY <1>4
<1>6. (Tried \cup {t}) \cup todo' = Agenda
  BY <1>1
<1>7. \A r \in Tried \cup {t}, u \in todo' : Earlier(r, u)
  BY <1>1
<1>8. QED
  BY <1>1, <1>3, <1>4, <1>5, <1>6, <1>7

\* A step that gives the triple whose turn it is its fate.
LEMMA TakenStep ==
    ASSUME PassInv, NEW t, Take(t),
           Tried' = Tried \cup {t}, OneFate', flushed' \subseteq returned',
           session' = "live" => flushed' = Lasting'
    PROVE  PassInv'
<1>1. /\ phase' = "loop" /\ listed' = listed /\ alerts' = {}
      /\ (Tried \cup {t}) \cup todo' = Agenda
      /\ \A r \in Tried \cup {t}, u \in todo' : Earlier(r, u)
  BY TakenInOrder
<1>2. Agenda' = Agenda
  BY <1>1 DEF Agenda
<1>3. QED
  BY <1>1, <1>2 DEF PassInv

LEMMA PassInductive == PassInv /\ [DriftNext]_driftVars => PassInv'
<1> SUFFICES ASSUME PassInv, [DriftNext]_driftVars PROVE PassInv'
  OBVIOUS
<1>1. ASSUME NEW t \in Triples, NothingToSay(t) PROVE PassInv'
  <2>1. Take(t) /\ t \notin Tried
    BY <1>1, TakenInOrder DEF NothingToSay
  <2>2. Tried' = Tried \cup {t} /\ Lasting' = Lasting
    BY <1>1 DEF NothingToSay, Tried, Lasting
  <2>3. OneFate'
    BY <1>1, <2>1 DEF NothingToSay, OneFate, PassInv, Tried
  <2>4. flushed' \subseteq returned' /\ (session' = "live" => flushed' = Lasting')
    BY <1>1, <2>1, <2>2 DEF NothingToSay, PassInv, Take
  <2>5. QED
    BY <2>1, <2>2, <2>3, <2>4, TakenStep
<1>2. ASSUME NEW t \in Triples, AddRow(t) PROVE PassInv'
  <2>1. Take(t) /\ t \notin Tried /\ \A r \in Tried : ~Earlier(t, r)
    BY <1>2, TakenInOrder DEF AddRow
  <2>2. returned' = returned \cup {t} /\ UNCHANGED <<quiet, failed, refused, session>>
        /\ flushed' = flushed \cup {t} /\ session = "live"
    BY <1>2 DEF AddRow
  <2>3. Lasting' = Lasting \cup {t}
    BY <2>1, <2>2 DEF Lasting, Tried
  <2>4. Tried' = Tried \cup {t}
    BY <2>2 DEF Tried
  <2>5. OneFate'
    BY <2>1, <2>2 DEF OneFate, PassInv, Tried
  <2>6. flushed' \subseteq returned' /\ flushed' = Lasting'
    BY <2>1, <2>2, <2>3 DEF PassInv, Take
  <2>7. QED
    BY <2>1, <2>4, <2>5, <2>6, TakenStep
<1>3. ASSUME NEW t \in Triples, InsertFails(t) PROVE PassInv'
  <2>1. Take(t) /\ t \notin Tried /\ \A r \in Tried : Earlier(r, t)
    BY <1>3, TakenInOrder DEF InsertFails
  <2>2. refused' = refused \cup {t} /\ UNCHANGED <<quiet, failed, returned>> /\ flushed' = {}
    BY <1>3 DEF InsertFails
  <2>3. Lasting' = {}
    BY <2>1, <2>2 DEF Lasting, Tried
  <2>4. Tried' = Tried \cup {t}
    BY <2>2 DEF Tried
  <2>5. OneFate'
    BY <2>1, <2>2 DEF OneFate, PassInv, Tried
  <2>6. QED
    BY <2>1, <2>2, <2>3, <2>4, <2>5, TakenStep
<1>4. ASSUME NEW t \in Triples, QueryFails(t) \/ BuildFails(t) PROVE PassInv'
  <2>1. Take(t) /\ t \notin Tried
    BY <1>4, TakenInOrder DEF QueryFails, BuildFails
  <2>2. failed' = failed \cup {t} /\ UNCHANGED <<quiet, refused, returned, flushed>>
        /\ session' \in {session, "aborted"}
    BY <1>4 DEF QueryFails, BuildFails
  <2>3. Tried' = Tried \cup {t} /\ Lasting' = Lasting
    BY <2>2 DEF Tried, Lasting
  <2>4. OneFate'
    BY <2>1, <2>2 DEF OneFate, PassInv, Tried
  <2>5. flushed' \subseteq returned' /\ (session' = "live" => flushed' = Lasting')
    BY <2>1, <2>2, <2>3 DEF PassInv, Take
  <2>6. QED
    BY <2>1, <2>3, <2>4, <2>5, TakenStep
<1>5. CASE ListWorkspaces \/ ListingFails
  <2>1. /\ phase = "start" /\ phase' = "loop" /\ Tried = {} /\ alerts = {} /\ listed
        /\ flushed = {} /\ returned = {}
    BY <1>5 DEF ListWorkspaces, ListingFails, PassInv, Tried
  <2>2. UNCHANGED <<flushed, alerts, returned, failed, refused, quiet>>
    BY <1>5 DEF ListWorkspaces, ListingFails, Rest
  <2>3. Tried' = {} /\ Lasting' = {} /\ OneFate'
    BY <2>1, <2>2 DEF Tried, Lasting, OneFate
  <2>4. todo' = Agenda' /\ listed' \in BOOLEAN
    BY <1>5, <2>1 DEF ListWorkspaces, ListingFails, Agenda, PassInv
  <2>5. QED
    BY <2>1, <2>2, <2>3, <2>4 DEF PassInv
<1>6. CASE CommitPass
  <2>1. Tried' = Tried /\ Lasting' = Lasting /\ Agenda' = Agenda /\ OneFate' = OneFate
    BY <1>6 DEF CommitPass, Tried, Lasting, Agenda, OneFate
  <2>2. /\ phase = "loop" /\ phase' = "done" /\ todo = {} /\ todo' = {} /\ listed' = listed
        /\ flushed' = {} /\ session' = session /\ returned' = returned
        /\ alerts' = {} \/ (session = "live" /\ alerts' = flushed)
    BY <1>6 DEF CommitPass, PassInv
  <2>3. QED
    BY <2>1, <2>2 DEF PassInv
<1>7. CASE UNCHANGED driftVars
  <2>1. UNCHANGED <<phase, todo, listed, session, flushed, alerts, returned>>
        /\ Tried' = Tried /\ Lasting' = Lasting /\ Agenda' = Agenda /\ OneFate' = OneFate
    BY <1>7 DEF driftVars, Tried, Lasting, Agenda, OneFate
  <2>2. QED
    BY <2>1 DEF PassInv
<1>8. QED
  BY <1>1, <1>2, <1>3, <1>4, <1>5, <1>6, <1>7 DEF DriftNext

\* Whichever query, insert, listing or commit of a pass fails, and however many metrics and
\* workspaces it has (detector.py, run): nothing is skipped but the workspaces that were not
\* listed, and the count it returns exceeds the stored alerts by exactly those that a later
\* refused insert took back, unless none is stored.
THEOREM PassesAccountForAll == DriftSpec => []PassAccounted
<1>1. DriftInit => PassInv
  <2>1. SUFFICES ASSUME DriftInit PROVE PassInv
    OBVIOUS
  <2>2. /\ session = "live" /\ listed = TRUE /\ todo = {} /\ flushed = {} /\ alerts = {}
        /\ returned = {} /\ failed = {} /\ refused = {}
        /\ \/ phase = "start" /\ quiet = {}
           \/ phase = "done" /\ quiet = Triples
    BY <2>1 DEF DriftInit
  <2>3. Lasting = {} /\ OneFate /\ Tried = quiet /\ Agenda = Triples
    BY <2>2 DEF Lasting, OneFate, Tried, Agenda
  <2>4. QED
    BY <2>2, <2>3 DEF PassInv
<1>2. PassInv => PassAccounted
  <2>1. SUFFICES ASSUME PassInv PROVE PassAccounted
    OBVIOUS
  <2>2. PICK fates : fates = <<quiet, failed, refused, returned>>
    OBVIOUS
  <2>3. /\ DOMAIN fates = 1..4 /\ fates[1] = quiet /\ fates[2] = failed /\ fates[3] = refused
        /\ fates[4] = returned
    BY <2>2
  <2>4. \A i, j \in DOMAIN fates : i # j => fates[i] \cap fates[j] = {}
    BY <2>1, <2>3 DEF PassInv, OneFate
  <2>5. UNION Range(fates) = Tried
    <3>1. Range(fates) = {quiet, failed, refused, returned}
      BY <2>3 DEF Range
    <3>2. QED
      BY <3>1 DEF Tried
  <2>6. phase = "done" => Triples \ Tried = IF listed THEN {} ELSE Triples \ OfTheSystem
    BY <2>1 DEF PassInv, Agenda
  <2>7. OnlyUnlistedSkipped
    BY <2>2, <2>4, <2>5, <2>6 DEF OnlyUnlistedSkipped
  <2>8. phase = "done" /\ alerts # {} =>
          /\ session = "live"
          /\ returned \ alerts = {t \in returned : \E u \in refused : Earlier(t, u)}
    BY <2>1 DEF PassInv, Lasting
  <2>9. CountedIsStored
    BY <2>1, <2>8 DEF PassInv, CountedIsStored
  <2>10. QED
    BY <2>7, <2>9 DEF PassAccounted
<1>3. QED
  BY <1>1, <1>2, PassInductive, PTL DEF DriftSpec

-----------------------------------------------------------------------------
(* The numbers of one triple: its windows, its median and its severity.    *)

Rows == Seq(Sample)

\* c goes through the rows and keeps the values at some places.
Gathers(c, s, places) ==
    /\ c[0] = <<>>
    /\ \A n \in 0..Len(s) : c[n] \in Seq(Nat)
    /\ \A n \in 1..Len(s) :
          c[n] = IF n \in places THEN Append(c[n - 1], s[n].value) ELSE c[n - 1]

\* The recursion of Picked has a solution, so Picked is one.
LEMMA PickedRecursion ==
    ASSUME NEW s \in Rows, NEW places
    PROVE  Gathers(Picked(s, places), s, places)
<1> DEFINE N == Len(s)
           Body(f, n) == IF n = 0 THEN <<>>
                         ELSE IF n \in places THEN Append(f[n - 1], s[n].value)
                         ELSE f[n - 1]
           Solves(f) == f = [n \in 0..N |-> Body(f, n)]
           step == [n \in 1..N |-> [v \in Seq(Nat) |->
                       IF n \in places THEN Append(v, s[n].value) ELSE v]]
<1>1. N \in Nat /\ <<>> \in Seq(Nat) /\ \A n \in 1..N : s[n].value \in Nat
  <2>1. \A n \in 1..N : s[n] \in Sample
    BY ElementOfSeq DEF Rows
  <2>2. QED
    BY <2>1, LenProperties DEF Rows, Sample
<1>2. step \in [1..N -> [Seq(Nat) -> Seq(Nat)]]
  <2>1. ASSUME NEW n \in 1..N, NEW v \in Seq(Nat)
        PROVE  (IF n \in places THEN Append(v, s[n].value) ELSE v) \in Seq(Nat)
    BY <1>1, AppendProperties
  <2>2. QED
    BY <2>1
<1>3. \A n \in 1..N, v \in Seq(Nat) :
         step[n][v] = IF n \in places THEN Append(v, s[n].value) ELSE v
  OBVIOUS
<1>4. Picked(s, places) = CHOOSE f : Solves(f)
  BY DEF Picked
<1> HIDE DEF step, N
<1>5. PICK f : Iterates(f, Seq(Nat), <<>>, N, step)
  BY <1>1, <1>2, IterationExists
<1>6. /\ f \in [0..N -> Seq(Nat)] /\ f[0] = <<>>
      /\ \A n \in 1..N : f[n] = step[n][f[n - 1]]
  BY <1>5 DEF Iterates
<1>7. ASSUME NEW n \in 0..N PROVE f[n] = Body(f, n)
  <2>1. n # 0 => n \in 1..N /\ f[n - 1] \in Seq(Nat)
    BY <1>1, <1>6
  <2>2. CASE n = 0
    BY <1>6, <2>2
  <2>3. CASE n # 0
    <3>1. f[n] = step[n][f[n - 1]]
      BY <1>6, <2>1, <2>3
    <3>2. step[n][f[n - 1]] = IF n \in places THEN Append(f[n - 1], s[n].value) ELSE f[n - 1]
      BY <1>3, <2>1, <2>3
    <3>3. QED
      BY <2>3, <3>1, <3>2
  <2>4. QED
    BY <2>2, <2>3
<1>8. Solves(f)
  <2> HIDE DEF Body
  <2>1. QED
    BY <1>6, <1>7
<1> HIDE DEF Solves
<1>9. Solves(Picked(s, places))
  BY <1>4, <1>8
<1>10. PICK c : c = Picked(s, places)
  OBVIOUS
<1>11. c = [n \in 0..N |-> Body(c, n)]
  BY <1>9, <1>10 DEF Solves
<1>12. c[0] = <<>> /\ \A n \in 1..N : c[n] =
          IF n \in places THEN Append(c[n - 1], s[n].value) ELSE c[n - 1]
  <2> HIDE DEF Body
  <2>1. \A n \in 0..N : c[n] = Body(c, n)
    BY <1>11
  <2>2. 0 \in 0..N /\ \A n \in 1..N : n \in 0..N /\ n # 0
    BY <1>1
  <2>3. QED
    BY <2>1, <2>2, Zenon DEF Body
<1>13. \A n \in 0..N : c[n] \in Seq(Nat)
  <2>1. ASSUME NEW n \in 1..N, c[n - 1] \in Seq(Nat) PROVE c[n] \in Seq(Nat)
    <3>1. PICK u, v : u = c[n - 1] /\ v = s[n].value
      OBVIOUS
    <3>2. u \in Seq(Nat) /\ v \in Nat
      BY <1>1, <2>1, <3>1
    <3>3. Append(u, v) \in Seq(Nat)
      BY <3>2, AppendProperties
    <3>4. c[n] = u \/ c[n] = Append(u, v)
      BY <1>12, <3>1
    <3>5. QED
      BY <3>2, <3>3, <3>4
  <2>2. c[0] \in Seq(Nat)
    BY <1>1, <1>12
  <2>3. QED
    BY <1>1, <2>1, <2>2, IterationType
<1>14. QED
  BY <1>10, <1>12, <1>13 DEF N, Gathers

LEMMA ValuesCounted ==
    ASSUME NEW s \in Rows, NEW places \in SUBSET (1..Len(s))
    PROVE  /\ ValuesAt(s, places) \in Seq(Nat)
           /\ Len(ValuesAt(s, places)) = Cardinality(places)
<1>1. PICK N, c : N = Len(s) /\ c = Picked(s, places)
  OBVIOUS
<1>2. N \in Nat /\ \A n \in 1..N : s[n].value \in Nat
  <2>1. \A n \in 1..N : s[n] \in Sample
    BY <1>1, ElementOfSeq DEF Rows
  <2>2. QED
    BY <1>1, <2>1, LenProperties DEF Rows, Sample
<1>3. /\ c[0] = <<>> /\ \A n \in 0..N : c[n] \in Seq(Nat)
      /\ \A n \in 1..N : c[n] = IF n \in places THEN Append(c[n - 1], s[n].value) ELSE c[n - 1]
  <2>1. Gathers(c, s, places)
    BY <1>1, PickedRecursion
  <2>2. QED
    BY <1>1, <2>1 DEF Gathers
<1> DEFINE P(n) == places \cap (1..n)
           T == {n \in 0..N : Len(c[n]) = Cardinality(P(n))}
<1>4. 0 \in T
  <2>1. P(0) = {} /\ Cardinality({}) = 0
    BY FS_EmptySet
  <2>2. Len(c[0]) = 0
    BY <1>3, EmptySeq
  <2>3. QED
    BY <1>2, <2>1, <2>2
<1>5. ASSUME NEW n \in 1..N, n - 1 \in T PROVE n \in T
  <2>1. PICK k, v : k = n - 1 /\ v = s[n].value
    OBVIOUS
  <2>2. k \in 0..N /\ n \in 0..N /\ v \in Nat /\ 1..n = (1..k) \cup {n} /\ n \notin 1..k
    BY <1>2, <2>1
  <2>3. Len(c[k]) \in Nat /\ Len(Append(c[k], v)) = Len(c[k]) + 1
    BY <1>3, <2>2, LenProperties, AppendProperties
  <2>4. Len(c[k]) = Cardinality(P(k))
    BY <1>5, <2>1
  <2>5. IsFiniteSet(P(k))
    <3>1. IsFiniteSet(1..k) /\ P(k) \subseteq 1..k
      BY <2>2, FS_Interval
    <3>2. QED
      BY <3>1, FS_Subset
  <2>6. CASE n \in places
    <3>1. P(n) = P(k) \cup {n} /\ n \notin P(k)
      BY <2>2, <2>6
    <3>2. Cardinality(P(n)) = Cardinality(P(k)) + 1
      BY <2>5, <3>1, FS_AddElement
    <3>3. c[n] = Append(c[k], v)
      BY <1>3, <2>1, <2>6
    <3>4. Len(c[n]) = Cardinality(P(n))
      BY <2>3, <2>4, <3>2, <3>3
    <3>5. QED
      BY <2>2, <3>4
  <2>7. CASE n \notin places
    <3>1. P(n) = P(k)
      BY <2>2, <2>7
    <3>2. c[n] = c[k]
      BY <1>3, <2>1, <2>7
    <3>3. Len(c[n]) = Cardinality(P(n))
      BY <2>4, <3>1, <3>2
    <3>4. QED
      BY <2>2, <3>3
  <2>8. QED
    BY <2>6, <2>7
<1> HIDE DEF T
<1>6. 0..N \subseteq T
  BY <1>2, <1>4, <1>5, UpToInduction
<1>7. N \in T /\ N \in 0..N
  BY <1>2, <1>6
<1>8. Len(c[N]) = Cardinality(P(N)) /\ P(N) = places
  BY <1>1, <1>7 DEF T
<1>9. QED
  BY <1>1, <1>3, <1>7, <1>8 DEF ValuesAt

\* A set in three parts.
LEMMA ThreeParts ==
    ASSUME NEW A, NEW B, NEW C, IsFiniteSet(A \cup B \cup C),
           A \cap B = {}, A \cap C = {}, B \cap C = {}
    PROVE  Cardinality(A) + Cardinality(B) + Cardinality(C) = Cardinality(A \cup B \cup C)
<1>1. PICK AB, ABC : AB = A \cup B /\ ABC = A \cup B \cup C
  OBVIOUS
<1>2. IsFiniteSet(A) /\ IsFiniteSet(B) /\ IsFiniteSet(C) /\ IsFiniteSet(AB)
  BY <1>1, FS_Subset
<1>3. A \cap B = {} /\ AB \cap C = {} /\ ABC = AB \cup C
  BY <1>1
<1>4. Cardinality(A) \in Nat /\ Cardinality(B) \in Nat /\ Cardinality(C) \in Nat
      /\ Cardinality(AB) \in Nat
  BY <1>2, FS_CardinalityType
<1>5. Cardinality(AB) = Cardinality(A) + Cardinality(B)
  <2>1. Cardinality(AB) = Cardinality(A) + Cardinality(B) - Cardinality({})
    BY <1>1, <1>2, <1>3, FS_Union
  <2>2. QED
    BY <1>4, <2>1, FS_EmptySet
<1>6. Cardinality(ABC) = Cardinality(AB) + Cardinality(C)
  <2>1. Cardinality(ABC) = Cardinality(AB) + Cardinality(C) - Cardinality({})
    BY <1>2, <1>3, FS_Union
  <2>2. QED
    BY <1>4, <2>1, FS_EmptySet
<1>7. QED
  BY <1>1, <1>4, <1>5, <1>6

\* Which rows the two queries return, and which the first leaves out.
LEMMA WindowsAdd ==
    ASSUME samples \in Rows, scan \in Scans(samples)
    PROVE  OneWindowEach
<1>1. PICK s, N : s = samples /\ N = Len(s)
  OBVIOUS
<1>2. N \in Nat /\ \A n \in 1..N : s[n].age \in Nat
  <2>1. \A n \in 1..N : s[n] \in Sample
    BY <1>1, ElementOfSeq DEF Rows
  <2>2. QED
    BY <1>1, <2>1, LenProperties DEF Rows, Sample
<1>3. PICK old, new, week, own : /\ old = BaselineWindow(s) /\ new = CurrentWindow(s)
                                /\ week = Between(s, 0, SevenDays) /\ own = Own(s)
  OBVIOUS
<1>4. old \cap new = {} /\ old \cup new = week /\ old \subseteq 1..N /\ new \subseteq 1..N
  <2>1. \A n \in 1..N : /\ n \in old <=> 1 < s[n].age /\ s[n].age <= 168
                        /\ n \in new <=> 0 < s[n].age /\ s[n].age <= 1
                        /\ n \in week <=> 0 < s[n].age /\ s[n].age <= 168
    BY <1>1, <1>3 DEF BaselineWindow, CurrentWindow, Between, Hour, SevenDays
  <2>2. old \subseteq 1..N /\ new \subseteq 1..N /\ week \subseteq 1..N
    BY <1>1, <1>3 DEF BaselineWindow, CurrentWindow, Between
  <2>3. \A n \in 1..N : (n \in old \/ n \in new <=> n \in week) /\ ~(n \in old /\ n \in new)
    BY <1>2, <2>1
  <2>4. QED
    BY <2>2, <2>3
<1>5. IsFiniteSet(1..N) /\ IsFiniteSet(old)
  <2>1. IsFiniteSet(1..N)
    BY <1>2, FS_Interval
  <2>2. QED
    BY <2>1, <1>4, FS_Subset
<1>6. scan \subseteq old
  BY <1>1, <1>3 DEF Scans
<1>7. old \ scan # {} => Cardinality(scan) = ScanLimit
  BY <1>1, <1>3 DEF Scans
<1>8. Len(BaselineValues) = Cardinality(scan \cap own)
  <2>1. scan \cap own \in SUBSET (1..N)
    BY <1>4, <1>6
  <2>2. QED
    BY <1>1, <1>3, <2>1, ValuesCounted DEF BaselineValues
<1>9. Len(CurrentValues) = Cardinality(new \cap own)
  <2>1. new \cap own \in SUBSET (1..N)
    BY <1>4
  <2>2. QED
    BY <1>1, <1>3, <2>1, ValuesCounted DEF CurrentValues
<1>10. Cardinality(scan \cap own) + Cardinality(new \cap own)
         + Cardinality((old \ scan) \cap own) = Cardinality(week \cap own)
  <2>1. PICK A, B, C : A = scan \cap own /\ B = new \cap own /\ C = (old \ scan) \cap own
    OBVIOUS
  <2>2. A \cup B \cup C = week \cap own /\ A \cap B = {} /\ A \cap C = {} /\ B \cap C = {}
    BY <1>4, <1>6, <2>1
  <2>3. IsFiniteSet(A \cup B \cup C)
    <3>1. A \cup B \cup C \subseteq 1..N
      BY <1>4, <2>2
    <3>2. QED
      BY <1>5, <3>1, FS_Subset
  <2>4. Cardinality(A) + Cardinality(B) + Cardinality(C) = Cardinality(A \cup B \cup C)
    BY <2>2, <2>3, ThreeParts
  <2>5. QED
    BY <2>1, <2>2, <2>4
<1>11. QED
  BY <1>1, <1>3, <1>7, <1>8, <1>9, <1>10 DEF OneWindowEach

\* p puts v in order.
Sorts(p, v, n) ==
    /\ p \in [1..n -> 1..n]
    /\ \A i, j \in 1..n : p[i] = p[j] => i = j
    /\ \A k \in 1..n : \E i \in 1..n : p[i] = k
    /\ \A i, j \in 1..n : i < j => v[p[i]] <= v[p[j]]

\* Some place holds the greatest value.
LEMMA GreatestPlace ==
    ASSUME NEW n \in Nat \ {0}, NEW v, \A i \in 1..n : v[i] \in Nat
    PROVE  \E k \in 1..n : \A i \in 1..n : v[i] <= v[k]
<1> DEFINE T == {m \in 0..n : m = 0 \/ \E k \in 1..m : \A i \in 1..m : v[i] <= v[k]}
<1>1. 0 \in T
  OBVIOUS
<1>2. ASSUME NEW m \in 1..n, m - 1 \in T PROVE m \in T
  <2>1. PICK l : l = m - 1
    OBVIOUS
  <2>2. l \in 0..n /\ 1..m = (1..l) \cup {m} /\ m \in 0..n
    BY <2>1
  <2>3. CASE l = 0
    <3>1. 1..m = {m} /\ v[m] \in Nat
      BY <2>1, <2>3
    <3>2. v[m] <= v[m]
      BY <3>1
    <3>3. \A i \in 1..m : v[i] <= v[m]
      BY <3>1, <3>2
    <3>4. QED
      BY <2>2, <3>1, <3>3
  <2>4. CASE l # 0
    <3>1. PICK k \in 1..l : \A i \in 1..l : v[i] <= v[k]
      BY <1>2, <2>1, <2>4
    <3>2. k \in 1..n /\ v[k] \in Nat /\ v[m] \in Nat /\ k \in 1..m /\ \A i \in 1..l : v[i] \in Nat
      BY <2>2
    <3>3. CASE v[m] <= v[k]
      <4>1. \A i \in 1..m : v[i] <= v[k]
        BY <2>2, <3>1, <3>3
      <4>2. QED
        BY <2>2, <3>2, <4>1
    <3>4. CASE ~(v[m] <= v[k])
      <4>1. ASSUME NEW i \in 1..m PROVE v[i] <= v[m]
        <5>1. PICK x, y, z : x = v[i] /\ y = v[m] /\ z = v[k]
          OBVIOUS
        <5>2. i \in 1..l \/ i = m
          BY <2>2
        <5>3. x = y \/ (x \in Nat /\ x <= z)
          BY <3>1, <3>2, <5>1, <5>2
        <5>4. y \in Nat /\ z \in Nat /\ ~(y <= z)
          BY <3>2, <3>4, <5>1
        <5>5. QED
          BY <5>1, <5>3, <5>4
      <4>2. m \in 1..m
        OBVIOUS
      <4>3. QED
        BY <2>2, <4>1, <4>2
    <3>5. QED
      BY <3>3, <3>4
  <2>5. QED
    BY <2>3, <2>4
<1> HIDE DEF T
<1>3. 0..n \subseteq T
  BY <1>1, <1>2, UpToInduction
<1>4. n \in T
  BY <1>3
<1>5. QED
  BY <1>4 DEF T

\* Numbers can be sorted.
LEMMA SomeOrder ==
    ASSUME NEW N \in Nat, NEW w \in [1..N -> Nat]
    PROVE  \E p : Sorts(p, w, N)
<1> DEFINE T == {n \in 0..N : \A v \in [1..n -> Nat] : \E p : Sorts(p, v, n)}
<1>1. 0 \in T
  <2>1. ASSUME NEW v PROVE Sorts(<<>>, v, 0)
    <3>1. 1..0 = {} /\ <<>> \in [1..0 -> 1..0]
      OBVIOUS
    <3>2. QED
      BY <3>1 DEF Sorts
  <2>2. QED
    BY <2>1
<1>2. ASSUME NEW n \in 1..N, n - 1 \in T PROVE n \in T
  <2>1. PICK m : m = n - 1
    OBVIOUS
  <2>2. m \in 0..N /\ n \in 0..N /\ n \in Nat \ {0} /\ 1..n = (1..m) \cup {n} /\ n \notin 1..m
        /\ m \in Nat /\ n = m + 1
    BY <2>1
  <2>3. ASSUME NEW v \in [1..n -> Nat] PROVE \E p : Sorts(p, v, n)
    <3>1. PICK k \in 1..n : \A i \in 1..n : v[i] <= v[k]
      BY <2>2, GreatestPlace
    <3> DEFINE sw == [i \in 1..n |-> IF i = n THEN k ELSE IF i = k THEN n ELSE i]
               u == [i \in 1..m |-> v[sw[i]]]
    <3>2. sw \in [1..n -> 1..n] /\ n \in 1..n
      BY <2>2
    <3>3. u \in [1..m -> Nat]
      BY <2>2, <3>2
    <3>4. \A i \in 1..n : sw[sw[i]] = i /\ (sw[i] = k <=> i = n)
      BY <2>2
    <3>5. \A i \in 1..m : u[i] = v[sw[i]]
      OBVIOUS
    <3> HIDE DEF u, sw
    <3>6. PICK q : Sorts(q, u, m)
      BY <1>2, <2>1, <2>2, <3>3
    <3>7. /\ q \in [1..m -> 1..m]
          /\ \A i, j \in 1..m : q[i] = q[j] => i = j
          /\ \A l \in 1..m : \E i \in 1..m : q[i] = l
          /\ \A i, j \in 1..m : i < j => u[q[i]] <= u[q[j]]
      BY <3>6 DEF Sorts
    <3> DEFINE p == [i \in 1..n |-> IF i = n THEN k ELSE sw[q[i]]]
    <3>8. p[n] = k /\ \A i \in 1..m : p[i] = sw[q[i]]
      BY <2>2
    <3>a. \A i \in 1..m : q[i] \in 1..m /\ q[i] \in 1..n /\ q[i] # n
      <4>1. \A i \in 1..m : q[i] \in 1..m
        BY <3>7
      <4>2. \A x \in 1..m : x \in 1..n /\ x # n
        BY <2>2
      <4>3. QED
        BY <4>1, <4>2
    <3>9. p \in [1..n -> 1..n]
      <4>1. \A i \in 1..n : i # n => i \in 1..m
        BY <2>2
      <4>2. \A i \in 1..m : sw[q[i]] \in 1..n
        BY <3>a, <3>2
      <4>3. QED
        BY <4>1, <4>2
    <3> HIDE DEF p
    <3>10. \A i \in 1..m : q[i] \in 1..m /\ q[i] \in 1..n /\ q[i] # n /\ p[i] # k
      <4>1. \A i \in 1..m : sw[q[i]] # k
        BY <3>a, <3>4
      <4>2. QED
        BY <3>a, <3>8, <4>1
    <3>11. ASSUME NEW i \in 1..n, NEW j \in 1..n, p[i] = p[j] PROVE i = j
      <4>1. CASE i \in 1..m /\ j \in 1..m
        <5>1. sw[q[i]] = sw[q[j]]
          BY <3>8, <3>11, <4>1
        <5>2. q[i] = q[j]
          BY <3>4, <3>10, <4>1, <5>1
        <5>3. QED
          BY <3>7, <4>1, <5>2
      <4>2. CASE i = n \/ j = n
        BY <2>2, <3>8, <3>10, <3>11, <4>2
      <4>3. QED
        BY <2>2, <4>1, <4>2
    <3>12. ASSUME NEW l \in 1..n PROVE \E i \in 1..n : p[i] = l
      <4>1. CASE l = k
        BY <3>2, <3>8, <4>1
      <4>2. CASE l # k
        <5>1. sw[l] \in 1..n /\ sw[l] # n /\ sw[sw[l]] = l
          <6>1. sw[l] \in 1..n /\ sw[sw[l]] = l
            BY <3>2, <3>4
          <6>2. sw[n] = k
            BY <3>2, <3>4
          <6>3. QED
            BY <4>2, <6>1, <6>2
        <5>2. sw[l] \in 1..m
          BY <2>2, <5>1
        <5>3. PICK i \in 1..m : q[i] = sw[l]
          BY <3>7, <5>2
        <5>4. p[i] = l /\ i \in 1..n
          BY <2>2, <3>8, <5>1, <5>3
        <5>5. QED
          BY <5>4
      <4>3. QED
        BY <4>1, <4>2
    <3>13. ASSUME NEW i \in 1..n, NEW j \in 1..n, i < j PROVE v[p[i]] <= v[p[j]]
      <4>1. i \in 1..m
        BY <2>2, <3>13
      <4>2. CASE j = n
        <5>1. p[i] \in 1..n /\ p[j] = k
          BY <3>8, <3>9, <4>2
        <5>2. QED
          BY <3>1, <5>1
      <4>3. CASE j # n
        <5>1. j \in 1..m
          BY <2>2, <4>3
        <5>2. u[q[i]] <= u[q[j]]
          BY <3>7, <3>13, <4>1, <5>1
        <5>3. u[q[i]] = v[p[i]] /\ u[q[j]] = v[p[j]]
          BY <3>5, <3>8, <3>10, <4>1, <5>1
        <5>4. QED
          BY <5>2, <5>3
      <4>4. QED
        BY <4>2, <4>3
    <3>14. Sorts(p, v, n)
      BY <3>9, <3>11, <3>12, <3>13 DEF Sorts
    <3>15. QED
      BY <3>14
  <2>4. QED
    BY <2>2, <2>3
<1> HIDE DEF T
<1>3. 0..N \subseteq T
  BY <1>1, <1>2, UpToInduction
<1>4. N \in T
  BY <1>3
<1>5. QED
  BY <1>4 DEF T

LEMMA OrderSorts ==
    ASSUME NEW v \in Seq(Nat)
    PROVE  Sorts(Order(v), v, Len(v))
<1>1. PICK n : n = Len(v)
  OBVIOUS
<1>2. n \in Nat /\ DOMAIN v = 1..n /\ v \in [1..n -> Nat]
  BY <1>1, LenProperties
<1> DEFINE InOrder(p) == /\ p \in Bijection(1..n, 1..n)
                      /\ \A i, j \in 1..n : i < j => v[p[i]] <= v[p[j]]
<1>3. Order(v) = CHOOSE p \in Bijection(1..n, 1..n) :
                     \A i, j \in 1..n : i < j => v[p[i]] <= v[p[j]]
  BY <1>2 DEF Order
<1>4. ASSUME NEW p PROVE InOrder(p) <=> Sorts(p, v, n)
  BY DEF Sorts, Bijection, Injection, Surjection, IsInjective
<1>5. \E p : InOrder(p)
  <2> HIDE DEF InOrder
  <2>1. QED
    BY <1>2, <1>4, SomeOrder
<1>6. InOrder(Order(v))
  BY <1>3, <1>5, Zenon
<1> HIDE DEF InOrder
<1>7. QED
  BY <1>1, <1>4, <1>6

\* At least as many places as an injection from 1 .. k hits.
LEMMA ManyPlaces ==
    ASSUME NEW n \in Nat, NEW p \in [1..n -> 1..n], NEW S \in SUBSET (1..n), NEW a \in 1..n,
           NEW b \in 1..n, a <= b,
           \A i, j \in 1..n : p[i] = p[j] => i = j,
           \A i \in a..b : p[i] \in S
    PROVE  /\ Cardinality(S) >= b - a + 1 /\ Cardinality(S) \in Nat
<1>1. IsFiniteSet(S) /\ Cardinality(S) \in Nat
  <2>1. 1 \in Int /\ n \in Int
    OBVIOUS
  <2>2. IsFiniteSet(1..n)
    BY <2>1, FS_Interval
  <2>3. QED
    BY <2>2, FS_Subset, FS_CardinalityType
<1>2. PICK A : A = a..b
  OBVIOUS
<1>3. IsFiniteSet(A) /\ Cardinality(A) = b - a + 1 /\ A \subseteq 1..n
  <2>1. a \in Int /\ b \in Int /\ ~(a > b) /\ a..b \subseteq 1..n
    OBVIOUS
  <2>2. QED
    BY <1>2, <2>1, FS_Interval
<1> DEFINE f == [i \in A |-> p[i]]
<1>4. f \in Injection(A, S)
  <2>1. \A i \in A : f[i] = p[i] /\ p[i] \in S
    BY <1>2
  <2>2. f \in [A -> S]
    BY <2>1
  <2>3. \A i, j \in A : f[i] = f[j] => i = j
    BY <1>3, <2>1
  <2> HIDE DEF f
  <2>4. DOMAIN f = A
    BY <2>2
  <2>5. QED
    BY <2>2, <2>3, <2>4 DEF Injection, IsInjective
<1> HIDE DEF f
<1>5. Cardinality(A) <= Cardinality(S)
  BY <1>1, <1>4, FS_Injection
<1>6. QED
  BY <1>1, <1>3, <1>5

\* The two middle places.
LEMMA MedianOf ==
    ASSUME NEW v \in Seq(Nat), NEW n, n = Len(v), n # 0
    PROVE  /\ n \in Nat \ {0}
           /\ \E lo, hi \in 1..n :
                /\ lo <= hi /\ 2 * lo >= n /\ 2 * (n - hi + 1) >= n
                /\ TwiceMedian(v) = v[Order(v)[lo]] + v[Order(v)[hi]]
<1>1. n \in Nat \ {0} /\ DOMAIN v = 1..n
  BY LenProperties
<1>2. PICK p : p = Order(v)
  OBVIOUS
<1>3. p \in [1..n -> 1..n]
  BY <1>2, OrderSorts DEF Sorts
<1>4. PICK s : s = Sorted(v)
  OBVIOUS
<1>5. s = [i \in 1..n |-> v[p[i]]]
  BY <1>1, <1>2, <1>4 DEF Sorted
<1>6. \A i \in 1..n : s[i] = v[p[i]] /\ v[p[i]] \in Nat
  <2>1. \A i \in 1..n : p[i] \in 1..n
    BY <1>3
  <2>2. \A i \in 1..n : v[i] \in Nat
    BY <1>1, ElementOfSeq
  <2>3. QED
    BY <1>5, <2>1, <2>2
<1>7. Len(s) = n
  <2>1. s \in [1..n -> Nat]
    BY <1>5, <1>6
  <2>2. QED
    BY <1>1, <2>1
<1>8. PICK lo : lo = (n - 1) \div 2 + 1
  OBVIOUS
<1>9. TwiceMedian(v) = IF n % 2 = 1 THEN s[lo] * 2 ELSE s[lo] + s[lo + 1]
  BY <1>1, <1>4, <1>7, <1>8 DEF TwiceMedian
<1>10. lo \in 1..n /\ 2 * lo >= n /\ (n % 2 = 1 => 2 * lo = n + 1) /\ (n % 2 # 1 => 2 * lo = n)
  BY <1>1, <1>8
<1>11. CASE n % 2 = 1
  <2>1. TwiceMedian(v) = s[lo] + s[lo] /\ 2 * (n - lo + 1) >= n /\ lo <= lo
    BY <1>1, <1>6, <1>9, <1>10, <1>11
  <2>2. QED
    BY <1>1, <1>2, <1>6, <1>10, <2>1
<1>12. CASE n % 2 # 1
  <2>1. PICK hi : hi = lo + 1
    OBVIOUS
  <2>2. hi \in 1..n /\ lo <= hi /\ 2 * (n - hi + 1) >= n
    BY <1>1, <1>10, <1>12, <2>1
  <2>3. TwiceMedian(v) = s[lo] + s[hi]
    BY <1>9, <1>12, <2>1
  <2>4. QED
    BY <1>1, <1>2, <1>6, <1>10, <2>2, <2>3
<1>13. QED
  BY <1>11, <1>12

LEMMA MedianIsNat == ASSUME NEW v \in Seq(Nat) PROVE TwiceMedian(v) \in Nat
<1>1. PICK n : n = Len(v)
  OBVIOUS
<1>2. CASE n = 0
  <2>1. v = <<>>
    BY <1>1, <1>2, EmptySeq
  <2>2. Len(Sorted(v)) = 0
    <3>1. DOMAIN v = 1..0
      BY <2>1
    <3>2. Sorted(v) = <<>>
      BY <3>1 DEF Sorted
    <3>3. QED
      BY <3>2
  <2>3. QED
    BY <2>2 DEF TwiceMedian
<1>3. CASE n # 0
  <2>1. PICK lo, hi \in 1..n : TwiceMedian(v) = v[Order(v)[lo]] + v[Order(v)[hi]]
    BY <1>1, <1>3, MedianOf
  <2>2. PICK p : p = Order(v)
    OBVIOUS
  <2>3. p[lo] \in 1..n /\ p[hi] \in 1..n
    BY <1>1, <2>2, OrderSorts DEF Sorts
  <2>4. v[p[lo]] \in Nat /\ v[p[hi]] \in Nat
    BY <1>1, <2>3, ElementOfSeq
  <2>5. QED
    BY <2>1, <2>2, <2>4
<1>4. QED
  BY <1>2, <1>3

\* The median splits the values.
LEMMA MedianHalves ==
    ASSUME NEW v \in Seq(Nat), NEW m, m = TwiceMedian(v)
    PROVE  /\ 2 * Cardinality({i \in DOMAIN v : 2 * v[i] <= m}) >= Len(v)
           /\ 2 * Cardinality({i \in DOMAIN v : 2 * v[i] >= m}) >= Len(v)
<1>1. PICK n, p : n = Len(v) /\ p = Order(v)
  OBVIOUS
<1>2. n \in Nat /\ DOMAIN v = 1..n /\ \A i \in 1..n : v[i] \in Nat
  BY <1>1, LenProperties, ElementOfSeq
<1>3. PICK L, H : L = {i \in DOMAIN v : 2 * v[i] <= m} /\ H = {i \in DOMAIN v : 2 * v[i] >= m}
  OBVIOUS
<1>4. L \in SUBSET (1..n) /\ H \in SUBSET (1..n)
  BY <1>2, <1>3
<1>5. CASE n = 0
  <2>1. L = {} /\ H = {}
    BY <1>4, <1>5
  <2>2. Cardinality(L) = 0 /\ Cardinality(H) = 0
    BY <2>1, FS_EmptySet
  <2>3. QED
    BY <1>1, <1>3, <1>5, <2>2
<1>6. CASE n # 0
  <2>1. PICK lo, hi \in 1..n :
           /\ lo <= hi /\ 2 * lo >= n /\ 2 * (n - hi + 1) >= n
           /\ m = v[p[lo]] + v[p[hi]]
    BY <1>1, <1>6, MedianOf
  <2>2. /\ p \in [1..n -> 1..n]
        /\ \A i, j \in 1..n : p[i] = p[j] => i = j
        /\ \A i, j \in 1..n : i < j => v[p[i]] <= v[p[j]]
    BY <1>1, OrderSorts DEF Sorts
  <2>3. \A i \in 1..n : p[i] \in 1..n /\ v[p[i]] \in Nat
    BY <1>2, <2>2
  <2>4. \A i, j \in 1..n : i <= j => v[p[i]] <= v[p[j]]
    <3>1. ASSUME NEW i \in 1..n, NEW j \in 1..n, i <= j PROVE v[p[i]] <= v[p[j]]
      <4>1. CASE i = j
        <5>1. PICK x \in Nat : x = v[p[i]]
          BY <2>3
        <5>2. QED
          BY <4>1, <5>1
      <4>2. CASE i # j
        BY <2>2, <3>1, <4>2
      <4>3. QED
        BY <4>1, <4>2
    <3>2. QED
      BY <3>1
  <2>5. PICK x, y \in Nat : x = v[p[lo]] /\ y = v[p[hi]]
    BY <2>3
  <2>6. x <= y /\ m = x + y
    BY <2>1, <2>4, <2>5
  <2>7. ASSUME NEW i \in 1..lo PROVE p[i] \in L
    <3>1. i \in 1..n /\ i <= lo
      BY <1>2, <2>1
    <3>2. PICK z \in Nat : z = v[p[i]]
      BY <2>3, <3>1
    <3>3. z <= x
      BY <2>4, <2>5, <3>1, <3>2
    <3>4. 2 * z <= m
      BY <2>6, <3>3
    <3>5. QED
      BY <1>2, <1>3, <2>3, <3>1, <3>2, <3>4
  <2>8. ASSUME NEW i \in hi..n PROVE p[i] \in H
    <3>1. i \in 1..n /\ hi <= i
      BY <1>2, <2>1
    <3>2. PICK z \in Nat : z = v[p[i]]
      BY <2>3, <3>1
    <3>3. y <= z
      BY <2>4, <2>5, <3>1, <3>2
    <3>4. 2 * z >= m
      BY <2>6, <3>3
    <3>5. QED
      BY <1>2, <1>3, <2>3, <3>1, <3>2, <3>4
  <2>9. PICK a : a = 1
    OBVIOUS
  <2>10. Cardinality(L) >= lo - a + 1 /\ Cardinality(L) \in Nat
    <3>1. a \in 1..n /\ a <= lo /\ \A i \in a..lo : p[i] \in L
      BY <1>2, <1>6, <2>7, <2>9
    <3>2. QED
      BY <1>2, <1>4, <2>2, <3>1, ManyPlaces
  <2>11. Cardinality(H) >= n - hi + 1 /\ Cardinality(H) \in Nat
    <3>1. PICK b : b = n
      OBVIOUS
    <3>2. b \in 1..n /\ hi <= b /\ \A i \in hi..b : p[i] \in H
      BY <1>2, <1>6, <2>8, <3>1
    <3>3. p \in [1..n -> 1..n] /\ \A i, j \in 1..n : p[i] = p[j] => i = j
      BY <2>2
    <3>4. Cardinality(H) >= b - hi + 1 /\ Cardinality(H) \in Nat
      BY <1>2, <1>4, <2>1, <3>2, <3>3, ManyPlaces
    <3>5. QED
      BY <3>1, <3>4
  <2>12. 2 * Cardinality(L) >= n /\ 2 * Cardinality(H) >= n
    <3>1. PICK c, d \in Nat : c = Cardinality(L) /\ d = Cardinality(H)
      BY <2>10, <2>11
    <3>2. c >= lo /\ d >= n - hi + 1
      BY <2>9, <2>10, <2>11, <3>1
    <3>3. 2 * c >= n /\ 2 * d >= n
      <4>1. n \in Nat /\ lo \in Nat /\ hi \in Nat /\ 2 * lo >= n /\ 2 * (n - hi + 1) >= n
        BY <1>2, <2>1
      <4>2. QED
        BY <3>2, <4>1
    <3>4. QED
      BY <3>1, <3>3
  <2>13. QED
    BY <1>1, <1>3, <2>12
<1>7. QED
  BY <1>5, <1>6

\* On the mean of a single value the ladder of severities is monotone.
LEMMA LadderIsMonotone ==
    ASSUME NEW base \in Nat, NEW a \in Nat, NEW b \in Nat, NEW m \in {"hallucination", "recall"},
           IF m = "hallucination" THEN a >= b ELSE a <= b
    PROVE  Gravity[Severity(m, base, a, 1)] >= Gravity[Severity(m, base, b, 1)]
<1> DEFINE gap(x) == 2 * x - base
           change(x) == 100 * (IF gap(x) < 0 THEN -gap(x) ELSE gap(x))
           worse(x) == IF m = "hallucination" THEN 2 * x > base ELSE 2 * x < base
           crit(x) == worse(x) /\ base # 0 /\ change(x) > 30 * base
           warn(x) == worse(x) /\ base # 0 /\ change(x) > 15 * base
<1>1. ASSUME NEW x \in Nat
      PROVE  Gravity[Severity(m, base, x, 1)] =
                IF crit(x) THEN 2 ELSE IF warn(x) THEN 1 ELSE 0
  <2>1. IsRegression(m, base, x, 1) <=> worse(x)
    BY DEF IsRegression, HigherIsWorse
  <2>2. 1 * base = base /\ 30 * 1 * base = 30 * base /\ 15 * 1 * base = 15 * base
    OBVIOUS
  <2>3. Severity(m, base, x, 1) =
           CASE ~worse(x) -> "info"
             [] worse(x) /\ (base # 0 /\ change(x) > 30 * base) -> "critical"
             [] worse(x) /\ ~(base # 0 /\ change(x) > 30 * base) /\ (base # 0 /\ change(x) > 15 * base) -> "warning"
             [] OTHER -> "info"
    BY <2>1, <2>2 DEF Severity
  <2> HIDE DEF change, worse
  <2>4. CASE ~worse(x)
    BY <2>3, <2>4 DEF Gravity
  <2>5. CASE worse(x) /\ base # 0 /\ change(x) > 30 * base
    BY <2>3, <2>5 DEF Gravity
  <2>6. CASE worse(x) /\ ~(base # 0 /\ change(x) > 30 * base) /\ base # 0 /\ change(x) > 15 * base
    BY <2>3, <2>6 DEF Gravity
  <2>7. CASE worse(x) /\ ~(base # 0 /\ change(x) > 30 * base) /\ ~(base # 0 /\ change(x) > 15 * base)
    BY <2>3, <2>7 DEF Gravity
  <2>8. QED
    BY <2>4, <2>5, <2>6, <2>7
<1>2. (crit(b) => crit(a)) /\ (warn(b) => warn(a)) /\ (crit(a) => warn(a))
  OBVIOUS
<1> HIDE DEF crit, warn
<1>3. QED
  BY <1>1, <1>2

\* What is not worse than the baseline is no more than info.
LEMMA NoRegressionNoAlarm ==
    ASSUME NEW base \in Nat, NEW a \in Nat, NEW m \in {"hallucination", "recall"},
           IF m = "hallucination" THEN base >= 2 * a ELSE base <= 2 * a
    PROVE  Gravity[Severity(m, base, a, 1)] = 0
<1>1. ~IsRegression(m, base, a, 1)
  BY DEF IsRegression, HigherIsWorse
<1>2. Severity(m, base, a, 1) = "info"
  BY <1>1 DEF Severity
<1>3. QED
  BY <1>2 DEF Gravity

\* The numbers of a triple are rows of ages and values, and no action changes them.
NumbersInv ==
    samples \in Rows /\ scan \in Scans(samples) /\ metric \in {"hallucination", "recall"}

LEMMA NumbersGiveSoundAlerts == NumbersInv => AlertSound
<1> SUFFICES ASSUME NumbersInv PROVE AlertSound
  OBVIOUS
<1>3. OneWindowEach
  BY WindowsAdd DEF NumbersInv
<1>4. PICK v, base : v = BaselineValues /\ base = TwiceMedian(v)
  OBVIOUS
<1>5. v \in Seq(Nat)
  <2>1. scan \cap Own(samples) \in SUBSET (1..Len(samples))
    BY DEF Own
  <2>2. QED
    BY <1>4, <2>1, ValuesCounted DEF BaselineValues, NumbersInv
<1>6. MedianSplits
  <2>1. /\ 2 * Cardinality({i \in DOMAIN v : 2 * v[i] <= base}) >= Len(v)
        /\ 2 * Cardinality({i \in DOMAIN v : 2 * v[i] >= base}) >= Len(v)
    BY <1>4, <1>5, MedianHalves
  <2>2. QED
    BY <1>4, <2>1 DEF MedianSplits
<1>7. WorseIsGraver
  <2>1. base \in Nat
    BY <1>4, <1>5, MedianIsNat
  <2>2. PICK m \in {"hallucination", "recall"} : m = metric
    BY DEF NumbersInv
  <2>3. ASSUME NEW a \in 0..4, NEW b \in 0..4,
               IF m = "hallucination" THEN a >= b ELSE a <= b
        PROVE  Gravity[Severity(m, base, a, 1)] >= Gravity[Severity(m, base, b, 1)]
    <3>1. a \in Nat /\ b \in Nat
      OBVIOUS
    <3>2. QED
      BY <2>1, <2>3, <3>1, LadderIsMonotone
  <2>4. ASSUME NEW a \in 0..4, IF m = "hallucination" THEN base >= 2 * a ELSE base <= 2 * a
        PROVE  Gravity[Severity(m, base, a, 1)] = 0
    <3>1. a \in Nat
      OBVIOUS
    <3>2. QED
      BY <2>1, <2>4, <3>1, NoRegressionNoAlarm
  <2>5. QED
    BY <1>4, <2>2, <2>3, <2>4 DEF WorseIsGraver
<1>8. QED
  BY <1>3, <1>6, <1>7 DEF AlertSound

LEMMA NumbersInductive == NumbersInv /\ [DriftNext]_driftVars => NumbersInv'
<1>1. [DriftNext]_driftVars => UNCHANGED numbers
  BY DEF DriftNext, ListWorkspaces, ListingFails, Rest, NothingToSay, AddRow, InsertFails,
         QueryFails, BuildFails, Take, CommitPass, driftVars
<1>2. QED
  BY <1>1 DEF NumbersInv, numbers

\* Whatever rows the evaluation left, of whatever metrics, and whichever of them a full scan
\* returns (baseline.py, current.py): each row of the metric in the last seven days counts in
\* exactly one window or was left out by a full scan, half of the baseline lies on either
\* side of its median, and a worse hour never gets a milder alert (severity_for).
THEOREM AlertsAreSound == DriftSpec => []AlertSound
<1>1. DriftInit => NumbersInv
  <2>1. <<>> \in Rows
    BY DEF Rows
  <2>2. {} \in Scans(<<>>)
    <3>1. BaselineWindow(<<>>) = {}
      BY DEF BaselineWindow, Between
    <3>2. Cardinality({}) = 0 /\ 0 <= ScanLimit
      BY FS_EmptySet, DriftAssumption
    <3>3. QED
      BY <3>1, <3>2 DEF Scans
  <2>3. QED
    BY <2>1, <2>2, DriftAssumption DEF DriftInit, NumbersInv, Rows
<1>2. QED
  BY <1>1, NumbersInductive, NumbersGiveSoundAlerts, PTL DEF DriftSpec

-----------------------------------------------------------------------------
(* The lists of sensitive words                                            *)

Edits == [at : {"idle", "edited", "listed", "pushed", "replaced"},
          word : Words \cup {<<>>}, on : BOOLEAN, flushed : BOOLEAN,
          list : SUBSET Words, clean : BOOLEAN]

\* The words a sync reads.
Read(p) == IF edit[p].flushed THEN With(active, edit[p]) ELSE active

\* Only a row that is in the list is switched off, and only one that is not is added;
\* a sync without an edit switches nothing.
Switches(e) ==
    \/ e.word = <<>> /\ ~e.on /\ e.flushed
    \/ e.word \in Words /\ (e.word \in active) # e.on

InFlight(p) == edit[p].at # "idle"

\* What an edit holds and has done so far, if it reached Redis and has been the
\* only one in flight.
CleanEdit(p) ==
    /\ \A q \in Workers : q # p => ~InFlight(q)
    /\ Switches(edit[p])
    /\ edit[p].at \in {"listed", "pushed", "replaced"} => edit[p].list = Read(p)
    /\ edit[p].at \in {"pushed", "replaced"} => payload = edit[p].list
    /\ edit[p].at = "replaced" /\ edit[p].list # {} => filter[p] = edit[p].list

\* Redis has the words of the table but for the one that was not read, and so has a filter.
Agreement ==
    /\ Differ(payload, active) = unread
    /\ payload # {} => \E p \in Workers : filter[p] = payload

NoPush == \A p \in Workers : edit[p].at \notin {"pushed", "replaced"}

\* The inductive strengthening of ListsSound: what SyncReaches promises stands
\* until an edit pushes.
ListsInv ==
    /\ active \subseteq Words /\ payload \subseteq Words
    /\ filter \in [Workers -> SUBSET Words]
    /\ edit \in [Workers -> Edits]
    /\ \A p \in Workers : InFlight(p) => edit[p].word \in Words \/ ~edit[p].on
    /\ \A p \in Workers : InFlight(p) /\ edit[p].clean => CleanEdit(p)
    /\ inSync /\ NoPush => Agreement

\* What EditGoesOn asks of the steps that leave the filters alone.
LEMMA FiltersStand ==
    ASSUME ListsInv
    PROVE  payload \subseteq Words /\ filter \in [Workers -> SUBSET Words]
  BY DEF ListsInv

\* An administrator begins an edit: it and the others in flight are not alone.
LEMMA BeginStep ==
    ASSUME ListsInv, NEW p \in Workers, NEW w \in Words \cup {<<>>}, NEW on \in BOOLEAN,
           NEW sent \in BOOLEAN, OpenEdit(p, w, on, sent),
           \/ w = <<>> /\ ~on /\ sent
           \/ w \in Words /\ (w \in active) # on
    PROVE  ListsInv'
<1>1. PICK alone \in BOOLEAN : alone = \A q \in Workers : ~InFlight(q)
  BY Zenon
<1>2. PICK idle \in [Workers -> BOOLEAN] : \A q \in Workers : idle[q] = ~InFlight(q)
  <2>1. [q \in Workers |-> ~InFlight(q)] \in [Workers -> BOOLEAN]
    BY Zenon
  <2>2. QED
    BY <2>1
<1>3. edit' = [q \in Workers |->
                  IF q = p THEN [at |-> "edited", word |-> w, on |-> on,
                                 flushed |-> sent, list |-> {}, clean |-> alone]
                           ELSE [edit[q] EXCEPT !.clean = idle[q]]]
  BY <1>1, <1>2, Zenon DEF OpenEdit, InFlight
<1>4. /\ edit'[p] = [at |-> "edited", word |-> w, on |-> on, flushed |-> sent, list |-> {},
                   clean |-> alone]
      /\ \A q \in Workers : q # p => edit'[q] = [edit[q] EXCEPT !.clean = idle[q]]
      /\ edit' \in [Workers -> Edits]
  <2>1. [at |-> "edited", word |-> w, on |-> on, flushed |-> sent, list |-> {},
                   clean |-> alone] \in Edits
    BY DEF Edits
  <2>2. \A q \in Workers : edit[q] \in Edits /\ idle[q] \in BOOLEAN
    BY DEF ListsInv
  <2>3. \A row \in Edits, b \in BOOLEAN : [row EXCEPT !.clean = b] \in Edits
    BY DEF Edits
  <2> HIDE DEF Edits
  <2>4. QED
    BY <1>3, <2>1, <2>2, <2>3
<1>5. /\ edit'[p].at = "edited" /\ edit'[p].word = w /\ edit'[p].clean = alone
      /\ edit'[p].on = on /\ edit'[p].flushed = sent
  BY <1>4
<1>6. \A q \in Workers : q # p =>
        /\ edit'[q].at = edit[q].at /\ edit'[q].word = edit[q].word /\ edit'[q].on = edit[q].on
        /\ edit'[q].clean = idle[q]
  BY <1>4 DEF ListsInv, Edits
<1>7. UNCHANGED <<active, payload, filter, inSync, unread>>
  BY DEF OpenEdit
<1>8. \A q \in Workers : InFlight(q)' => edit'[q].word \in Words \/ ~edit'[q].on
  BY <1>5, <1>6 DEF ListsInv, InFlight
<1>9. ASSUME NEW q \in Workers, InFlight(q)', edit'[q].clean PROVE CleanEdit(q)'
  <2>1. q = p /\ alone
    BY <1>2, <1>5, <1>6, <1>9 DEF InFlight
  <2>2. \A r \in Workers : r # p => ~InFlight(r)'
    BY <2>1, <1>1, <1>6 DEF InFlight
  <2>3. QED
    BY <2>1, <2>2, <1>5, <1>7 DEF CleanEdit, Switches
<1>10. inSync' /\ NoPush' => Agreement'
  <2>1. NoPush' => NoPush
    <3>1. edit[p].at \notin {"pushed", "replaced"}
      BY DEF OpenEdit
    <3>2. QED
      BY <3>1, <1>6 DEF NoPush
  <2>2. QED
    BY <2>1, <1>7 DEF ListsInv, Agreement
<1>11. QED
  BY <1>4, <1>7, <1>8, <1>9, <1>10 DEF ListsInv

\* A later step of an edit: what it must establish for the edit itself.  It leaves the
\* table alone, and what others hold.
LEMMA EditGoesOn ==
    ASSUME ListsInv, NEW p \in Workers, NEW row \in Edits, InFlight(p),
           row.at \in {"listed", "pushed", "replaced"},
           row.word = edit[p].word, row.on = edit[p].on, row.flushed = edit[p].flushed,
           row.clean => edit[p].clean,
           edit' = [edit EXCEPT ![p] = row],
           UNCHANGED <<active, inSync, unread>>,
           payload' \subseteq Words, filter' \in [Workers -> SUBSET Words],
           row.clean =>
              /\ row.list = Read(p)
              /\ row.at \in {"pushed", "replaced"} => payload' = row.list
              /\ row.at = "replaced" /\ row.list # {} => filter'[p] = row.list,
           row.at = "listed" => edit[p].at = "edited" /\ UNCHANGED <<payload, filter>>
    PROVE  ListsInv'
<1>1. /\ edit'[p] = row
      /\ \A q \in Workers : q # p => edit'[q] = edit[q]
      /\ edit' \in [Workers -> Edits]
  BY DEF ListsInv
<1>2. \A q \in Workers : InFlight(q)' => edit'[q].word \in Words \/ ~edit'[q].on
  BY <1>1 DEF ListsInv, InFlight
<1>3. Read(p)' = Read(p) /\ (Switches(edit[p]) => Switches(edit[p])')
  BY <1>1 DEF With, Read, Switches
<1>4. ASSUME NEW q \in Workers, InFlight(q)', edit'[q].clean PROVE CleanEdit(q)'
  <2>1. CASE q = p
    <3>1. edit[p].clean /\ CleanEdit(p)
      BY <1>1, <1>4, <2>1 DEF ListsInv
    <3>2. \A r \in Workers : r # p => ~InFlight(r)'
      BY <3>1, <1>1 DEF CleanEdit, InFlight
    <3>3. Switches(edit[p])'
      BY <3>1, <1>3 DEF CleanEdit
    <3>4. /\ row.clean /\ row.list = Read(p)'
          /\ row.at \in {"pushed", "replaced"} => payload' = row.list
          /\ row.at = "replaced" /\ row.list # {} => filter'[p] = row.list
      BY <2>1, <1>1, <1>3, <1>4
    <3>5. CleanEdit(p)'
      BY <3>2, <3>3, <3>4, <1>1 DEF CleanEdit
    <3>6. QED
      BY <3>5, <2>1
  <2>2. CASE q # p
    <3>1. InFlight(q) /\ edit[q].clean
      BY <1>1, <1>4, <2>2 DEF InFlight
    <3>2. ~InFlight(p)
      BY <3>1, <2>2 DEF ListsInv, CleanEdit
    <3>3. QED
      BY <3>2
  <2>3. QED
    BY <2>1, <2>2
<1>5. inSync' /\ NoPush' => Agreement'
  <2>1. NoPush' => row.at = "listed" /\ NoPush
    BY <1>1 DEF NoPush
  <2>2. QED
    BY <2>1 DEF ListsInv, Agreement
<1>6. QED
  BY <1>1, <1>2, <1>4, <1>5 DEF ListsInv

LEMMA ListStep == ASSUME ListsInv, NEW p \in Workers, ListWords(p) PROVE ListsInv'
<1> DEFINE row == [edit[p] EXCEPT !.at = "listed", !.list = Read(p)]
<1>0. edit[p] \in Edits /\ edit[p].at = "edited" /\ InFlight(p)
  BY DEF ListsInv, ListWords, InFlight
<1>1. Read(p) \subseteq Words
  BY <1>0 DEF ListsInv, InFlight, With, Read
<1>2. /\ row \in Edits /\ row.at = "listed" /\ row.list = Read(p)
      /\ row.word = edit[p].word /\ row.on = edit[p].on
      /\ row.flushed = edit[p].flushed /\ row.clean = edit[p].clean
  BY <1>0, <1>1 DEF Edits
<1>3. edit' = [edit EXCEPT ![p] = row]
  BY DEF ListWords, ListsInv, Read
<1> HIDE DEF row
<1>4. QED
  BY <1>0, <1>2, <1>3, FiltersStand, EditGoesOn DEF ListWords

LEMMA PushStep == ASSUME ListsInv, NEW p \in Workers, PushToRedis(p) PROVE ListsInv'
<1>0. edit[p] \in Edits /\ edit[p].at = "listed" /\ InFlight(p)
  BY DEF ListsInv, PushToRedis, InFlight
<1>1. PICK ok \in BOOLEAN :
        /\ edit' = [edit EXCEPT ![p] = [edit[p] EXCEPT !.at = "pushed", !.clean = ok]]
        /\ ok => edit[p].clean /\ payload' = edit[p].list
        /\ payload' \in {payload, edit[p].list}
  <2>1. CASE edit' = [edit EXCEPT ![p].at = "pushed"] /\ payload' = edit[p].list
    <3>1. edit[p].clean \in BOOLEAN
      BY <1>0 DEF Edits
    <3>2. [edit[p] EXCEPT !.at = "pushed", !.clean = edit[p].clean]
             = [edit[p] EXCEPT !.at = "pushed"]
      BY <1>0 DEF Edits
    <3>3. QED
      BY <2>1, <3>1, <3>2 DEF ListsInv
  <2>2. CASE edit' = [edit EXCEPT ![p].at = "pushed", ![p].clean = FALSE] /\ payload' = payload
    BY <2>2 DEF ListsInv
  <2>3. QED
    BY <2>1, <2>2 DEF PushToRedis
<1> DEFINE row == [edit[p] EXCEPT !.at = "pushed", !.clean = ok]
<1>2. /\ row \in Edits /\ row.at = "pushed" /\ row.list = edit[p].list
      /\ row.word = edit[p].word /\ row.on = edit[p].on
      /\ row.flushed = edit[p].flushed /\ row.clean = ok
  BY <1>0 DEF Edits
<1>3. edit' = [edit EXCEPT ![p] = row]
  BY <1>1
<1>4. payload' \subseteq Words
  BY <1>0, <1>1 DEF ListsInv, Edits
<1> HIDE DEF row
<1>5. ok => edit[p].list = Read(p)
  BY <1>0, <1>1 DEF ListsInv, InFlight, CleanEdit
<1>6. QED
  BY <1>0, <1>1, <1>2, <1>3, <1>4, <1>5, FiltersStand, EditGoesOn DEF PushToRedis

LEMMA ReplaceStep == ASSUME ListsInv, NEW p \in Workers, ReplaceFilter(p) PROVE ListsInv'
<1> DEFINE row == [edit[p] EXCEPT !.at = "replaced"]
<1>0. edit[p] \in Edits /\ edit[p].at = "pushed" /\ InFlight(p)
  BY DEF ListsInv, ReplaceFilter, InFlight
<1>1. /\ row \in Edits /\ row.at = "replaced" /\ row.list = edit[p].list
      /\ row.word = edit[p].word /\ row.on = edit[p].on
      /\ row.flushed = edit[p].flushed /\ row.clean = edit[p].clean
  BY <1>0 DEF Edits
<1>2. edit' = [edit EXCEPT ![p] = row]
  BY DEF ReplaceFilter, ListsInv
<1>3. /\ filter' \in [Workers -> SUBSET Words]
      /\ edit[p].list # {} => filter'[p] = edit[p].list
  BY <1>0 DEF ReplaceFilter, ListsInv, Edits
<1> HIDE DEF row
<1>4. edit[p].clean => edit[p].list = Read(p) /\ payload = edit[p].list
  BY <1>0 DEF ListsInv, InFlight, CleanEdit
<1>5. QED
  BY <1>0, <1>1, <1>2, <1>3, <1>4, FiltersStand, EditGoesOn DEF ReplaceFilter

\* The end of an edit, committed or not.
LEMMA EditEnds ==
    ASSUME ListsInv, NEW p \in Workers, InFlight(p),
           edit' = [edit EXCEPT ![p] = Idle],
           UNCHANGED <<payload, filter>>,
           active' \in {active, With(active, edit[p])},
           inSync' /\ NoPush' => Agreement'
    PROVE  ListsInv'
<1>0. Idle \in Edits /\ Idle.at = "idle"
  BY DEF Idle, Edits
<1>1. /\ edit'[p] = Idle
      /\ \A q \in Workers : q # p => edit'[q] = edit[q]
      /\ edit' \in [Workers -> Edits]
  BY <1>0 DEF ListsInv
<1>2. \A q \in Workers : InFlight(q)' => edit'[q].word \in Words \/ ~edit'[q].on
  BY <1>0, <1>1 DEF ListsInv, InFlight
<1>3. active' \subseteq Words
  BY DEF ListsInv, With
<1>4. ASSUME NEW q \in Workers, InFlight(q)', edit'[q].clean PROVE CleanEdit(q)'
  <2>1. q # p /\ InFlight(q) /\ edit[q].clean
    BY <1>0, <1>1, <1>4 DEF InFlight
  <2>2. ~InFlight(p)
    BY <2>1 DEF ListsInv, CleanEdit
  <2>3. QED
    BY <2>2
<1>5. QED
  BY <1>1, <1>2, <1>3, <1>4 DEF ListsInv

LEMMA CommitStep == ASSUME ListsInv, NEW p \in Workers, CommitEdit(p) PROVE ListsInv'
<1>0. InFlight(p) /\ edit[p].at = "replaced"
  BY DEF CommitEdit, InFlight
<1>1. inSync' => Agreement'
  <2>1. SUFFICES ASSUME edit[p].clean PROVE Agreement'
    BY DEF CommitEdit
  <2>2. /\ Switches(edit[p]) /\ edit[p].list = Read(p) /\ payload = edit[p].list
        /\ edit[p].list # {} => filter[p] = edit[p].list
    BY <2>1, <1>0 DEF ListsInv, CleanEdit
  <2>3. payload' = Read(p) /\ active' = With(active, edit[p]) /\ filter' = filter
    BY <2>2 DEF CommitEdit
  <2>4. unread' = IF edit[p].flushed THEN {} ELSE {edit[p].word}
    BY <2>1 DEF CommitEdit
  <2>5. Differ(payload', active') = unread'
    <3>1. CASE edit[p].flushed
      BY <3>1, <2>3, <2>4 DEF Read, Differ
    <3>2. CASE ~edit[p].flushed
      <4>1. PICK w, on : w = edit[p].word /\ on = edit[p].on /\ on \in BOOLEAN
        BY DEF ListsInv, Edits
      <4>2. (w \in active) # on
        BY <3>2, <2>2, <4>1 DEF Switches
      <4>3. active' = IF on THEN active \cup {w} ELSE active \ {w}
        BY <2>3, <4>1 DEF With
      <4>4. payload' = active /\ unread' = {w}
        BY <3>2, <2>3, <2>4, <4>1 DEF Read
      <4>5. CASE on
        <5>1. w \notin active /\ active' = active \cup {w}
          BY <4>2, <4>3, <4>5
        <5>2. QED
          BY <4>4, <5>1 DEF Differ
      <4>6. CASE ~on
        <5>1. w \in active /\ active' = active \ {w}
          BY <4>1, <4>2, <4>3, <4>6
        <5>2. QED
          BY <4>4, <5>1 DEF Differ
      <4>7. QED
        BY <4>5, <4>6
    <3>3. QED
      BY <3>1, <3>2
  <2>6. QED
    BY <2>2, <2>3, <2>5 DEF Agreement
<1>2. QED
  BY <1>0, <1>1, EditEnds DEF CommitEdit

LEMMA RollbackStep == ASSUME ListsInv, NEW p \in Workers, RollbackEdit(p) PROVE ListsInv'
<1>1. ASSUME inSync', NoPush' PROVE Agreement'
  <2>1. inSync /\ edit[p].at \notin {"pushed", "replaced"}
    BY <1>1 DEF RollbackEdit
  <2>2. \A q \in Workers : q # p => edit'[q] = edit[q]
    BY DEF RollbackEdit, ListsInv
  <2>3. NoPush
    BY <2>1, <2>2, <1>1 DEF NoPush
  <2>4. QED
    BY <2>1, <2>3 DEF ListsInv, Agreement, RollbackEdit
<1>2. QED
  BY <1>1, EditEnds DEF RollbackEdit, InFlight

LEMMA ListsInvariant == WordsSpec => []ListsInv
<1>1. WordsInit => ListsInv
  <2>1. Idle \in Edits /\ Idle.at = "idle"
    BY DEF Idle, Edits
  <2> SUFFICES ASSUME WordsInit PROVE ListsInv
    OBVIOUS
  <2>2. /\ edit = [p \in Workers |-> Idle] /\ filter = [p \in Workers |-> DefaultWords]
        /\ payload = {} /\ inSync = FALSE
    BY Zenon DEF WordsInit
  <2>c. active = DefaultWords \/ active \in SUBSET Words
    BY Zenon DEF WordsInit
  <2>b. DefaultWords \subseteq Words /\ DefaultWords # {}
    BY WordsAssumption
  <2>3. \A p \in Workers : edit[p] = Idle /\ filter[p] = DefaultWords
    BY <2>2
  <2>4. /\ edit \in [Workers -> Edits] /\ filter \in [Workers -> SUBSET Words]
        /\ active \subseteq Words /\ payload \subseteq Words
    BY <2>1, <2>2, <2>b, <2>c
  <2>5. QED
    BY <2>1, <2>3, <2>4, <2>2, <2>b DEF ListsInv, InFlight
<1>2. ListsInv /\ [WordsNext]_wordVars => ListsInv'
  <2>1. CASE UNCHANGED wordVars
    BY <2>1 DEF wordVars, ListsInv, InFlight, CleanEdit, NoPush, Agreement, Switches, Read
  <2>2. ASSUME ListsInv, NEW p \in Workers, NEW w \in Words, NEW on \in BOOLEAN,
               NEW sent \in BOOLEAN, BeginEdit(p, w, on, sent)
        PROVE  ListsInv'
    BY <2>2, BeginStep DEF BeginEdit
  <2>3. ASSUME ListsInv, NEW p \in Workers, BeginManual(p) PROVE ListsInv'
    BY <2>3, BeginStep DEF BeginManual
  <2>4. QED
    BY <2>1, <2>2, <2>3, ListStep, PushStep, ReplaceStep, CommitStep, RollbackStep DEF WordsNext
<1>3. QED
  BY <1>1, <1>2, PTL DEF WordsSpec

\* One list is another, or a word off.
Near(a, b) == a = b \/ \E w \in Words : Differ(a, b) = {w}

\* The inductive strengthening of RefusedSyncsAreClose: no word is ever committed, so every
\* list is read from the same table.
RefusedInv ==
    ~accepted =>
        /\ payload # {} => Near(payload, active)
        /\ \A p \in Workers : edit[p].at \in {"listed", "pushed", "replaced"} =>
               Near(edit[p].list, active)

LEMMA ReadIsNear ==
    ASSUME ListsInv, NEW p \in Workers, InFlight(p)
    PROVE  Near(Read(p), active)
<1>1. Differ(active, active) = {}
  BY DEF Differ
<1>2. CASE Read(p) = active
  BY <1>2 DEF Near
<1>3. CASE Read(p) # active
  <2>1. Read(p) = With(active, edit[p]) /\ edit[p].word \in active \cup Words
    BY <1>3 DEF Read, With, ListsInv, InFlight
  <2>2. PICK w : w = edit[p].word
    OBVIOUS
  <2>3. w \in Words
    BY <2>1, <2>2 DEF ListsInv
  <2>4. Differ(Read(p), active) = {w}
    BY <1>3, <2>1, <2>2 DEF Differ, With
  <2>5. QED
    BY <2>3, <2>4 DEF Near
<1>4. QED
  BY <1>2, <1>3

LEMMA RefusedStep == ListsInv /\ RefusedInv /\ [WordsNext]_wordVars => RefusedInv'
<1> SUFFICES ASSUME ListsInv, RefusedInv, [WordsNext]_wordVars, ~accepted'
             PROVE  RefusedInv'
  BY DEF RefusedInv
<1> DEFINE Far(p) == edit[p].at \in {"listed", "pushed", "replaced"}
<1>1. /\ ~accepted /\ active' = active
      /\ payload' # {} => Near(payload', active)
      /\ \A p \in Workers : Far(p)' => Near(edit'[p].list, active)
  <2>1. CASE UNCHANGED wordVars
    BY <2>1 DEF wordVars, RefusedInv
  <2>2. ASSUME NEW p \in Workers, NEW w, NEW on, NEW sent, OpenEdit(p, w, on, sent)
        PROVE  <1>1!:
    <3>1. \A q \in Workers : Far(q)' => Far(q) /\ edit'[q].list = edit[q].list
      <4>1. ASSUME NEW q \in Workers, Far(q)' PROVE Far(q) /\ edit'[q].list = edit[q].list
        <5>1. edit[q] \in Edits
          BY DEF ListsInv
        <5>2. CASE q = p
          BY <2>2, <4>1, <5>2 DEF OpenEdit
        <5>3. CASE q # p
          <6>1. PICK b : edit'[q] = [edit[q] EXCEPT !.clean = b]
            BY <2>2, <5>3, Zenon DEF OpenEdit
          <6>2. edit'[q].at = edit[q].at /\ edit'[q].list = edit[q].list
            BY <5>1, <6>1 DEF Edits
          <6>3. QED
            BY <4>1, <6>2
        <5>4. QED
          BY <5>2, <5>3
      <4>2. QED
        BY <4>1
    <3>2. UNCHANGED <<active, payload, accepted>>
      BY <2>2 DEF OpenEdit
    <3>3. QED
      BY <3>1, <3>2 DEF RefusedInv
  <2>3. ASSUME NEW p \in Workers, ListWords(p) PROVE <1>1!:
    <3>1. edit'[p].list = Read(p) /\ \A q \in Workers : q # p => edit'[q] = edit[q]
      BY <2>3 DEF ListWords, ListsInv, Read, Edits
    <3>2. UNCHANGED <<active, payload, accepted>> /\ InFlight(p)
      BY <2>3 DEF ListWords, InFlight
    <3>3. QED
      BY <3>1, <3>2, ReadIsNear DEF RefusedInv
  <2>4. ASSUME NEW p \in Workers, PushToRedis(p) PROVE <1>1!:
    <3>1. edit'[p].list = edit[p].list /\ \A q \in Workers : q # p => edit'[q] = edit[q]
      BY <2>4 DEF PushToRedis, ListsInv, Edits
    <3>2. UNCHANGED <<active, accepted>> /\ payload' \in {payload, edit[p].list} /\ Far(p)
      BY <2>4 DEF PushToRedis
    <3>3. QED
      BY <3>1, <3>2 DEF RefusedInv
  <2>5. ASSUME NEW p \in Workers, ReplaceFilter(p) PROVE <1>1!:
    <3>1. edit'[p].list = edit[p].list /\ \A q \in Workers : q # p => edit'[q] = edit[q]
      BY <2>5 DEF ReplaceFilter, ListsInv, Edits
    <3>2. UNCHANGED <<active, payload, accepted>> /\ Far(p)
      BY <2>5 DEF ReplaceFilter
    <3>3. QED
      BY <3>1, <3>2 DEF RefusedInv
  <2>6. ASSUME NEW p \in Workers, CommitEdit(p) PROVE <1>1!:
    BY <2>6 DEF CommitEdit
  <2>7. ASSUME NEW p \in Workers, RollbackEdit(p) PROVE <1>1!:
    <3>1. edit'[p].at = "idle" /\ \A q \in Workers : q # p => edit'[q] = edit[q]
      BY <2>7 DEF RollbackEdit, ListsInv, Idle
    <3>2. UNCHANGED <<active, payload, accepted>>
      BY <2>7 DEF RollbackEdit
    <3>3. QED
      BY <3>1, <3>2 DEF RefusedInv
  <2>8. QED
    BY <2>1, <2>2, <2>3, <2>4, <2>5, <2>6, <2>7 DEF WordsNext, BeginEdit, BeginManual
<1>2. QED
  BY <1>1 DEF RefusedInv

\* However edits, flushed or not, syncs without one, failed writes to Redis, commits and
\* rollbacks of any number of processes interleave (sensitive_sync.py): a sync that was
\* alone, reached Redis and was committed leaves Redis, a filter and the next request with
\* the table's words but for its own unflushed one, and a refused one is a word off.
THEOREM ListsStaySound == WordsSpec => []ListsSound
<1>1. WordsSpec => []ListsInv
  BY ListsInvariant
<1>2. WordsInit => RefusedInv
  BY DEF WordsInit, RefusedInv, Idle
<1>3. ListsInv /\ RefusedInv => ListsSound
  <2>1. ListsInv => SyncReaches
    <3>1. SUFFICES ASSUME ListsInv, inSync, \A p \in Workers : edit[p].at = "idle"
                   PROVE  /\ Differ(payload, active) = unread
                          /\ payload # {} => \E p \in Workers : filter[p] = payload
                          /\ unread = {} =>
                                GuardWords = IF active = {} THEN DefaultWords ELSE active
      BY Zenon DEF SyncReaches
    <3>2. Agreement
      BY <3>1 DEF ListsInv, NoPush
    <3>3. unread = {} => payload = active
      BY <3>2 DEF Agreement, Differ
    <3>4. QED
      BY <3>2, <3>3 DEF Agreement, GuardWords, Reloaded
  <2>2. RefusedInv => RefusedSyncsAreClose
    BY DEF RefusedInv, RefusedSyncsAreClose, Near
  <2>3. QED
    BY <2>1, <2>2 DEF ListsSound
<1>4. QED
  BY <1>1, <1>2, <1>3, RefusedStep, PTL DEF WordsSpec

\* Words to look for.
Wordlist(words) == words \subseteq Seq(STRING) \ {<<>>}

\* How far find_first has come.
Scanning == [node : Seq(STRING), start : Nat, hit : Seq(Nat)]

\* The last n - m + 1 places of a segment that begins at m.
LEMMA SegmentGrows ==
    ASSUME NEW S, NEW t \in Seq(S), NEW m \in Nat \ {0}, NEW n \in 1..Len(t), m <= n
    PROVE  /\ Append(SubSeq(t, m, n - 1), t[n]) = SubSeq(t, m, n)
           /\ SubSeq(t, m, n) \in Seq(S) /\ Len(SubSeq(t, m, n)) = n - m + 1
<1>1. PICK k : k = n - 1
  OBVIOUS
<1>2. Len(t) \in Nat /\ t[n] \in S
  BY LenProperties, ElementOfSeq
<1>3. k \in 0..Len(t) /\ m <= k + 1 /\ k \in Nat
  BY <1>1, <1>2
<1>4. PICK u, v, w : u = SubSeq(t, m, k) /\ v = SubSeq(t, m, n) /\ w = Append(u, t[n])
  OBVIOUS
<1>5. /\ u \in Seq(S) /\ Len(u) = k - m + 1
      /\ \A i \in 1..k - m + 1 : u[i] = t[m + i - 1]
  BY <1>3, <1>4, SegmentPlaces
<1>6. n \in 0..Len(t) /\ m <= n + 1
  BY <1>2
<1>7. /\ v \in Seq(S) /\ Len(v) = n - m + 1
      /\ \A i \in 1..n - m + 1 : v[i] = t[m + i - 1]
  BY <1>4, <1>6, SegmentPlaces
<1>8. /\ w \in Seq(S) /\ Len(w) = Len(u) + 1 /\ w[Len(u) + 1] = t[n]
      /\ \A i \in 1..Len(u) : w[i] = u[i]
  BY <1>2, <1>4, <1>5, AppendProperties
<1>9. Len(w) = Len(v) /\ Len(v) \in Nat
  BY <1>1, <1>3, <1>5, <1>7, <1>8
<1>0. Len(u) = n - m /\ Len(u) = k - m + 1 /\ Len(v) = n - m + 1 /\ n \in Int /\ m \in Int
  BY <1>1, <1>2, <1>3, <1>5, <1>7
<1>10. ASSUME NEW i \in 1..Len(v) PROVE w[i] = v[i]
  <2>1. CASE i = Len(u) + 1
    <3>1. m + i - 1 = n /\ i \in 1..n - m + 1
      BY <1>1, <1>5, <1>7, <2>1
    <3>2. QED
      BY <1>7, <1>8, <2>1, <3>1
  <2>2. CASE i # Len(u) + 1
    <3>1. i \in 1..Len(u) /\ i \in 1..k - m + 1 /\ i \in 1..n - m + 1
      <4>1. PICK d : d = n - m
        OBVIOUS
      <4>2. i \in 1..d + 1 /\ i # d + 1 /\ d \in Int
        BY <1>0, <2>2, <4>1
      <4>3. i \in 1..d
        BY <4>2
      <4>4. QED
        BY <1>0, <4>1, <4>2, <4>3
    <3>2. QED
      BY <1>5, <1>7, <1>8, <3>1
  <2>3. QED
    BY <2>1, <2>2
<1>11. w = v
  BY <1>7, <1>8, <1>9, <1>10, SeqEqual
<1>12. QED
  BY <1>1, <1>4, <1>7, <1>11

LEMMA AdvanceType ==
    ASSUME NEW words, NEW s \in Scanning, NEW c \in STRING, NEW i \in Nat
    PROVE  Advance(words, s, c, i) \in Scanning
<1>1. s.node \in Seq(STRING) /\ s.start \in Nat /\ s.hit \in Seq(Nat)
  BY DEF Scanning
<1>2. PICK reached : reached = Append(s.node, c)
  OBVIOUS
<1>3. reached \in Seq(STRING)
  BY <1>1, <1>2, AppendProperties
<1>4. PICK from \in Nat : from = IF s.start = 0 THEN i ELSE s.start
  BY <1>1
<1>5. PICK hit \in Seq(Nat) : hit = IF reached \in words THEN <<from, i>> ELSE <<>>
  <2>1. <<from, i>> \in Seq(Nat) /\ <<>> \in Seq(Nat)
    BY <1>4
  <2>2. QED
    BY <2>1
<1>6. Advance(words, s, c, i) =
         CASE s.hit # <<>> -> s
           [] s.hit = <<>> /\ reached \notin Trie(words) -> Start
           [] OTHER -> [node |-> reached, start |-> from, hit |-> hit]
  BY <1>2, <1>4, <1>5 DEF Advance, Mismatch
<1>7. Start \in Scanning
  BY DEF Start, Scanning
<1>8. [node |-> reached, start |-> from, hit |-> hit] \in Scanning
  BY <1>3 DEF Scanning
<1>9. QED
  BY <1>6, <1>7, <1>8

\* The recursion of Scan has a solution, so Scan is one.
LEMMA ScanRecursion ==
    ASSUME NEW words, NEW t \in Seq(STRING)
    PROVE  /\ Scan(words, t)[0] = Start
           /\ \A n \in 0..Len(t) : Scan(words, t)[n] \in Scanning
           /\ \A n \in 1..Len(t) :
                 Scan(words, t)[n] = Advance(words, Scan(words, t)[n - 1], t[n], n)
<1> DEFINE N == Len(t)
           Body(f, n) == IF n = 0 THEN Start ELSE Advance(words, f[n - 1], t[n], n)
           Solves(f) == f = [n \in 0..N |-> Body(f, n)]
           step == [n \in 1..N |-> [v \in Scanning |-> Advance(words, v, t[n], n)]]
<1>1. N \in Nat /\ Start \in Scanning /\ \A n \in 1..N : t[n] \in STRING
  BY LenProperties, ElementOfSeq DEF Start, Scanning
<1>2. step \in [1..N -> [Scanning -> Scanning]]
  <2>1. ASSUME NEW n \in 1..N, NEW v \in Scanning PROVE Advance(words, v, t[n], n) \in Scanning
    <3>1. t[n] \in STRING /\ n \in Nat
      BY <1>1
    <3>2. QED
      BY <3>1, AdvanceType
  <2>2. QED
    BY <2>1
<1>3. \A n \in 1..N, v \in Scanning : step[n][v] = Advance(words, v, t[n], n)
  OBVIOUS
<1>4. Scan(words, t) = CHOOSE f : Solves(f)
  BY DEF Scan
<1> HIDE DEF step, N
<1>5. PICK f : Iterates(f, Scanning, Start, N, step)
  BY <1>1, <1>2, IterationExists
<1>6. /\ f \in [0..N -> Scanning] /\ f[0] = Start
      /\ \A n \in 1..N : f[n] = step[n][f[n - 1]]
  BY <1>5 DEF Iterates
<1>7. ASSUME NEW n \in 0..N PROVE f[n] = Body(f, n)
  <2>1. n # 0 => n \in 1..N /\ f[n - 1] \in Scanning
    BY <1>1, <1>6
  <2>2. CASE n = 0
    BY <1>6, <2>2
  <2>3. CASE n # 0
    <3>1. f[n] = step[n][f[n - 1]]
      BY <1>6, <2>1, <2>3
    <3>2. step[n][f[n - 1]] = Advance(words, f[n - 1], t[n], n)
      BY <1>3, <2>1, <2>3
    <3>3. QED
      BY <2>3, <3>1, <3>2
  <2>4. QED
    BY <2>2, <2>3
<1>8. Solves(f)
  <2> HIDE DEF Body
  <2>1. QED
    BY <1>6, <1>7
<1> HIDE DEF Solves
<1>9. Solves(Scan(words, t))
  BY <1>4, <1>8
<1>10. PICK c : c = Scan(words, t)
  OBVIOUS
<1>11. c = [n \in 0..N |-> Body(c, n)]
  BY <1>9, <1>10 DEF Solves
<1>12. c[0] = Start /\ \A n \in 1..N : c[n] = Advance(words, c[n - 1], t[n], n)
  BY <1>1, <1>11
<1>13. \A n \in 0..N : c[n] \in Scanning
  <2>1. ASSUME NEW n \in 1..N, c[n - 1] \in Scanning PROVE c[n] \in Scanning
    <3>1. t[n] \in STRING /\ n \in Nat
      BY <1>1
    <3>2. QED
      BY <1>12, <2>1, <3>1, AdvanceType
  <2>2. QED
    BY <1>1, <1>12, <2>1, IterationType
<1>14. QED
  BY <1>10, <1>12, <1>13 DEF N

\* What is true of the scan after n letters: the node is the part of a word that is being
\* read, and a hit is a word.
ScannedTo(words, t, n, s) ==
    /\ s.start = 0 => s.node = <<>>
    /\ s.start # 0 /\ s.hit = <<>> => s.start <= n /\ s.node = SubSeq(t, s.start, n)
    /\ s.hit # <<>> => \E a, b \in 1..Len(t) :
          a <= b /\ s.hit = <<a, b>> /\ SubSeq(t, a, b) \in words

LEMMA ScannedStep ==
    ASSUME NEW words, NEW t \in Seq(STRING), NEW n \in 1..Len(t), NEW k, k = n - 1,
           NEW s \in Scanning, ScannedTo(words, t, k, s)
    PROVE  ScannedTo(words, t, n, Advance(words, s, t[n], n))
<1>1. PICK r : r = Advance(words, s, t[n], n)
  OBVIOUS
<1>2. PICK reached, from : reached = Append(s.node, t[n]) /\ from = IF s.start = 0 THEN n ELSE s.start
  OBVIOUS
<1>3. r = CASE s.hit # <<>> -> s
            [] s.hit = <<>> /\ reached \notin Trie(words) -> Start
            [] OTHER -> [node |-> reached, start |-> from,
                         hit |-> IF reached \in words THEN <<from, n>> ELSE <<>>]
  BY <1>1, <1>2 DEF Advance, Mismatch
<1>4. Len(t) \in Nat /\ t[n] \in STRING /\ s.start \in Nat
  BY LenProperties, ElementOfSeq DEF Scanning
<1>5. CASE s.hit # <<>>
  <2>1. r = s
    BY <1>3, <1>5
  <2>2. QED
    BY <1>1, <1>5, <2>1 DEF ScannedTo
<1>6. CASE s.hit = <<>> /\ reached \notin Trie(words)
  <2>1. r = Start
    BY <1>3, <1>6
  <2>2. QED
    BY <1>1, <2>1 DEF ScannedTo, Start
<1>7. CASE s.hit = <<>> /\ reached \in Trie(words)
  <2>1. r = [node |-> reached, start |-> from, hit |-> IF reached \in words THEN <<from, n>> ELSE <<>>]
    BY <1>3, <1>7
  <2>2. from \in 1..n /\ from \in Nat \ {0} /\ from <= n
    BY <1>2, <1>4, <1>7 DEF ScannedTo
  <2>3. s.node = SubSeq(t, from, n - 1)
    <3>1. CASE s.start = 0
      <4>1. s.node = <<>> /\ from = n
        BY <1>2, <3>1 DEF ScannedTo
      <4>2. n - 1 \in 0..Len(t) /\ n <= (n - 1) + 1 /\ (n - 1) - n + 1 = 0
        BY <1>4
      <4>3. Len(SubSeq(t, n, n - 1)) = 0 /\ SubSeq(t, n, n - 1) \in Seq(STRING)
        <5>1. n \in Nat \ {0}
          BY <1>4
        <5>2. PICK j : j = n - 1
          OBVIOUS
        <5>3. /\ SubSeq(t, n, j) \in Seq(STRING) /\ Len(SubSeq(t, n, j)) = j - n + 1
          BY <4>2, <5>1, <5>2, SegmentPlaces
        <5>4. QED
          BY <4>2, <5>2, <5>3
      <4>4. QED
        BY <4>1, <4>3, EmptySeq
    <3>2. CASE s.start # 0
      BY <1>2, <1>7, <3>2 DEF ScannedTo
    <3>3. QED
      BY <3>1, <3>2
  <2>4. reached = SubSeq(t, from, n)
    <3>1. from \in Nat \ {0} /\ from <= n
      BY <2>2
    <3>2. Append(SubSeq(t, from, n - 1), t[n]) = SubSeq(t, from, n)
      BY <3>1, SegmentGrows
    <3>3. QED
      BY <1>2, <2>3, <3>2
  <2>5. reached \in words => r.hit = <<from, n>> /\ from \in 1..Len(t) /\ n \in 1..Len(t)
    BY <1>4, <2>1, <2>2
  <2>6. reached \notin words => r.hit = <<>>
    BY <2>1
  <2>7. r.start = from /\ r.node = reached /\ from # 0
    BY <2>1, <2>2
  <2>8. r.hit # <<>> => \E a, b \in 1..Len(t) :
           a <= b /\ r.hit = <<a, b>> /\ SubSeq(t, a, b) \in words
    BY <2>2, <2>4, <2>5, <2>6
  <2>9. QED
    BY <1>1, <2>2, <2>4, <2>7, <2>8 DEF ScannedTo
<1>8. QED
  BY <1>5, <1>6, <1>7

LEMMA ScannedThroughout ==
    ASSUME NEW words, NEW t \in Seq(STRING), NEW n \in 0..Len(t)
    PROVE  ScannedTo(words, t, n, Scan(words, t)[n])
<1>1. PICK c, N : c = Scan(words, t) /\ N = Len(t)
  OBVIOUS
<1>2. /\ N \in Nat /\ c[0] = Start /\ \A i \in 0..N : c[i] \in Scanning
      /\ \A i \in 1..N : c[i] = Advance(words, c[i - 1], t[i], i)
  BY <1>1, ScanRecursion, LenProperties
<1> DEFINE T == {i \in 0..N : ScannedTo(words, t, i, c[i])}
<1>3. 0 \in T
  BY <1>2 DEF ScannedTo, Start
<1>4. ASSUME NEW i \in 1..N, i - 1 \in T PROVE i \in T
  <2>1. PICK k : k = i - 1
    OBVIOUS
  <2>2. k \in 0..N /\ i \in 0..N /\ i \in 1..Len(t)
    BY <1>1, <1>2, <2>1
  <2>3. PICK s \in Scanning : s = c[k]
    BY <1>2, <2>2
  <2>4. ScannedTo(words, t, k, s)
    BY <1>4, <2>1, <2>3
  <2>5. c[i] = Advance(words, s, t[i], i)
    BY <1>2, <2>1, <2>3
  <2>6. ScannedTo(words, t, i, Advance(words, s, t[i], i))
    BY <2>1, <2>2, <2>3, <2>4, ScannedStep
  <2>7. QED
    BY <2>2, <2>5, <2>6
<1> HIDE DEF T
<1>5. 0..N \subseteq T
  BY <1>2, <1>3, <1>4, UpToInduction
<1>6. n \in T
  BY <1>1, <1>5
<1>7. QED
  BY <1>1, <1>6 DEF T

\* What find_first points at.
LEMMA FirstHit ==
    ASSUME NEW words, NEW t \in Seq(STRING), FindFirst(words, t) # <<>>
    PROVE  \E a, b \in 1..Len(t) :
              a <= b /\ FindFirst(words, t) = <<a, b>> /\ SubSeq(t, a, b) \in words
<1>1. PICK n, s : n = Len(t) /\ s = Scan(words, t)[n]
  OBVIOUS
<1>2. n \in 0..Len(t)
  BY <1>1, LenProperties
<1>3. ScannedTo(words, t, n, s)
  BY <1>1, <1>2, ScannedThroughout
<1>4. FindFirst(words, t) = s.hit
  BY <1>1 DEF FindFirst
<1>5. QED
  BY <1>3, <1>4 DEF ScannedTo

\* The nodes of the trie are the beginnings of the words.
LEMMA TrieNodes ==
    ASSUME NEW words, Wordlist(words)
    PROVE  /\ \A w \in words : \A k \in 0..Len(w) : SubSeq(w, 1, k) \in Trie(words)
           /\ \A c : c \notin Letters(words) =>
                 \A s \in Seq(STRING) : c \in STRING => Append(s, c) \notin Trie(words)
<1>1. \A w \in words : \A k \in 0..Len(w) : SubSeq(w, 1, k) \in Trie(words)
  BY DEF Trie
<1>2. ASSUME NEW c, c \notin Letters(words), NEW s \in Seq(STRING), c \in STRING,
             Append(s, c) \in Trie(words)
      PROVE  FALSE
  <2>1. PICK w \in words : \E k \in 0..Len(w) : Append(s, c) = SubSeq(w, 1, k)
    BY <1>2 DEF Trie
  <2>0. PICK k \in 0..Len(w) : Append(s, c) = SubSeq(w, 1, k)
    BY <2>1
  <2>2. w \in Seq(STRING) /\ Len(w) \in Nat /\ Range(w) = {w[i] : i \in 1..Len(w)}
    BY LenProperties, RangeEquality DEF Wordlist
  <2>3. PICK m, n, u : m = 1 /\ n = Len(s) + 1 /\ u = SubSeq(w, m, k)
    OBVIOUS
  <2>4. m \in Nat \ {0} /\ m <= k + 1 /\ k \in Nat
    BY <2>2, <2>3
  <2>5. /\ Len(u) = k - m + 1
        /\ \A i \in 1..k - m + 1 : u[i] = w[m + i - 1]
    BY <2>2, <2>3, <2>4, SegmentPlaces
  <2>6. u = Append(s, c) /\ n \in Nat \ {0} /\ Len(u) = n /\ u[n] = c
    <3>1. Len(s) \in Nat
      BY LenProperties
    <3>2. Len(Append(s, c)) = Len(s) + 1 /\ Append(s, c)[Len(s) + 1] = c
      BY <1>2, AppendProperties
    <3>3. QED
      BY <2>0, <2>3, <3>1, <3>2
  <2>7. n = k /\ n \in 1..k - m + 1 /\ m + n - 1 = n /\ n \in 1..Len(w)
    BY <2>2, <2>3, <2>4, <2>5, <2>6
  <2>8. c = w[n]
    BY <2>5, <2>6, <2>7
  <2>9. c \in Range(w)
    BY <2>2, <2>7, <2>8
  <2>10. QED
    BY <1>2, <2>9 DEF Letters
<1>3. QED
  BY <1>1, <1>2

\* A part of a text that is a word: its beginnings are the word's.
LEMMA OccurrencePlaces ==
    ASSUME NEW w \in Seq(STRING) \ {<<>>}, NEW t \in Seq(STRING), NEW i \in 1..Len(t), Occurs(w, t, i),
           NEW k \in 0..Len(w)
    PROVE  /\ SubSeq(w, 1, k) = SubSeq(t, i, i + k - 1)
           /\ i + k - 1 <= Len(t) /\ Len(w) \in Nat \ {0}
<1>1. Len(w) \in Nat \ {0} /\ Len(t) \in Nat
  BY LenProperties, EmptySeq
<1>2. PICK j, e, m : j = i + Len(w) - 1 /\ e = i + k - 1 /\ m = 1
  OBVIOUS
<1>3. j <= Len(t) /\ SubSeq(t, i, j) = w
  BY <1>2 DEF Occurs
<1>4. /\ j \in 0..Len(t) /\ e \in 0..Len(t) /\ i \in Nat \ {0} /\ i <= j + 1 /\ i <= e + 1
      /\ m \in Nat \ {0} /\ m <= k + 1
  BY <1>1, <1>2, <1>3
<1>5. PICK u, v : u = SubSeq(w, m, k) /\ v = SubSeq(t, i, e)
  OBVIOUS
<1>6. /\ u \in Seq(STRING) /\ Len(u) = k - m + 1
      /\ \A x \in 1..k - m + 1 : u[x] = w[m + x - 1]
  <2>1. w \in Seq(STRING) /\ m \in Nat \ {0} /\ k \in 0..Len(w) /\ m <= k + 1
    BY <1>4
  <2>2. QED
    BY <1>5, <2>1, SegmentPlaces
<1>7. /\ v \in Seq(STRING) /\ Len(v) = e - i + 1
      /\ \A x \in 1..e - i + 1 : v[x] = t[i + x - 1]
  <2>1. i \in Nat \ {0} /\ e \in 0..Len(t) /\ i <= e + 1
    BY <1>4
  <2>2. QED
    BY <1>5, <2>1, SegmentPlaces
<1>8. \A x \in 1..j - i + 1 : w[x] = t[i + x - 1]
  <2>1. i \in Nat \ {0} /\ j \in 0..Len(t) /\ i <= j + 1
    BY <1>4
  <2>2. QED
    BY <1>3, <2>1, SegmentPlaces
<1>9. Len(u) = k /\ Len(v) = k /\ j - i + 1 = Len(w)
  BY <1>1, <1>2, <1>6, <1>7
<1>10. ASSUME NEW x \in 1..k PROVE u[x] = v[x]
  <2>1. /\ x \in 1..k - m + 1 /\ x \in 1..e - i + 1 /\ x \in 1..j - i + 1
        /\ m + x - 1 = x
    BY <1>1, <1>2, <1>9
  <2>2. QED
    BY <1>6, <1>7, <1>8, <2>1
<1>11. u = v
  <2>1. Len(u) = Len(v) /\ \A x \in 1..Len(u) : u[x] = v[x]
    BY <1>9, <1>10
  <2>2. QED
    BY <1>6, <1>7, <2>1, SeqEqual
<1>12. QED
  BY <1>1, <1>2, <1>4, <1>5, <1>11

\* Reading a word that stands at i: the scan was at the root before it, and is inside the
\* word while it reads it, unless it has hit something before.
ReadTo(t, i, k, s) ==
    s.hit # <<>> \/ (s.node = SubSeq(t, i, i + k - 1) /\ s.start = IF k = 0 THEN 0 ELSE i)

LEMMA ReadStep ==
    ASSUME NEW words, Wordlist(words), NEW w \in words, NEW t \in Seq(STRING),
           NEW i \in 1..Len(t), Occurs(w, t, i), NEW k \in 1..Len(w), NEW j, j = k - 1,
           NEW n, n = i + k - 1, NEW s \in Scanning, ReadTo(t, i, j, s)
    PROVE  /\ ReadTo(t, i, k, Advance(words, s, t[n], n))
           /\ k = Len(w) => Advance(words, s, t[n], n).hit # <<>>
<1>1. PICK r : r = Advance(words, s, t[n], n)
  OBVIOUS
<1>2. w \in Seq(STRING) \ {<<>>} /\ Len(w) \in Nat /\ Len(t) \in Nat
  BY LenProperties DEF Wordlist
<1>3. j \in 0..Len(w) /\ k \in 0..Len(w) /\ j \in Nat /\ k \in Nat
  BY <1>2
<1>4. /\ SubSeq(w, 1, k) = SubSeq(t, i, n) /\ n <= Len(t)
  BY <1>2, <1>3, OccurrencePlaces
<1>5. n \in 1..Len(t) /\ i \in Nat \ {0} /\ i <= n /\ i + j - 1 = n - 1 /\ n \in Nat
  BY <1>2, <1>3, <1>4
<1>6. Append(SubSeq(t, i, n - 1), t[n]) = SubSeq(t, i, n)
  BY <1>5, SegmentGrows
<1>7. PICK reached, from : reached = Append(s.node, t[n]) /\ from = IF s.start = 0 THEN n ELSE s.start
  OBVIOUS
<1>8. r = CASE s.hit # <<>> -> s
            [] s.hit = <<>> /\ reached \notin Trie(words) -> Start
            [] OTHER -> [node |-> reached, start |-> from,
                         hit |-> IF reached \in words THEN <<from, n>> ELSE <<>>]
  BY <1>1, <1>7 DEF Advance, Mismatch
<1>9. CASE s.hit # <<>>
  <2>1. r = s
    BY <1>8, <1>9
  <2>2. QED
    BY <1>1, <1>9, <2>1 DEF ReadTo
<1>10. CASE s.hit = <<>>
  <2>1. s.node = SubSeq(t, i, n - 1) /\ s.start = IF j = 0 THEN 0 ELSE i
    BY <1>5, <1>10 DEF ReadTo
  <2>2. reached = SubSeq(t, i, n)
    BY <1>6, <1>7, <2>1
  <2>3. from = i
    <3>1. CASE j = 0
      BY <1>5, <1>7, <2>1, <3>1
    <3>2. CASE j # 0
      BY <1>5, <1>7, <2>1, <3>2
    <3>3. QED
      BY <3>1, <3>2
  <2>4. reached \in Trie(words)
    BY <1>3, <1>4, <2>2, TrieNodes
  <2>5. r = [node |-> reached, start |-> from, hit |-> IF reached \in words THEN <<from, n>> ELSE <<>>]
    BY <1>8, <1>10, <2>4
  <2>6. r.node = SubSeq(t, i, n) /\ r.start = i
    BY <2>2, <2>3, <2>5
  <2>7. ReadTo(t, i, k, r)
    BY <1>3, <2>6 DEF ReadTo
  <2>8. ASSUME k = Len(w) PROVE r.hit # <<>>
    <3>1. SubSeq(w, 1, k) = w
      <4>1. PICK m : m = 1
        OBVIOUS
      <4>2. PICK u : u = SubSeq(w, m, k)
        OBVIOUS
      <4>3. m \in Nat \ {0} /\ m <= k + 1 /\ k \in 0..Len(w)
        BY <1>3, <4>1
      <4>4. /\ u \in Seq(STRING) /\ Len(u) = k - m + 1
            /\ \A x \in 1..k - m + 1 : u[x] = w[m + x - 1]
        BY <1>2, <4>2, <4>3, SegmentPlaces
      <4>5. Len(u) = Len(w) /\ \A x \in 1..Len(u) : u[x] = w[x]
        BY <1>2, <2>8, <4>1, <4>4
      <4>6. u = w
        BY <1>2, <4>4, <4>5, SeqEqual
      <4>7. QED
        BY <4>1, <4>2, <4>6
    <3>2. reached = w
      BY <1>4, <2>2, <3>1
    <3>3. r.hit = <<from, n>>
      BY <2>5, <3>2
    <3>4. QED
      BY <3>3
  <2>9. QED
    BY <1>1, <2>7, <2>8
<1>11. QED
  BY <1>9, <1>10

\* Before a word that stands alone the scan is at the root.
LEMMA RootBefore ==
    ASSUME NEW words, Wordlist(words), NEW t \in Seq(STRING), NEW i \in 1..Len(t),
           i = 1 \/ t[i - 1] \notin Letters(words), NEW b, b = i - 1
    PROVE  Scan(words, t)[b].hit # <<>> \/ Scan(words, t)[b] = Start
<1>1. PICK c, N : c = Scan(words, t) /\ N = Len(t)
  OBVIOUS
<1>2. /\ N \in Nat /\ c[0] = Start /\ \A n \in 0..N : c[n] \in Scanning
      /\ \A n \in 1..N : c[n] = Advance(words, c[n - 1], t[n], n)
      /\ \A n \in 1..N : t[n] \in STRING
  BY <1>1, ScanRecursion, LenProperties, ElementOfSeq
<1>3. CASE b = 0
  BY <1>1, <1>2, <1>3
<1>4. CASE b # 0
  <2>1. b \in 1..N /\ b - 1 \in 0..N /\ t[b] \notin Letters(words)
    BY <1>1, <1>2, <1>4
  <2>2. PICK s \in Scanning : s = c[b - 1]
    BY <1>2, <2>1
  <2>3. c[b] = Advance(words, s, t[b], b) /\ t[b] \in STRING /\ s.node \in Seq(STRING)
    BY <1>2, <2>1, <2>2 DEF Scanning
  <2>4. Append(s.node, t[b]) \notin Trie(words)
    BY <2>1, <2>3, TrieNodes
  <2>5. c[b] = IF s.hit # <<>> THEN s ELSE Start
    BY <2>3, <2>4 DEF Advance, Mismatch
  <2>6. QED
    BY <1>1, <2>5
<1>5. QED
  BY <1>3, <1>4

\* A hit ends the scan.
LEMMA HitsStay ==
    ASSUME NEW words, NEW t \in Seq(STRING), NEW n \in 0..Len(t), Scan(words, t)[n].hit # <<>>
    PROVE  FindFirst(words, t) # <<>>
<1>1. PICK c, N : c = Scan(words, t) /\ N = Len(t)
  OBVIOUS
<1>2. /\ N \in Nat /\ \A i \in 1..N : c[i] = Advance(words, c[i - 1], t[i], i)
  BY <1>1, ScanRecursion, LenProperties
<1> DEFINE T == {i \in 0..N : i >= n => c[i].hit # <<>>}
<1>3. 0 \in T
  BY <1>1, <1>2
<1>4. ASSUME NEW i \in 1..N, i - 1 \in T PROVE i \in T
  <2>1. CASE i = n
    BY <1>1, <2>1
  <2>2. CASE i # n
    <3>1. i >= n => c[i - 1].hit # <<>>
      BY <1>1, <1>4, <2>2
    <3>2. i >= n => c[i] = c[i - 1]
      BY <1>2, <3>1 DEF Advance
    <3>3. QED
      BY <3>1, <3>2
  <2>3. QED
    BY <2>1, <2>2
<1> HIDE DEF T
<1>5. 0..N \subseteq T
  BY <1>2, <1>3, <1>4, UpToInduction
<1>6. N \in T
  BY <1>2, <1>5
<1>7. c[N].hit # <<>>
  BY <1>1, <1>6 DEF T
<1>8. QED
  BY <1>1, <1>7 DEF FindFirst

\* A word that stands alone is found, or something before it.
LEMMA IsolatedFound ==
    ASSUME NEW words, Wordlist(words), NEW w \in words, NEW t \in Seq(STRING),
           NEW i \in 1..Len(t), Occurs(w, t, i), i = 1 \/ t[i - 1] \notin Letters(words)
    PROVE  FindFirst(words, t) # <<>>
<1>1. PICK c, N, L, b : c = Scan(words, t) /\ N = Len(t) /\ L = Len(w) /\ b = i - 1
  OBVIOUS
<1>2. /\ N \in Nat /\ \A n \in 0..N : c[n] \in Scanning
      /\ \A n \in 1..N : c[n] = Advance(words, c[n - 1], t[n], n)
  BY <1>1, ScanRecursion, LenProperties
<1>3. L \in Nat \ {0} /\ w \in Seq(STRING) \ {<<>>}
  BY <1>1, LenProperties, EmptySeq DEF Wordlist
<1>4. \A k \in 0..L : b + k <= N /\ b + k \in 0..N
  <2>1. ASSUME NEW k \in 0..L PROVE b + k <= N /\ b + k \in 0..N
    <3>1. i + k - 1 <= N
      BY <1>1, <1>3, OccurrencePlaces
    <3>2. QED
      BY <1>1, <1>2, <1>3, <3>1
  <2>2. QED
    BY <2>1
<1> DEFINE T == {k \in 0..L : ReadTo(t, i, k, c[b + k])}
<1>5. 0 \in T
  <2>1. c[b].hit # <<>> \/ c[b] = Start
    BY <1>1, RootBefore
  <2>2. SubSeq(t, i, i + 0 - 1) = <<>>
    <3>1. PICK j : j = i + 0 - 1
      OBVIOUS
    <3>2. i \in Nat \ {0} /\ j \in 0..Len(t) /\ i <= j + 1 /\ j - i + 1 = 0
      BY <1>1, <1>2, <3>1
    <3>3. PICK u : u = SubSeq(t, i, j)
      OBVIOUS
    <3>4. u \in Seq(STRING) /\ Len(u) = j - i + 1
      BY <3>2, <3>3, SegmentPlaces
    <3>5. u = <<>>
      BY <3>2, <3>4, EmptySeq
    <3>6. QED
      BY <3>1, <3>3, <3>5
  <2>3. b + 0 = b /\ 0 \in 0..L
    BY <1>1, <1>2, <1>3
  <2>4. ReadTo(t, i, 0, c[b])
    <3>1. PICK u, x : u = SubSeq(t, i, i + 0 - 1) /\ x = c[b]
      OBVIOUS
    <3>2. x.hit # <<>> \/ (x.node = <<>> /\ x.start = 0)
      BY <2>1, <3>1 DEF Start
    <3>3. u = <<>>
      BY <2>2, <3>1
    <3>4. x.hit # <<>> \/ (x.node = u /\ x.start = IF 0 = 0 THEN 0 ELSE i)
      BY <3>2, <3>3
    <3>5. QED
      BY <3>1, <3>4 DEF ReadTo
  <2>5. QED
    BY <2>3, <2>4
<1>6. ASSUME NEW k \in 1..L, k - 1 \in T
      PROVE  k \in T /\ (k = L => c[b + k].hit # <<>>)
  <2>1. PICK j, n : j = k - 1 /\ n = i + k - 1
    OBVIOUS
  <2>2. j \in 0..L /\ k \in 0..L /\ n = b + k /\ n - 1 = b + j
    BY <1>1, <1>2, <1>3, <2>1
  <2>3. n \in 1..N /\ b + j \in 0..N
    BY <1>1, <1>2, <1>3, <1>4, <2>1, <2>2
  <2>4. PICK s \in Scanning : s = c[b + j]
    BY <1>2, <2>3
  <2>5. ReadTo(t, i, j, s)
    BY <1>6, <2>1, <2>4
  <2>6. c[n] = Advance(words, s, t[n], n)
    BY <1>2, <2>2, <2>3, <2>4
  <2>7. k \in 1..Len(w)
    BY <1>1
  <2>8. /\ ReadTo(t, i, k, Advance(words, s, t[n], n))
        /\ k = Len(w) => Advance(words, s, t[n], n).hit # <<>>
    BY <2>1, <2>5, <2>7, ReadStep
  <2>9. ReadTo(t, i, k, c[n]) /\ (k = L => c[n].hit # <<>>)
    BY <1>1, <2>6, <2>8
  <2>10. QED
    BY <2>2, <2>9
<1> HIDE DEF T
<1>7. 0..L \subseteq T
  BY <1>3, <1>5, <1>6, UpToInduction
<1>8. L \in 1..L /\ L - 1 \in T
  <2>1. L \in 1..L /\ L - 1 \in 0..L
    BY <1>3
  <2>2. QED
    BY <1>7, <2>1
<1>9. c[b + L].hit # <<>>
  BY <1>6, <1>8
<1>10. b + L \in 0..N
  BY <1>3, <1>4
<1>11. QED
  BY <1>1, <1>9, <1>10, HitsStay

\* How far find_all has come.
Searching == [cursor : Nat, hits : SUBSET Seq(STRING)]

\* The words of a list that a text holds.
HeldBy(words, t) == {w \in words : \E i \in 1..Len(t) : Occurs(w, t, i)}

\* A search from the i-th letter on finds a word that the text holds.
LEMMA SearchFinds ==
    ASSUME NEW words, Wordlist(words), NEW t \in Seq(STRING), NEW i \in 1..Len(t),
           NEW m, m = FindFirst(words, SubSeq(t, i, Len(t))), m # <<>>
    PROVE  /\ m[1] \in Nat \ {0}
           /\ SubSeq(t, i + m[1] - 1, i + m[2] - 1) \in HeldBy(words, t)
<1>1. PICK N, u : N = Len(t) /\ u = SubSeq(t, i, N)
  OBVIOUS
<1>2. N \in Nat /\ i \in Nat \ {0} /\ N \in 0..Len(t) /\ i <= N + 1
  BY <1>1, LenProperties
<1>3. /\ u \in Seq(STRING) /\ Len(u) = N - i + 1
      /\ \A x \in 1..N - i + 1 : u[x] = t[i + x - 1]
  BY <1>1, <1>2, SegmentPlaces
<1>4. PICK a, b \in 1..Len(u) : a <= b /\ m = <<a, b>> /\ SubSeq(u, a, b) \in words
  <2>1. m = FindFirst(words, u)
    BY <1>1
  <2>2. PICK v : v = u
    OBVIOUS
  <2>3. v \in Seq(STRING) /\ FindFirst(words, v) # <<>>
    BY <1>3, <2>1, <2>2
  <2>4. \E a, b \in 1..Len(v) :
           a <= b /\ FindFirst(words, v) = <<a, b>> /\ SubSeq(v, a, b) \in words
    BY <2>3, FirstHit
  <2>5. QED
    BY <2>1, <2>2, <2>4
<1>5. m[1] = a /\ m[2] = b /\ a \in Nat \ {0} /\ b \in Nat
  BY <1>2, <1>3, <1>4
<1>6. PICK f, l : f = i + a - 1 /\ l = i + b - 1
  OBVIOUS
<1>7. /\ f \in 1..N /\ l \in 0..Len(t) /\ f <= l + 1 /\ f \in Nat \ {0} /\ l <= N
      /\ b \in 0..Len(u) /\ a <= b + 1 /\ l - f + 1 = b - a + 1
  BY <1>1, <1>2, <1>3, <1>4, <1>6
<1>8. PICK v, w : v = SubSeq(u, a, b) /\ w = SubSeq(t, f, l)
  OBVIOUS
<1>9. /\ v \in Seq(STRING) /\ Len(v) = b - a + 1
      /\ \A x \in 1..b - a + 1 : v[x] = u[a + x - 1]
  <2>1. u \in Seq(STRING) /\ a \in Nat \ {0} /\ b \in 0..Len(u) /\ a <= b + 1
    BY <1>3, <1>5, <1>7
  <2>2. QED
    BY <1>8, <2>1, SegmentPlaces
<1>10. /\ w \in Seq(STRING) /\ Len(w) = l - f + 1
       /\ \A x \in 1..l - f + 1 : w[x] = t[f + x - 1]
  <2>1. f \in Nat \ {0} /\ l \in 0..Len(t) /\ f <= l + 1
    BY <1>7
  <2>2. QED
    BY <1>8, <2>1, SegmentPlaces
<1>11. ASSUME NEW x \in 1..b - a + 1 PROVE v[x] = w[x]
  <2>1. PICK y : y = a + x - 1
    OBVIOUS
  <2>2. y \in 1..N - i + 1 /\ i + y - 1 = f + x - 1 /\ x \in 1..l - f + 1
    BY <1>2, <1>3, <1>4, <1>6, <1>7, <2>1
  <2>3. v[x] = u[y] /\ u[y] = t[i + y - 1]
    BY <1>3, <1>9, <2>1, <2>2
  <2>4. QED
    BY <1>10, <2>2, <2>3
<1>12. v = w
  <2>1. Len(v) = Len(w) /\ \A x \in 1..Len(v) : v[x] = w[x]
    BY <1>7, <1>9, <1>10, <1>11
  <2>2. QED
    BY <1>9, <1>10, <2>1, SeqEqual
<1>13. w \in words
  BY <1>4, <1>8, <1>12
<1>14. Occurs(w, t, f)
  <2>1. f + Len(w) - 1 = l
    BY <1>5, <1>6, <1>7, <1>10
  <2>2. QED
    BY <1>1, <1>7, <1>8, <2>1 DEF Occurs
<1>15. w \in HeldBy(words, t)
  BY <1>1, <1>7, <1>13, <1>14 DEF HeldBy
<1>16. QED
  BY <1>5, <1>6, <1>8, <1>15

LEMMA SearchType ==
    ASSUME NEW words, Wordlist(words), NEW t \in Seq(STRING), NEW i \in 1..Len(t),
           NEW s \in Searching
    PROVE  /\ Search(words, t, s, i) \in Searching
           /\ s.hits \subseteq HeldBy(words, t) => Search(words, t, s, i).hits \subseteq HeldBy(words, t)
           /\ s.hits # {} => Search(words, t, s, i).hits # {}
<1>1. PICK m, r : m = FindFirst(words, SubSeq(t, i, Len(t))) /\ r = Search(words, t, s, i)
  OBVIOUS
<1>2. s.cursor \in Nat /\ s.hits \subseteq Seq(STRING) /\ i \in Nat
  BY DEF Searching
<1>3. r = IF s.cursor # i THEN s
          ELSE IF m = <<>> THEN [s EXCEPT !.cursor = 0]
          ELSE [cursor |-> i + m[1],
                hits |-> s.hits \cup {SubSeq(t, i + m[1] - 1, i + m[2] - 1)}]
  BY <1>1 DEF Search
<1>4. CASE s.cursor # i \/ m = <<>>
  <2>1. r \in Searching /\ r.hits = s.hits
    BY <1>2, <1>3, <1>4 DEF Searching
  <2>2. QED
    BY <1>1, <2>1
<1>5. CASE s.cursor = i /\ m # <<>>
  <2>1. PICK w : w = SubSeq(t, i + m[1] - 1, i + m[2] - 1)
    OBVIOUS
  <2>2. m[1] \in Nat \ {0} /\ w \in HeldBy(words, t)
    BY <1>1, <1>5, <2>1, SearchFinds
  <2>3. w \in Seq(STRING)
    BY <2>2 DEF HeldBy, Wordlist
  <2>4. r = [cursor |-> i + m[1], hits |-> s.hits \cup {w}]
    BY <1>3, <1>5, <2>1
  <2>5. r \in Searching
    BY <1>2, <2>2, <2>3, <2>4 DEF Searching
  <2>6. r.hits = s.hits \cup {w}
    BY <2>4
  <2>7. QED
    BY <1>1, <2>2, <2>5, <2>6
<1>6. QED
  BY <1>4, <1>5

\* The recursion of Searches has a solution, so Searches is one.
LEMMA SearchesRecursion ==
    ASSUME NEW words, Wordlist(words), NEW t \in Seq(STRING)
    PROVE  /\ Searches(words, t)[0] = [cursor |-> 1, hits |-> {}]
           /\ \A n \in 0..Len(t) : Searches(words, t)[n] \in Searching
           /\ \A n \in 1..Len(t) :
                 Searches(words, t)[n] = Search(words, t, Searches(words, t)[n - 1], n)
<1> DEFINE N == Len(t)
           Begin == [cursor |-> 1, hits |-> {}]
           Body(f, n) == IF n = 0 THEN Begin ELSE Search(words, t, f[n - 1], n)
           Solves(f) == f = [n \in 0..N |-> Body(f, n)]
           step == [n \in 1..N |-> [v \in Searching |-> Search(words, t, v, n)]]
<1>1. N \in Nat /\ Begin \in Searching
  BY LenProperties DEF Searching
<1>2. step \in [1..N -> [Searching -> Searching]]
  BY SearchType
<1>3. \A n \in 1..N, v \in Searching : step[n][v] = Search(words, t, v, n)
  OBVIOUS
<1>4. Searches(words, t) = CHOOSE f : Solves(f)
  BY DEF Searches
<1>0. N = Len(t)
  OBVIOUS
<1> HIDE DEF step, N, Begin
<1>5. PICK f : Iterates(f, Searching, Begin, N, step)
  BY <1>1, <1>2, IterationExists
<1>6. /\ f \in [0..N -> Searching] /\ f[0] = Begin
      /\ \A n \in 1..N : f[n] = step[n][f[n - 1]]
  BY <1>5 DEF Iterates
<1>7. ASSUME NEW n \in 0..N PROVE f[n] = Body(f, n)
  <2>1. n # 0 => n \in 1..N /\ f[n - 1] \in Searching
    BY <1>1, <1>6
  <2>2. CASE n = 0
    BY <1>6, <2>2
  <2>3. CASE n # 0
    <3>1. f[n] = step[n][f[n - 1]]
      BY <1>6, <2>1, <2>3
    <3>2. step[n][f[n - 1]] = Search(words, t, f[n - 1], n)
      BY <1>3, <2>1, <2>3
    <3>3. QED
      BY <2>3, <3>1, <3>2
  <2>4. QED
    BY <2>2, <2>3
<1>8. Solves(f)
  <2> HIDE DEF Body
  <2>1. QED
    BY <1>6, <1>7
<1> HIDE DEF Solves
<1>9. Solves(Searches(words, t))
  BY <1>4, <1>8
<1>10. PICK c : c = Searches(words, t)
  OBVIOUS
<1>11. c = [n \in 0..N |-> Body(c, n)]
  BY <1>9, <1>10 DEF Solves
<1>12. c[0] = Begin /\ \A n \in 1..N : c[n] = Search(words, t, c[n - 1], n)
  BY <1>1, <1>11
<1>13. \A n \in 0..N : c[n] \in Searching
  <2>1. ASSUME NEW n \in 1..N, c[n - 1] \in Searching PROVE c[n] \in Searching
    BY <1>0, <1>12, <2>1, SearchType
  <2>2. QED
    BY <1>1, <1>12, <2>1, IterationType
<1>14. QED
  BY <1>10, <1>12, <1>13 DEF N, Begin

\* find_all finds words that the text holds, and something if find_first does.
LEMMA AllHits ==
    ASSUME NEW words, Wordlist(words), NEW t \in Seq(STRING)
    PROVE  /\ FindAll(words, t) \subseteq HeldBy(words, t)
           /\ FindAll(words, t) # {} <=> Refuses(words, t)
<1>1. PICK c, N, m : c = Searches(words, t) /\ N = Len(t) /\ m = FindFirst(words, t)
  OBVIOUS
<1>2. /\ N \in Nat /\ c[0] = [cursor |-> 1, hits |-> {}]
      /\ \A n \in 0..N : c[n] \in Searching
      /\ \A n \in 1..N : c[n] = Search(words, t, c[n - 1], n)
  BY <1>1, SearchesRecursion, LenProperties
<1>3. CASE N = 0
  <2>1. t = <<>>
    BY <1>1, <1>3, EmptySeq
  <2>2. c[N].hits = {}
    BY <1>2, <1>3
  <2>3. FindAll(words, t) = {}
    BY <1>1, <2>2 DEF FindAll
  <2>4. QED
    BY <2>1, <2>3 DEF Refuses
<1>4. CASE N # 0
  <2>1. 1 \in 1..N /\ 1 - 1 = 0 /\ t # <<>> /\ 1 \in 1..Len(t)
    BY <1>1, <1>2, <1>4, EmptySeq
  <2>2. SubSeq(t, 1, Len(t)) = t
    <3>1. PICK i, u : i = 1 /\ u = SubSeq(t, i, N)
      OBVIOUS
    <3>2. i \in Nat \ {0} /\ N \in 0..Len(t) /\ i <= N + 1
      BY <1>1, <1>2, <3>1
    <3>3. /\ u \in Seq(STRING) /\ Len(u) = N - i + 1
          /\ \A x \in 1..N - i + 1 : u[x] = t[i + x - 1]
      BY <1>1, <3>1, <3>2, SegmentPlaces
    <3>4. Len(u) = Len(t) /\ \A x \in 1..Len(u) : u[x] = t[x]
      BY <1>1, <1>2, <3>1, <3>3
    <3>5. u = t
      BY <3>3, <3>4, SeqEqual
    <3>6. QED
      BY <1>1, <3>1, <3>5
  <2>3. c[1] = Search(words, t, [cursor |-> 1, hits |-> {}], 1)
    BY <1>2, <2>1
  <2>4. c[1] = IF m = <<>> THEN [cursor |-> 0, hits |-> {}]
               ELSE [cursor |-> 1 + m[1], hits |-> {SubSeq(t, 1 + m[1] - 1, 1 + m[2] - 1)}]
    BY <1>1, <2>2, <2>3 DEF Search
  <2> DEFINE T == {n \in 0..N : /\ c[n].hits \subseteq HeldBy(words, t)
                                /\ n >= 1 /\ m # <<>> => c[n].hits # {}
                                /\ n >= 1 /\ m = <<>> => c[n].cursor = 0
                                /\ m = <<>> => c[n].hits = {}}
  <2>5. 0 \in T
    BY <1>2
  <2>6. ASSUME NEW n \in 1..N, n - 1 \in T PROVE n \in T
    <3>1. PICK k : k = n - 1
      OBVIOUS
    <3>2. k \in 0..N /\ n \in 0..N /\ n \in 1..Len(t) /\ n >= 1
      BY <1>1, <1>2, <3>1
    <3>3. PICK s \in Searching : s = c[k]
      BY <1>2, <3>2
    <3>4. c[n] = Search(words, t, s, n)
      BY <1>2, <3>1, <3>3
    <3>5. s.hits \subseteq HeldBy(words, t)
      BY <2>6, <3>1, <3>3
    <3>6. c[n].hits \subseteq HeldBy(words, t)
      BY <3>2, <3>3, <3>4, <3>5, SearchType
    <3>7. ASSUME m # <<>> PROVE c[n].hits # {}
      <4>1. CASE n = 1
        <5>1. PICK h : h = SubSeq(t, 1 + m[1] - 1, 1 + m[2] - 1)
          OBVIOUS
        <5>2. c[1] = [cursor |-> 1 + m[1], hits |-> {h}]
          BY <2>4, <3>7, <5>1
        <5>3. c[1].hits = {h}
          BY <5>2
        <5>4. QED
          BY <4>1, <5>3
      <4>2. CASE n # 1
        <5>1. s.hits # {}
          BY <2>6, <3>1, <3>2, <3>3, <3>7, <4>2
        <5>2. QED
          BY <3>2, <3>3, <3>4, <5>1, SearchType
      <4>3. QED
        BY <4>1, <4>2
    <3>8. ASSUME m = <<>> PROVE c[n].cursor = 0 /\ c[n].hits = {}
      <4>1. CASE n = 1
        BY <2>4, <3>8, <4>1
      <4>2. CASE n # 1
        <5>1. s.cursor = 0 /\ s.hits = {} /\ 0 # n
          BY <2>6, <3>1, <3>2, <3>3, <3>8, <4>2
        <5>2. c[n] = s
          BY <3>4, <5>1 DEF Search
        <5>3. QED
          BY <5>1, <5>2
      <4>3. QED
        BY <4>1, <4>2
    <3>9. QED
      BY <3>2, <3>6, <3>7, <3>8
  <2> HIDE DEF T
  <2>7. 0..N \subseteq T
    BY <1>2, <2>5, <2>6, UpToInduction
  <2>8. N \in T /\ N >= 1
    BY <1>2, <1>4, <2>7
  <2>9. /\ c[N].hits \subseteq HeldBy(words, t)
        /\ m # <<>> => c[N].hits # {}
        /\ m = <<>> => c[N].hits = {}
    BY <2>8 DEF T
  <2>10. FindAll(words, t) = c[N].hits
    BY <1>1 DEF FindAll
  <2>11. Refuses(words, t) <=> m # <<>>
    BY <1>1, <2>1 DEF Refuses
  <2>12. QED
    BY <2>9, <2>10, <2>11
<1>5. QED
  BY <1>3, <1>4

\* The text is somebody's, and no step changes it.
LEMMA TextInvariant == WordsSpec => [](text \in Seq(STRING))
<1>1. WordsInit => text \in Seq(STRING)
  <2>1. <<>> \in Seq(STRING) /\ Texts \subseteq Seq(STRING)
    BY WordsAssumption
  <2>2. QED
    BY <2>1, Zenon DEF WordsInit
<1>2. text \in Seq(STRING) /\ [WordsNext]_wordVars => (text \in Seq(STRING))'
  <2>1. [WordsNext]_wordVars => UNCHANGED text
    BY Zenon DEF WordsNext, wordVars, BeginEdit, BeginManual, OpenEdit, ListWords, PushToRedis,
                 ReplaceFilter, CommitEdit, RollbackEdit
  <2>2. QED
    BY <2>1
<1>3. QED
  BY <1>1, <1>2, PTL DEF WordsSpec

\* For any words and any text (filter.py, find_first and find_all): what the trie points at
\* is a word of the list at that place, find_all finds something exactly when find_first
\* does, and a word that opens the text or follows a letter of no word is never missed.
THEOREM ScansAreSound == WordsSpec => []ScanSound
<1>1. WordsSpec => []ListsInv
  BY ListsInvariant
<1>2. WordsSpec => [](text \in Seq(STRING))
  BY TextInvariant
<1>3. ListsInv /\ text \in Seq(STRING) => ScanSound
  <2> SUFFICES ASSUME ListsInv, text \in Seq(STRING) PROVE ScanSound
    OBVIOUS
  <2>1. Wordlist(active)
    BY WordsAssumption DEF ListsInv, Wordlist
  <2>2. PICK t, words, m : t = text /\ words = active /\ m = FindFirst(active, text)
    OBVIOUS
  <2>3. t \in Seq(STRING) /\ Wordlist(words) /\ m = FindFirst(words, t)
    BY <2>1, <2>2
  <2>4. m # <<>> => SubSeq(t, m[1], m[2]) \in words
    <3>1. SUFFICES ASSUME m # <<>> PROVE SubSeq(t, m[1], m[2]) \in words
      OBVIOUS
    <3>2. PICK a, b \in 1..Len(t) : a <= b /\ m = <<a, b>> /\ SubSeq(t, a, b) \in words
      BY <2>3, <3>1, FirstHit
    <3>3. m[1] = a /\ m[2] = b
      BY <3>2
    <3>4. QED
      BY <3>2, <3>3
  <2>5. /\ FindAll(words, t) \subseteq HeldBy(words, t)
        /\ FindAll(words, t) # {} <=> Refuses(words, t)
    BY <2>3, AllHits
  <2>6. OnlyWordsAreFound
    <3>1. (FindAll(words, t) # {}) = Refuses(words, t)
      BY <2>5 DEF Refuses
    <3>2. QED
      BY <2>2, <2>4, <2>5, <3>1 DEF OnlyWordsAreFound, HeldBy
  <2>7. ASSUME NEW w \in words, NEW i \in 1..Len(t), Occurs(w, t, i),
               i = 1 \/ t[i - 1] \notin Letters(words)
        PROVE  Refuses(words, t)
    <3>1. FindFirst(words, t) # <<>>
      BY <2>3, <2>7, IsolatedFound
    <3>2. t # <<>>
      BY <2>3, <2>7, EmptySeq
    <3>3. QED
      BY <3>1, <3>2 DEF Refuses
  <2>8. IsolatedWordsAreFound
    BY <2>2, <2>7 DEF IsolatedWordsAreFound
  <2>9. QED
    BY <2>6, <2>8 DEF ScanSound
<1>4. QED
  BY <1>1, <1>2, <1>3, PTL

-----------------------------------------------------------------------------
(* The conversation history                                                *)

\* The newest n elements, position by position.
LEMMA NewestPlaces ==
    ASSUME NEW S, NEW s \in Seq(S), NEW n \in Nat \ {0}
    PROVE  /\ Newest(s, n) \in Seq(S)
           /\ Len(Newest(s, n)) = IF Len(s) <= n THEN Len(s) ELSE n
           /\ \A i \in 1..Len(Newest(s, n)) :
                 Newest(s, n)[i] = s[i + IF Len(s) <= n THEN 0 ELSE Len(s) - n]
<1>1. Len(s) \in Nat /\ DOMAIN s = 1..Len(s) /\ \A i \in 1..Len(s) : s[i] \in S
  BY LenProperties, ElementOfSeq
<1>2. CASE Len(s) <= n
  BY <1>1, <1>2 DEF Newest
<1>3. CASE ~(Len(s) <= n)
  <2> DEFINE m == Len(s) - n + 1
             t == SubSeq(s, m, Len(s))
  <2>1. m \in Int /\ m <= Len(s) /\ m >= 1
    BY <1>1, <1>3
  <2>2. \A i \in m..Len(s) : s[i] \in S
    BY <1>1, <2>1
  <2>3. /\ t \in Seq(S)
        /\ Len(t) = IF m <= Len(s) THEN Len(s) - m + 1 ELSE 0
        /\ \A i \in 1..Len(s) - m + 1 : t[i] = s[m + i - 1]
    BY <1>1, <2>1, <2>2, SubSeqProperties
  <2>4. Len(t) = n /\ Len(s) - m + 1 = n
    BY <1>1, <2>1, <2>3
  <2>5. \A i \in 1..n : t[i] = s[i + (Len(s) - n)]
    BY <1>1, <2>3, <2>4
  <2>6. Newest(s, n) = t
    BY <1>3 DEF Newest
  <2> HIDE DEF t, m
  <2>7. QED
    BY <1>3, <2>3, <2>4, <2>5, <2>6
<1>4. QED
  BY <1>2, <1>3

\* It makes no difference whether what is too old is dropped before a turn or after it.
LEMMA NewestOfNewest ==
    ASSUME NEW S, NEW s \in Seq(S), NEW n \in Nat \ {0}, NEW x \in S
    PROVE  Newest(Append(Newest(s, n), x), n) = Newest(Append(s, x), n)
<1> DEFINE w == Newest(s, n)
           u == Append(w, x)
           v == Append(s, x)
<1>1. Len(s) \in Nat
  BY LenProperties
<1>2. /\ w \in Seq(S)
      /\ Len(w) = IF Len(s) <= n THEN Len(s) ELSE n
      /\ \A i \in 1..Len(w) : w[i] = s[i + IF Len(s) <= n THEN 0 ELSE Len(s) - n]
  BY NewestPlaces
<1>3. CASE Len(s) <= n
  <2>1. w = s
    BY <1>3 DEF Newest
  <2>2. QED
    BY <2>1
<1>4. CASE ~(Len(s) <= n)
  <2>1. Len(w) = n /\ \A i \in 1..n : w[i] = s[i + (Len(s) - n)]
    BY <1>2, <1>4
  <2> HIDE DEF w
  <2>2. /\ u \in Seq(S) /\ Len(u) = n + 1 /\ u[n + 1] = x
        /\ \A i \in 1..n : u[i] = w[i]
    BY <1>2, <2>1, AppendProperties
  <2>3. /\ v \in Seq(S) /\ Len(v) = Len(s) + 1 /\ v[Len(s) + 1] = x
        /\ \A i \in 1..Len(s) : v[i] = s[i]
    BY AppendProperties
  <2> HIDE DEF u, v
  <2>4. ~(n + 1 <= n) /\ ~(Len(s) + 1 <= n) /\ Len(s) + 1 - n \in Nat
    BY <1>1, <1>4
  <2>5. /\ Newest(u, n) \in Seq(S) /\ Len(Newest(u, n)) = n
        /\ \A i \in 1..n : Newest(u, n)[i] = u[i + 1]
    <3>1. /\ Newest(u, n) \in Seq(S)
          /\ Len(Newest(u, n)) = IF Len(u) <= n THEN Len(u) ELSE n
          /\ \A i \in 1..Len(Newest(u, n)) :
                Newest(u, n)[i] = u[i + IF Len(u) <= n THEN 0 ELSE Len(u) - n]
      BY <2>2, NewestPlaces
    <3>2. Len(u) - n = 1
      BY <2>2
    <3>3. QED
      BY <2>2, <2>4, <3>1, <3>2
  <2>6. /\ Newest(v, n) \in Seq(S) /\ Len(Newest(v, n)) = n
        /\ \A i \in 1..n : Newest(v, n)[i] = v[i + (Len(s) + 1 - n)]
    <3>1. /\ Newest(v, n) \in Seq(S)
          /\ Len(Newest(v, n)) = IF Len(v) <= n THEN Len(v) ELSE n
          /\ \A i \in 1..Len(Newest(v, n)) :
                Newest(v, n)[i] = v[i + IF Len(v) <= n THEN 0 ELSE Len(v) - n]
      BY <2>3, NewestPlaces
    <3>2. QED
      BY <2>3, <2>4, <3>1
  <2>7. ASSUME NEW i \in 1..n PROVE u[i + 1] = v[i + (Len(s) + 1 - n)]
    <3>1. CASE i = n
      <4>1. i + (Len(s) + 1 - n) = Len(s) + 1
        BY <1>1, <3>1
      <4>2. QED
        BY <3>1, <4>1, <2>2, <2>3
    <3>2. CASE i # n
      <4>1. i + 1 \in 1..n
        BY <3>2
      <4>2. (i + 1) + (Len(s) - n) = i + (Len(s) + 1 - n)
        BY <1>1
      <4>3. i + (Len(s) + 1 - n) \in 1..Len(s)
        BY <1>1, <1>4, <4>1
      <4>4. u[i + 1] = s[i + (Len(s) + 1 - n)]
        BY <2>1, <2>2, <4>1, <4>2
      <4>5. QED
        BY <4>3, <4>4, <2>3
    <3>3. QED
      BY <3>1, <3>2
  <2>8. Newest(u, n) = Newest(v, n)
    BY <2>5, <2>6, <2>7, SeqEqual
  <2>9. QED
    BY <2>8 DEF u, v, w
<1>5. QED
  BY <1>3, <1>4

\* s has elements of t only, and in t's order.
Descends(s, t) ==
    /\ Range(s) \subseteq Range(t)
    /\ \A a, b : Precedes(s, a, b) => Precedes(t, a, b)

LEMMA DescendsNewest ==
    ASSUME NEW S, NEW s \in Seq(S), NEW n \in Nat \ {0}
    PROVE  Descends(Newest(s, n), s)
<1> DEFINE w == Newest(s, n)
           k == IF Len(s) <= n THEN 0 ELSE Len(s) - n
<1>1. Len(s) \in Nat /\ DOMAIN s = 1..Len(s) /\ Range(s) = {s[i] : i \in 1..Len(s)}
  BY LenProperties, RangeEquality
<1>2. /\ w \in Seq(S)
      /\ Len(w) = IF Len(s) <= n THEN Len(s) ELSE n
      /\ \A i \in 1..Len(w) : w[i] = s[i + k]
  BY NewestPlaces
<1>3. DOMAIN w = 1..Len(w) /\ Range(w) = {w[i] : i \in 1..Len(w)}
  BY <1>2, LenProperties, RangeEquality
<1>4. k \in Nat /\ Len(w) + k = Len(s) /\ Len(w) \in Nat
  BY <1>1, <1>2
<1> HIDE DEF w, k
<1>5. ASSUME NEW i \in 1..Len(w) PROVE i + k \in 1..Len(s) /\ w[i] = s[i + k]
  <2>1. i + k \in 1..Len(s)
    BY <1>1, <1>4
  <2>2. w[i] = s[i + k]
    BY <1>2
  <2>3. QED
    BY <2>1, <2>2
<1>6. Range(w) \subseteq Range(s)
  BY <1>1, <1>3, <1>5
<1>7. ASSUME NEW a, NEW b, Precedes(w, a, b) PROVE Precedes(s, a, b)
  <2>1. PICK i \in 1..Len(w), j \in 1..Len(w) : i < j /\ w[i] = a /\ w[j] = b
    BY <1>3, <1>7 DEF Precedes
  <2>2. i + k < j + k
    BY <2>1, <1>4
  <2>3. QED
    BY <2>1, <2>2, <1>1, <1>5 DEF Precedes
<1>8. QED
  BY <1>6, <1>7 DEF Descends, w

LEMMA DescendsAppend ==
    ASSUME NEW S, NEW s \in Seq(S), NEW t \in Seq(S), NEW x \in S, Descends(s, t)
    PROVE  Descends(s, Append(t, x)) /\ Descends(Append(s, x), Append(t, x))
<1>1. /\ Range(Append(t, x)) = Range(t) \cup {x}
      /\ Range(Append(s, x)) = Range(s) \cup {x}
  BY QueuePush
<1>2. ASSUME NEW a, NEW b
      PROVE  /\ Precedes(Append(t, x), a, b) <=> Precedes(t, a, b) \/ (a \in Range(t) /\ b = x)
             /\ Precedes(Append(s, x), a, b) <=> Precedes(s, a, b) \/ (a \in Range(s) /\ b = x)
  BY PrecedesAppend
<1>3. QED
  BY <1>1, <1>2 DEF Descends

Turns == 1 .. TurnsWritten

\* What w is about to write: a history it has read, and its own turn.
Writes(w, base, turn) ==
    /\ writer[w] = Append(base, turn)
    /\ Descends(base, appended)
    /\ undisturbed => base = stored

\* The inductive strengthening: until something disturbs it, one writer at most holds the
\* history as it stands.
HistoryInv ==
    /\ stored \in Seq(Turns) /\ appended \in Seq(Turns)
    /\ writer \in [Writers -> Seq(Turns)]
    /\ arrived \in 0 .. TurnsWritten
    /\ HistoryIsNewest
    /\ Descends(stored, appended)
    /\ \A w \in Writers : writer[w] # <<>> =>
          /\ \E base \in Seq(Turns), turn \in Turns : Writes(w, base, turn)
          /\ undisturbed => \A v \in Writers : v # w => writer[v] = <<>>

LEMMA LoadStep == ASSUME HistoryInv, NEW w \in Writers, LoadForAppend(w) PROVE HistoryInv'
<1>0. arrived' \in 0 .. TurnsWritten /\ arrived' \in Turns
  BY MemoryAssumption DEF HistoryInv, LoadForAppend, Turns
<1>1. /\ writer' = [writer EXCEPT ![w] = Append(stored, arrived')]
      /\ UNCHANGED <<stored, appended>>
      /\ undisturbed' = (undisturbed /\ Quiet)
      /\ writer[w] = <<>>
  BY DEF LoadForAppend
<1>2. Append(stored, arrived') \in Seq(Turns)
  BY <1>0, AppendProperties DEF HistoryInv
<1>3. /\ writer' \in [Writers -> Seq(Turns)]
      /\ writer'[w] = Append(stored, arrived')
      /\ \A v \in Writers : v # w => writer'[v] = writer[v]
  BY <1>1, <1>2 DEF HistoryInv
<1>4. HistoryIsNewest' /\ Descends(stored, appended)'
  BY <1>1 DEF HistoryInv, HistoryIsNewest
<1>5. ASSUME NEW v \in Writers, writer'[v] # <<>>
      PROVE  /\ \E base \in Seq(Turns), turn \in Turns : Writes(v, base, turn)'
             /\ undisturbed' => \A r \in Writers : r # v => writer'[r] = <<>>
  <2>1. undisturbed' => \A r \in Writers : writer[r] = <<>>
    BY <1>1 DEF Quiet
  <2>2. CASE v = w
    <3>1. PICK base \in Seq(Turns), turn \in Turns : base = stored /\ turn = arrived'
      BY <1>0 DEF HistoryInv
    <3>2. writer'[v] = Append(base, turn) /\ Descends(base, appended') /\ base = stored'
      BY <3>1, <2>2, <1>1, <1>3, <1>4
    <3>3. Writes(v, base, turn)'
      BY <3>2 DEF Writes
    <3>4. QED
      BY <3>3, <2>1, <2>2, <1>3
  <2>3. CASE v # w
    <3>1. writer[v] # <<>> /\ ~undisturbed'
      BY <2>1, <2>3, <1>3, <1>5
    <3>2. PICK base \in Seq(Turns), turn \in Turns : Writes(v, base, turn)
      BY <3>1 DEF HistoryInv
    <3>3. Writes(v, base, turn)'
      BY <3>1, <3>2, <2>3, <1>1, <1>3 DEF Writes
    <3>4. QED
      BY <3>1, <3>3
  <2>4. QED
    BY <2>2, <2>3
<1>6. QED
  BY <1>0, <1>1, <1>3, <1>4, <1>5 DEF HistoryInv

LEMMA WriteStep == ASSUME HistoryInv, NEW w \in Writers, WriteBack(w) PROVE HistoryInv'
<1>1. /\ writer[w] # <<>> /\ stored' = Newest(writer[w], MaxTurns)
      /\ appended' = Append(appended, Last(writer[w]))
      /\ writer' = [writer EXCEPT ![w] = <<>>]
      /\ UNCHANGED <<arrived, undisturbed>>
  BY DEF WriteBack, Window
<1>2. PICK base \in Seq(Turns), turn \in Turns : Writes(w, base, turn)
  BY <1>1 DEF HistoryInv
<1>3. MaxTurns \in Nat \ {0} /\ appended \in Seq(Turns) /\ stored \in Seq(Turns)
  BY MemoryAssumption DEF HistoryInv
<1>4. writer[w] = Append(base, turn) /\ writer[w] \in Seq(Turns)
  BY <1>2, AppendProperties DEF Writes
<1>5. Last(writer[w]) = turn
  <2>1. /\ Len(Append(base, turn)) = Len(base) + 1
        /\ Append(base, turn)[Len(base) + 1] = turn
    BY AppendProperties
  <2>2. QED
    BY <1>4, <2>1 DEF Last
<1>6. appended' = Append(appended, turn) /\ appended' \in Seq(Turns)
  BY <1>1, <1>3, <1>5, AppendProperties
<1>7. stored' \in Seq(Turns)
  BY <1>1, <1>3, <1>4, NewestPlaces
<1>8. Descends(stored', appended')
  <2>1. Descends(writer[w], appended')
    BY <1>2, <1>3, <1>4, <1>6, DescendsAppend DEF Writes
  <2>2. Descends(stored', writer[w])
    BY <1>1, <1>3, <1>4, DescendsNewest
  <2>3. QED
    BY <2>1, <2>2 DEF Descends
<1>9. HistoryIsNewest'
  <2>1. SUFFICES ASSUME undisturbed PROVE stored' = Newest(appended', MaxTurns)
    BY <1>1 DEF HistoryIsNewest
  <2>2. base = Newest(appended, MaxTurns)
    BY <2>1, <1>2 DEF Writes, HistoryInv, HistoryIsNewest
  <2>3. Newest(Append(Newest(appended, MaxTurns), turn), MaxTurns)
           = Newest(Append(appended, turn), MaxTurns)
    BY <1>3, NewestOfNewest
  <2>4. QED
    BY <2>2, <2>3, <1>1, <1>4, <1>6
<1>10. /\ writer' \in [Writers -> Seq(Turns)] /\ writer'[w] = <<>>
       /\ \A v \in Writers : v # w => writer'[v] = writer[v]
  BY <1>1 DEF HistoryInv
<1>11. ASSUME NEW v \in Writers, writer'[v] # <<>>
       PROVE  /\ \E b \in Seq(Turns), t \in Turns : Writes(v, b, t)'
              /\ undisturbed' => \A r \in Writers : r # v => writer'[r] = <<>>
  <2>1. v # w /\ writer[v] # <<>> /\ writer'[v] = writer[v]
    BY <1>10, <1>11
  <2>2. ~undisturbed
    BY <2>1, <1>1 DEF HistoryInv
  <2>3. PICK b \in Seq(Turns), t \in Turns : Writes(v, b, t)
    BY <2>1 DEF HistoryInv
  <2>4. Descends(b, appended')
    BY <2>3, <1>3, <1>6, DescendsAppend DEF Writes
  <2>5. Writes(v, b, t)'
    BY <2>1, <2>2, <2>3, <2>4, <1>1 DEF Writes
  <2>6. QED
    BY <2>2, <2>5, <1>1
<1>12. QED
  BY <1>1, <1>6, <1>7, <1>8, <1>9, <1>10, <1>11 DEF HistoryInv

LEMMA ForgetStep == ASSUME HistoryInv, Forget PROVE HistoryInv'
<1>1. stored' = <<>> /\ undisturbed' = FALSE /\ UNCHANGED <<writer, arrived, appended>>
  BY DEF Forget
<1>2. Descends(stored', appended') /\ stored' \in Seq(Turns)
  BY <1>1, QueueEmpty, PrecedesEmpty DEF Descends
<1>3. ASSUME NEW w \in Writers, writer[w] # <<>>
      PROVE  \E base \in Seq(Turns), turn \in Turns : Writes(w, base, turn)'
  <2>1. PICK base \in Seq(Turns), turn \in Turns : Writes(w, base, turn)
    BY <1>3 DEF HistoryInv
  <2>2. Writes(w, base, turn)'
    BY <1>1, <2>1 DEF Writes
  <2>3. QED
    BY <2>2
<1>4. QED
  BY <1>1, <1>2, <1>3 DEF HistoryInv, HistoryIsNewest

LEMMA HistoryInvariant == MemorySpec => []HistoryInv
<1>1. MemoryInit => HistoryInv
  <2> SUFFICES ASSUME MemoryInit PROVE HistoryInv
    OBVIOUS
  <2>1. /\ stored = <<>> /\ appended = <<>> /\ arrived = 0
        /\ writer = [w \in Writers |-> <<>>]
    BY DEF MemoryInit
  <2>2. stored \in Seq(Turns) /\ appended \in Seq(Turns) /\ writer \in [Writers -> Seq(Turns)]
    BY <2>1
  <2>3. Descends(stored, appended) /\ arrived \in 0 .. TurnsWritten
    BY <2>1, MemoryAssumption DEF Descends
  <2>4. HistoryIsNewest
    BY <2>1, MemoryAssumption DEF HistoryIsNewest, Newest
  <2>5. QED
    BY <2>1, <2>2, <2>3, <2>4 DEF HistoryInv
<1>2. HistoryInv /\ [MemoryNext]_memoryVars => HistoryInv'
  <2>1. ASSUME HistoryInv, UNCHANGED memoryVars PROVE HistoryInv'
    <3>1. UNCHANGED <<stored, writer, arrived, appended, undisturbed>>
      BY <2>1 DEF memoryVars
    <3>2. QED
      BY <2>1, <3>1 DEF HistoryInv, HistoryIsNewest, Writes
  <2>2. QED
    BY <2>1, LoadStep, WriteStep, ForgetStep DEF MemoryNext
<1>3. QED
  BY <1>1, <1>2, PTL DEF MemorySpec

LEMMA HistoryKeepsOrder == HistoryInv => HistoryIsNewest /\ HistoryInOrder
<1> SUFFICES ASSUME HistoryInv, NEW i \in 1 .. Len(stored), NEW j \in 1 .. Len(stored), i < j
             PROVE  \E k, l \in 1 .. Len(appended) :
                        k < l /\ appended[k] = stored[i] /\ appended[l] = stored[j]
  BY DEF HistoryInv, HistoryInOrder
<1>1. DOMAIN stored = 1 .. Len(stored) /\ DOMAIN appended = 1 .. Len(appended)
  BY LenProperties DEF HistoryInv
<1>2. Precedes(stored, stored[i], stored[j])
  BY <1>1 DEF Precedes
<1>3. Precedes(appended, stored[i], stored[j])
  BY <1>2 DEF HistoryInv, Descends
<1>4. QED
  BY <1>1, <1>3 DEF Precedes

\* For any window and any number of writers (conversation_memory.py, append_turn): until
\* appends overlap or the key is gone, the history is exactly the newest turns; whatever
\* happens, it never shows two turns in another order than they were appended in.
THEOREM HistoriesKeepOrder == MemorySpec => [](HistoryIsNewest /\ HistoryInOrder)
<1>1. MemorySpec => []HistoryInv
  BY HistoryInvariant
<1>2. HistoryInv => HistoryIsNewest /\ HistoryInOrder
  BY HistoryKeepsOrder
<1>3. QED
  BY <1>1, <1>2, PTL

\* The recursion of Totals has a solution, so Totals is one.
LEMMA TotalsRecursion ==
    ASSUME NEW w \in Seq(Nat)
    PROVE  /\ Totals(w) \in [0..Len(w) -> Nat]
           /\ Totals(w)[0] = 0
           /\ \A n \in 1..Len(w) : Totals(w)[n] = Totals(w)[n - 1] + w[n]
<1> DEFINE N == Len(w)
           step == [n \in 1..N |-> [v \in Nat |-> v + w[n]]]
           Sums(f) == f = [n \in 0..N |-> IF n = 0 THEN 0 ELSE f[n - 1] + w[n]]
<1>1. N \in Nat /\ \A n \in 1..N : w[n] \in Nat
  BY LenProperties, ElementOfSeq
<1>2. step \in [1..N -> [Nat -> Nat]]
  BY <1>1
<1>3. \A n \in 1..N, v \in Nat : step[n][v] = v + w[n]
  OBVIOUS
<1>4. Totals(w) = CHOOSE f : Sums(f)
  BY DEF Totals
<1> HIDE DEF step, N
<1>5. PICK f : Iterates(f, Nat, 0, N, step)
  BY <1>1, <1>2, IterationExists
<1>6. /\ f \in [0..N -> Nat] /\ f[0] = 0
      /\ \A n \in 1..N : f[n] = step[n][f[n - 1]]
  BY <1>5 DEF Iterates
<1>7. ASSUME NEW n \in 0..N PROVE f[n] = IF n = 0 THEN 0 ELSE f[n - 1] + w[n]
  <2>1. n # 0 => n \in 1..N /\ f[n - 1] \in Nat
    BY <1>1, <1>6
  <2>2. QED
    BY <1>3, <1>6, <2>1
<1>8. Sums(f)
  BY <1>6, <1>7
<1> HIDE DEF Sums
<1>9. Sums(Totals(w))
  BY <1>4, <1>8
<1> DEFINE c == Totals(w)
<1> HIDE DEF c
<1>10. c = [n \in 0..N |-> IF n = 0 THEN 0 ELSE c[n - 1] + w[n]]
  BY <1>9 DEF Sums, c
<1>11. c[0] = 0 /\ \A n \in 1..N : c[n] = c[n - 1] + w[n]
  BY <1>1, <1>10
<1>12. \A n \in 0..N : c[n] \in Nat
  <2>1. \A n \in 1..N : c[n - 1] \in Nat => c[n] \in Nat
    BY <1>1, <1>11
  <2>2. c[0] \in Nat
    BY <1>11
  <2>3. QED
    BY <1>1, <2>1, <2>2, IterationType
<1>13. c \in [0..N -> Nat]
  BY <1>10, <1>12
<1>14. QED
  BY <1>11, <1>13 DEF c, N

LEMMA TotalsMonotone ==
    ASSUME NEW w \in Seq(Nat)
    PROVE  \A j \in 0..Len(w) : \A i \in 0..j : Totals(w)[i] <= Totals(w)[j]
<1> DEFINE c == Totals(w)
           N == Len(w)
           T == {j \in 0..N : \A i \in 0..j : c[i] <= c[j]}
<1>1. N \in Nat /\ \A n \in 1..N : w[n] \in Nat
  BY LenProperties, ElementOfSeq
<1>2. c \in [0..N -> Nat] /\ \A n \in 1..N : c[n] = c[n - 1] + w[n]
  BY TotalsRecursion
<1> HIDE DEF c, N
<1>3. 0 \in T
  BY <1>1, <1>2
<1>4. ASSUME NEW j \in 1..N, j - 1 \in T PROVE j \in T
  <2>1. c[j] \in Nat /\ c[j - 1] \in Nat /\ w[j] \in Nat /\ c[j] = c[j - 1] + w[j]
    BY <1>1, <1>2
  <2>2. ASSUME NEW i \in 0..j PROVE c[i] <= c[j]
    <3>1. CASE i = j
      BY <2>1, <3>1
    <3>2. CASE i # j
      <4>1. i \in 0..j - 1 /\ i \in 0..N
        BY <1>1, <3>2
      <4>2. c[i] <= c[j - 1] /\ c[i] \in Nat
        BY <1>2, <1>4, <4>1
      <4>3. QED
        BY <2>1, <4>2
    <3>3. QED
      BY <3>1, <3>2
  <2>3. QED
    BY <2>2
<1> HIDE DEF T
<1>5. 0..N \subseteq T
  BY <1>1, <1>3, <1>4, UpToInduction
<1>6. QED
  BY <1>5 DEF T, c, N

\* The sums of a segment of w are differences of those of w.
LEMMA TotalsOfSegment ==
    ASSUME NEW w \in Seq(Nat), NEW v \in Seq(Nat), NEW k \in Nat, k + Len(v) <= Len(w),
           \A i \in 1..Len(v) : v[i] = w[k + i]
    PROVE  /\ Totals(w)[k + Len(v)] \in Nat /\ Totals(w)[k] \in Nat
           /\ Totals(v)[Len(v)] = Totals(w)[k + Len(v)] - Totals(w)[k]
<1> DEFINE c == Totals(w)
           d == Totals(v)
           M == Len(v)
           N == Len(w)
           T == {m \in 0..M : d[m] = c[k + m] - c[k]}
<1>1. N \in Nat /\ M \in Nat /\ k + M <= N /\ \A m \in 1..M : v[m] \in Nat /\ v[m] = w[k + m]
  BY LenProperties, ElementOfSeq
<1>2. c \in [0..N -> Nat] /\ \A n \in 1..N : c[n] = c[n - 1] + w[n]
  BY TotalsRecursion
<1>3. d \in [0..M -> Nat] /\ d[0] = 0 /\ \A n \in 1..M : d[n] = d[n - 1] + v[n]
  BY TotalsRecursion
<1> HIDE DEF c, d, M, N
<1>4. \A m \in 0..M : k + m \in 0..N /\ c[k + m] \in Nat
  BY <1>1, <1>2
<1>5. c[k] \in Nat
  <2>1. k + 0 = k /\ 0 \in 0..M
    BY <1>1
  <2>2. QED
    BY <1>4, <2>1
<1>6. 0 \in T
  BY <1>1, <1>3, <1>5
<1>7. ASSUME NEW m \in 1..M, m - 1 \in T PROVE m \in T
  <2>1. m - 1 \in 0..M /\ m \in 0..M
    BY <1>1
  <2>2. d[m - 1] = c[k + (m - 1)] - c[k] /\ c[k + (m - 1)] \in Nat /\ c[k + m] \in Nat
    BY <1>4, <1>7, <2>1
  <2>3. k + m \in 1..N /\ (k + m) - 1 = k + (m - 1)
    BY <1>1
  <2>4. c[k + m] = c[k + (m - 1)] + w[k + m]
    BY <1>2, <2>3
  <2>5. d[m] = d[m - 1] + w[k + m] /\ w[k + m] \in Nat
    BY <1>1, <1>3
  <2>6. d[m] = c[k + m] - c[k]
    BY <1>5, <2>2, <2>4, <2>5
  <2>7. QED
    BY <2>1, <2>6
<1> HIDE DEF T
<1>8. 0..M \subseteq T
  BY <1>1, <1>6, <1>7, UpToInduction
<1>9. M \in T
  BY <1>1, <1>8
<1>10. d[M] = c[k + M] - c[k] /\ c[k + M] \in Nat
  BY <1>1, <1>4, <1>9 DEF T
<1>11. QED
  BY <1>5, <1>10 DEF c, d, M

\* What is known of the turns a prompt is made of.
Spoken(s) == s \in Seq(Turns) /\ size \in [Turns -> Sizes] /\ budget \in Budgets

LEMMA Lengths ==
    ASSUME NEW s, Spoken(s)
    PROVE  /\ s \in Seq(Turns) /\ Len(s) \in Nat /\ DOMAIN s = 1..Len(s)
           /\ budget \in Nat \ {0}
           /\ \A i \in 1..Len(s) : s[i] \in Turns /\ size[s[i]] \in Nat \ {0}
<1>1. s \in Seq(Turns) /\ Len(s) \in Nat /\ DOMAIN s = 1..Len(s) /\ budget \in Nat \ {0}
  BY MemoryAssumption, LenProperties DEF Spoken
<1>2. \A i \in 1..Len(s) : s[i] \in Turns
  BY ElementOfSeq DEF Spoken
<1>3. \A t \in Turns : size[t] \in Nat \ {0}
  BY MemoryAssumption DEF Spoken
<1>4. QED
  BY <1>1, <1>2, <1>3

Lines(s) == [i \in DOMAIN s |-> size[s[i]] + 1]
Lengthy(s) == [i \in DOMAIN s |-> size[s[i]]]

LEMMA WithoutPlaces ==
    ASSUME NEW s, Spoken(s), NEW k \in 0..Len(s)
    PROVE  /\ Without(s, k) \in Seq(Turns) /\ Len(Without(s, k)) = Len(s) - k
           /\ \A i \in 1..Len(s) - k : Without(s, k)[i] = s[k + i]
<1> DEFINE N == Len(s)
<1>1. s \in Seq(Turns) /\ N \in Nat
  BY Lengths
<1>2. PICK m, n : m = k + 1 /\ n = N
  OBVIOUS
<1>3. m \in Nat \ {0} /\ n \in 0..Len(s) /\ m <= n + 1
  BY <1>1, <1>2
<1>4. /\ SubSeq(s, m, n) \in Seq(Turns) /\ Len(SubSeq(s, m, n)) = n - m + 1
      /\ \A i \in 1..n - m + 1 : SubSeq(s, m, n)[i] = s[m + i - 1]
  BY <1>1, <1>3, SegmentPlaces
<1>5. n - m + 1 = N - k /\ \A i \in 1..N - k : m + i - 1 = k + i
  BY <1>1, <1>2
<1>6. Without(s, k) = SubSeq(s, m, n)
  BY <1>2 DEF Without
<1>7. QED
  BY <1>4, <1>5, <1>6

LEMMA LineTotals ==
    ASSUME NEW s, Spoken(s)
    PROVE  /\ Lines(s) \in Seq(Nat) /\ Len(Lines(s)) = Len(s)
           /\ \A i \in 1..Len(s) : Lines(s)[i] = size[s[i]] + 1
           /\ Totals(Lines(s)) \in [0..Len(s) -> Nat]
           /\ \A i \in 1..Len(s) :
                 Totals(Lines(s))[i] = Totals(Lines(s))[i - 1] + size[s[i]] + 1
           /\ Cost(s) = Totals(Lines(s))[Len(s)]
<1>1. /\ Len(s) \in Nat /\ DOMAIN s = 1..Len(s)
      /\ \A i \in 1..Len(s) : size[s[i]] \in Nat \ {0}
  BY Lengths
<1>2. /\ Lines(s) \in Seq(Nat) /\ Len(Lines(s)) = Len(s)
      /\ \A i \in 1..Len(s) : Lines(s)[i] = size[s[i]] + 1
  BY <1>1 DEF Lines
<1>3. PICK w : w = Lines(s)
  OBVIOUS
<1>4. /\ Totals(w) \in [0..Len(s) -> Nat] /\ Totals(w)[0] = 0
      /\ \A i \in 1..Len(s) : Totals(w)[i] = Totals(w)[i - 1] + w[i]
  BY <1>2, <1>3, TotalsRecursion
<1>5. ASSUME NEW i \in 1..Len(s) PROVE Totals(w)[i] = Totals(w)[i - 1] + size[s[i]] + 1
  <2>1. w[i] = size[s[i]] + 1 /\ Totals(w)[i] = Totals(w)[i - 1] + w[i]
    BY <1>2, <1>3, <1>4
  <2>2. Totals(w)[i - 1] \in Nat /\ size[s[i]] \in Nat
    BY <1>1, <1>4
  <2>3. QED
    BY <2>1, <2>2
<1>6. Cost(s) = Totals(Lines(s))[Len(s)]
  BY DEF Cost, Lines
<1>7. QED
  BY <1>2, <1>3, <1>4, <1>5, <1>6

\* What the rest of s costs, as a difference of what s costs.
LEMMA CostOfRest ==
    ASSUME NEW s, Spoken(s), NEW k \in 0..Len(s)
    PROVE  Cost(Without(s, k)) = Totals(Lines(s))[Len(s)] - Totals(Lines(s))[k]
<1>1. s \in Seq(Turns) /\ Len(s) \in Nat
  BY Lengths
<1>2. PICK t : t = Without(s, k)
  OBVIOUS
<1>3. /\ t \in Seq(Turns) /\ Len(t) = Len(s) - k
      /\ \A i \in 1..Len(s) - k : t[i] = s[k + i]
  BY <1>2, WithoutPlaces
<1>4. Spoken(t)
  BY <1>3 DEF Spoken
<1>5. PICK v, w : v = Lines(t) /\ w = Lines(s)
  OBVIOUS
<1>6. /\ v \in Seq(Nat) /\ Len(v) = Len(s) - k /\ Cost(t) = Totals(v)[Len(t)]
      /\ \A i \in 1..Len(s) - k : v[i] = size[t[i]] + 1
  BY <1>3, <1>4, <1>5, LineTotals
<1>7. w \in Seq(Nat) /\ Len(w) = Len(s) /\ \A i \in 1..Len(s) : w[i] = size[s[i]] + 1
  BY <1>5, LineTotals
<1>8. k \in Nat /\ k + Len(v) = Len(w) /\ Len(w) = Len(s) /\ Len(v) = Len(t)
  BY <1>1, <1>3, <1>6, <1>7
<1>9. \A i \in 1..Len(v) : v[i] = w[k + i]
  <2>1. ASSUME NEW i \in 1..Len(s) - k PROVE v[i] = w[k + i]
    <3>1. k + i \in 1..Len(s)
      BY <1>1
    <3>2. QED
      BY <1>3, <1>6, <1>7, <3>1
  <2>2. QED
    BY <1>6, <2>1
<1>10. Totals(v)[Len(v)] = Totals(w)[k + Len(v)] - Totals(w)[k]
  <2>1. k + Len(v) <= Len(w)
    BY <1>1, <1>8
  <2>2. QED
    BY <1>6, <1>7, <1>8, <1>9, <2>1, TotalsOfSegment
<1>11. QED
  BY <1>2, <1>5, <1>6, <1>8, <1>10

\* How far format_history_for_prompt has come.
Reading == [kept : Seq(Turns), left : Int, full : BOOLEAN]

LEMMA AddTurnType ==
    ASSUME NEW s, Spoken(s), NEW v \in Reading, NEW i \in 1..Len(s)
    PROVE  AddTurn(v, s[i]) \in Reading
<1>1. s[i] \in Turns /\ size[s[i]] \in Nat
  BY Lengths
<1>2. PICK t : t = s[i]
  OBVIOUS
<1>3. v.kept \in Seq(Turns) /\ v.left \in Int /\ [v EXCEPT !.full = TRUE] \in Reading
  BY DEF Reading
<1>4. <<t>> \o v.kept \in Seq(Turns)
  <2>1. <<t>> \in Seq(Turns)
    BY <1>1, <1>2
  <2>2. QED
    BY <1>3, <2>1, ConcatProperties
<1>5. v.left - size[t] - 1 \in Int
  BY <1>1, <1>2, <1>3
<1>6. AddTurn(v, t) \in Reading
  <2>1. CASE v.full \/ size[t] + 1 > v.left
    BY <1>3, <2>1 DEF AddTurn
  <2>2. CASE ~(v.full \/ size[t] + 1 > v.left)
    BY <1>4, <1>5, <2>2 DEF AddTurn, Reading
  <2>3. QED
    BY <2>1, <2>2
<1>7. QED
  BY <1>2, <1>6

LEMMA FormattedRecursion ==
    ASSUME NEW s, Spoken(s)
    PROVE  /\ Formatted(s)[0] = [kept |-> <<>>, left |-> budget, full |-> FALSE]
           /\ \A n \in 0..Len(s) : Formatted(s)[n] \in Reading
           /\ \A n \in 1..Len(s) : Formatted(s)[n] = AddTurn(Formatted(s)[n - 1], s[Len(s) - n + 1])
<1> DEFINE N == Len(s)
           none == [kept |-> <<>>, left |-> budget, full |-> FALSE]
           step == [n \in 1..N |-> [v \in Reading |-> AddTurn(v, s[N - n + 1])]]
           Body(f, n) == IF n = 0 THEN none ELSE AddTurn(f[n - 1], s[N - n + 1])
           Solves(f) == f = [n \in 0..N |-> Body(f, n)]
<1>1. N \in Nat /\ \A n \in 1..N : N - n + 1 \in 1..N
  BY Lengths
<1>2. none \in Reading
  BY Lengths DEF Reading
<1>3. \A n \in 1..N, v \in Reading : AddTurn(v, s[N - n + 1]) \in Reading
  BY <1>1, AddTurnType
<1>4. Formatted(s) = CHOOSE f : Solves(f)
  BY DEF Formatted
<1> HIDE DEF none
<1>5. /\ step \in [1..N -> [Reading -> Reading]]
      /\ \A n \in 1..N, v \in Reading : step[n][v] = AddTurn(v, s[N - n + 1])
  BY <1>3
<1> HIDE DEF step, N
<1>6. PICK f : Iterates(f, Reading, none, N, step)
  BY <1>1, <1>2, <1>5, IterationExists
<1>7. /\ f \in [0..N -> Reading] /\ f[0] = none
      /\ \A n \in 1..N : f[n] = step[n][f[n - 1]]
  BY <1>6 DEF Iterates
<1>8. ASSUME NEW n \in 0..N PROVE f[n] = Body(f, n)
  <2>1. n # 0 => n \in 1..N /\ f[n - 1] \in Reading
    BY <1>1, <1>7
  <2>2. QED
    BY <1>5, <1>7, <2>1
<1> HIDE DEF Body
<1>9. Solves(f)
  BY <1>7, <1>8
<1> HIDE DEF Solves
<1>10. Solves(Formatted(s))
  BY <1>4, <1>9
<1> DEFINE c == Formatted(s)
<1> HIDE DEF c
<1>11. c = [n \in 0..N |-> Body(c, n)]
  BY <1>10 DEF Solves, c
<1>12. c[0] = none /\ \A n \in 1..N : c[n] = AddTurn(c[n - 1], s[N - n + 1])
  BY <1>1, <1>11 DEF Body
<1>13. \A n \in 0..N : c[n] \in Reading
  <2>1. \A n \in 1..N : c[n - 1] \in Reading => c[n] \in Reading
    BY <1>3, <1>12
  <2>2. c[0] \in Reading
    BY <1>2, <1>12
  <2>3. QED
    BY <1>1, <2>1, <2>2, IterationType
<1>14. QED
  BY <1>12, <1>13 DEF c, N, none

LEMMA OneTurnMore ==
    ASSUME NEW s, Spoken(s), NEW k \in 1..Len(s)
    PROVE  <<s[k]>> \o Without(s, k) = Without(s, k - 1)
<1>1. /\ s \in Seq(Turns) /\ Len(s) \in Nat /\ DOMAIN s = 1..Len(s)
      /\ \A i \in 1..Len(s) : s[i] \in Turns
  BY Lengths
<1>2. PICK one, rest, more : one = <<s[k]>> /\ rest = Without(s, k) /\ more = Without(s, k - 1)
  OBVIOUS
<1>3. one \in Seq(Turns) /\ Len(one) = 1 /\ one[1] = s[k]
  BY <1>1, <1>2
<1>4. /\ rest \in Seq(Turns) /\ Len(rest) = Len(s) - k
      /\ \A i \in 1..Len(s) - k : rest[i] = s[k + i]
  <2>1. k \in 0..Len(s)
    OBVIOUS
  <2>2. QED
    BY <1>2, <2>1, WithoutPlaces
<1>5. /\ more \in Seq(Turns) /\ Len(more) = Len(s) - (k - 1)
      /\ \A i \in 1..Len(s) - (k - 1) : more[i] = s[(k - 1) + i]
  <2>1. PICK j : j = k - 1
    OBVIOUS
  <2>2. j \in 0..Len(s)
    BY <1>1, <2>1
  <2>3. /\ Without(s, j) \in Seq(Turns) /\ Len(Without(s, j)) = Len(s) - j
        /\ \A i \in 1..Len(s) - j : Without(s, j)[i] = s[j + i]
    BY <2>2, WithoutPlaces
  <2>4. QED
    BY <1>2, <2>1, <2>3
<1>6. /\ one \o rest \in Seq(Turns) /\ Len(one \o rest) = 1 + (Len(s) - k)
      /\ \A i \in 1..1 + (Len(s) - k) :
            (one \o rest)[i] = IF i <= 1 THEN one[i] ELSE rest[i - 1]
  <2>1. /\ one \o rest \in Seq(Turns) /\ Len(one \o rest) = Len(one) + Len(rest)
        /\ \A i \in 1..Len(one) + Len(rest) :
              (one \o rest)[i] = IF i <= Len(one) THEN one[i] ELSE rest[i - Len(one)]
    BY <1>3, <1>4, ConcatProperties
  <2>2. QED
    BY <1>3, <1>4, <2>1
<1>7. ASSUME NEW i \in 1..Len(s) - (k - 1) PROVE (one \o rest)[i] = more[i]
  <2>1. i \in 1..1 + (Len(s) - k)
    BY <1>1
  <2>2. CASE i = 1
    <3>1. (k - 1) + i = k
      BY <2>2
    <3>2. QED
      BY <1>3, <1>5, <1>6, <2>1, <2>2, <3>1
  <2>3. CASE i # 1
    <3>1. i - 1 \in 1..Len(s) - k /\ k + (i - 1) = (k - 1) + i /\ ~(i <= 1)
      BY <1>1, <2>3
    <3>2. (one \o rest)[i] = rest[i - 1]
      BY <1>6, <2>1, <3>1
    <3>3. rest[i - 1] = s[(k - 1) + i]
      BY <1>4, <3>1
    <3>4. QED
      BY <1>5, <3>2, <3>3
  <2>4. QED
    BY <2>2, <2>3
<1>8. Len(one \o rest) = Len(more) /\ Len(more) = Len(s) - (k - 1)
  BY <1>1, <1>5, <1>6
<1>9. one \o rest = more
  <2>1. PICK u : u = one \o rest
    OBVIOUS
  <2>2. u \in Seq(Turns) /\ Len(u) = Len(more) /\ \A i \in 1..Len(u) : u[i] = more[i]
    BY <1>6, <1>7, <1>8, <2>1
  <2>3. QED
    BY <1>5, <2>1, <2>2, SeqEqual
<1>10. QED
  BY <1>2, <1>9

\* After the newest n turns: k of them are left out, and rightly so.
FormattedTo(s, n, v) ==
    \E k \in Len(s) - n..Len(s) :
        LET C == Totals(Lines(s))
        IN  /\ v.kept = Without(s, k)
            /\ v.left = budget - (C[Len(s)] - C[k]) /\ v.left >= 0
            /\ ~v.full => k = Len(s) - n
            /\ v.full => k > Len(s) - n /\ C[Len(s)] - C[k - 1] > budget

LEMMA FormattedStep ==
    ASSUME NEW s, Spoken(s), NEW n \in 1..Len(s), NEW v \in Reading, FormattedTo(s, n - 1, v)
    PROVE  FormattedTo(s, n, AddTurn(v, s[Len(s) - n + 1]))
<1> DEFINE N == Len(s)
           C == Totals(Lines(s))
<1>1. /\ s \in Seq(Turns) /\ N \in Nat /\ budget \in Nat \ {0}
      /\ \A i \in 1..N : s[i] \in Turns /\ size[s[i]] \in Nat \ {0}
  BY Lengths
<1>2. C \in [0..N -> Nat] /\ \A i \in 1..N : C[i] = C[i - 1] + size[s[i]] + 1
  BY LineTotals
<1>3. PICK k \in N - (n - 1)..N :
        /\ v.kept = Without(s, k)
        /\ v.left = budget - (C[N] - C[k]) /\ v.left >= 0
        /\ ~v.full => k = N - (n - 1)
        /\ v.full => k > N - (n - 1) /\ C[N] - C[k - 1] > budget
  BY DEF FormattedTo
<1>4. v.full \in BOOLEAN /\ v.left \in Int
  BY DEF Reading
<1> HIDE DEF C, N
<1>5. PICK t, j : t = s[N - n + 1] /\ j = N - n + 1
  OBVIOUS
<1>6. j \in 1..N /\ j - 1 = N - n /\ N - (n - 1) = j
  BY <1>1, <1>5 DEF N
<1>7. t = s[j] /\ size[t] \in Nat \ {0} /\ C[j] = C[j - 1] + size[t] + 1
      /\ C[j] \in Nat /\ C[j - 1] \in Nat /\ C[N] \in Nat
  <2>1. j \in 0..N /\ j - 1 \in 0..N /\ N \in 0..N
    BY <1>1, <1>6
  <2>2. t = s[j] /\ C[j] = C[j - 1] + size[s[j]] + 1
    BY <1>2, <1>5, <1>6
  <2>3. QED
    BY <1>1, <1>2, <1>6, <2>1, <2>2
<1>8. k \in N - n..N
  BY <1>1 DEF N
<1>9. CASE v.full
  <2>1. AddTurn(v, t) = [v EXCEPT !.full = TRUE]
    BY <1>9 DEF AddTurn
  <2>2. v = [kept |-> v.kept, left |-> v.left, full |-> TRUE]
    BY <1>9 DEF Reading
  <2>3. AddTurn(v, t) = v
    BY <2>1, <2>2
  <2>4. k > N - n
    BY <1>1, <1>3, <1>9 DEF N
  <2>5. FormattedTo(s, n, v)
    BY <1>3, <1>8, <1>9, <2>4 DEF FormattedTo, C, N
  <2>6. QED
    BY <1>5, <2>3, <2>5 DEF N
<1>10. CASE ~v.full /\ size[t] + 1 > v.left
  <2>1. k = j
    BY <1>3, <1>6, <1>10
  <2>2. AddTurn(v, t) = [v EXCEPT !.full = TRUE]
    BY <1>10 DEF AddTurn
  <2>3. PICK u : u = AddTurn(v, t)
    OBVIOUS
  <2>4. u.kept = v.kept /\ u.left = v.left /\ u.full = TRUE
    BY <2>2, <2>3 DEF Reading
  <2>5. C[N] - C[k - 1] > budget /\ k > N - n
    <3>1. v.left = budget - (C[N] - C[j]) /\ size[t] + 1 > v.left
      BY <1>3, <1>10, <2>1
    <3>2. C[N] - C[j - 1] > budget
      <4>1. PICK all, now, below, len : all = C[N] /\ now = C[j] /\ below = C[j - 1] /\ len = size[t]
        OBVIOUS
      <4>2. /\ all \in Nat /\ now \in Nat /\ below \in Nat /\ len \in Nat /\ budget \in Nat
            /\ now = below + len + 1 /\ len + 1 > budget - (all - now)
        BY <1>1, <1>7, <3>1, <4>1
      <4>3. all - below > budget
        BY <4>2
      <4>4. QED
        BY <4>1, <4>3
    <3>3. QED
      BY <1>1, <1>6, <2>1, <3>2
  <2>6. FormattedTo(s, n, u)
    BY <1>3, <1>8, <2>4, <2>5 DEF FormattedTo, C, N
  <2>7. QED
    BY <1>5, <2>3, <2>6 DEF N
<1>11. CASE ~v.full /\ ~(size[t] + 1 > v.left)
  <2>1. k = j
    BY <1>3, <1>6, <1>11
  <2>2. PICK u : u = AddTurn(v, t)
    OBVIOUS
  <2>3. u = [kept |-> <<t>> \o v.kept, left |-> v.left - size[t] - 1, full |-> FALSE]
    BY <1>11, <2>2 DEF AddTurn
  <2>4. u.kept = <<s[j]>> \o Without(s, j) /\ u.left = v.left - size[t] - 1 /\ u.full = FALSE
    BY <1>3, <1>7, <2>1, <2>3
  <2>5. <<s[j]>> \o Without(s, j) = Without(s, j - 1)
    BY <1>6, OneTurnMore DEF N
  <2>6. u.left = budget - (C[N] - C[j - 1]) /\ u.left >= 0
    <3>1. v.left = budget - (C[N] - C[j]) /\ ~(size[t] + 1 > v.left)
      BY <1>3, <1>11, <2>1
    <3>2. u.left = v.left - size[t] - 1
      BY <2>4
    <3>3. PICK all, now, below, len : all = C[N] /\ now = C[j] /\ below = C[j - 1] /\ len = size[t]
      OBVIOUS
    <3>4. /\ all \in Nat /\ now \in Nat /\ below \in Nat /\ len \in Nat /\ budget \in Nat
          /\ now = below + len + 1 /\ ~(len + 1 > budget - (all - now))
          /\ u.left = budget - (all - now) - len - 1
      BY <1>1, <1>7, <3>1, <3>2, <3>3
    <3>5. u.left = budget - (all - below) /\ u.left >= 0
      BY <3>4
    <3>6. QED
      BY <3>3, <3>5
  <2>7. j - 1 \in N - n..N
    BY <1>1, <1>6
  <2>8. FormattedTo(s, n, u)
    BY <1>6, <2>4, <2>5, <2>6, <2>7 DEF FormattedTo, C, N
  <2>9. QED
    BY <1>5, <2>2, <2>8 DEF N
<1>12. QED
  BY <1>4, <1>9, <1>10, <1>11

LEMMA FormattedThroughout ==
    ASSUME NEW s, Spoken(s)
    PROVE  FormattedTo(s, Len(s), Formatted(s)[Len(s)])
<1> DEFINE N == Len(s)
           T == {n \in 0..N : FormattedTo(s, n, Formatted(s)[n])}
<1>1. s \in Seq(Turns) /\ N \in Nat /\ budget \in Nat \ {0}
  BY Lengths
<1>2. /\ Formatted(s)[0] = [kept |-> <<>>, left |-> budget, full |-> FALSE]
      /\ \A n \in 0..N : Formatted(s)[n] \in Reading
      /\ \A n \in 1..N : Formatted(s)[n] = AddTurn(Formatted(s)[n - 1], s[N - n + 1])
  BY FormattedRecursion
<1>3. 0 \in T
  <2>1. N \in 0..N /\ N - 0 = N
    BY <1>1
  <2>2. Without(s, N) = <<>>
    <3>1. /\ Without(s, N) \in Seq(Turns) /\ Len(Without(s, N)) = N - N
      BY <2>1, WithoutPlaces
    <3>2. QED
      BY <1>1, <3>1, EmptySeq
  <2>3. Totals(Lines(s))[N] \in Nat
    BY <2>1, LineTotals
  <2>4. budget = budget - (Totals(Lines(s))[N] - Totals(Lines(s))[N])
    BY <1>1, <2>3
  <2>5. PICK v : v = [kept |-> <<>>, left |-> budget, full |-> FALSE]
    OBVIOUS
  <2>6. v.kept = <<>> /\ v.left = budget /\ v.full = FALSE
    BY <2>5
  <2>7. N \in N - 0..N /\ budget >= 0
    BY <1>1
  <2>8. FormattedTo(s, 0, v)
    BY <2>1, <2>2, <2>4, <2>6, <2>7 DEF FormattedTo
  <2>9. QED
    BY <1>1, <1>2, <2>5, <2>8
<1>4. ASSUME NEW n \in 1..N, n - 1 \in T PROVE n \in T
  <2>1. n - 1 \in 0..N
    BY <1>1
  <2>2. PICK v : v = Formatted(s)[n - 1]
    OBVIOUS
  <2>3. v \in Reading /\ FormattedTo(s, n - 1, v)
    BY <1>2, <1>4, <2>1, <2>2
  <2>4. FormattedTo(s, n, AddTurn(v, s[N - n + 1]))
    BY <2>3, FormattedStep
  <2>5. Formatted(s)[n] = AddTurn(v, s[N - n + 1])
    BY <1>2, <2>2
  <2>6. QED
    BY <1>1, <2>4, <2>5
<1> HIDE DEF T
<1>5. 0..N \subseteq T
  BY <1>1, <1>3, <1>4, UpToInduction
<1>6. N \in T
  BY <1>1, <1>5
<1>7. QED
  BY <1>6 DEF T

\* The newest turns that fit, and one more would not: there is one such number of them.
LEMMA NoGap == ASSUME Spoken(appended) PROVE PromptHasNoGap
<1> DEFINE s == appended
           N == Len(s)
           C == Totals(Lines(s))
           Fits(n) == /\ Cost(Without(s, n)) <= budget
                      /\ n > 0 => Cost(Without(s, n - 1)) > budget
<1>1. N \in Nat /\ budget \in Nat /\ C \in [0..N -> Nat] /\ Lines(s) \in Seq(Nat) /\ Len(Lines(s)) = N
  BY Lengths, LineTotals
<1>2. \A n \in 0..N : Cost(Without(s, n)) = C[N] - C[n]
  BY CostOfRest
<1>3. \A j \in 0..N : \A i \in 0..j : C[i] <= C[j]
  BY <1>1, TotalsMonotone
<1>4. PICK k \in N - N..N :
        /\ Kept(s) = Without(s, k)
        /\ budget - (C[N] - C[k]) >= 0
        /\ k > 0 => C[N] - C[k - 1] > budget
  <2>1. PICK v : v = Formatted(s)[N]
    OBVIOUS
  <2>2. FormattedTo(s, N, v) /\ v \in Reading
    <3>1. N \in 0..N
      BY <1>1
    <3>2. QED
      BY <2>1, <3>1, FormattedThroughout, FormattedRecursion
  <2>3. v.full \in BOOLEAN /\ N - N = 0 /\ Kept(s) = v.kept
    BY <1>1, <2>1, <2>2 DEF Reading, Kept
  <2>4. QED
    BY <2>2, <2>3 DEF FormattedTo
<1> HIDE DEF C, N
<1>5. k \in 0..N
  BY <1>1, <1>4
<1>6. ASSUME NEW n \in 0..N, n > 0 PROVE n - 1 \in 0..N
  BY <1>1, <1>6
<1>7. Fits(k)
  <2>1. C[N] \in Nat /\ C[k] \in Nat
    BY <1>1, <1>5
  <2>2. C[N] - C[k] <= budget
    BY <1>1, <1>4, <2>1
  <2>3. QED
    BY <1>2, <1>4, <1>5, <1>6, <2>2
<1>8. ASSUME NEW m \in 0..N, NEW n \in 0..N, m < n, Fits(m), Fits(n) PROVE FALSE
  <2>1. n - 1 \in 0..N /\ m \in 0..n - 1
    BY <1>1, <1>8
  <2>2. C[N] - C[m] <= budget /\ C[N] - C[n - 1] > budget
    BY <1>2, <1>8, <2>1
  <2>3. C[m] <= C[n - 1] /\ C[m] \in Nat /\ C[n - 1] \in Nat /\ C[N] \in Nat
    BY <1>1, <1>3, <2>1
  <2>4. QED
    BY <1>1, <2>2, <2>3
<1>9. \A n \in 0..N : Fits(n) => n = k
  <2>1. \A n \in 0..N : n < k \/ n = k \/ k < n
    BY <1>1, <1>5
  <2>2. QED
    BY <1>5, <1>7, <1>8, <2>1
<1>10. k = CHOOSE n \in 0..N : Fits(n)
  BY <1>5, <1>7, <1>9
<1>11. QED
  BY <1>4, <1>10 DEF PromptHasNoGap, N

LEMMA FirstPlaces ==
    ASSUME NEW s, Spoken(s), NEW k \in 0..Len(s)
    PROVE  /\ SubSeq(s, 1, k) \in Seq(Turns) /\ Len(SubSeq(s, 1, k)) = k
           /\ \A i \in 1..k : SubSeq(s, 1, k)[i] = s[i]
<1>1. s \in Seq(Turns) /\ Len(s) \in Nat
  BY Lengths
<1>2. PICK m : m = 1
  OBVIOUS
<1>3. m \in Nat \ {0} /\ m <= k + 1
  BY <1>2
<1>4. /\ SubSeq(s, m, k) \in Seq(Turns) /\ Len(SubSeq(s, m, k)) = k - m + 1
      /\ \A i \in 1..k - m + 1 : SubSeq(s, m, k)[i] = s[m + i - 1]
  BY <1>1, <1>3, SegmentPlaces
<1>5. k - m + 1 = k /\ \A i \in 1..k : m + i - 1 = i
  BY <1>1, <1>2
<1>6. QED
  BY <1>2, <1>4, <1>5

LEMMA BlockTotals ==
    ASSUME NEW s, Spoken(s)
    PROVE  /\ Lengthy(s) \in Seq(Nat) /\ Len(Lengthy(s)) = Len(s)
           /\ \A i \in 1..Len(s) : Lengthy(s)[i] = size[s[i]]
           /\ Totals(Lengthy(s)) \in [0..Len(s) -> Nat]
           /\ Totals(Lengthy(s))[0] = 0
           /\ \A i \in 1..Len(s) : Totals(Lengthy(s))[i] = Totals(Lengthy(s))[i - 1] + size[s[i]]
           /\ Blocks(s) = Totals(Lengthy(s))[Len(s)]
<1>1. /\ Len(s) \in Nat /\ DOMAIN s = 1..Len(s)
      /\ \A i \in 1..Len(s) : size[s[i]] \in Nat \ {0}
  BY Lengths
<1>2. /\ Lengthy(s) \in Seq(Nat) /\ Len(Lengthy(s)) = Len(s)
      /\ \A i \in 1..Len(s) : Lengthy(s)[i] = size[s[i]]
  BY <1>1 DEF Lengthy
<1>3. PICK w : w = Lengthy(s)
  OBVIOUS
<1>4. /\ Totals(w) \in [0..Len(s) -> Nat] /\ Totals(w)[0] = 0
      /\ \A i \in 1..Len(s) : Totals(w)[i] = Totals(w)[i - 1] + w[i]
  BY <1>2, <1>3, TotalsRecursion
<1>5. ASSUME NEW i \in 1..Len(s) PROVE Totals(w)[i] = Totals(w)[i - 1] + size[s[i]]
  BY <1>2, <1>3, <1>4
<1>6. Blocks(s) = Totals(Lengthy(s))[Len(s)]
  BY DEF Blocks, Lengthy
<1>7. QED
  BY <1>2, <1>3, <1>4, <1>5, <1>6

LEMMA BlocksOfFirst ==
    ASSUME NEW s, Spoken(s), NEW k \in 0..Len(s)
    PROVE  Blocks(SubSeq(s, 1, k)) = Totals(Lengthy(s))[k]
<1>1. s \in Seq(Turns) /\ Len(s) \in Nat
  BY Lengths
<1>2. PICK t : t = SubSeq(s, 1, k)
  OBVIOUS
<1>3. t \in Seq(Turns) /\ Len(t) = k /\ \A i \in 1..k : t[i] = s[i]
  BY <1>2, FirstPlaces
<1>4. Spoken(t)
  BY <1>3 DEF Spoken
<1>5. PICK v, w : v = Lengthy(t) /\ w = Lengthy(s)
  OBVIOUS
<1>6. v \in Seq(Nat) /\ Len(v) = k /\ Blocks(t) = Totals(v)[k] /\ \A i \in 1..k : v[i] = size[t[i]]
  BY <1>3, <1>4, <1>5, BlockTotals
<1>7. /\ w \in Seq(Nat) /\ Len(w) = Len(s) /\ \A i \in 1..Len(s) : w[i] = size[s[i]]
      /\ Totals(w) \in [0..Len(s) -> Nat] /\ Totals(w)[0] = 0
  BY <1>5, BlockTotals
<1>8. PICK z : z = 0
  OBVIOUS
<1>9. z \in Nat /\ z + Len(v) <= Len(w) /\ \A i \in 1..Len(v) : v[i] = w[z + i]
  <2>1. ASSUME NEW i \in 1..k PROVE v[i] = w[z + i]
    <3>1. i \in 1..Len(s) /\ z + i = i
      BY <1>1, <1>8
    <3>2. QED
      BY <1>3, <1>6, <1>7, <3>1
  <2>2. z \in Nat /\ z + Len(v) <= Len(w)
    BY <1>1, <1>6, <1>7, <1>8
  <2>3. QED
    BY <1>6, <2>1, <2>2
<1>10. Totals(v)[Len(v)] = Totals(w)[z + Len(v)] - Totals(w)[z]
  BY <1>6, <1>7, <1>9, TotalsOfSegment
<1>11. z + Len(v) = k /\ Totals(w)[z] = 0 /\ Totals(w)[k] \in Nat
  BY <1>1, <1>6, <1>7, <1>8
<1>12. Totals(v)[k] = Totals(w)[k] - 0
  BY <1>6, <1>10, <1>11
<1>13. QED
  BY <1>2, <1>5, <1>6, <1>11, <1>12

\* How far build_long_context_prompt has come.
Packing == [blocks : Seq(Turns), left : Int, truncated : BOOLEAN, full : BOOLEAN]

LEMMA AddDocumentType ==
    ASSUME NEW s, Spoken(s), NEW v \in Packing, NEW i \in 1..Len(s)
    PROVE  AddDocument(v, s[i]) \in Packing
<1>1. s[i] \in Turns /\ size[s[i]] \in Nat
  BY Lengths
<1>2. PICK d : d = s[i]
  OBVIOUS
<1>3. /\ v.blocks \in Seq(Turns) /\ v.left \in Int
      /\ [v EXCEPT !.truncated = TRUE, !.full = TRUE] \in Packing
  BY DEF Packing
<1>4. Append(v.blocks, d) \in Seq(Turns)
  BY <1>1, <1>2, <1>3, AppendProperties
<1>5. v.left - size[d] \in Int /\ (v.left - size[d] <= 0) \in BOOLEAN
  BY <1>1, <1>2, <1>3
<1>6. AddDocument(v, d) \in Packing
  <2>1. CASE v.full
    BY <2>1 DEF AddDocument
  <2>2. CASE ~v.full /\ size[d] > v.left
    BY <1>3, <2>2 DEF AddDocument
  <2>3. CASE ~v.full /\ ~(size[d] > v.left)
    BY <1>4, <1>5, <2>3 DEF AddDocument, Packing
  <2>4. QED
    BY <2>1, <2>2, <2>3
<1>7. QED
  BY <1>2, <1>6

LEMMA AssembledRecursion ==
    ASSUME NEW s, Spoken(s)
    PROVE  /\ Assembled(s)[0] = [blocks |-> <<>>, left |-> budget, truncated |-> FALSE, full |-> FALSE]
           /\ \A n \in 0..Len(s) : Assembled(s)[n] \in Packing
           /\ \A n \in 1..Len(s) : Assembled(s)[n] = AddDocument(Assembled(s)[n - 1], s[n])
<1> DEFINE N == Len(s)
           none == [blocks |-> <<>>, left |-> budget, truncated |-> FALSE, full |-> FALSE]
           step == [n \in 1..N |-> [v \in Packing |-> AddDocument(v, s[n])]]
           Body(f, n) == IF n = 0 THEN none ELSE AddDocument(f[n - 1], s[n])
           Solves(f) == f = [n \in 0..N |-> Body(f, n)]
<1>1. N \in Nat
  BY Lengths
<1>2. none \in Packing
  BY Lengths DEF Packing
<1>3. \A n \in 1..N, v \in Packing : AddDocument(v, s[n]) \in Packing
  BY AddDocumentType
<1>4. Assembled(s) = CHOOSE f : Solves(f)
  BY DEF Assembled
<1> HIDE DEF none
<1>5. /\ step \in [1..N -> [Packing -> Packing]]
      /\ \A n \in 1..N, v \in Packing : step[n][v] = AddDocument(v, s[n])
  BY <1>3
<1> HIDE DEF step, N
<1>6. PICK f : Iterates(f, Packing, none, N, step)
  BY <1>1, <1>2, <1>5, IterationExists
<1>7. /\ f \in [0..N -> Packing] /\ f[0] = none
      /\ \A n \in 1..N : f[n] = step[n][f[n - 1]]
  BY <1>6 DEF Iterates
<1>8. ASSUME NEW n \in 0..N PROVE f[n] = Body(f, n)
  <2>1. n # 0 => n \in 1..N /\ f[n - 1] \in Packing
    BY <1>1, <1>7
  <2>2. QED
    BY <1>5, <1>7, <2>1
<1> HIDE DEF Body
<1>9. Solves(f)
  BY <1>7, <1>8
<1> HIDE DEF Solves
<1>10. Solves(Assembled(s))
  BY <1>4, <1>9
<1> DEFINE c == Assembled(s)
<1> HIDE DEF c
<1>11. c = [n \in 0..N |-> Body(c, n)]
  BY <1>10 DEF Solves, c
<1>12. c[0] = none /\ \A n \in 1..N : c[n] = AddDocument(c[n - 1], s[n])
  BY <1>1, <1>11 DEF Body
<1>13. \A n \in 0..N : c[n] \in Packing
  <2>1. \A n \in 1..N : c[n - 1] \in Packing => c[n] \in Packing
    BY <1>3, <1>12
  <2>2. c[0] \in Packing
    BY <1>2, <1>12
  <2>3. QED
    BY <1>1, <2>1, <2>2, IterationType
<1>14. QED
  BY <1>12, <1>13 DEF c, N, none

\* After the first n documents: k of them are in the prompt.
AssembledTo(s, n, v) ==
    \E k \in 0..n :
        LET B == Totals(Lengthy(s))
        IN  /\ v.blocks = SubSeq(s, 1, k)
            /\ v.left = budget - B[k] /\ v.left >= 0
            /\ ~v.full => k = n /\ ~v.truncated
            /\ v.full /\ v.truncated => k < n /\ B[k + 1] > budget
            /\ v.full /\ ~v.truncated => v.left = 0

LEMMA AssembledStep ==
    ASSUME NEW s, Spoken(s), NEW n \in 1..Len(s), NEW v \in Packing, AssembledTo(s, n - 1, v)
    PROVE  AssembledTo(s, n, AddDocument(v, s[n]))
<1> DEFINE N == Len(s)
           B == Totals(Lengthy(s))
<1>1. /\ s \in Seq(Turns) /\ N \in Nat /\ budget \in Nat \ {0}
      /\ \A i \in 1..N : s[i] \in Turns /\ size[s[i]] \in Nat \ {0}
  BY Lengths
<1>2. B \in [0..N -> Nat] /\ \A i \in 1..N : B[i] = B[i - 1] + size[s[i]]
  BY BlockTotals
<1>3. PICK k \in 0..n - 1 :
        /\ v.blocks = SubSeq(s, 1, k)
        /\ v.left = budget - B[k] /\ v.left >= 0
        /\ ~v.full => k = n - 1 /\ ~v.truncated
        /\ v.full /\ v.truncated => k < n - 1 /\ B[k + 1] > budget
        /\ v.full /\ ~v.truncated => v.left = 0
  BY DEF AssembledTo
<1>4. v.full \in BOOLEAN /\ v.left \in Int /\ v.truncated \in BOOLEAN
  BY DEF Packing
<1> HIDE DEF B, N
<1>5. PICK d, p : d = s[n] /\ p = n - 1
  OBVIOUS
<1>6. /\ n \in 1..N /\ n \in Nat /\ p \in 0..N /\ p + 1 = n /\ size[d] \in Nat \ {0}
      /\ B[p] \in Nat /\ B[n] = B[p] + size[d] /\ k \in 0..n /\ k \in 0..p
  BY <1>1, <1>2, <1>5 DEF N
<1>7. CASE v.full
  <2>1. AddDocument(v, d) = v
    BY <1>7 DEF AddDocument
  <2>2. v.truncated => k < n
    BY <1>3, <1>7
  <2>3. AssembledTo(s, n, v)
    BY <1>3, <1>6, <1>7, <2>2 DEF AssembledTo, B
  <2>4. QED
    BY <1>5, <2>1, <2>3
<1>8. CASE ~v.full /\ size[d] > v.left
  <2>1. k = p
    BY <1>3, <1>5, <1>8
  <2>2. PICK u : u = AddDocument(v, d)
    OBVIOUS
  <2>3. u = [v EXCEPT !.truncated = TRUE, !.full = TRUE]
    BY <1>8, <2>2 DEF AddDocument
  <2>4. u.blocks = v.blocks /\ u.left = v.left /\ u.truncated = TRUE /\ u.full = TRUE
    BY <2>3 DEF Packing
  <2>5. k < n /\ B[k + 1] > budget
    <3>1. v.left = budget - B[p] /\ size[d] > v.left
      BY <1>3, <1>8, <2>1
    <3>2. B[n] > budget
      BY <1>1, <1>6, <3>1
    <3>3. QED
      BY <1>6, <2>1, <3>2
  <2>6. AssembledTo(s, n, u)
    BY <1>3, <1>6, <2>4, <2>5 DEF AssembledTo, B
  <2>7. QED
    BY <1>5, <2>2, <2>6
<1>9. CASE ~v.full /\ ~(size[d] > v.left)
  <2>1. k = p
    BY <1>3, <1>5, <1>9
  <2>2. PICK u : u = AddDocument(v, d)
    OBVIOUS
  <2>3. u = [blocks |-> Append(v.blocks, d), left |-> v.left - size[d],
             truncated |-> FALSE, full |-> v.left - size[d] <= 0]
    BY <1>9, <2>2 DEF AddDocument
  <2>4. /\ u.blocks = Append(SubSeq(s, 1, p), s[n]) /\ u.left = v.left - size[d]
        /\ u.truncated = FALSE /\ u.full \in BOOLEAN /\ (u.full <=> v.left - size[d] <= 0)
    <3>1. u.blocks = Append(v.blocks, d) /\ u.left = v.left - size[d] /\ u.truncated = FALSE
      BY <2>3
    <3>2. u.full <=> v.left - size[d] <= 0
      BY <2>3
    <3>3. u.full \in BOOLEAN
      BY <1>4, <1>6, <2>3
    <3>4. QED
      BY <1>3, <1>5, <2>1, <3>1, <3>2, <3>3
  <2>5. Append(SubSeq(s, 1, p), s[n]) = SubSeq(s, 1, n)
    <3>1. PICK f, g, a : f = SubSeq(s, 1, p) /\ g = SubSeq(s, 1, n) /\ a = Append(f, s[n])
      OBVIOUS
    <3>2. f \in Seq(Turns) /\ Len(f) = p /\ \A i \in 1..p : f[i] = s[i]
      BY <1>6, <3>1, FirstPlaces DEF N
    <3>3. g \in Seq(Turns) /\ Len(g) = n /\ \A i \in 1..n : g[i] = s[i]
      <4>1. n \in 0..Len(s)
        BY <1>6 DEF N
      <4>2. QED
        BY <3>1, <4>1, FirstPlaces
    <3>4. /\ a \in Seq(Turns) /\ Len(a) = p + 1 /\ a[p + 1] = s[n]
          /\ \A i \in 1..p : a[i] = f[i]
      BY <1>1, <1>6, <3>1, <3>2, AppendProperties
    <3>5. \A i \in 1..n : a[i] = g[i]
      <4>1. \A i \in 1..n : i = p + 1 \/ i \in 1..p
        BY <1>6
      <4>2. QED
        BY <1>6, <3>2, <3>3, <3>4, <4>1
    <3>6. a = g
      BY <1>6, <3>3, <3>4, <3>5, SeqEqual
    <3>7. QED
      BY <3>1, <3>6
  <2>6. u.left = budget - B[n] /\ u.left >= 0 /\ (u.full => u.left = 0) /\ u.full \in BOOLEAN
    <3>1. PICK b, len, left : b = B[p] /\ len = size[d] /\ left = v.left
      OBVIOUS
    <3>2. /\ left \in Int /\ left = budget - b /\ ~(len > left) /\ u.left = left - len
          /\ B[n] = b + len /\ b \in Nat /\ len \in Nat /\ budget \in Nat
      BY <1>1, <1>3, <1>4, <1>6, <1>9, <2>1, <2>4, <3>1
    <3>3. u.left = budget - B[n] /\ u.left >= 0
      BY <3>2
    <3>4. u.full => v.left - size[d] <= 0
      BY <2>4
    <3>5. u.full => u.left = 0
      BY <3>1, <3>2, <3>4
    <3>6. u.full \in BOOLEAN
      BY <2>4
    <3>7. QED
      BY <3>3, <3>5, <3>6
  <2>7. AssembledTo(s, n, u)
    <3>1. n \in 0..n
      BY <1>6
    <3>2. QED
      BY <2>4, <2>5, <2>6, <3>1 DEF AssembledTo, B
  <2>8. QED
    BY <1>5, <2>2, <2>7
<1>10. QED
  BY <1>4, <1>7, <1>8, <1>9

LEMMA AssembledThroughout ==
    ASSUME NEW s, Spoken(s)
    PROVE  AssembledTo(s, Len(s), Assembled(s)[Len(s)])
<1> DEFINE N == Len(s)
           T == {n \in 0..N : AssembledTo(s, n, Assembled(s)[n])}
<1>1. s \in Seq(Turns) /\ N \in Nat /\ budget \in Nat \ {0}
  BY Lengths
<1>2. /\ Assembled(s)[0] = [blocks |-> <<>>, left |-> budget, truncated |-> FALSE, full |-> FALSE]
      /\ \A n \in 0..N : Assembled(s)[n] \in Packing
      /\ \A n \in 1..N : Assembled(s)[n] = AddDocument(Assembled(s)[n - 1], s[n])
  BY AssembledRecursion
<1>3. 0 \in T
  <2>1. PICK v : v = Assembled(s)[0]
    OBVIOUS
  <2>2. v.blocks = <<>> /\ v.left = budget /\ v.truncated = FALSE /\ v.full = FALSE
    BY <1>2, <2>1
  <2>3. PICK z : z = 0
    OBVIOUS
  <2>4. z \in 0..N /\ z \in 0..0
    BY <1>1, <2>3
  <2>5. SubSeq(s, 1, z) = <<>>
    <3>1. SubSeq(s, 1, z) \in Seq(Turns) /\ Len(SubSeq(s, 1, z)) = z
      BY <2>4, FirstPlaces
    <3>2. QED
      BY <2>3, <3>1, EmptySeq
  <2>6. Totals(Lengthy(s))[z] = 0 /\ budget = budget - 0 /\ budget >= 0
    BY <1>1, <2>3, BlockTotals
  <2>7. AssembledTo(s, z, v)
    BY <2>2, <2>3, <2>4, <2>5, <2>6 DEF AssembledTo
  <2>8. QED
    BY <1>1, <2>1, <2>3, <2>7
<1>4. ASSUME NEW n \in 1..N, n - 1 \in T PROVE n \in T
  <2>1. n - 1 \in 0..N
    BY <1>1
  <2>2. PICK v : v = Assembled(s)[n - 1]
    OBVIOUS
  <2>3. v \in Packing /\ AssembledTo(s, n - 1, v)
    BY <1>2, <1>4, <2>1, <2>2
  <2>4. AssembledTo(s, n, AddDocument(v, s[n]))
    BY <2>3, AssembledStep
  <2>5. Assembled(s)[n] = AddDocument(v, s[n])
    BY <1>2, <2>2
  <2>6. QED
    BY <1>1, <2>4, <2>5
<1> HIDE DEF T
<1>5. 0..N \subseteq T
  BY <1>1, <1>3, <1>4, UpToInduction
<1>6. N \in T
  BY <1>1, <1>5
<1>7. QED
  BY <1>6 DEF T

LEMMA WithinBudget == ASSUME Spoken(appended) PROVE DocumentsFill
<1> DEFINE s == appended
           N == Len(s)
           B == Totals(Lengthy(s))
<1>1. /\ N \in Nat /\ budget \in Nat
      /\ \A i \in 1..N : s[i] \in Turns /\ size[s[i]] \in Nat \ {0}
  BY Lengths
<1>2. B \in [0..N -> Nat] /\ \A i \in 1..N : B[i] = B[i - 1] + size[s[i]]
  BY BlockTotals
<1>3. PICK v : v = LongContextPrompt(s)
  OBVIOUS
<1>4. v \in Packing /\ AssembledTo(s, N, v)
  <2>1. N \in 0..N
    BY <1>1
  <2>2. QED
    BY <1>3, <2>1, AssembledThroughout, AssembledRecursion DEF LongContextPrompt
<1>5. PICK k \in 0..N :
        /\ v.blocks = SubSeq(s, 1, k)
        /\ v.left = budget - B[k] /\ v.left >= 0
        /\ ~v.full => k = N /\ ~v.truncated
        /\ v.full /\ v.truncated => k < N /\ B[k + 1] > budget
        /\ v.full /\ ~v.truncated => v.left = 0
  BY <1>4 DEF AssembledTo
<1>6. v.full \in BOOLEAN /\ v.truncated \in BOOLEAN
  BY <1>4 DEF Packing
<1>7. Len(v.blocks) = k
  BY <1>5, FirstPlaces
<1>8. Blocks(v.blocks) = B[k]
  BY <1>5, BlocksOfFirst
<1> HIDE DEF B, N
<1>9. B[k] <= budget /\ B[k] \in Nat
  BY <1>1, <1>2, <1>5
<1>10. ASSUME k < N PROVE Blocks(SubSeq(s, 1, k + 1)) > budget
  <2>1. PICK j : j = k + 1
    OBVIOUS
  <2>2. j \in 1..N /\ j \in 0..N /\ j - 1 = k
    BY <1>1, <1>10, <2>1
  <2>3. Blocks(SubSeq(s, 1, j)) = B[j]
    BY <2>2, BlocksOfFirst DEF B, N
  <2>4. B[j] = B[k] + size[s[j]] /\ size[s[j]] \in Nat \ {0}
    BY <1>1, <1>2, <2>2
  <2>5. B[j] > budget
    <3>1. CASE v.truncated
      <4>1. v.full
        BY <1>5, <1>6, <3>1
      <4>2. QED
        BY <1>5, <2>1, <3>1, <4>1
    <3>2. CASE ~v.truncated
      <4>1. v.full
        BY <1>1, <1>5, <1>6, <1>10
      <4>2. v.left = 0 /\ v.left = budget - B[k]
        BY <1>5, <3>2, <4>1
      <4>3. QED
        BY <1>1, <1>9, <2>4, <4>2
    <3>3. QED
      BY <1>6, <3>1, <3>2
  <2>6. QED
    BY <2>1, <2>3, <2>5
<1>11. v.truncated => k < N
  BY <1>5, <1>6
<1>12. v.blocks = SubSeq(s, 1, Len(v.blocks))
  BY <1>5, <1>7
<1>13. k < N => v.truncated \/ Blocks(v.blocks) = budget
  <2>1. SUFFICES ASSUME k < N, ~v.truncated PROVE B[k] = budget
    BY <1>8
  <2>2. v.left = 0 /\ v.left = budget - B[k]
    BY <2>1, <1>1, <1>5, <1>6
  <2>3. QED
    BY <2>2, <1>1, <1>9
<1>14. k > 0 => Joined(v.blocks) <= budget + (k - 1) * Separator
  <2>1. SUFFICES ASSUME k > 0 PROVE Joined(v.blocks) <= budget + (k - 1) * Separator
    OBVIOUS
  <2>2. v.blocks # <<>>
    BY <2>1, <1>7
  <2>3. Joined(v.blocks) = B[k] + (k - 1) * Separator
    BY <2>2, <1>7, <1>8 DEF Joined
  <2>4. PICK m : m = (k - 1) * Separator
    OBVIOUS
  <2>5. m \in Int
    BY <2>4, <1>1, MemoryAssumption
  <2>6. B[k] + m <= budget + m
    BY <2>5, <1>1, <1>9
  <2>7. QED
    BY <2>3, <2>4, <2>6
<1>15. QED
  BY <1>3, <1>7, <1>8, <1>10, <1>11, <1>12, <1>13, <1>14 DEF DocumentsFill, N

LengthsInv == size \in [Turns -> Sizes] /\ budget \in Budgets

\* The lengths and the budget are the caller's, and no step changes them.
LEMMA LengthsInvariant == MemorySpec => []LengthsInv
<1>1. MemoryInit => LengthsInv
  BY DEF MemoryInit, LengthsInv, Turns
<1>2. LengthsInv /\ [MemoryNext]_memoryVars => LengthsInv'
  BY DEF LengthsInv, MemoryNext, memoryVars, LoadForAppend, WriteBack, Forget, Turns
<1>3. QED
  BY <1>1, <1>2, PTL DEF MemorySpec

\* For any window, number of writers, lengths and budget (memory.py, append_turn and
\* format_history_for_prompt; long_context_fallback.py, build_long_context_prompt): the
\* history keeps the order of the turns, its prompt takes, without a gap, as much as fits
\* and no more, and the documents' prompt exceeds its budget by no more than separators.
THEOREM MemoriesStaySound == MemorySpec => []MemorySound
<1>1. MemorySpec => []HistoryInv /\ []LengthsInv
  BY HistoryInvariant, LengthsInvariant
<1>2. HistoryInv /\ LengthsInv => MemorySound
  <2> SUFFICES ASSUME HistoryInv, LengthsInv PROVE MemorySound
    OBVIOUS
  <2>1. Spoken(appended)
    BY DEF HistoryInv, LengthsInv, Spoken
  <2>2. PromptHasNoGap /\ DocumentsFill
    BY <2>1, NoGap, WithinBudget
  <2>3. HistoryIsNewest /\ HistoryInOrder
    BY HistoryKeepsOrder
  <2>4. QED
    BY <2>2, <2>3 DEF MemorySound
<1>3. QED
  BY <1>1, <1>2, PTL

-----------------------------------------------------------------------------
(* The verdict on a disliked answer                                        *)

\* Of nine rules of which the last always applies, one applies first.
LEMMA FirstOfNine ==
    ASSUME NEW S \in SUBSET (1 .. 9), 9 \in S
    PROVE  Min(S) \in S /\ \A y \in S : Min(S) <= y
<1>1. ASSUME NEW x \in S, \A y \in 1 .. 9 : y < x => y \notin S
      PROVE  Min(S) \in S /\ \A y \in S : Min(S) <= y
  <2>1. \A y \in S : x <= y
    BY <1>1
  <2>2. QED
    BY <2>1, <1>1 DEF Min
<1>2. CASE 1 \in S \/ 2 \in S \/ 3 \in S
  BY <1>1, <1>2
<1>3. CASE 1 \notin S /\ 2 \notin S /\ 3 \notin S /\ (4 \in S \/ 5 \in S \/ 6 \in S)
  <2>1. \A y \in 1 .. 9 : y < 4 => y \notin S
    BY <1>3
  <2>2. QED
    BY <1>1, <1>3, <2>1
<1>4. CASE \A y \in 1 .. 6 : y \notin S
  <2>1. CASE 7 \in S
    BY <1>1, <1>4, <2>1
  <2>2. CASE 7 \notin S
    BY <1>1, <1>4, <2>2
  <2>3. QED
    BY <2>1, <2>2
<1>5. QED
  BY <1>2, <1>3, <1>4

\* The cascade over its conditions alone.
Cascade(ambiguous, outside, badSources, raises, cut, badAnswer, conflict, expired) ==
    LET rules == <<
            <<ambiguous, Rule("user_query", "ambiguous")>>,
            <<outside, Rule("user_query", "out_of_scope")>>,
            <<badSources, Rule("retrieval", "scores")>>,
            <<raises, Rule("error", "error")>>,
            <<cut, Rule("chunking", "cutoff")>>,
            <<badAnswer, Rule("generation", "scores")>>,
            <<conflict, Rule("knowledge", "conflict")>>,
            <<expired, Rule("knowledge", "expired")>>,
            <<TRUE, Rule("generation", "default")>> >>
    IN  rules[Min({i \in DOMAIN rules : rules[i][1]})][2]

BadSources(d) ==
    \/ SafeFloat(d.relevance) # None /\ SafeFloat(d.relevance) < 5
    \/ SafeFloat(d.recall) = 0

BadAnswer(d) ==
    /\ SafeFloat(d.faithfulness) # None /\ SafeFloat(d.faithfulness) < 6
    /\ SafeFloat(d.relevance) > 7

LEMMA VerdictOfConditions ==
    ASSUME NEW d
    PROVE  Attributed(d) =
               Cascade(Ambiguous(d.query), OutOfScope(d.query), BadSources(d),
                       Cutoff(d.answer, d.chunks) = "raises", Cutoff(d.answer, d.chunks) = "yes",
                       BadAnswer(d), Conflict(d.chunks), Expired(d.chunks))
  BY DEF Attributed, Cascade, BadSources, BadAnswer

\* The error is the verdict if its rule is the first to apply, and only then.
LEMMA ErrorIsTheFourth ==
    ASSUME NEW b1, NEW b2, NEW b3, NEW b4, NEW b5, NEW b6, NEW b7, NEW b8
    PROVE  LET verdict == Cascade(b1, b2, b3, b4, b5, b6, b7, b8)
           IN  IF b4 /\ ~(b1 \/ b2 \/ b3) THEN verdict.category = "error"
               ELSE verdict.category \in DefaultCategories
<1>1. PICK r1, r2, r3 : /\ r1 = <<b1, Rule("user_query", "ambiguous")>>
                        /\ r2 = <<b2, Rule("user_query", "out_of_scope")>>
                        /\ r3 = <<b3, Rule("retrieval", "scores")>>
  OBVIOUS
<1>2. PICK r4, r5, r6 : /\ r4 = <<b4, Rule("error", "error")>>
                        /\ r5 = <<b5, Rule("chunking", "cutoff")>>
                        /\ r6 = <<b6, Rule("generation", "scores")>>
  OBVIOUS
<1>3. PICK r7, r8, r9 : /\ r7 = <<b7, Rule("knowledge", "conflict")>>
                        /\ r8 = <<b8, Rule("knowledge", "expired")>>
                        /\ r9 = <<TRUE, Rule("generation", "default")>>
  OBVIOUS
<1>4. PICK rules : rules = <<r1, r2, r3, r4, r5, r6, r7, r8, r9>>
  OBVIOUS
<1>5. PICK holding : holding = {i \in DOMAIN rules : rules[i][1]}
  OBVIOUS
<1>6. Cascade(b1, b2, b3, b4, b5, b6, b7, b8) = rules[Min(holding)][2]
  BY <1>1, <1>2, <1>3, <1>4, <1>5 DEF Cascade
<1>7. /\ DOMAIN rules = 1 .. 9
      /\ rules[1] = r1 /\ rules[2] = r2 /\ rules[3] = r3 /\ rules[4] = r4 /\ rules[5] = r5
      /\ rules[6] = r6 /\ rules[7] = r7 /\ rules[8] = r8 /\ rules[9] = r9
  BY <1>4
<1>8. holding \in SUBSET (1 .. 9) /\ 9 \in holding
  <2>1. r9[1]
    BY <1>3
  <2>2. 9 \in DOMAIN rules /\ rules[9][1]
    BY <1>7, <2>1
  <2>3. QED
    BY <1>5, <1>7, <2>2
<1>9. PICK k : k = Min(holding)
  OBVIOUS
<1>10. k \in holding /\ \A y \in holding : k <= y
  BY <1>8, <1>9, FirstOfNine
<1>11. /\ 1 \in holding <=> b1
       /\ 2 \in holding <=> b2
       /\ 3 \in holding <=> b3
       /\ 4 \in holding <=> b4
  BY <1>1, <1>2, <1>5, <1>7
<1>12. k = 4 <=> b4 /\ ~(b1 \/ b2 \/ b3)
  <2>1. k \in 1 .. 9
    BY <1>8, <1>10
  <2>2. ASSUME b4, ~b1, ~b2, ~b3 PROVE k = 4
    <3>1. k <= 4 /\ k # 1 /\ k # 2 /\ k # 3
      BY <1>10, <1>11, <2>2
    <3>2. QED
      BY <2>1, <3>1
  <2>3. ASSUME k = 4 PROVE b4 /\ ~b1 /\ ~b2 /\ ~b3
    <3>1. 4 \in holding /\ 1 \notin holding /\ 2 \notin holding /\ 3 \notin holding
      BY <1>10, <2>3
    <3>2. QED
      BY <1>11, <3>1
  <2>4. QED
    BY <2>2, <2>3
<1>13. \A i \in 1 .. 9 : IF i = 4 THEN rules[i][2].category = "error"
                         ELSE rules[i][2].category \in DefaultCategories
  <2>1. /\ r1[2].category = "user_query" /\ r2[2].category = "user_query"
        /\ r3[2].category = "retrieval" /\ r4[2].category = "error"
        /\ r5[2].category = "chunking" /\ r6[2].category = "generation"
        /\ r7[2].category = "knowledge" /\ r8[2].category = "knowledge"
        /\ r9[2].category = "generation"
    BY <1>1, <1>2, <1>3 DEF Rule
  <2>2. QED
    BY <1>7, <2>1 DEF DefaultCategories
<1>14. k \in 1 .. 9
  BY <1>8, <1>10
<1>15. IF k = 4 THEN rules[k][2].category = "error" ELSE rules[k][2].category \in DefaultCategories
  BY <1>13, <1>14
<1>16. QED
  BY <1>6, <1>9, <1>12, <1>15

\* What a score has to do with its reading.
LEMMA ScoresRead ==
    ASSUME NEW raw \in Nat \cup {None, Unreadable}
    PROVE  SafeFloat(raw) = IF raw \in Nat THEN raw ELSE None
  BY DEF SafeFloat, None, Unreadable

\* For any query, answer, chunks and scores (attributor.py, attribute): which dislikes get a
\* category and which the error, and that missing scores accuse nobody.
LEMMA VerdictsHaveReasons ==
    ASSUME RulesInit
    PROVE  VerdictIsKnown /\ MissingScoresAccuseNobody
<1>1. PICK d : d = dislike
  OBVIOUS
<1>2. /\ d.relevance \in Nat \cup {None, Unreadable}
      /\ d.recall \in Nat \cup {None, Unreadable}
      /\ d.faithfulness \in Nat \cup {None, Unreadable}
  BY <1>1, RulesAssumption DEF RulesInit
<1>3. PICK rel, rec, fai : rel = d.relevance /\ rec = d.recall /\ fai = d.faithfulness
  OBVIOUS
<1>4. /\ SafeFloat(rel) = IF rel \in Nat THEN rel ELSE None
      /\ SafeFloat(rec) = IF rec \in Nat THEN rec ELSE None
      /\ SafeFloat(fai) = IF fai \in Nat THEN fai ELSE None
  BY <1>2, <1>3, ScoresRead
<1>5. VerdictIsKnown
  <2>1. BadSources(d) <=> rel \in 0 .. 4 \/ rec = 0
    BY <1>3, <1>4 DEF BadSources, None
  <2>2. Cutoff(d.answer, d.chunks) = "raises" <=> d.answer.kind = "blank"
    BY DEF Cutoff
  <2>3. Explained(d) <=> Ambiguous(d.query) \/ OutOfScope(d.query) \/ BadSources(d)
    BY <1>3, <2>1 DEF Explained
  <2> DEFINE b1 == Ambiguous(d.query)
             b2 == OutOfScope(d.query)
             b3 == BadSources(d)
             b4 == Cutoff(d.answer, d.chunks) = "raises"
             b5 == Cutoff(d.answer, d.chunks) = "yes"
             b6 == BadAnswer(d)
             b7 == Conflict(d.chunks)
             b8 == Expired(d.chunks)
  <2>4. PICK v : v = Attributed(d)
    OBVIOUS
  <2>5. v = Cascade(b1, b2, b3, b4, b5, b6, b7, b8)
    BY <2>4, VerdictOfConditions
  <2>6. b4 /\ ~(b1 \/ b2 \/ b3) <=> d.answer.kind = "blank" /\ ~Explained(d)
    BY <2>2, <2>3
  <2> HIDE DEF b1, b2, b3, b4, b5, b6, b7, b8
  <2>7. IF b4 /\ ~(b1 \/ b2 \/ b3) THEN v.category = "error" ELSE v.category \in DefaultCategories
    BY <2>5, ErrorIsTheFourth
  <2>8. QED
    BY <1>1, <2>4, <2>6, <2>7 DEF VerdictIsKnown
<1>6. MissingScoresAccuseNobody
  <2>1. PICK e : e = FilledIn(d)
    OBVIOUS
  <2>2. /\ e.query = d.query /\ e.answer = d.answer /\ e.chunks = d.chunks
        /\ e.relevance = IF rel \in Nat THEN rel ELSE 6
        /\ e.recall = IF rec \in Nat THEN rec ELSE 10
        /\ e.faithfulness = IF fai \in Nat THEN fai ELSE 10
    BY <1>1, <1>3, <2>1 DEF FilledIn, RulesInit
  <2>3. /\ SafeFloat(e.relevance) = e.relevance /\ e.relevance \in Nat
        /\ SafeFloat(e.recall) = e.recall /\ e.recall \in Nat
        /\ SafeFloat(e.faithfulness) = e.faithfulness /\ e.faithfulness \in Nat
    BY <2>2 DEF SafeFloat
  <2>4. BadSources(d) <=> BadSources(e)
    BY <1>3, <1>4, <2>2, <2>3 DEF BadSources, None
  <2>5. BadAnswer(d) <=> BadAnswer(e)
    BY <1>3, <1>4, <2>2, <2>3 DEF BadAnswer, None
  <2>6. BadSources(d) = BadSources(e) /\ BadAnswer(d) = BadAnswer(e)
    BY <2>4, <2>5 DEF BadSources, BadAnswer
  <2>7. Attributed(d) = Attributed(e)
    BY <2>2, <2>6, VerdictOfConditions
  <2>8. QED
    BY <1>1, <2>1, <2>7 DEF MissingScoresAccuseNobody
<1>7. QED
  BY <1>5, <1>6

\* r is the least of from and the plausible years of Y.
IsOldest(r, from, Y) ==
    /\ r \in {from} \cup {y \in Y : Plausible(y)}
    /\ r <= from
    /\ \A y \in Y : Plausible(y) => r <= y

\* The recursion of Older has a solution, so Older is one.
LEMMA OlderRecursion ==
    ASSUME NEW s \in Seq(Nat), NEW from \in Nat
    PROVE  /\ Older(s, from) \in [0..Len(s) -> Nat]
           /\ Older(s, from)[0] = from
           /\ \A n \in 1..Len(s) : Older(s, from)[n] =
                 IF Plausible(s[n]) /\ s[n] < Older(s, from)[n - 1] THEN s[n]
                 ELSE Older(s, from)[n - 1]
<1> DEFINE N == Len(s)
           Body(f, n) == IF n = 0 THEN from
                         ELSE IF Plausible(s[n]) /\ s[n] < f[n - 1] THEN s[n] ELSE f[n - 1]
           Solves(f) == f = [n \in 0..N |-> Body(f, n)]
           step == [n \in 1..N |-> [v \in Nat |->
                       IF Plausible(s[n]) /\ s[n] < v THEN s[n] ELSE v]]
<1>1. N \in Nat /\ \A n \in 1..N : s[n] \in Nat
  BY LenProperties, ElementOfSeq
<1>2. step \in [1..N -> [Nat -> Nat]]
  BY <1>1
<1>3. \A n \in 1..N, v \in Nat :
         step[n][v] = IF Plausible(s[n]) /\ s[n] < v THEN s[n] ELSE v
  OBVIOUS
<1>4. Older(s, from) = CHOOSE f : Solves(f)
  BY DEF Older
<1> HIDE DEF step, N
<1>5. PICK f : Iterates(f, Nat, from, N, step)
  BY <1>1, <1>2, IterationExists
<1>6. /\ f \in [0..N -> Nat] /\ f[0] = from
      /\ \A n \in 1..N : f[n] = step[n][f[n - 1]]
  BY <1>5 DEF Iterates
<1>7. ASSUME NEW n \in 0..N PROVE f[n] = Body(f, n)
  <2>1. ASSUME n # 0 PROVE n \in 1..N /\ f[n - 1] \in Nat
    <3>1. n \in 1..N /\ n - 1 \in 0..N
      BY <1>1, <2>1
    <3>2. f \in [0..N -> Nat]
      BY <1>6
    <3>3. QED
      BY <3>1, <3>2
  <2>2. CASE n = 0
    BY <1>6, <2>2
  <2>3. CASE n # 0
    <3>1. PICK v \in Nat : v = f[n - 1]
      BY <2>1, <2>3
    <3>2. f[n] = step[n][v] /\ step[n][v] = IF Plausible(s[n]) /\ s[n] < v THEN s[n] ELSE v
      BY <1>3, <1>6, <2>1, <2>3, <3>1
    <3>3. QED
      BY <2>3, <3>1, <3>2
  <2>4. QED
    BY <2>2, <2>3
<1>8. Solves(f)
  <2> HIDE DEF Body
  <2>1. QED
    BY <1>6, <1>7
<1> HIDE DEF Solves
<1>9. Solves(Older(s, from))
  BY <1>4, <1>8
<1>10. PICK c : c = Older(s, from)
  OBVIOUS
<1>11. c = [n \in 0..N |-> Body(c, n)]
  BY <1>9, <1>10 DEF Solves
<1>12. c[0] = from /\ \A n \in 1..N : c[n] =
          IF Plausible(s[n]) /\ s[n] < c[n - 1] THEN s[n] ELSE c[n - 1]
  BY <1>1, <1>11
<1>13. \A n \in 0..N : c[n] \in Nat
  <2>1. \A n \in 1..N : c[n - 1] \in Nat => c[n] \in Nat
    BY <1>1, <1>12
  <2>2. QED
    BY <1>1, <1>12, <2>1, IterationType
<1>14. c \in [0..N -> Nat]
  <2> HIDE DEF Body
  <2>1. DOMAIN c = 0..N /\ c = [n \in 0..N |-> c[n]]
    BY <1>11
  <2>2. QED
    BY <1>13, <2>1
<1>15. QED
  BY <1>10, <1>12, <1>14 DEF N

\* The inner loop finds the oldest of a chunk's years.
LEMMA OlderIsOldest ==
    ASSUME NEW s \in Seq(Nat), NEW from \in Nat
    PROVE  /\ Older(s, from)[Len(s)] \in Nat
           /\ IsOldest(Older(s, from)[Len(s)], from, Range(s))
<1>1. PICK c : c = Older(s, from)
  OBVIOUS
<1>2. PICK N : N = Len(s)
  OBVIOUS
<1>3. N \in Nat /\ Range(s) = {s[i] : i \in 1..N} /\ \A n \in 1..N : s[n] \in Nat
  BY <1>2, LenProperties, ElementOfSeq, RangeEquality
<1>4. /\ c \in [0..N -> Nat] /\ c[0] = from
      /\ \A n \in 1..N : c[n] = IF Plausible(s[n]) /\ s[n] < c[n - 1] THEN s[n] ELSE c[n - 1]
  BY <1>1, <1>2, OlderRecursion
<1> DEFINE First(n) == {s[i] : i \in 1..n}
           T == {n \in 0..N : IsOldest(c[n], from, First(n))}
<1>5. 0 \in T
  <2>1. First(0) = {}
    OBVIOUS
  <2>2. QED
    BY <1>3, <1>4, <2>1 DEF IsOldest
<1>6. ASSUME NEW n \in 1..N, n - 1 \in T PROVE n \in T
  <2>1. PICK k : k = n - 1
    OBVIOUS
  <2>2. k \in 0..N /\ n \in 0..N /\ 1..n = (1..k) \cup {n}
    BY <2>1, <1>3
  <2>3. PICK F : F = First(k)
    OBVIOUS
  <2>4. First(n) = F \cup {s[n]}
    BY <2>2, <2>3
  <2>5. F \subseteq Nat
    BY <2>2, <2>3, <1>3
  <2>6. IsOldest(c[k], from, F)
    BY <1>6, <2>1, <2>3
  <2>7. c[n] = IF Plausible(s[n]) /\ s[n] < c[k] THEN s[n] ELSE c[k]
    BY <1>4, <2>1
  <2>8. PICK v, w, x \in Nat : v = c[k] /\ w = c[n] /\ x = s[n]
    BY <1>3, <1>4, <2>2
  <2>9. IsOldest(w, from, F \cup {x})
    <3> HIDE DEF First, T
    <3>1. CASE Plausible(x) /\ x < v
      <4>1. w = x /\ v <= from /\ \A y \in F : Plausible(y) => v <= y
        BY <3>1, <2>6, <2>7, <2>8 DEF IsOldest
      <4>2. w <= from /\ \A y \in F : Plausible(y) => w <= y
        BY <3>1, <4>1, <2>5
      <4>3. QED
        BY <3>1, <4>1, <4>2 DEF IsOldest
    <3>2. CASE ~(Plausible(x) /\ x < v)
      <4>1. w = v /\ (Plausible(x) => v <= x)
        BY <3>2, <2>7, <2>8
      <4>2. QED
        BY <4>1, <2>6, <2>8 DEF IsOldest
    <3>3. QED
      BY <3>1, <3>2
  <2>10. QED
    BY <2>2, <2>4, <2>8, <2>9
<1> HIDE DEF T
<1>7. 0..N \subseteq T
  BY <1>3, <1>5, <1>6, UpToInduction
<1>8. N \in T
  BY <1>3, <1>7
<1>9. IsOldest(c[N], from, Range(s))
  BY <1>3, <1>8 DEF T
<1>10. QED
  BY <1>1, <1>2, <1>3, <1>4, <1>9

\* The years of some chunks.
YearsOf(chunks) == UNION {Range(c.years) : c \in chunks}

LEMMA ChunkYears ==
    ASSUME NEW s \in Seq(Chunks), NEW n \in 1..Len(s)
    PROVE  s[n].years \in Seq(Nat) /\ Range(s[n].years) \subseteq Nat
<1>1. s[n] \in Chunks
  BY ElementOfSeq
<1>2. PICK y : y = s[n].years
  OBVIOUS
<1>3. y \in Seq(Nat)
  BY <1>1, <1>2, RulesAssumption
<1>4. Range(y) \subseteq Nat
  BY <1>3, RangeEquality, ElementOfSeq
<1>5. QED
  BY <1>2, <1>3, <1>4

\* The recursion of Oldest has a solution, so Oldest is one.
LEMMA OldestRecursion ==
    ASSUME NEW s \in Seq(Chunks)
    PROVE  /\ Oldest(s) \in [0..Len(s) -> Nat]
           /\ Oldest(s)[0] = ThisYear
           /\ \A n \in 1..Len(s) : Oldest(s)[n] =
                 Older(s[n].years, Oldest(s)[n - 1])[Len(s[n].years)]
<1> DEFINE N == Len(s)
           Body(f, n) == IF n = 0 THEN ThisYear
                         ELSE Older(s[n].years, f[n - 1])[Len(s[n].years)]
           Solves(f) == f = [n \in 0..N |-> Body(f, n)]
           step == [n \in 1..N |-> [v \in Nat |-> Older(s[n].years, v)[Len(s[n].years)]]]
<1>1. N \in Nat /\ ThisYear \in Nat
  BY LenProperties, RulesAssumption
<1>2. step \in [1..N -> [Nat -> Nat]]
  <2>1. ASSUME NEW n \in 1..N, NEW v \in Nat
        PROVE  Older(s[n].years, v)[Len(s[n].years)] \in Nat
    <3>1. PICK y : y = s[n].years
      OBVIOUS
    <3>2. y \in Seq(Nat)
      BY <3>1, ChunkYears
    <3>3. Older(y, v)[Len(y)] \in Nat
      BY <3>2, OlderIsOldest
    <3>4. QED
      BY <3>1, <3>3
  <2>2. QED
    BY <2>1
<1>3. \A n \in 1..N, v \in Nat : step[n][v] = Older(s[n].years, v)[Len(s[n].years)]
  OBVIOUS
<1>4. Oldest(s) = CHOOSE f : Solves(f)
  BY DEF Oldest
<1> HIDE DEF step, N
<1>5. PICK f : Iterates(f, Nat, ThisYear, N, step)
  BY <1>1, <1>2, IterationExists
<1>6. /\ f \in [0..N -> Nat] /\ f[0] = ThisYear
      /\ \A n \in 1..N : f[n] = step[n][f[n - 1]]
  BY <1>5 DEF Iterates
<1>7. ASSUME NEW n \in 0..N PROVE f[n] = Body(f, n)
  <2>1. n # 0 => n \in 1..N /\ f[n - 1] \in Nat
    BY <1>1, <1>6
  <2>2. CASE n = 0
    BY <1>6, <2>2
  <2>3. CASE n # 0
    <3>1. f[n] = step[n][f[n - 1]]
      BY <1>6, <2>1, <2>3
    <3>2. step[n][f[n - 1]] = Older(s[n].years, f[n - 1])[Len(s[n].years)]
      BY <1>3, <2>1, <2>3
    <3>3. QED
      BY <2>3, <3>1, <3>2
  <2>4. QED
    BY <2>2, <2>3
<1>8. Solves(f)
  <2> HIDE DEF Body
  <2>1. QED
    BY <1>6, <1>7
<1> HIDE DEF Solves
<1>9. Solves(Oldest(s))
  BY <1>4, <1>8
<1>10. PICK c : c = Oldest(s)
  OBVIOUS
<1>11. c = [n \in 0..N |-> Body(c, n)]
  BY <1>9, <1>10 DEF Solves
<1>12. c[0] = ThisYear /\ \A n \in 1..N : c[n] = Older(s[n].years, c[n - 1])[Len(s[n].years)]
  BY <1>1, <1>11
<1>13. \A n \in 0..N : c[n] \in Nat
  <2>1. ASSUME NEW n \in 1..N, c[n - 1] \in Nat PROVE c[n] \in Nat
    <3>1. PICK v \in Nat : v = c[n - 1]
      BY <2>1
    <3>2. step[n] \in [Nat -> Nat] /\ c[n] = step[n][v]
      BY <1>2, <1>3, <1>12, <3>1
    <3>3. QED
      BY <3>2
  <2>2. QED
    BY <1>1, <1>12, <2>1, IterationType
<1>14. c \in [0..N -> Nat]
  <2> HIDE DEF Body
  <2>1. DOMAIN c = 0..N /\ c = [n \in 0..N |-> c[n]]
    BY <1>11
  <2>2. QED
    BY <1>13, <2>1
<1>15. QED
  BY <1>10, <1>12, <1>14 DEF N

\* Going on from the oldest year so far finds the oldest of all.
LEMMA OldestOfMore ==
    ASSUME NEW r, NEW v, NEW w, NEW Y, NEW Z, Y \subseteq Nat, Z \subseteq Nat,
           r \in Nat, v \in Nat, w \in Nat,
           IsOldest(v, w, Y), IsOldest(r, v, Z)
    PROVE  IsOldest(r, w, Y \cup Z)
<1>1. v <= w /\ r <= v /\ r <= w
  BY DEF IsOldest
<1>2. \A y \in Y : Plausible(y) => v <= y /\ r <= y
  BY <1>1 DEF IsOldest
<1>3. \A y \in Z : Plausible(y) => r <= y
  BY DEF IsOldest
<1>4. r \in {w} \cup {y \in Y \cup Z : Plausible(y)}
  BY DEF IsOldest
<1>5. QED
  BY <1>1, <1>2, <1>3, <1>4 DEF IsOldest

\* The outer loop finds the oldest of all years.
LEMMA OldestIsOldest ==
    ASSUME NEW s \in Seq(Chunks)
    PROVE  /\ Oldest(s)[Len(s)] \in Nat
           /\ IsOldest(Oldest(s)[Len(s)], ThisYear, YearsOf(Range(s)))
           /\ YearsOf(Range(s)) \subseteq Nat
<1>1. PICK c : c = Oldest(s)
  OBVIOUS
<1>2. PICK N : N = Len(s)
  OBVIOUS
<1>3. N \in Nat /\ Range(s) = {s[i] : i \in 1..N} /\ ThisYear \in Nat
  BY <1>2, LenProperties, RangeEquality, RulesAssumption
<1>4. /\ c \in [0..N -> Nat] /\ c[0] = ThisYear
      /\ \A n \in 1..N : c[n] = Older(s[n].years, c[n - 1])[Len(s[n].years)]
  BY <1>1, <1>2, OldestRecursion
<1> DEFINE First(n) == UNION {Range(s[i].years) : i \in 1..n}
           T == {n \in 0..N : IsOldest(c[n], ThisYear, First(n))}
<1>5. 0 \in T
  <2>1. First(0) = {}
    OBVIOUS
  <2>2. QED
    BY <1>3, <1>4, <2>1 DEF IsOldest
<1>6. ASSUME NEW n \in 1..N, n - 1 \in T PROVE n \in T
  <2>1. PICK k : k = n - 1
    OBVIOUS
  <2>2. k \in 0..N /\ n \in 0..N /\ 1..n = (1..k) \cup {n}
    BY <2>1, <1>3
  <2>3. PICK F, y : F = First(k) /\ y = s[n].years
    OBVIOUS
  <2>4. First(n) = F \cup Range(y)
    BY <2>2, <2>3
  <2>5. F \subseteq Nat
    <3>1. ASSUME NEW i \in 1..k PROVE Range(s[i].years) \subseteq Nat
      <4>1. i \in 1..Len(s)
        BY <1>2, <1>3, <2>2
      <4>2. QED
        BY <4>1, ChunkYears
    <3>2. QED
      BY <2>3, <3>1
  <2>6. y \in Seq(Nat) /\ Range(y) \subseteq Nat
    BY <1>2, <2>3, ChunkYears
  <2>7. PICK v \in Nat : v = c[k]
    BY <1>4, <2>2
  <2>8. IsOldest(v, ThisYear, F)
    BY <1>6, <2>1, <2>3, <2>7
  <2>9. PICK r : r = Older(y, v)[Len(y)]
    OBVIOUS
  <2>10. r \in Nat /\ IsOldest(r, v, Range(y))
    BY <2>6, <2>9, OlderIsOldest
  <2>11. c[n] = r
    BY <1>4, <2>1, <2>3, <2>7, <2>9
  <2>12. IsOldest(r, ThisYear, F \cup Range(y))
    BY <1>3, <2>5, <2>6, <2>8, <2>10, OldestOfMore
  <2>13. IsOldest(c[n], ThisYear, First(n))
    <3>1. c[n] = r /\ First(n) = F \cup Range(y)
      BY <2>4, <2>11
    <3> HIDE DEF First
    <3>2. QED
      BY <3>1, <2>12
  <2>14. QED
    BY <2>2, <2>13
<1> HIDE DEF T
<1>7. 0..N \subseteq T
  BY <1>3, <1>5, <1>6, UpToInduction
<1>8. N \in T
  BY <1>3, <1>7
<1>9. First(N) = YearsOf(Range(s))
  BY <1>3 DEF YearsOf
<1>10. First(N) \subseteq Nat
  <2>1. \A i \in 1..N : Range(s[i].years) \subseteq Nat
    BY <1>2, ChunkYears
  <2>2. QED
    BY <2>1
<1>11. IsOldest(c[N], ThisYear, First(N))
  BY <1>8 DEF T
<1> HIDE DEF First
<1>12. QED
  BY <1>1, <1>2, <1>3, <1>4, <1>9, <1>10, <1>11

\* The chunks in another order.
LEMMA ReversedChunks ==
    ASSUME NEW s \in Seq(Chunks)
    PROVE  /\ Reverse(s) \in Seq(Chunks) /\ Len(Reverse(s)) = Len(s)
           /\ Range(Reverse(s)) = Range(s)
<1>1. PICK N : N = Len(s)
  OBVIOUS
<1>2. N \in Nat /\ Range(s) = {s[i] : i \in 1..N} /\ \A i \in 1..N : s[i] \in Chunks
  BY <1>1, LenProperties, RangeEquality, ElementOfSeq
<1> DEFINE r == Reverse(s)
<1>3. r = [i \in 1..N |-> s[N - i + 1]]
  BY <1>1 DEF Reverse
<1>4. \A i \in 1..N : N - i + 1 \in 1..N /\ N - (N - i + 1) + 1 = i
  BY <1>2
<1> HIDE DEF r
<1>5. r \in [1..N -> Chunks]
  BY <1>2, <1>3, <1>4
<1>6. r \in Seq(Chunks) /\ Len(r) = N
  BY <1>2, <1>5
<1>7. Range(r) = {r[i] : i \in 1..N}
  BY <1>6, RangeEquality
<1>8. \A i \in 1..N : r[i] = s[N - i + 1] /\ r[N - i + 1] = s[i]
  BY <1>3, <1>4
<1>9. Range(r) = Range(s)
  BY <1>2, <1>4, <1>7, <1>8
<1>10. QED
  BY <1>1, <1>6, <1>9 DEF r

\* What is asked of the chunks depends on which they are only.
LEMMA ChecksIgnoreOrder ==
    ASSUME NEW s \in Seq(Chunks), NEW t \in Seq(Chunks), Len(s) = Len(t), Range(s) = Range(t)
    PROVE  /\ \A a : Cutoff(a, s) = Cutoff(a, t)
           /\ Conflict(s) <=> Conflict(t)
           /\ Expired(s) <=> Expired(t)
<1>1. \A a : Cutoff(a, s) = Cutoff(a, t)
  BY DEF Cutoff
<1>2. Conflict(s) <=> Conflict(t)
  BY DEF Conflict
<1>3. PICK x, y, Y : /\ x = Oldest(s)[Len(s)] /\ y = Oldest(t)[Len(t)]
                     /\ Y = YearsOf(Range(s))
  OBVIOUS
<1>4. /\ x \in Nat /\ y \in Nat /\ Y \subseteq Nat
      /\ IsOldest(x, ThisYear, Y) /\ IsOldest(y, ThisYear, Y)
  BY <1>3, OldestIsOldest
<1>5. x <= y /\ y <= x
  BY <1>4 DEF IsOldest
<1>6. x = y
  BY <1>4, <1>5
<1>7. Expired(s) <=> Expired(t)
  BY <1>3, <1>6 DEF Expired
<1>8. QED
  BY <1>1, <1>2, <1>7

\* The verdict depends on the chunks by three checks only.
LEMMA VerdictByChecks ==
    ASSUME NEW d, NEW e, d.query = e.query, d.answer = e.answer, d.relevance = e.relevance,
           d.recall = e.recall, d.faithfulness = e.faithfulness,
           Cutoff(d.answer, d.chunks) = Cutoff(d.answer, e.chunks),
           Conflict(d.chunks) <=> Conflict(e.chunks), Expired(d.chunks) <=> Expired(e.chunks)
    PROVE  Attributed(d) = Attributed(e)
<1>1. Conflict(d.chunks) = Conflict(e.chunks) /\ Expired(d.chunks) = Expired(e.chunks)
  BY DEF Conflict, Expired
<1>2. BadSources(d) = BadSources(e) /\ BadAnswer(d) = BadAnswer(e)
  BY DEF BadSources, BadAnswer
<1>3. QED
  BY <1>1, <1>2, VerdictOfConditions

\* For any query, answer, chunks and scores (attributor.py, attribute; conflict.py,
\* is_document_expired): the verdict is one of the five categories, and an error exactly for
\* a blank answer that neither the question nor the scores explain; a missing score leads to
\* no other verdict than one beyond reproach would; and the order in which the chunks were
\* found changes none.
THEOREM VerdictsAreSound == RulesInit => VerdictSound
<1> SUFFICES ASSUME RulesInit PROVE ChunkOrderIsIrrelevant
  BY VerdictsHaveReasons DEF VerdictSound
<1>1. PICK q \in Queries, a \in Answers, c \in Retrievals, s1, s2, s3 \in Scores :
         dislike = [query |-> q, answer |-> a, chunks |-> c,
                    relevance |-> s1, recall |-> s2, faithfulness |-> s3]
  BY DEF RulesInit
<1>2. PICK d, e : d = dislike /\ e = [dislike EXCEPT !.chunks = Reverse(dislike.chunks)]
  OBVIOUS
<1>3. PICK t : t = Reverse(c)
  OBVIOUS
<1>4. /\ d.query = e.query /\ d.answer = e.answer /\ d.relevance = e.relevance
      /\ d.recall = e.recall /\ d.faithfulness = e.faithfulness
      /\ d.chunks = c /\ e.chunks = t
  BY <1>1, <1>2, <1>3
<1>5. c \in Seq(Chunks)
  BY <1>1, RulesAssumption
<1>6. t \in Seq(Chunks) /\ Len(t) = Len(c) /\ Range(t) = Range(c)
  BY <1>3, <1>5, ReversedChunks
<1>7. /\ \A b : Cutoff(b, c) = Cutoff(b, t)
      /\ Conflict(c) <=> Conflict(t)
      /\ Expired(c) <=> Expired(t)
  BY <1>5, <1>6, ChecksIgnoreOrder
<1>8. Attributed(d) = Attributed(e)
  BY <1>4, <1>7, VerdictByChecks
<1>9. QED
  BY <1>2, <1>8 DEF ChunkOrderIsIrrelevant
=============================================================================
