----------------------------- MODULE AgentLoop -----------------------------
(***************************************************************************)
(* One turn of the agent: AgentRunner.run (agent_core/runner.py) and the   *)
(* nodes it calls (agent_core/nodes.py).  The language model plans up to   *)
(* PlanLimit sub-queries; each iteration retrieves the current one and     *)
(* asks the model whether to go on, to rewrite the sub-query or to answer. *)
(* The model can answer anything, and any of its calls can fail.           *)
(*                                                                         *)
(* A sub-query is represented by a number that says when the model wrote   *)
(* it: the planned ones are 1..n, and every rewrite yields the next number,*)
(* whatever its text (the model may repeat itself).  Chunks are represented*)
(* by the sub-queries that retrieved them.  The steps recorded for display *)
(* and the answer's text are left out.                                     *)
(***************************************************************************)
EXTENDS Naturals, SequencesExt

CONSTANTS
    MaxIterations,  \* max_iterations of the runner: 5 in production
    PlanLimit       \* sub-queries kept of a plan: 4 in the code

ASSUME AgentAssumption ==
    /\ MaxIterations \in Nat \ {0}
    /\ PlanLimit \in Nat \ {0}

ReflectDecision == {"continue", "answer", "rewrite"}

VARIABLES
    node,       \* the node that is next
    plan,       \* sub_queries
    index,      \* current_sub_query_index
    iteration,
    decision,   \* reflect_decision
    retrieved,  \* the sub-queries whose chunks are in retrieved_chunks, in order
    written,    \* sub-queries the model has written so far
    fallback,   \* fallback_triggered: some retrieval had a low score
    truncated   \* truncated_by_max_iter

turnVars == <<node, plan, index, iteration, decision, retrieved, written, fallback,
              truncated>>

TurnTypeOK ==
    /\ node \in {"plan", "retrieve", "reflect", "rewrite", "route", "synthesize",
               "answered", "error"}
    /\ plan \in Seq(Nat)
    /\ index \in Nat
    /\ iteration \in Nat
    /\ decision \in ReflectDecision \cup {"none"}
    /\ retrieved \in Seq(Nat)
    /\ written \in Nat
    /\ {fallback, truncated} \subseteq BOOLEAN

TurnInit ==
    /\ node = "plan"
    /\ plan = <<>>
    /\ index = 0
    /\ iteration = 0
    /\ decision = "none"
    /\ retrieved = <<>>
    /\ written = 0
    /\ fallback = FALSE
    /\ truncated = FALSE

-----------------------------------------------------------------------------
\* plan_node keeps the first PlanLimit sub-queries; without a usable answer of
\* the model the plan is the question itself.
Plan ==
    /\ node = "plan"
    /\ \E n \in 1..PlanLimit :
          /\ plan' = [i \in 1..n |-> i]
          /\ written' = n
    /\ node' = "retrieve"
    /\ UNCHANGED <<index, iteration, decision, retrieved, fallback, truncated>>

\* The body of the loop starts: one more iteration, one retrieval.
Retrieve ==
    /\ node = "retrieve"
    /\ iteration' = iteration + 1
    /\ IF index < Len(plan)
       THEN /\ retrieved' = Append(retrieved, plan[index + 1])
            /\ index' = index + 1
            /\ fallback' \in {fallback, TRUE}
            /\ UNCHANGED decision
       ELSE /\ decision' = "answer"
            /\ UNCHANGED <<retrieved, index, fallback>>
    /\ node' = "reflect"
    /\ UNCHANGED <<plan, written, truncated>>

\* The searcher raises: the turn ends in AgentRunnerError.
RetrieveFails ==
    /\ node = "retrieve"
    /\ iteration' = iteration + 1
    /\ node' = "error"
    /\ UNCHANGED <<plan, index, decision, retrieved, written, fallback, truncated>>

\* The decision of the model, or "answer" when it gives none.  For a rewrite the
\* index goes back to the sub-query that was just retrieved.
Reflect ==
    /\ node = "reflect"
    /\ decision' \in ReflectDecision
    /\ IF decision' = "rewrite"
       THEN node' = "rewrite" /\ index' = (IF index = 0 THEN 0 ELSE index - 1)
       ELSE node' = "route" /\ UNCHANGED index
    /\ UNCHANGED <<plan, iteration, retrieved, written, fallback, truncated>>

\* rewrite_node: the new sub-query takes the place of the current one.
Rewrite ==
    /\ node = "rewrite"
    /\ written' = written + 1
    /\ plan' = IF index < Len(plan) THEN [plan EXCEPT ![index + 1] = written']
                                    ELSE Append(plan, written')
    /\ node' = "route"
    /\ UNCHANGED <<index, iteration, decision, retrieved, fallback, truncated>>

\* Mutant of RewriteFails: the decision is left at "rewrite".
RewriteFailsGoesOn ==
    /\ node = "rewrite"
    /\ node' = "route"
    /\ UNCHANGED <<plan, index, iteration, decision, retrieved, written, fallback,
                   truncated>>

\* The model's call raises: the runner answers with what it has.
RewriteFails ==
    /\ node = "rewrite"
    /\ decision' = "answer"
    /\ node' = "route"
    /\ UNCHANGED <<plan, index, iteration, retrieved, written, fallback, truncated>>

\* Mutants of ShouldContinue: off by one in the iterations, and in the plan.
ShouldContinueOnceMore ==
    /\ iteration <= MaxIterations
    /\ decision # "answer"
    /\ index < Len(plan)

ShouldContinueButLast ==
    /\ iteration < MaxIterations
    /\ decision # "answer"
    /\ index + 1 < Len(plan)

ShouldContinue ==
    /\ iteration < MaxIterations
    /\ decision # "answer"
    /\ index < Len(plan)

\* Mutant of Route: the model is asked until it no longer wants to go on.
RouteUntilAnswered ==
    /\ node = "route"
    /\ node' = CASE ShouldContinue -> "retrieve"
               [] ~ShouldContinue /\ decision = "continue" -> "reflect"
               [] OTHER -> "synthesize"
    /\ UNCHANGED <<plan, index, iteration, decision, retrieved, written, fallback,
                   truncated>>

\* The end of the loop body.
Route ==
    /\ node = "route"
    /\ IF ShouldContinue
       THEN node' = "retrieve" /\ UNCHANGED truncated
       ELSE node' = "synthesize" /\ truncated' = (iteration >= MaxIterations)
    /\ UNCHANGED <<plan, index, iteration, decision, retrieved, written, fallback>>

\* synthesize_node answers, or raises: AgentRunnerError.
Synthesize ==
    /\ node = "synthesize"
    /\ node' \in {"answered", "error"}
    /\ UNCHANGED <<plan, index, iteration, decision, retrieved, written, fallback,
                   truncated>>

TurnNext ==
    \/ Plan \/ Retrieve \/ RetrieveFails \/ Reflect \/ Rewrite \/ RewriteFails
    \/ Route \/ Synthesize

TurnSpec == TurnInit /\ [][TurnNext]_turnVars

\* The thread of the request runs; every call of a model has a timeout.
FairTurnSpec == TurnSpec /\ WF_turnVars(TurnNext)
-----------------------------------------------------------------------------
(* Properties                                                              *)

\* However often the model asks for more, a turn retrieves at most
\* MaxIterations times, once per iteration.
RetrievalsBounded ==
    /\ iteration <= MaxIterations
    /\ Len(retrieved) = iteration \/ node = "error"

\* "it overwrites the failed sub-query instead of appending a new one to the end of
\* the plan" (runner.py): a plan keeps the length the model gave it, and what it
\* holds behind the index is what has been searched.
PlanKeepsItsLength ==
    [][plan # <<>> => Len(plan') = Len(plan)]_turnVars

SearchedBehindIndex ==
    /\ index <= Len(plan)
    /\ \A i \in 1..index : plan[i] \in Range(retrieved)

\* No sub-query is searched twice, although the index goes back for a rewrite: an
\* iteration is never spent on what the model asked to replace.
NothingSearchedTwice == IsInjective(retrieved)

\* A turn that was neither truncated nor ended by the model has searched its plan.
CompleteUnlessStopped ==
    node = "answered" /\ ~truncated /\ decision # "answer" =>
        Range(plan) \subseteq Range(retrieved)

\* Every turn ends, even if the model asks for a rewrite each time.
TurnEnds == <>(node \in {"answered", "error"})

=============================================================================
