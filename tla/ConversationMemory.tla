------------------------- MODULE ConversationMemory -------------------------
(***************************************************************************)
(* What the model is told besides the question: the history of a           *)
(* conversation in Redis (retrieval_direct/memory.py) and the documents of *)
(* the long-context fallback (retrieval_direct/long_context_fallback.py),  *)
(* each cut to a budget of characters.                                     *)
(*                                                                         *)
(* append_turn reads the list, extends it and writes it back: two writers  *)
(* of one conversation can overlap.  The key can expire and clear deletes  *)
(* it.  A turn is a number, the order in which the turns came; Size is the *)
(* length of its line in the prompt, or of a document's block.             *)
(***************************************************************************)
EXTENDS Integers, SequencesExt

CONSTANTS
    Writers,        \* requests that append to one conversation
    MaxTurns,       \* max_turns of the window
    TurnsWritten,   \* bound: turns appended in a behaviour
    Sizes,          \* lengths of a line, of a block
    Separator,      \* length of what stands between two blocks of the prompt
    Budgets         \* max_chars, max_parent_chars

ASSUME MemoryAssumption ==
    /\ MaxTurns \in Nat \ {0}
    /\ TurnsWritten \in Nat
    /\ Sizes \subseteq Nat \ {0}
    /\ Separator \in Nat
    /\ Budgets \subseteq Nat \ {0}

VARIABLES
    stored,     \* the list in Redis; <<>> when the key is absent or corrupt
    writer,     \* what each writer is about to write; its own turn is last
    arrived,    \* turns that have come
    appended,   \* every turn appended, in the order of the writes
    undisturbed,\* no overlap, expiry or deletion since the first write
    size,       \* the length of each turn's line, of each document's block
    budget      \* the characters a prompt may take

memoryVars == <<stored, writer, arrived, appended, undisturbed, size, budget>>

Quiet == \A w \in Writers : writer[w] = <<>>

MemoryTypeOK ==
    /\ stored \in Seq(1 .. TurnsWritten) /\ Len(stored) <= MaxTurns
    /\ writer \in [Writers -> Seq(1 .. TurnsWritten)]
    /\ arrived \in 0 .. TurnsWritten
    /\ appended \in Seq(1 .. TurnsWritten)
    /\ undisturbed \in BOOLEAN
    /\ size \in [1 .. TurnsWritten -> Sizes]
    /\ budget \in Budgets

---------------------------------------------------------------------------
(* The operations.                                                         *)

MemoryInit ==
    /\ stored = <<>>
    /\ writer = [w \in Writers |-> <<>>]
    /\ arrived = 0
    /\ appended = <<>>
    /\ undisturbed = TRUE
    /\ size \in [1 .. TurnsWritten -> Sizes]
    /\ budget \in Budgets

Newest(s, n) == IF Len(s) <= n THEN s ELSE SubSeq(s, Len(s) - n + 1, Len(s))

\* history[-max_turns:]
Window(history) == Newest(history, MaxTurns)

\* append_turn, its read: load_history, and the new turn behind it.
LoadForAppend(w) ==
    /\ writer[w] = <<>>
    /\ arrived < TurnsWritten
    /\ arrived' = arrived + 1
    /\ writer' = [writer EXCEPT ![w] = Append(stored, arrived + 1)]
    /\ undisturbed' = (undisturbed /\ Quiet)
    /\ UNCHANGED <<stored, appended, size, budget>>

\* Mutant of the next definition: the list is extended with what the writer
\* holds, not replaced by it.
WriteBackExtends(w) ==
    /\ writer[w] # <<>>
    /\ stored' = Window(writer[w] \o SelectSeq(stored, LAMBDA t : t \notin Range(writer[w])))
    /\ appended' = Append(appended, Last(writer[w]))
    /\ writer' = [writer EXCEPT ![w] = <<>>]
    /\ UNCHANGED <<arrived, undisturbed, size, budget>>

\* append_turn, its write: the window, SETEX.
WriteBack(w) ==
    /\ writer[w] # <<>>
    /\ stored' = Window(writer[w])
    /\ appended' = Append(appended, Last(writer[w]))
    /\ writer' = [writer EXCEPT ![w] = <<>>]
    /\ UNCHANGED <<arrived, undisturbed, size, budget>>

\* clear, or the end of the key's time to live.  A writer that has read the
\* list brings it back.
Forget ==
    /\ stored # <<>>
    /\ stored' = <<>>
    /\ undisturbed' = FALSE
    /\ UNCHANGED <<writer, arrived, appended, size, budget>>

MemoryNext ==
    \/ \E w \in Writers : LoadForAppend(w) \/ WriteBack(w)
    \/ Forget

MemorySpec == MemoryInit /\ [][MemoryNext]_memoryVars

---------------------------------------------------------------------------
(* The prompts.                                                            *)

\* The sum of the first n elements of a sequence of lengths.
Totals(w) ==
    LET total[n \in 0 .. Len(w)] == IF n = 0 THEN 0 ELSE total[n - 1] + w[n]
    IN  total

\* What s takes, each line with its line break.
Cost(s) == Totals([i \in DOMAIN s |-> size[s[i]] + 1])[Len(s)]

Without(s, n) == SubSeq(s, n + 1, Len(s))

AddTurn(s, t) ==
    IF s.full \/ size[t] + 1 > s.left THEN [s EXCEPT !.full = TRUE]
    ELSE [kept |-> <<t>> \o s.kept, left |-> s.left - size[t] - 1, full |-> FALSE]

\* format_history_for_prompt: from the newest back, stop at the first line
\* that does not fit with its line break.
Formatted(turns) ==
    LET after[n \in 0 .. Len(turns)] ==
            IF n = 0 THEN [kept |-> <<>>, left |-> budget, full |-> FALSE]
            ELSE AddTurn(after[n - 1], turns[Len(turns) - n + 1])
    IN  after

Kept(turns) == Formatted(turns)[Len(turns)].kept

Blocks(s) == Totals([i \in DOMAIN s |-> size[s[i]]])[Len(s)]

\* The documents as they stand in the prompt, with separators between them.
Joined(s) == IF s = <<>> THEN 0 ELSE Blocks(s) + (Len(s) - 1) * Separator

AddDocument(s, d) ==
    IF s.full THEN s
    ELSE IF size[d] > s.left THEN [s EXCEPT !.truncated = TRUE, !.full = TRUE]
    ELSE [blocks |-> Append(s.blocks, d), left |-> s.left - size[d],
          truncated |-> FALSE, full |-> s.left - size[d] <= 0]

\* build_long_context_prompt: documents in the order of retrieval, as long as
\* their blocks fit; the separators between them are not counted.  A document
\* that does not fit sets the truncated flag; a budget used up exactly ends the
\* loop without it.
Assembled(docs) ==
    LET after[n \in 0 .. Len(docs)] ==
            IF n = 0 THEN [blocks |-> <<>>, left |-> budget, truncated |-> FALSE, full |-> FALSE]
            ELSE AddDocument(after[n - 1], docs[n])
    IN  after

LongContextPrompt(docs) == Assembled(docs)[Len(docs)]

\* LongContextFallback.generate: what the result says of its documents.
Generated(docs) ==
    LET prompt == LongContextPrompt(docs)
    IN  [parents_used |-> docs, truncated |-> prompt.truncated,
         read |-> prompt.blocks]

---------------------------------------------------------------------------
(* Properties.                                                             *)

\* Until appends overlap or the key is gone, the history is exactly the
\* newest turns that were appended.
HistoryIsNewest == undisturbed => stored = Newest(appended, MaxTurns)

\* Overlapping appends, deletions and resurrected lists may lose turns; they
\* never repeat one or change the order in which they were appended.
HistoryInOrder ==
    \A i, j \in 1 .. Len(stored) :
        i < j => \E k, l \in 1 .. Len(appended) :
                     k < l /\ appended[k] = stored[i] /\ appended[l] = stored[j]

\* The prompt has the newest turns without a gap, as many as fit.
PromptHasNoGap ==
    LET n == CHOOSE n \in 0 .. Len(appended) :
                 /\ Cost(Without(appended, n)) <= budget
                 /\ n > 0 => Cost(Without(appended, n - 1)) > budget
    IN  Kept(appended) = Without(appended, n)

\* The long-context prompt has the best documents without a gap and leaves one out only
\* if its block no longer fits.  Joined, they exceed the budget by no more than their
\* separators (so several documents may well exceed it: the docstring, which speaks of the
\* joined text, is wrong there), and what is left out is flagged unless the blocks before
\* it used the budget up to the last character.
DocumentsFill ==
    LET prompt == LongContextPrompt(appended)
        n == Len(prompt.blocks)
    IN  /\ prompt.blocks = SubSeq(appended, 1, n)
        /\ n > 0 => Joined(prompt.blocks) <= budget + (n - 1) * Separator
        /\ n < Len(appended) => Blocks(SubSeq(appended, 1, n + 1)) > budget
        /\ prompt.truncated => n < Len(appended)
        /\ n < Len(appended) => prompt.truncated \/ Blocks(prompt.blocks) = budget

\* However appends interleave, the history is made of what was said, newest last, and
\* either prompt takes what fits, as far as the code measures it, and wastes nothing.
MemorySound == HistoryIsNewest /\ HistoryInOrder /\ PromptHasNoGap /\ DocumentsFill
=============================================================================
