--------------------------- MODULE SensitiveWords ---------------------------
(***************************************************************************)
(* The sensitive words: the trie that looks for them                       *)
(* (post_processor/filter.py) and the synchronisation of an administrator's*)
(* edit with Redis and with the trie of his process                        *)
(* (post_processor/sensitive_sync.py).                                     *)
(*                                                                         *)
(* The caller of sensitive_sync owns the transaction: it edits a row of    *)
(* sensitive_values, or none ("manual"), calls sensitive_sync and commits. *)
(* The sessions of db/session.py do not flush by themselves, and neither   *)
(* does the sync: it reads the edit only if the caller flushed it.  Redis  *)
(* may refuse the write and the commit may fail.  Several processes serve  *)
(* the administrators, and each has a default filter of its own.           *)
(*                                                                         *)
(* A word and a text are sequences of lower-case letters: add and          *)
(* find_first fold both.  The real list is ordered, presets first; the     *)
(* order never matters here, and a list of words is a set.                 *)
(***************************************************************************)
EXTENDS Naturals, SequencesExt

CONSTANTS
    Workers,        \* processes with a default filter of their own
    Words,          \* the words an administrator adds, enables or disables
    DefaultWords,   \* DEFAULT_SENSITIVE_WORDS, the seed of migration 0005
    Texts,          \* the texts the trie reads
    MaxEdits        \* bound: edits of an administrator

ASSUME WordsAssumption ==
    /\ Words \subseteq Seq(STRING) \ {<<>>}
    /\ DefaultWords \subseteq Words /\ DefaultWords # {}
    /\ Texts \subseteq Seq(STRING)
    /\ MaxEdits \in Nat

VARIABLES
    active,     \* the words of sensitive_values with is_active, committed
    payload,    \* what Redis holds under sensitive_words:list; {} if nothing
    filter,     \* the words of each process's default filter
    edit,       \* each process's transaction in flight
    edits,      \* edits begun
    inSync,     \* the last edit reached Redis, alone, and was committed
    unread,     \* its word, if its sync could not read it
    accepted,   \* audit_logs takes the sync's row: made from the ORM classes, not migrated
    text        \* a text somebody asks about

wordVars == <<active, payload, filter, edit, edits, inSync, unread, accepted, text>>

Idle == [at |-> "idle", word |-> <<>>, on |-> FALSE, flushed |-> TRUE, list |-> {}, clean |-> TRUE]

WordsTypeOK ==
    /\ active \subseteq Words
    /\ payload \subseteq Words
    /\ filter \in [Workers -> SUBSET Words]
    /\ edit \in [Workers -> [at : {"idle", "edited", "listed", "pushed", "replaced"},
                             word : Words \cup {<<>>}, on : BOOLEAN, flushed : BOOLEAN,
                             list : SUBSET Words, clean : BOOLEAN]]
    /\ edits \in 0 .. MaxEdits
    /\ inSync \in BOOLEAN /\ accepted \in BOOLEAN
    /\ unread \subseteq Words
    /\ text \in Texts

---------------------------------------------------------------------------
(* The trie.  A node is the word part that leads to it, so the nodes are   *)
(* the prefixes of the words and the root is the empty one.                *)

Trie(words) == UNION {{SubSeq(w, 1, n) : n \in 0 .. Len(w)} : w \in words}

Start == [node |-> <<>>, start |-> 0, hit |-> <<>>]

MismatchKeepsNode(s) == [s EXCEPT !.start = 0]

\* A letter that does not continue the current node sends the scan to the
\* root and is itself skipped.
Mismatch(s) == Start

\* The loop body of find_first: the i-th letter is c.
Advance(words, s, c, i) ==
    LET next == Append(s.node, c)
        from == IF s.start = 0 THEN i ELSE s.start
    IN  CASE s.hit # <<>> -> s
          [] s.hit = <<>> /\ next \notin Trie(words) -> Mismatch(s)
          [] OTHER -> [node |-> next, start |-> from,
                       hit |-> IF next \in words THEN <<from, i>> ELSE <<>>]

\* The loop: one pass over the text, no second thoughts.
Scan(words, t) ==
    LET after[i \in 0 .. Len(t)] ==
            IF i = 0 THEN Start ELSE Advance(words, after[i - 1], t[i], i)
    IN  after

\* _Trie.find_first: the span of the match, or the empty sequence.
FindFirst(words, t) == Scan(words, t)[Len(t)].hit

\* The loop body of find_all: search again one letter after the start of the
\* last hit.  No hit ends the loop.
Search(words, t, s, i) ==
    IF s.cursor # i THEN s
    ELSE LET m == FindFirst(words, SubSeq(t, i, Len(t)))
         IN  IF m = <<>> THEN [s EXCEPT !.cursor = 0]
             ELSE [cursor |-> i + m[1],
                   hits |-> s.hits \cup {SubSeq(t, i + m[1] - 1, i + m[2] - 1)}]

\* _Trie.find_all
Searches(words, t) ==
    LET after[i \in 0 .. Len(t)] ==
            IF i = 0 THEN [cursor |-> 1, hits |-> {}] ELSE Search(words, t, after[i - 1], i)
    IN  after

FindAll(words, t) == Searches(words, t)[Len(t)].hits

\* SensitiveWordFilter.filter_or_refuse
Refuses(words, t) == t # <<>> /\ FindFirst(words, t) # <<>>

---------------------------------------------------------------------------
(* What a request's filter knows.  get_query_guardrail builds a filter from*)
(* Redis for every request; an absent or empty payload leaves the defaults *)
(* (reload_from_redis, build_default_filter).                              *)

Reloaded(before) == IF payload = {} THEN before ELSE payload

GuardWords == Reloaded(DefaultWords)

---------------------------------------------------------------------------

WordsInit ==
    /\ payload = {}
    /\ filter = [p \in Workers |-> DefaultWords]
    /\ edit = [p \in Workers |-> Idle]
    /\ inSync = FALSE /\ unread = {}
    /\ \/ active = DefaultWords /\ edits = 0 /\ text = <<>> /\ accepted \in BOOLEAN
       \* the table after any edits, and a text somebody asks about
       \/ active \in SUBSET Words /\ edits = MaxEdits /\ text \in Texts /\ accepted = TRUE

\* A transaction begins, and those in flight are no longer alone.
OpenEdit(p, w, on, flushed) ==
    /\ edit[p].at = "idle"
    /\ edits < MaxEdits
    /\ edits' = edits + 1
    /\ LET alone == \A q \in Workers : edit[q].at = "idle"
       IN  edit' = [q \in Workers |->
                       IF q = p THEN [at |-> "edited", word |-> w, on |-> on,
                                      flushed |-> flushed, list |-> {}, clean |-> alone]
                                ELSE [edit[q] EXCEPT !.clean = edit[q].at = "idle"]]
    /\ UNCHANGED <<active, payload, filter, inSync, unread, accepted, text>>

\* Somebody else's flushed edit of the row, for which the database waits.
Locked(p, w) == \E q \in Workers \ {p} : edit[q].flushed /\ edit[q].word = w

\* The caller changes one row, and flushes that to the database or not.
BeginEdit(p, w, on, flushed) ==
    /\ (w \in active) # on
    /\ flushed => ~Locked(p, w)
    /\ OpenEdit(p, w, on, flushed)

\* "Sync now": no row is changed.
BeginManual(p) == OpenEdit(p, <<>>, FALSE, TRUE)

\* The words with an edit in force.
With(words, e) == IF e.on THEN words \cup {e.word} ELSE words \ {e.word}

\* Mutant of the next definition: the transaction's own row is never read.
ListWordsCommitted(p) ==
    /\ edit[p].at = "edited"
    /\ edit' = [edit EXCEPT ![p].at = "listed", ![p].list = active]
    /\ UNCHANGED <<active, payload, filter, edits, inSync, unread, accepted, text>>

\* list_effective_words: the committed rows and what the transaction itself flushed
ListWords(p) ==
    /\ edit[p].at = "edited"
    /\ edit' = [edit EXCEPT ![p].at = "listed",
                            ![p].list = IF edit[p].flushed THEN With(active, edit[p]) ELSE active]
    /\ UNCHANGED <<active, payload, filter, edits, inSync, unread, accepted, text>>

\* SET of the payload; an error is logged and the sync goes on.
PushToRedis(p) ==
    /\ edit[p].at = "listed"
    /\ \/ /\ payload' = edit[p].list
          /\ edit' = [edit EXCEPT ![p].at = "pushed"]
       \/ /\ edit' = [edit EXCEPT ![p].at = "pushed", ![p].clean = FALSE]
          /\ UNCHANGED payload
    /\ UNCHANGED <<active, filter, edits, inSync, unread, accepted, text>>

\* replace_words, unless no word is active
ReplaceFilter(p) ==
    /\ edit[p].at = "pushed"
    /\ edit' = [edit EXCEPT ![p].at = "replaced"]
    /\ filter' = IF edit[p].list # {} THEN [filter EXCEPT ![p] = edit[p].list]
                                      ELSE filter
    /\ UNCHANGED <<active, payload, edits, inSync, unread, accepted, text>>

\* The caller's commit flushes what was not and writes the audit row of the sync.  On a
\* table made by the migrations it never succeeds: their CHECK lacks sensitive.sync.
CommitEdit(p) ==
    /\ edit[p].at = "replaced"
    /\ accepted
    /\ edit[p].flushed \/ ~Locked(p, edit[p].word)
    /\ active' = With(active, edit[p])
    /\ edit' = [edit EXCEPT ![p] = Idle]
    /\ inSync' = edit[p].clean
    /\ unread' = IF edit[p].clean /\ ~edit[p].flushed THEN {edit[p].word} ELSE {}
    /\ UNCHANGED <<payload, filter, edits, accepted, text>>

\* ... or fails, and Redis and the filter keep the new list.
RollbackEdit(p) ==
    /\ edit[p].at # "idle"
    /\ inSync' = (inSync /\ edit[p].at \notin {"pushed", "replaced"})
    /\ edit' = [edit EXCEPT ![p] = Idle]
    /\ UNCHANGED <<active, payload, filter, edits, unread, accepted, text>>

WordsNext ==
    \E p \in Workers :
        \/ \E w \in Words, on, flushed \in BOOLEAN : BeginEdit(p, w, on, flushed)
        \/ BeginManual(p)
        \/ ListWords(p)
        \/ PushToRedis(p)
        \/ ReplaceFilter(p)
        \/ CommitEdit(p)
        \/ RollbackEdit(p)

WordsSpec == WordsInit /\ [][WordsNext]_wordVars

---------------------------------------------------------------------------
(* Properties.                                                             *)

\* The words of one list but not of both.
Differ(a, b) == (a \ b) \cup (b \ a)

\* "Every write triggers sensitive_sync()" (db/models/sensitive.py): a sync that reached
\* Redis, overlapped no other and was committed leaves Redis with the words of the table,
\* but for the one its own caller had changed and not flushed; some process looks for the
\* same words, and so does the filter the next request builds, with the defaults in place
\* of an empty list.  What failed before it, or is rolled back before a push, is no matter.
\* (The filters of other processes keep their old list.)
SyncReaches ==
    inSync /\ (\A p \in Workers : edit[p].at = "idle")
        => /\ Differ(payload, active) = unread
           /\ payload # {} => \E p \in Workers : filter[p] = payload
           /\ unread = {} => GuardWords = IF active = {} THEN DefaultWords ELSE active

\* Where no sync can be committed, on the tables of the migrations, Redis is left with
\* the list of an edit that never was, one word off, and never further off than that.
RefusedSyncsAreClose ==
    ~accepted /\ payload # {} =>
        \/ payload = active
        \/ \E w \in Words : Differ(payload, active) = {w}

\* What an administrator saved is in force, and what he could not is one word.
ListsSound == SyncReaches /\ RefusedSyncsAreClose

\* Occurrences of words in the text, as a reader sees them.
Occurs(w, t, i) == i + Len(w) - 1 <= Len(t) /\ SubSeq(t, i, i + Len(w) - 1) = w

Letters(words) == UNION {Range(w) : w \in words}

\* The trie raises no false alarm: what find_first and find_all point at is a
\* word of the list at that place of the text.
OnlyWordsAreFound ==
    LET m == FindFirst(active, text)
    IN  /\ m # <<>> => SubSeq(text, m[1], m[2]) \in active
        /\ FindAll(active, text) \subseteq
               {w \in active : \E i \in 1 .. Len(text) : Occurs(w, text, i)}
        /\ (FindAll(active, text) # {}) = Refuses(active, text)

\* A word that opens the text, or follows a letter that no word contains, is
\* never missed.  (A word behind an abandoned partial match may be: the scan
\* does not go back.)
IsolatedWordsAreFound ==
    \A w \in active, i \in 1 .. Len(text) :
        /\ Occurs(w, text, i)
        /\ i = 1 \/ text[i - 1] \notin Letters(active)
        => Refuses(active, text)

\* The scan finds nothing but words, and every word that stands alone.
ScanSound == OnlyWordsAreFound /\ IsolatedWordsAreFound
=============================================================================
