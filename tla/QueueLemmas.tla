---------------------------- MODULE QueueLemmas ----------------------------
(***************************************************************************)
(* What the proofs about sequences share: what the ends of a queue do to   *)
(* its elements and to their order (Range, IsInjective, precedence), and   *)
(* induction along a sequence, with which a function that is defined by    *)
(* recursion on the places of a sequence can be reasoned about.            *)
(***************************************************************************)
EXTENDS SequencesExt, SequenceTheorems, FiniteSetTheorems, TLAPS

\* Pushing adds the element, and keeps the queue free of duplicates if it was
\* not there.
LEMMA QueuePush ==
    ASSUME NEW S, NEW s \in Seq(S), NEW x \in S
    PROVE  /\ Append(s, x) \in Seq(S)
           /\ Range(Append(s, x)) = Range(s) \cup {x}
           /\ IsInjective(s) /\ x \notin Range(s) => IsInjective(Append(s, x))
<1> DEFINE t == Append(s, x)
<1>1. /\ t \in Seq(S)
      /\ Len(t) = Len(s) + 1
      /\ \A i \in 1..Len(s) : t[i] = s[i]
      /\ t[Len(s) + 1] = x
  BY AppendProperties
<1>2. Range(s) = {s[i] : i \in 1..Len(s)} /\ DOMAIN s = 1..Len(s) /\ Len(s) \in Nat
  BY RangeEquality, LenProperties
<1>3. Range(t) = {t[i] : i \in 1..Len(s) + 1} /\ DOMAIN t = 1..Len(s) + 1
  BY <1>1, RangeEquality, LenProperties
<1> HIDE DEF t
<1>4. 1..Len(s) + 1 = 1..Len(s) \cup {Len(s) + 1}
  BY <1>2
<1>5. Range(t) = Range(s) \cup {x}
  <2>1. \A y \in Range(t) : y \in Range(s) \cup {x}
    BY <1>1, <1>2, <1>3, <1>4
  <2>2. x \in Range(t)
    BY <1>1, <1>2, <1>3
  <2>3. \A y \in Range(s) : y \in Range(t)
    BY <1>1, <1>2, <1>3, <1>4
  <2>4. QED
    BY <2>1, <2>2, <2>3
<1>6. IsInjective(s) /\ x \notin Range(s) => IsInjective(t)
  BY <1>1, <1>2, <1>3, <1>4 DEF IsInjective
<1>7. QED
  BY <1>1, <1>5, <1>6 DEF t

\* Popping from the front removes the first element.
LEMMA QueuePop ==
    ASSUME NEW S, NEW s \in Seq(S), s # <<>>
    PROVE  /\ Tail(s) \in Seq(S)
           /\ Head(s) \in S
           /\ Range(s) = Range(Tail(s)) \cup {Head(s)}
           /\ IsInjective(s) => IsInjective(Tail(s)) /\ Head(s) \notin Range(Tail(s))
<1> DEFINE t == Tail(s)
<1>1. /\ Head(s) \in S
      /\ t \in Seq(S)
      /\ Len(t) = Len(s) - 1
      /\ \A i \in 1..Len(t) : t[i] = s[i + 1]
  BY HeadTailProperties
<1>2. Range(s) = {s[i] : i \in 1..Len(s)} /\ DOMAIN s = 1..Len(s) /\ Len(s) \in Nat \ {0}
  BY RangeEquality, LenProperties, EmptySeq
<1>3. Range(t) = {t[i] : i \in 1..Len(s) - 1} /\ DOMAIN t = 1..Len(s) - 1
  BY <1>1, RangeEquality, LenProperties
<1>4. Head(s) = s[1]
  OBVIOUS
<1> HIDE DEF t
<1>5. Range(s) = Range(t) \cup {Head(s)}
  <2>1. \A y \in Range(s) : y \in Range(t) \cup {Head(s)}
    <3>1. SUFFICES ASSUME NEW i \in 1..Len(s)
                   PROVE  s[i] \in Range(t) \cup {Head(s)}
      BY <1>2
    <3>2. CASE i = 1
      BY <3>2, <1>4
    <3>3. CASE i # 1
      <4>1. i - 1 \in 1..Len(s) - 1 /\ (i - 1) + 1 = i
        BY <3>3, <1>2
      <4>2. t[i - 1] = s[i]
        BY <4>1, <1>1
      <4>3. QED
        BY <4>1, <4>2, <1>3
    <3>4. QED
      BY <3>2, <3>3
  <2>2. \A y \in Range(t) : y \in Range(s)
    BY <1>1, <1>2, <1>3
  <2>3. Head(s) \in Range(s)
    BY <1>2, <1>4
  <2>4. QED
    BY <2>1, <2>2, <2>3
<1>6. ASSUME IsInjective(s)
      PROVE  IsInjective(t) /\ Head(s) \notin Range(t)
  <2>1. \A i \in 1..Len(s) - 1 : i + 1 \in 1..Len(s) /\ t[i] = s[i + 1] /\ i + 1 # 1
    BY <1>1, <1>2
  <2>2. \A a, b \in 1..Len(s) : s[a] = s[b] => a = b
    BY <1>6, <1>2 DEF IsInjective
  <2>3. ASSUME NEW a \in 1..Len(s) - 1, NEW b \in 1..Len(s) - 1, t[a] = t[b]
        PROVE  a = b
    <3>1. a + 1 = b + 1
      BY <2>1, <2>2, <2>3
    <3>2. QED
      BY <3>1, <1>2
  <2>4. \A i \in 1..Len(s) - 1 : t[i] # Head(s)
    BY <2>1, <2>2, <1>2, <1>4
  <2>5. QED
    BY <2>3, <2>4, <1>3 DEF IsInjective
<1>7. QED
  BY <1>1, <1>5, <1>6 DEF t

\* Popping from the back removes the last element.
LEMMA QueuePopBack ==
    ASSUME NEW S, NEW s \in Seq(S), s # <<>>
    PROVE  /\ Front(s) \in Seq(S)
           /\ Last(s) \in S
           /\ Range(s) = Range(Front(s)) \cup {Last(s)}
           /\ IsInjective(s) => IsInjective(Front(s)) /\ Last(s) \notin Range(Front(s))
<1> DEFINE t == Front(s)
<1>1. Range(s) = {s[i] : i \in 1..Len(s)} /\ DOMAIN s = 1..Len(s) /\ Len(s) \in Nat \ {0}
  BY RangeEquality, LenProperties, EmptySeq
<1>2. /\ t \in Seq(S)
      /\ Len(t) = Len(s) - 1
      /\ \A i \in 1..Len(s) - 1 : t[i] = s[i]
  <2>1. \A i \in 1..Len(s) - 1 : s[i] \in S
    BY <1>1
  <2>2. 1 \in Int /\ Len(s) - 1 \in Int
    BY <1>1
  <2>3. /\ SubSeq(s, 1, Len(s) - 1) \in Seq(S)
        /\ Len(SubSeq(s, 1, Len(s) - 1)) = IF 1 <= Len(s) - 1 THEN Len(s) - 1 - 1 + 1 ELSE 0
        /\ \A i \in 1..Len(s) - 1 - 1 + 1 : SubSeq(s, 1, Len(s) - 1)[i] = s[1 + i - 1]
    BY <2>1, <2>2, SubSeqProperties
  <2>4. QED
    BY <2>3, <1>1 DEF Front
<1>3. Range(t) = {t[i] : i \in 1..Len(s) - 1} /\ DOMAIN t = 1..Len(s) - 1
  BY <1>2, RangeEquality, LenProperties
<1>4. Last(s) = s[Len(s)] /\ Last(s) \in S
  BY <1>1 DEF Last
<1> HIDE DEF t
<1>5. 1..Len(s) = 1..Len(s) - 1 \cup {Len(s)}
  BY <1>1
<1>6. Range(s) = Range(t) \cup {Last(s)}
  <2>1. \A y \in Range(s) : y \in Range(t) \cup {Last(s)}
    BY <1>1, <1>2, <1>3, <1>4, <1>5
  <2>2. \A y \in Range(t) : y \in Range(s)
    BY <1>1, <1>2, <1>3, <1>5
  <2>3. Last(s) \in Range(s)
    BY <1>1, <1>4
  <2>4. QED
    BY <2>1, <2>2, <2>3
<1>7. ASSUME IsInjective(s)
      PROVE  IsInjective(t) /\ Last(s) \notin Range(t)
  BY <1>7, <1>1, <1>2, <1>3, <1>4 DEF IsInjective
<1>8. QED
  BY <1>2, <1>4, <1>6, <1>7 DEF t

\* Two queues without duplicates and without a common element concatenate to
\* one without duplicates.
LEMMA QueueConcat ==
    ASSUME NEW S, NEW s \in Seq(S), NEW t \in Seq(S)
    PROVE  /\ s \o t \in Seq(S)
           /\ Range(s \o t) = Range(s) \cup Range(t)
           /\ IsInjective(s) /\ IsInjective(t) /\ Range(s) \cap Range(t) = {}
                 => IsInjective(s \o t)
<1> DEFINE u == s \o t
<1>1. /\ u \in Seq(S)
      /\ Len(u) = Len(s) + Len(t)
      /\ \A i \in 1..Len(s) + Len(t) :
            u[i] = IF i <= Len(s) THEN s[i] ELSE t[i - Len(s)]
  BY ConcatProperties
<1>2. Range(u) = Range(s) \cup Range(t)
  BY RangeConcatenation
<1>3. Range(s) = {s[i] : i \in 1..Len(s)} /\ DOMAIN s = 1..Len(s) /\ Len(s) \in Nat
  BY RangeEquality, LenProperties
<1>4. Range(t) = {t[i] : i \in 1..Len(t)} /\ DOMAIN t = 1..Len(t) /\ Len(t) \in Nat
  BY RangeEquality, LenProperties
<1>5. DOMAIN u = 1..Len(s) + Len(t)
  BY <1>1, LenProperties
<1> HIDE DEF u
<1>6. ASSUME IsInjective(s), IsInjective(t), Range(s) \cap Range(t) = {},
             NEW a \in 1..Len(s) + Len(t), NEW b \in 1..Len(s) + Len(t), u[a] = u[b]
      PROVE  a = b
  <2>1. CASE a <= Len(s) /\ b <= Len(s)
    BY <2>1, <1>6, <1>1, <1>3, <1>4 DEF IsInjective
  <2>2. CASE ~(a <= Len(s)) /\ ~(b <= Len(s))
    <3>1. a - Len(s) \in 1..Len(t) /\ b - Len(s) \in 1..Len(t)
      BY <2>2, <1>3, <1>4
    <3>2. t[a - Len(s)] = t[b - Len(s)]
      BY <2>2, <1>6, <1>1
    <3>3. a - Len(s) = b - Len(s)
      BY <3>1, <3>2, <1>6, <1>4 DEF IsInjective
    <3>4. QED
      BY <3>3, <1>3
  <2>3. CASE a <= Len(s) /\ ~(b <= Len(s))
    <3>1. s[a] \in Range(s) /\ t[b - Len(s)] \in Range(t)
      BY <2>3, <1>3, <1>4
    <3>2. QED
      BY <3>1, <2>3, <1>6, <1>1
  <2>4. CASE ~(a <= Len(s)) /\ b <= Len(s)
    <3>1. s[b] \in Range(s) /\ t[a - Len(s)] \in Range(t)
      BY <2>4, <1>3, <1>4
    <3>2. QED
      BY <3>1, <2>4, <1>6, <1>1
  <2>5. QED
    BY <2>1, <2>2, <2>3, <2>4
<1>7. IsInjective(s) /\ IsInjective(t) /\ Range(s) \cap Range(t) = {} => IsInjective(u)
  BY <1>6, <1>5 DEF IsInjective
<1>8. QED
  BY <1>1, <1>2, <1>7 DEF u

\* The empty queue.
LEMMA QueueEmpty == Range(<<>>) = {} /\ IsInjective(<<>>)
  BY DEF Range, IsInjective

-----------------------------------------------------------------------------
(* One element and its place                                               *)

\* p is at most once in s.
Single(s, p) == \A i, j \in DOMAIN s : s[i] = p /\ s[j] = p => i = j

\* What the ends of a queue do to an element that is there once.
LEMMA SinglePush ==
    ASSUME NEW S, NEW s \in Seq(S), NEW x \in S, NEW p, Single(s, p),
           x = p => p \notin Range(s)
    PROVE  Single(Append(s, x), p)
<1> DEFINE t == Append(s, x)
<1>1. /\ t \in Seq(S)
      /\ Len(t) = Len(s) + 1
      /\ \A i \in 1..Len(s) : t[i] = s[i]
      /\ t[Len(s) + 1] = x
  BY AppendProperties
<1>2. Range(s) = {s[i] : i \in 1..Len(s)} /\ DOMAIN s = 1..Len(s) /\ Len(s) \in Nat
  BY RangeEquality, LenProperties
<1>3. DOMAIN t = 1..Len(s) + 1 /\ 1..Len(s) + 1 = 1..Len(s) \cup {Len(s) + 1}
  BY <1>1, <1>2, LenProperties
<1> HIDE DEF t
<1>4. QED
  BY <1>1, <1>2, <1>3 DEF Single, t

LEMMA SinglePop ==
    ASSUME NEW S, NEW s \in Seq(S), s # <<>>, NEW p, Single(s, p)
    PROVE  Single(Tail(s), p) /\ (Head(s) = p => p \notin Range(Tail(s)))
<1> DEFINE t == Tail(s)
<1>1. /\ t \in Seq(S)
      /\ Len(t) = Len(s) - 1
      /\ \A i \in 1..Len(t) : t[i] = s[i + 1]
  BY HeadTailProperties
<1>2. DOMAIN s = 1..Len(s) /\ Len(s) \in Nat \ {0} /\ Head(s) = s[1]
  BY LenProperties, EmptySeq
<1>3. Range(t) = {t[i] : i \in 1..Len(s) - 1} /\ DOMAIN t = 1..Len(s) - 1
  BY <1>1, RangeEquality, LenProperties
<1> HIDE DEF t
<1>4. \A i \in 1..Len(s) - 1 : i + 1 \in 1..Len(s) /\ i + 1 # 1 /\ t[i] = s[i + 1]
  BY <1>1, <1>2
<1>5. Single(t, p)
  <2>1. SUFFICES ASSUME NEW i \in 1..Len(s) - 1, NEW j \in 1..Len(s) - 1, t[i] = p, t[j] = p
                 PROVE  i = j
    BY <1>3 DEF Single
  <2>2. i + 1 = j + 1
    BY <2>1, <1>2, <1>4 DEF Single
  <2>3. QED
    BY <2>2, <1>2
<1>6. Head(s) = p => p \notin Range(t)
  BY <1>2, <1>3, <1>4 DEF Single
<1>7. QED
  BY <1>5, <1>6 DEF t

LEMMA SinglePopBack ==
    ASSUME NEW S, NEW s \in Seq(S), s # <<>>
    PROVE  /\ Len(Front(s)) = Len(s) - 1
           /\ \A p : Single(s, p) =>
                 Single(Front(s), p) /\ (Last(s) = p => p \notin Range(Front(s)))
<1> DEFINE t == Front(s)
<1>1. DOMAIN s = 1..Len(s) /\ Len(s) \in Nat \ {0} /\ Last(s) = s[Len(s)]
  BY LenProperties, EmptySeq DEF Last
<1>2. /\ t \in Seq(S)
      /\ Len(t) = Len(s) - 1
      /\ \A i \in 1..Len(s) - 1 : t[i] = s[i]
  <2>1. \A i \in 1..Len(s) - 1 : s[i] \in S
    BY <1>1
  <2>2. 1 \in Int /\ Len(s) - 1 \in Int
    BY <1>1
  <2>3. /\ SubSeq(s, 1, Len(s) - 1) \in Seq(S)
        /\ Len(SubSeq(s, 1, Len(s) - 1)) = IF 1 <= Len(s) - 1 THEN Len(s) - 1 - 1 + 1 ELSE 0
        /\ \A i \in 1..Len(s) - 1 - 1 + 1 : SubSeq(s, 1, Len(s) - 1)[i] = s[1 + i - 1]
    BY <2>1, <2>2, SubSeqProperties
  <2>4. QED
    BY <2>3, <1>1 DEF Front
<1>3. Range(t) = {t[i] : i \in 1..Len(s) - 1} /\ DOMAIN t = 1..Len(s) - 1
  BY <1>2, RangeEquality, LenProperties
<1> HIDE DEF t
<1>4. \A p : Single(s, p) => Single(t, p) /\ (Last(s) = p => p \notin Range(t))
  BY <1>1, <1>2, <1>3 DEF Single
<1>5. QED
  BY <1>2, <1>4 DEF t

\* A queue has at most as many elements as places.
LEMMA QueueSize ==
    ASSUME NEW S, NEW s \in Seq(S)
    PROVE  IsFiniteSet(Range(s)) /\ Cardinality(Range(s)) <= Len(s)
<1>1. Len(s) \in Nat /\ s \in [1..Len(s) -> S] /\ Range(s) = {s[i] : i \in 1..Len(s)}
  BY LenProperties, RangeEquality
<1>2. s \in [1..Len(s) -> Range(s)]
  BY <1>1
<1>3. s \in Surjection(1..Len(s), Range(s))
  BY <1>1, <1>2 DEF Surjection
<1>4. IsFiniteSet(1..Len(s)) /\ Cardinality(1..Len(s)) = Len(s)
  BY <1>1, FS_Interval
<1>5. QED
  BY <1>3, <1>4, FS_Surjection

-----------------------------------------------------------------------------
(* Order.  What precedes what in a concatenation follows from its parts.   *)

\* Some a is before some b in s.
Precedes(s, a, b) == \E m, n \in DOMAIN s : m < n /\ s[m] = a /\ s[n] = b

\* What precedes is in the sequence.
LEMMA PrecedesInside ==
    ASSUME NEW S, NEW s \in Seq(S), NEW a, NEW b, Precedes(s, a, b)
    PROVE  a \in Range(s) /\ b \in Range(s)
  BY RangeEquality, LenProperties DEF Precedes

LEMMA PrecedesEmpty == \A a, b : ~Precedes(<<>>, a, b)
  BY DEF Precedes

LEMMA PrecedesConcat ==
    ASSUME NEW S, NEW s \in Seq(S), NEW t \in Seq(S), NEW a, NEW b
    PROVE  Precedes(s \o t, a, b) <=>
              \/ Precedes(s, a, b)
              \/ Precedes(t, a, b)
              \/ a \in Range(s) /\ b \in Range(t)
<1> DEFINE u == s \o t
<1>1. /\ u \in Seq(S)
      /\ Len(u) = Len(s) + Len(t)
      /\ \A i \in 1..Len(s) + Len(t) :
            u[i] = IF i <= Len(s) THEN s[i] ELSE t[i - Len(s)]
  BY ConcatProperties
<1>2. /\ Range(s) = {s[i] : i \in 1..Len(s)} /\ DOMAIN s = 1..Len(s) /\ Len(s) \in Nat
      /\ Range(t) = {t[i] : i \in 1..Len(t)} /\ DOMAIN t = 1..Len(t) /\ Len(t) \in Nat
      /\ DOMAIN u = 1..Len(s) + Len(t)
  BY <1>1, RangeEquality, LenProperties
<1> HIDE DEF u
<1>3. \A i \in 1..Len(s) : i \in 1..Len(s) + Len(t) /\ u[i] = s[i]
  BY <1>1, <1>2
<1>4. \A i \in 1..Len(t) : Len(s) + i \in 1..Len(s) + Len(t) /\ u[Len(s) + i] = t[i]
  BY <1>1, <1>2
<1>5. ASSUME Precedes(s, a, b) PROVE Precedes(u, a, b)
  BY <1>2, <1>3, <1>5 DEF Precedes
<1>6. ASSUME Precedes(t, a, b) PROVE Precedes(u, a, b)
  <2>1. PICK m \in 1..Len(t), n \in 1..Len(t) : m < n /\ t[m] = a /\ t[n] = b
    BY <1>2, <1>6 DEF Precedes
  <2>2. Len(s) + m < Len(s) + n
    BY <2>1, <1>2
  <2>3. QED
    BY <2>1, <2>2, <1>2, <1>4 DEF Precedes
<1>7. ASSUME a \in Range(s), b \in Range(t) PROVE Precedes(u, a, b)
  <2>1. PICK m \in 1..Len(s) : s[m] = a
    BY <1>2, <1>7
  <2>2. PICK n \in 1..Len(t) : t[n] = b
    BY <1>2, <1>7
  <2>3. m < Len(s) + n
    BY <1>2
  <2>4. QED
    BY <2>1, <2>2, <2>3, <1>2, <1>3, <1>4 DEF Precedes
<1>8. ASSUME Precedes(u, a, b)
      PROVE  Precedes(s, a, b) \/ Precedes(t, a, b) \/ (a \in Range(s) /\ b \in Range(t))
  <2>1. PICK m \in 1..Len(s) + Len(t), n \in 1..Len(s) + Len(t) :
           m < n /\ u[m] = a /\ u[n] = b
    BY <1>2, <1>8 DEF Precedes
  <2>2. CASE n <= Len(s)
    <3>1. m \in 1..Len(s) /\ n \in 1..Len(s) /\ s[m] = a /\ s[n] = b
      BY <2>1, <2>2, <1>1, <1>2
    <3>2. QED
      BY <2>1, <3>1, <1>2 DEF Precedes
  <2>3. CASE m <= Len(s) /\ ~(n <= Len(s))
    <3>1. m \in 1..Len(s) /\ n - Len(s) \in 1..Len(t) /\ s[m] = a /\ t[n - Len(s)] = b
      BY <2>1, <2>3, <1>1, <1>2
    <3>2. QED
      BY <3>1, <1>2
  <2>4. CASE ~(m <= Len(s)) /\ ~(n <= Len(s))
    <3>1. m - Len(s) \in 1..Len(t) /\ n - Len(s) \in 1..Len(t) /\ m - Len(s) < n - Len(s)
      BY <2>1, <2>4, <1>2
    <3>2. t[m - Len(s)] = a /\ t[n - Len(s)] = b
      BY <2>1, <2>4, <1>1
    <3>3. QED
      BY <3>1, <3>2, <1>2 DEF Precedes
  <2>5. QED
    BY <2>1, <2>2, <2>3, <2>4, <1>2
<1>9. QED
  BY <1>5, <1>6, <1>7, <1>8 DEF u

LEMMA PrecedesSingle == \A x, a, b : ~Precedes(<<x>>, a, b) /\ Range(<<x>>) = {x}
  BY DEF Precedes, Range

LEMMA PrecedesAppend ==
    ASSUME NEW S, NEW s \in Seq(S), NEW x \in S, NEW a, NEW b
    PROVE  Precedes(Append(s, x), a, b) <=> Precedes(s, a, b) \/ (a \in Range(s) /\ b = x)
<1>1. Append(s, x) = s \o <<x>> /\ <<x>> \in Seq(S)
  BY AppendIsConcat
<1>2. QED
  BY <1>1, PrecedesConcat, PrecedesSingle

LEMMA PrecedesTail ==
    ASSUME NEW S, NEW s \in Seq(S), s # <<>>, NEW a, NEW b
    PROVE  Precedes(s, a, b) <=>
              Precedes(Tail(s), a, b) \/ (a = Head(s) /\ b \in Range(Tail(s)))
<1>1. Tail(s) \in Seq(S) /\ <<Head(s)>> \in Seq(S)
  BY QueuePop
<1>2. s = <<Head(s)>> \o Tail(s)
  <2> DEFINE u == <<Head(s)>> \o Tail(s)
  <2>1. /\ Len(Tail(s)) = Len(s) - 1 /\ Len(s) \in Nat \ {0}
        /\ \A i \in 1..Len(Tail(s)) : Tail(s)[i] = s[i + 1]
    BY HeadTailProperties, EmptySeq
  <2>2. Len(<<Head(s)>>) = 1 /\ <<Head(s)>>[1] = s[1]
    OBVIOUS
  <2>3. /\ u \in Seq(S) /\ Len(u) = Len(s)
        /\ \A i \in 1..Len(s) : u[i] = IF i <= 1 THEN <<Head(s)>>[i] ELSE Tail(s)[i - 1]
    BY <1>1, <2>1, <2>2, ConcatProperties
  <2> HIDE DEF u
  <2>4. ASSUME NEW i \in 1..Len(s) PROVE u[i] = s[i]
    <3>1. CASE i = 1
      BY <3>1, <2>2, <2>3
    <3>2. CASE i # 1
      <4>1. i - 1 \in 1..Len(Tail(s)) /\ (i - 1) + 1 = i
        BY <3>2, <2>1
      <4>2. QED
        BY <4>1, <2>1, <2>3
    <3>3. QED
      BY <3>1, <3>2
  <2>5. u = s
    BY <2>3, <2>4, SeqEqual
  <2>6. QED
    BY <2>5 DEF u
<1>3. Precedes(<<Head(s)>> \o Tail(s), a, b) <=>
         \/ Precedes(<<Head(s)>>, a, b) \/ Precedes(Tail(s), a, b)
         \/ a \in Range(<<Head(s)>>) /\ b \in Range(Tail(s))
  <2>1. \A v \in Seq(S), w \in Seq(S) :
           Precedes(v \o w, a, b) <=>
              Precedes(v, a, b) \/ Precedes(w, a, b) \/ (a \in Range(v) /\ b \in Range(w))
    BY PrecedesConcat
  <2>2. QED
    BY <1>1, <2>1, Zenon
<1>4. ~Precedes(<<Head(s)>>, a, b) /\ Range(<<Head(s)>>) = {Head(s)}
  BY PrecedesSingle
<1>5. Precedes(s, a, b) <=> Precedes(<<Head(s)>> \o Tail(s), a, b)
  BY <1>2, Zenon
<1>6. a \in Range(<<Head(s)>>) <=> a = Head(s)
  BY <1>4
<1>7. QED
  BY <1>3, <1>4, <1>5, <1>6, Zenon

-----------------------------------------------------------------------------
(* Going through a sequence.  A recursive function over 0 .. N is what base *)
(* becomes in N steps: Iterates says so, IterationExists that there is one. *)

\* Induction, over a set of numbers.
LEMMA NatSetInduction ==
    ASSUME NEW T, 0 \in T, \A n \in Nat : n \in T => n + 1 \in T
    PROVE  Nat \subseteq T
<1> DEFINE R == OpToRel(<, Nat)
           Gap == {n \in Nat : n \notin T}
<1>1. IsWellFoundedOn(R, Nat)
  BY NatLessThanWellFounded
<1>2. \A y, x \in Nat : y < x => <<y, x>> \in R
  BY DEF OpToRel
<1> HIDE DEF R
<1>3. ASSUME Gap # {} PROVE FALSE
  <2>1. Gap \subseteq Nat
    OBVIOUS
  <2> HIDE DEF Gap
  <2>2. PICK x \in Gap : \A y \in Gap : ~(<<y, x>> \in R)
    BY <1>1, <1>3, <2>1, WFMin
  <2>3. x \in Nat /\ x \notin T
    BY <2>2 DEF Gap
  <2>4. x # 0 /\ x - 1 \in Nat /\ (x - 1) + 1 = x /\ x - 1 < x
    BY <2>3
  <2>5. x - 1 \in Gap
    BY <2>3, <2>4 DEF Gap
  <2>6. QED
    BY <1>2, <2>2, <2>3, <2>4, <2>5
<1>4. QED
  BY <1>3

\* Up to a bound.
LEMMA UpToInduction ==
    ASSUME NEW N \in Nat, NEW T, 0 \in T, \A n \in 1..N : n - 1 \in T => n \in T
    PROVE  0..N \subseteq T
<1> DEFINE U == {n \in Nat : n <= N => n \in T}
<1>1. 0 \in U
  OBVIOUS
<1>2. ASSUME NEW n \in Nat, n \in U PROVE n + 1 \in U
  <2>1. n + 1 <= N => n + 1 \in 1..N /\ (n + 1) - 1 = n /\ n <= N
    OBVIOUS
  <2>2. n + 1 <= N => n + 1 \in T
    BY <1>2, <2>1
  <2>3. QED
    BY <2>2
<1> HIDE DEF U
<1>3. Nat \subseteq U
  BY <1>1, <1>2, NatSetInduction
<1>4. QED
  BY <1>3 DEF U

\* f[n] is what base has become after the steps 1 .. n.
Iterates(f, V, base, N, step) ==
    /\ f \in [0..N -> V]
    /\ f[0] = base
    /\ \A i \in 1..N : f[i] = step[i][f[i - 1]]

\* What is computed by going through 1 .. N, a step at a time, exists.
LEMMA IterationExists ==
    ASSUME NEW V, NEW base \in V, NEW N \in Nat, NEW step \in [1..N -> [V -> V]]
    PROVE  \E f : Iterates(f, V, base, N, step)
<1> DEFINE T == {n \in 0..N : \E f : Iterates(f, V, base, n, step)}
<1>1. 0 \in T
  <2> DEFINE f == [i \in 0..0 |-> base]
  <2>1. f \in [0..0 -> V] /\ f[0] = base
    OBVIOUS
  <2> HIDE DEF f
  <2>2. Iterates(f, V, base, 0, step)
    BY <2>1 DEF Iterates
  <2>3. 0 \in 0..N
    OBVIOUS
  <2>4. QED
    BY <2>1, <2>2, <2>3
<1>2. ASSUME NEW n \in 1..N, n - 1 \in T PROVE n \in T
  <2>0. PICK f : Iterates(f, V, base, n - 1, step)
    BY <1>2
  <2>1. /\ f \in [0..n - 1 -> V] /\ f[0] = base
        /\ \A i \in 1..n - 1 : f[i] = step[i][f[i - 1]]
    BY <2>0 DEF Iterates
  <2> DEFINE g == [i \in 0..n |-> IF i = n THEN step[n][f[n - 1]] ELSE f[i]]
  <2>2. f[n - 1] \in V
    BY <2>1
  <2>3. step[n][f[n - 1]] \in V
    BY <2>2
  <2>4. g \in [0..n -> V]
    <3>1. \A i \in 0..n : i # n => i \in 0..n - 1
      OBVIOUS
    <3>2. QED
      BY <2>1, <2>3, <3>1
  <2>5. g[n] = step[n][f[n - 1]] /\ \A i \in 0..n - 1 : g[i] = f[i]
    OBVIOUS
  <2> HIDE DEF g
  <2>6. ASSUME NEW i \in 1..n PROVE g[i] = step[i][g[i - 1]]
    <3>1. i - 1 \in 0..n - 1 /\ g[i - 1] = f[i - 1]
      BY <2>5
    <3>2. CASE i = n
      BY <3>1, <3>2, <2>5
    <3>3. CASE i # n
      <4>1. i \in 0..n - 1 /\ i \in 1..n - 1
        BY <3>3
      <4>2. f[i] = step[i][f[i - 1]]
        BY <4>1, <2>1
      <4>3. QED
        BY <3>1, <4>1, <4>2, <2>5
    <3>4. QED
      BY <3>2, <3>3
  <2>7. g[0] = base
    BY <2>1, <2>5
  <2>8. Iterates(g, V, base, n, step)
    BY <2>4, <2>6, <2>7 DEF Iterates
  <2>9. QED
    BY <2>8
<1> HIDE DEF T
<1>3. 0..N \subseteq T
  BY <1>1, <1>2, UpToInduction
<1>4. N \in T
  BY <1>3
<1>5. QED
  BY <1>4 DEF T

\* What has a type before the first step, and keeps it in each, has it throughout.
LEMMA IterationType ==
    ASSUME NEW N \in Nat, NEW V, NEW f, f[0] \in V,
           \A n \in 1..N : f[n - 1] \in V => f[n] \in V
    PROVE  \A n \in 0..N : f[n] \in V
<1> DEFINE T == {n \in 0..N : f[n] \in V}
<1>1. 0 \in T
  OBVIOUS
<1>2. \A n \in 1..N : n - 1 \in T => n \in T
  OBVIOUS
<1> HIDE DEF T
<1>3. 0..N \subseteq T
  BY <1>1, <1>2, UpToInduction
<1>4. QED
  BY <1>3 DEF T

\* The elements from the m-th to the n-th.
LEMMA SegmentPlaces ==
    ASSUME NEW S, NEW s \in Seq(S), NEW m \in Nat \ {0}, NEW n \in 0..Len(s), m <= n + 1
    PROVE  /\ SubSeq(s, m, n) \in Seq(S)
           /\ Len(SubSeq(s, m, n)) = n - m + 1
           /\ \A i \in 1..n - m + 1 : SubSeq(s, m, n)[i] = s[m + i - 1]
<1>1. Len(s) \in Nat /\ \A i \in m..n : s[i] \in S
  BY LenProperties, ElementOfSeq
<1> DEFINE t == SubSeq(s, m, n)
<1>2. /\ t \in Seq(S) /\ Len(t) = IF m <= n THEN n - m + 1 ELSE 0
      /\ \A i \in 1..n - m + 1 : t[i] = s[m + i - 1]
  BY <1>1, SubSeqProperties
<1> HIDE DEF t
<1>3. Len(t) = n - m + 1
  BY <1>1, <1>2
<1>4. QED
  BY <1>2, <1>3 DEF t
=============================================================================
