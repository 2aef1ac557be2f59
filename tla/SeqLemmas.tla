------------------------------ MODULE SeqLemmas ------------------------------
(***************************************************************************)
(* What the queue operations of the runtime do to the set of entries of a  *)
(* queue and to its having no duplicates.  IsInjective(s) says that no two *)
(* slots of the queue s hold the same entry.                               *)
(***************************************************************************)
EXTENDS Naturals, Sequences, Functions, SequenceTheorems, TLAPS

\* The empty queue.
LEMMA EmptyFacts ==
  ASSUME NEW T
  PROVE  << >> \in Seq(T) /\ Len(<< >>) = 0 /\ Range(<< >>) = {} /\ IsInjective(<< >>)
  BY DEF Range, IsInjective

\* The one-entry queue.
LEMMA SingleFacts ==
  ASSUME NEW T, NEW t \in T
  PROVE  <<t>> \in Seq(T) /\ Len(<<t>>) = 1 /\ Range(<<t>>) = {t} /\ IsInjective(<<t>>)
  BY DEF Range, IsInjective

\* A queue without entries is the empty one.
LEMMA RangeEmpty ==
  ASSUME NEW T, NEW s \in Seq(T)
  PROVE  Range(s) \subseteq T /\ (Range(s) = {} <=> s = << >>)
<1>1. DOMAIN s = 1 .. Len(s) /\ Len(s) \in Nat
  OBVIOUS
<1>2. Range(s) = {s[i] : i \in 1 .. Len(s)}
  BY <1>1 DEF Range
<1>3. s # << >> => 1 \in 1 .. Len(s)
  OBVIOUS
<1>4. s # << >> => s[1] \in Range(s)
  BY <1>2, <1>3
<1>5. Range(s) \subseteq T
  BY <1>2
<1> QED
  BY <1>4, <1>5, EmptyFacts

\* Entries of a concatenation.
LEMMA ConcatFacts ==
  ASSUME NEW T, NEW s \in Seq(T), NEW u \in Seq(T)
  PROVE  /\ s \o u \in Seq(T)
         /\ Len(s \o u) = Len(s) + Len(u)
         /\ Range(s \o u) = Range(s) \cup Range(u)
         /\ IsInjective(s \o u) <=>
              IsInjective(s) /\ IsInjective(u) /\ Range(s) \cap Range(u) = {}
<1> DEFINE c == s \o u
           m == Len(s)
           n == Len(u)
<1>1. /\ m \in Nat /\ n \in Nat
      /\ DOMAIN s = 1 .. m /\ DOMAIN u = 1 .. n /\ DOMAIN c = 1 .. m + n
      /\ \A i \in 1 .. m : c[i] = s[i]
      /\ \A i \in 1 .. n : c[m + i] = u[i]
      /\ c \in Seq(T) /\ Len(c) = m + n
  OBVIOUS
<1> HIDE DEF c, m, n
<1>2. \A i \in 1 .. m + n : i \in 1 .. m \/ (i - m \in 1 .. n /\ i = m + (i - m))
  BY <1>1
<1>3. \A i \in 1 .. m : i \in 1 .. m + n
  BY <1>1
<1>4. \A i \in 1 .. n : m + i \in 1 .. m + n /\ m + i \notin 1 .. m
  BY <1>1
<1>5. Range(c) = Range(s) \cup Range(u)
  BY RangeConcatenation DEF c
<1>6. ASSUME IsInjective(c)
      PROVE  IsInjective(s) /\ IsInjective(u) /\ Range(s) \cap Range(u) = {}
  <2>1. IsInjective(s)
    BY <1>1, <1>3, <1>6 DEF IsInjective
  <2>2. IsInjective(u)
    <3>1. \A i, j \in 1 .. n : c[m + i] = c[m + j] => m + i = m + j
      BY <1>1, <1>4, <1>6 DEF IsInjective
    <3>2. ASSUME NEW i \in 1 .. n, NEW j \in 1 .. n, u[i] = u[j] PROVE i = j
      <4>1. m + i = m + j
        BY <1>1, <3>1, <3>2
      <4> QED
        BY <1>1, <4>1
    <3> QED
      BY <1>1, <3>2 DEF IsInjective
  <2>3. ASSUME NEW i \in 1 .. m, NEW j \in 1 .. n PROVE s[i] # u[j]
    BY <1>1, <1>3, <1>4, <1>6 DEF IsInjective
  <2> QED
    BY <1>1, <2>1, <2>2, <2>3 DEF Range
<1>7. ASSUME IsInjective(s), IsInjective(u), Range(s) \cap Range(u) = {}
      PROVE  IsInjective(c)
  <2>1. \A i \in 1 .. m, j \in 1 .. n : s[i] # u[j]
    <3>1. ASSUME NEW i \in 1 .. m, NEW j \in 1 .. n PROVE s[i] # u[j]
      <4>1. s[i] \in Range(s) /\ u[j] \in Range(u)
        BY <1>1 DEF Range
      <4> QED
        BY <1>7, <4>1
    <3> QED
      BY <3>1
  <2>2. SUFFICES ASSUME NEW i \in 1 .. m + n, NEW j \in 1 .. m + n, c[i] = c[j]
                 PROVE  i = j
    BY <1>1 DEF IsInjective
  <2>3. CASE i \in 1 .. m /\ j \in 1 .. m
    BY <1>1, <1>7, <2>2, <2>3 DEF IsInjective
  <2>4. CASE i \in 1 .. m /\ j \notin 1 .. m
    BY <1>1, <1>2, <2>1, <2>2, <2>4
  <2>5. CASE i \notin 1 .. m /\ j \in 1 .. m
    <3>1. c[j] = s[j] /\ c[i] = u[i - m] /\ i - m \in 1 .. n
      BY <1>1, <1>2, <2>5
    <3> QED
      BY <2>1, <2>2, <2>5, <3>1
  <2>6. CASE i \notin 1 .. m /\ j \notin 1 .. m
    <3>1. u[i - m] = u[j - m] /\ i - m \in 1 .. n /\ j - m \in 1 .. n
      BY <1>1, <1>2, <2>2, <2>6
    <3>2. i - m = j - m
      BY <1>1, <1>7, <3>1 DEF IsInjective
    <3> QED
      BY <1>1, <3>2
  <2> QED
    BY <2>3, <2>4, <2>5, <2>6
<1> QED
  BY <1>1, <1>5, <1>6, <1>7 DEF c, m, n

\* A queue cut in two behind its first n entries.
LEMMA CutFacts ==
  ASSUME NEW T, NEW s \in Seq(T), NEW n \in 0 .. Len(s)
  PROVE  /\ SubSeq(s, 1, n) \in Seq(T) /\ Len(SubSeq(s, 1, n)) = n
         /\ SubSeq(s, n + 1, Len(s)) \in Seq(T)
         /\ Len(SubSeq(s, n + 1, Len(s))) = Len(s) - n
         /\ s = SubSeq(s, 1, n) \o SubSeq(s, n + 1, Len(s))
<1>1. Len(s) \in Nat /\ 1 \in 1 .. Len(s) + 1 /\ n \in 1 - 1 .. Len(s) /\ Len(s) \in n .. Len(s)
  OBVIOUS
<1>2. SubSeq(s, 1, n) \o SubSeq(s, n + 1, Len(s)) = SubSeq(s, 1, Len(s))
  BY <1>1, ConcatAdjacentSubSeq
<1>3. SubSeq(s, 1, Len(s)) = s
  BY SubSeqFull
<1>4. SubSeq(s, 1, n) \in Seq(T) /\ Len(SubSeq(s, 1, n)) = n
  OBVIOUS
<1>5. SubSeq(s, n + 1, Len(s)) \in Seq(T) /\ Len(SubSeq(s, n + 1, Len(s))) = Len(s) - n
  OBVIOUS
<1> QED
  BY <1>2, <1>3, <1>4, <1>5

\* Popping the first entry of a queue.
LEMMA PopFacts ==
  ASSUME NEW T, NEW s \in Seq(T), s # << >>
  PROVE  /\ Head(s) \in T /\ Tail(s) \in Seq(T)
         /\ Len(Tail(s)) = Len(s) - 1 /\ Len(s) \in Nat \ {0}
         /\ Range(s) = {Head(s)} \cup Range(Tail(s))
         /\ IsInjective(s) => IsInjective(Tail(s)) /\ Head(s) \notin Range(Tail(s))
<1>1. /\ Head(s) \in T /\ Tail(s) \in Seq(T)
      /\ Len(Tail(s)) = Len(s) - 1 /\ Len(s) \in Nat \ {0}
      /\ s = <<Head(s)>> \o Tail(s)
  OBVIOUS
<1>2. <<Head(s)>> \in Seq(T) /\ Range(<<Head(s)>>) = {Head(s)}
  BY <1>1, SingleFacts
<1>3. ASSUME NEW h \in Seq(T), NEW u \in Seq(T), s = h \o u
      PROVE  /\ Range(s) = Range(h) \cup Range(u)
             /\ IsInjective(s) => IsInjective(u) /\ Range(h) \cap Range(u) = {}
  BY <1>3, ConcatFacts
<1> QED
  BY <1>1, <1>2, <1>3

\* Appending an entry to a queue.
LEMMA AppendFacts ==
  ASSUME NEW T, NEW s \in Seq(T), NEW t \in T
  PROVE  /\ Append(s, t) \in Seq(T) /\ Len(Append(s, t)) = Len(s) + 1
         /\ Range(Append(s, t)) = Range(s) \cup {t}
         /\ IsInjective(s) /\ t \notin Range(s) => IsInjective(Append(s, t))
<1>1. Append(s, t) = s \o <<t>> /\ Append(s, t) \in Seq(T) /\ Len(Append(s, t)) = Len(s) + 1
  OBVIOUS
<1>2. <<t>> \in Seq(T) /\ Range(<<t>>) = {t} /\ IsInjective(<<t>>)
  BY SingleFacts
<1>3. /\ Range(s \o <<t>>) = Range(s) \cup Range(<<t>>)
      /\ IsInjective(s) /\ Range(s) \cap Range(<<t>>) = {} => IsInjective(s \o <<t>>)
  BY <1>2, ConcatFacts
<1> QED
  BY <1>1, <1>2, <1>3
=============================================================================
