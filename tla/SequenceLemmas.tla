---------------------------- MODULE SequenceLemmas ----------------------------
(***************************************************************************)
(* What the sequence operators of the models do, for any sequence: the     *)
(* facts that the proofs about the timeline, the image cache and the       *)
(* attachments need and the library does not state.                        *)
(***************************************************************************)
EXTENDS Naturals, Sequences, FiniteSets, SequencesExt, Selection, SequenceTheorems,
        FiniteSetTheorems, WellFoundedInduction, TLAPS

\* Every set of numbers has a least one: of the intervals from zero to one of
\* them, one contains no other.
LEMMA LeastNumber ==
    ASSUME NEW I, I \subseteq Nat, I # {}
    PROVE  \E n \in I : \A m \in I : n <= m
<1> DEFINE T == {0..n : n \in I}
<1>1. T \subseteq FiniteSubsetsOf(Nat) /\ T # {}
  <2>1. ASSUME NEW n \in I
        PROVE  0..n \in FiniteSubsetsOf(Nat)
    <3>1. n \in Int /\ 0 \in Int /\ 0..n \subseteq Nat
      OBVIOUS
    <3>2. IsFiniteSet(0..n)
      BY <3>1, FS_Interval
    <3> QED
      BY <3>1, <3>2 DEF FiniteSubsetsOf
  <2> QED
    BY <2>1
<1>2. PICK x \in T : \A y \in T : <<y, x>> \notin StrictSubsetOrdering(Nat)
  <2> HIDE DEF T
  <2> QED
    BY <1>1, FS_StrictSubsetOrderingWellFounded, WFMin
<1>3. PICK n \in I : x = 0..n
  OBVIOUS
<1>4. ASSUME NEW m \in I, ~(n <= m)
      PROVE  FALSE
  <2>1. 0..m \subseteq 0..n /\ 0..m # 0..n
    BY <1>4
  <2>2. <<0..m, x>> \in StrictSubsetOrdering(Nat)
    BY <1>3, <2>1 DEF StrictSubsetOrdering
  <2> QED
    BY <1>2, <2>2
<1> QED
  BY <1>3, <1>4

\* RemoveAt: the elements behind the removed one move up.
LEMMA RemoveAtProperties ==
    ASSUME NEW S, NEW s \in Seq(S), NEW k \in DOMAIN s
    PROVE  /\ RemoveAt(s, k) \in Seq(S)
           /\ Len(RemoveAt(s, k)) = Len(s) - 1
           /\ DOMAIN RemoveAt(s, k) = 1..(Len(s) - 1)
           /\ \A l \in 1..(Len(s) - 1) : RemoveAt(s, k)[l] = IF l < k THEN s[l] ELSE s[l + 1]
<1> DEFINE front == SubSeq(s, 1, k - 1)
           back  == SubSeq(s, k + 1, Len(s))
           less  == front \o back
<1>1. Len(s) \in Nat /\ DOMAIN s = 1..Len(s) /\ k \in 1..Len(s)
  BY LenProperties
<1>2. \A l \in 1..Len(s) : s[l] \in S
  BY ElementOfSeq
<1>3. /\ front \in Seq(S) /\ Len(front) = k - 1
      /\ \A l \in 1..(k - 1) : front[l] = s[l]
  BY <1>1, <1>2, SubSeqProperties
<1>4. /\ back \in Seq(S) /\ Len(back) = Len(s) - k
      /\ \A l \in 1..(Len(s) - k) : back[l] = s[l + k]
  BY <1>1, <1>2, SubSeqProperties
<1> HIDE DEF front, back
<1>5. /\ less \in Seq(S) /\ Len(less) = Len(s) - 1
      /\ \A l \in 1..(Len(s) - 1) : less[l] = IF l <= k - 1 THEN front[l] ELSE back[l - (k - 1)]
  <2>1. /\ less \in Seq(S) /\ Len(less) = Len(front) + Len(back)
        /\ \A l \in 1..(Len(front) + Len(back)) :
               less[l] = IF l <= Len(front) THEN front[l] ELSE back[l - Len(front)]
    BY <1>3, <1>4, ConcatProperties
  <2>2. Len(front) + Len(back) = Len(s) - 1
    BY <1>1, <1>3, <1>4
  <2> HIDE DEF less
  <2> QED
    BY <1>3, <2>1, <2>2
<1>6. RemoveAt(s, k) = less
  BY DEF RemoveAt, front, back
<1> HIDE DEF less
<1>7. DOMAIN less = 1..(Len(s) - 1)
  BY <1>5, LenProperties
<1>8. ASSUME NEW l \in 1..(Len(s) - 1)
      PROVE  less[l] = IF l < k THEN s[l] ELSE s[l + 1]
  <2>1. CASE l < k
    BY <1>1, <1>3, <1>5, <2>1
  <2>2. CASE ~(l < k)
    <3>1. l - (k - 1) \in 1..(Len(s) - k)
      BY <1>1, <2>2
    <3>2. back[l - (k - 1)] = s[(l - (k - 1)) + k]
      BY <1>4, <3>1
    <3>3. (l - (k - 1)) + k = l + 1
      BY <1>1
    <3> QED
      BY <1>1, <1>5, <2>2, <3>2, <3>3
  <2> QED
    BY <2>1, <2>2
<1> QED
  BY <1>5, <1>6, <1>7, <1>8

\* Where the elements of the shorter sequence were, and where the others of the
\* longer one are.
LEMMA RemoveAtElements ==
    ASSUME NEW S, NEW s \in Seq(S), NEW k \in DOMAIN s
    PROVE  /\ \A l \in DOMAIN RemoveAt(s, k) :
                  \E m \in DOMAIN s : m # k /\ RemoveAt(s, k)[l] = s[m]
           /\ \A m \in DOMAIN s : m # k =>
                  \E l \in DOMAIN RemoveAt(s, k) : RemoveAt(s, k)[l] = s[m]
<1> DEFINE less == RemoveAt(s, k)
<1>1. /\ Len(s) \in Nat /\ DOMAIN s = 1..Len(s) /\ DOMAIN less = 1..(Len(s) - 1)
      /\ \A l \in 1..(Len(s) - 1) : less[l] = IF l < k THEN s[l] ELSE s[l + 1]
  BY RemoveAtProperties, LenProperties
<1> HIDE DEF less
<1>2. ASSUME NEW l \in DOMAIN less
      PROVE  \E m \in DOMAIN s : m # k /\ less[l] = s[m]
  <2>1. CASE l < k
    BY <1>1, <2>1
  <2>2. CASE ~(l < k)
    <3>1. l + 1 \in DOMAIN s /\ l + 1 # k /\ less[l] = s[l + 1]
      BY <1>1, <2>2
    <3> QED
      BY <3>1
  <2> QED
    BY <2>1, <2>2
<1>3. ASSUME NEW m \in DOMAIN s, m # k
      PROVE  \E l \in DOMAIN less : less[l] = s[m]
  <2>1. CASE m < k
    BY <1>1, <2>1
  <2>2. CASE m > k
    <3>1. m - 1 \in DOMAIN less /\ less[m - 1] = s[m]
      BY <1>1, <2>2
    <3> QED
      BY <3>1
  <2> QED
    BY <1>1, <1>3, <2>1, <2>2
<1> QED
  BY <1>2, <1>3 DEF less

\* A sequence without repetition still has none.
LEMMA RemoveAtInjective ==
    ASSUME NEW S, NEW s \in Seq(S), IsInjective(s), NEW k \in DOMAIN s
    PROVE  /\ IsInjective(RemoveAt(s, k))
           /\ ToSet(RemoveAt(s, k)) = ToSet(s) \ {s[k]}
<1> DEFINE less == RemoveAt(s, k)
<1>1. /\ Len(s) \in Nat /\ DOMAIN s = 1..Len(s) /\ DOMAIN less = 1..(Len(s) - 1)
      /\ \A l \in 1..(Len(s) - 1) : less[l] = IF l < k THEN s[l] ELSE s[l + 1]
  BY RemoveAtProperties, LenProperties
<1>2. /\ \A l \in DOMAIN less : \E m \in DOMAIN s : m # k /\ less[l] = s[m]
      /\ \A m \in DOMAIN s : m # k => \E l \in DOMAIN less : less[l] = s[m]
  BY RemoveAtElements
<1> HIDE DEF less
<1>3. IsInjective(less)
  <2> DEFINE was(l) == IF l < k THEN l ELSE l + 1
  <2>1. \A l \in 1..(Len(s) - 1) : was(l) \in 1..Len(s) /\ less[l] = s[was(l)]
    BY <1>1
  <2>2. \A l, m \in 1..(Len(s) - 1) : was(l) = was(m) => l = m
    BY <1>1
  <2> HIDE DEF was
  <2>3. \A l, m \in 1..Len(s) : s[l] = s[m] => l = m
    BY <1>1 DEF IsInjective
  <2>4. \A l, m \in DOMAIN less : less[l] = less[m] => l = m
    BY <1>1, <2>1, <2>2, <2>3
  <2> QED
    BY <2>4 DEF IsInjective
<1>4. ToSet(less) = ToSet(s) \ {s[k]}
  BY <1>2 DEF IsInjective, ToSet
<1> QED
  BY <1>3, <1>4 DEF less

\* InsertAt: the elements from the new one's position on move down.
LEMMA InsertAtProperties ==
    ASSUME NEW S, NEW s \in Seq(S), NEW k \in 1..(Len(s) + 1), NEW e \in S
    PROVE  /\ InsertAt(s, k, e) \in Seq(S)
           /\ DOMAIN InsertAt(s, k, e) = 1..(Len(s) + 1)
           /\ InsertAt(s, k, e)[k] = e
           /\ \A l \in 1..(Len(s) + 1) : l # k =>
                  InsertAt(s, k, e)[l] = IF l < k THEN s[l] ELSE s[l - 1]
<1> DEFINE front == SubSeq(s, 1, k - 1)
           back  == SubSeq(s, k, Len(s))
           more  == (front \o <<e>>) \o back
<1>1. Len(s) \in Nat /\ DOMAIN s = 1..Len(s)
  BY LenProperties
<1>2. \A l \in 1..Len(s) : s[l] \in S
  BY ElementOfSeq
<1>3. /\ front \in Seq(S) /\ Len(front) = k - 1
      /\ \A l \in 1..(k - 1) : front[l] = s[l]
  BY <1>1, <1>2, SubSeqProperties
<1>4. back \in Seq(S) /\ Len(back) = Len(s) - k + 1
  BY <1>1, <1>2, SubSeqProperties
<1>5. ASSUME NEW l \in 1..(Len(s) - k + 1) PROVE back[l] = s[k + l - 1]
  BY <1>1, <1>2, <1>4, SubSeqProperties
<1> HIDE DEF front, back
<1>6. /\ more \in Seq(S) /\ Len(more) = Len(s) + 1
      /\ \A l \in 1..(k - 1) : more[l] = front[l]
      /\ more[k] = e
      /\ \A l \in (k + 1)..(Len(s) + 1) : more[l] = back[l - k]
  <2> DEFINE first == front \o <<e>>
  <2>1. /\ first \in Seq(S) /\ Len(first) = k
        /\ \A l \in 1..(k - 1) : first[l] = front[l]
        /\ first[k] = e
    BY <1>1, <1>3
  <2> HIDE DEF first
  <2>2. /\ first \o back \in Seq(S) /\ Len(first \o back) = Len(first) + Len(back)
        /\ \A l \in 1..(Len(first) + Len(back)) :
               (first \o back)[l] = IF l <= Len(first) THEN first[l] ELSE back[l - Len(first)]
    BY <1>4, <2>1, ConcatProperties
  <2>3. k \in 1..(Len(s) + 1) /\ Len(first) + Len(back) = Len(s) + 1
    BY <1>1, <1>4, <2>1
  <2>4. /\ \A l \in 1..k : (first \o back)[l] = first[l]
        /\ \A l \in (k + 1)..(Len(s) + 1) : (first \o back)[l] = back[l - k]
    BY <1>1, <2>1, <2>2, <2>3
  <2> QED
    BY <1>1, <2>1, <2>2, <2>3, <2>4 DEF first
<1>7. InsertAt(s, k, e) = more
  BY DEF InsertAt, front, back
<1> HIDE DEF more
<1>8. DOMAIN more = 1..(Len(s) + 1)
  BY <1>6, LenProperties
<1>9. ASSUME NEW l \in (k + 1)..(Len(s) + 1) PROVE more[l] = s[l - 1]
  <2>1. l - k \in 1..(Len(s) - k + 1) /\ k + (l - k) - 1 = l - 1
    BY <1>1
  <2> QED
    BY <1>5, <1>6, <2>1
<1>10. ASSUME NEW l \in 1..(Len(s) + 1), l # k PROVE more[l] = IF l < k THEN s[l] ELSE s[l - 1]
  <2>1. CASE l < k
    BY <1>1, <1>3, <1>6, <2>1
  <2>2. CASE ~(l < k)
    BY <1>1, <1>9, <1>10, <2>2
  <2> QED
    BY <2>1, <2>2
<1> QED
  BY <1>6, <1>7, <1>8, <1>10

LEMMA InsertAtElements ==
    ASSUME NEW S, NEW s \in Seq(S), NEW k \in 1..(Len(s) + 1), NEW e \in S,
           NEW l \in 1..(Len(s) + 1), l # k
    PROVE  InsertAt(s, k, e)[l] = IF l < k THEN s[l] ELSE s[l - 1]
<1>1. \A m \in 1..(Len(s) + 1) : m # k =>
          InsertAt(s, k, e)[m] = IF m < k THEN s[m] ELSE s[m - 1]
  BY InsertAtProperties
<1> QED
  BY <1>1

\* RemoveFirst removes at some position of the element, if there is one.
LEMMA RemoveFirstIsRemoveAt ==
    ASSUME NEW S, NEW s \in Seq(S), NEW e, e \in ToSet(s)
    PROVE  \E k \in DOMAIN s : s[k] = e /\ RemoveFirst(s, e) = RemoveAt(s, k)
<1> DEFINE I == {i \in 1..Len(s) : s[i] = e}
<1>1. I \subseteq Nat /\ I # {}
  BY LenProperties DEF ToSet
<1>2. Min(I) \in I
  <2> HIDE DEF I
  <2> QED
    BY <1>1, LeastNumber DEF Min
<1>3. RemoveFirst(s, e) = RemoveAt(s, Min(I))
  BY <1>1 DEF RemoveFirst, SelectInSeq
<1> QED
  BY <1>2, <1>3, LenProperties

LEMMA RemoveFirstProperties ==
    ASSUME NEW S, NEW s \in Seq(S), IsInjective(s), NEW e
    PROVE  /\ RemoveFirst(s, e) \in Seq(S)
           /\ IsInjective(RemoveFirst(s, e))
           /\ ToSet(RemoveFirst(s, e)) = ToSet(s) \ {e}
           /\ Len(RemoveFirst(s, e)) = IF e \in ToSet(s) THEN Len(s) - 1 ELSE Len(s)
<1>1. CASE e \in ToSet(s)
  BY <1>1, RemoveFirstIsRemoveAt, RemoveAtProperties, RemoveAtInjective
<1>2. CASE e \notin ToSet(s)
  BY <1>2, LenProperties DEF RemoveFirst, ToSet
<1> QED
  BY <1>1, <1>2

\* An element in front of a sequence that has it not.
LEMMA PrependProperties ==
    ASSUME NEW S, NEW s \in Seq(S), IsInjective(s), NEW e \in S, e \notin ToSet(s)
    PROVE  /\ <<e>> \o s \in Seq(S) /\ IsInjective(<<e>> \o s)
           /\ ToSet(<<e>> \o s) = ToSet(s) \cup {e}
           /\ Len(<<e>> \o s) = Len(s) + 1
           /\ Head(<<e>> \o s) = e
<1> DEFINE more == <<e>> \o s
<1>1. <<e>> \in Seq(S) /\ Len(<<e>>) = 1 /\ <<e>>[1] = e
  OBVIOUS
<1>2. /\ more \in Seq(S) /\ Len(more) = 1 + Len(s)
      /\ \A i \in 1..(1 + Len(s)) : more[i] = IF i <= 1 THEN e ELSE s[i - 1]
  BY <1>1, ConcatProperties
<1>3. Len(s) \in Nat /\ DOMAIN s = 1..Len(s)
  BY LenProperties
<1> HIDE DEF more
<1>4. DOMAIN more = 1..(1 + Len(s))
  BY <1>2, LenProperties
<1>5. \A i \in DOMAIN more : i # 1 => i - 1 \in DOMAIN s /\ more[i] = s[i - 1]
  BY <1>2, <1>3, <1>4
<1>6. \A i \in DOMAIN s : i + 1 \in DOMAIN more /\ more[i + 1] = s[i]
  BY <1>2, <1>3, <1>4
<1>7. 1 \in DOMAIN more /\ more[1] = e
  BY <1>2, <1>3, <1>4
<1>8. \A i \in DOMAIN s : s[i] # e
  BY DEF ToSet
<1>9. IsInjective(more)
  <2> SUFFICES ASSUME NEW i \in DOMAIN more, NEW j \in DOMAIN more, more[i] = more[j]
               PROVE  i = j
    BY DEF IsInjective
  <2>1. CASE i = 1 \/ j = 1
    BY <1>5, <1>7, <1>8, <2>1
  <2>2. CASE i # 1 /\ j # 1
    <3>1. i - 1 = j - 1
      BY <1>5, <2>2 DEF IsInjective
    <3> QED
      BY <1>3, <1>4, <3>1
  <2> QED
    BY <2>1, <2>2
<1>10. ToSet(more) = ToSet(s) \cup {e}
  BY <1>5, <1>6, <1>7 DEF ToSet
<1>11. Head(more) = e
  BY <1>2, <1>3, <1>7
<1> QED
  BY <1>2, <1>3, <1>9, <1>10, <1>11 DEF more

\* Appending keeps what was there.
LEMMA AppendElements ==
    ASSUME NEW S, NEW s \in Seq(S), NEW e \in S
    PROVE  /\ Append(s, e) \in Seq(S) /\ Append(s, e) # <<>>
           /\ \A i \in DOMAIN Append(s, e) :
                  (i \in DOMAIN s /\ Append(s, e)[i] = s[i]) \/ Append(s, e)[i] = e
<1>1. /\ Len(s) \in Nat /\ DOMAIN s = 1..Len(s) /\ Append(s, e) \in Seq(S)
      /\ DOMAIN Append(s, e) = 1..(Len(s) + 1) /\ Append(s, e)[Len(s) + 1] = e
      /\ \A i \in 1..Len(s) : Append(s, e)[i] = s[i]
  OBVIOUS
<1>2. Len(Append(s, e)) # 0
  BY <1>1
<1> QED
  BY <1>1, <1>2

\* The rest has the other elements, one place nearer.
LEMMA TailElements ==
    ASSUME NEW S, NEW s \in Seq(S), s # <<>>
    PROVE  /\ 1 \in DOMAIN s /\ Head(s) = s[1] /\ Head(s) \in S
           /\ Tail(s) \in Seq(S) /\ Len(Tail(s)) = Len(s) - 1 /\ Len(s) \in Nat
           /\ \A i \in DOMAIN Tail(s) : /\ i \in Nat \ {0} /\ i + 1 \in DOMAIN s
                                       /\ Tail(s)[i] = s[i + 1]
           /\ \A i \in DOMAIN s : i # 1 => /\ i \in Nat /\ i - 1 \in DOMAIN Tail(s)
                                           /\ Tail(s)[i - 1] = s[i]
           /\ {s[i] : i \in DOMAIN s} = {Tail(s)[i] : i \in DOMAIN Tail(s)} \cup {Head(s)}
<1> DEFINE t == Tail(s)
<1>1. /\ DOMAIN s = 1..Len(s) /\ Len(s) \in Nat /\ Len(s) # 0
      /\ t \in Seq(S) /\ Len(t) = Len(s) - 1 /\ DOMAIN t = 1..(Len(s) - 1)
      /\ Head(s) = s[1] /\ Head(s) \in S
      /\ \A i \in 1..(Len(s) - 1) : t[i] = s[i + 1]
  OBVIOUS
<1> HIDE DEF t
<1>2. \A i \in DOMAIN t : i \in Nat \ {0} /\ i + 1 \in DOMAIN s /\ t[i] = s[i + 1]
  BY <1>1
<1>3. ASSUME NEW i \in DOMAIN s, i # 1 PROVE i \in Nat /\ i - 1 \in DOMAIN t /\ t[i - 1] = s[i]
  <2>1. i \in Nat /\ i - 1 \in 1..(Len(s) - 1) /\ (i - 1) + 1 = i
    BY <1>1, <1>3
  <2> QED
    BY <1>1, <2>1
<1>4. 1 \in DOMAIN s
  BY <1>1
<1>5. {s[i] : i \in DOMAIN s} = {t[i] : i \in DOMAIN t} \cup {s[1]}
  BY <1>2, <1>3, <1>4
<1> QED
  BY <1>1, <1>2, <1>3, <1>4, <1>5 DEF t

\* Dropping the last element.
LEMMA FrontProperties ==
    ASSUME NEW S, NEW s \in Seq(S), s # <<>>
    PROVE  /\ Front(s) \in Seq(S) /\ Len(Front(s)) = Len(s) - 1
           /\ ToSet(Front(s)) \subseteq ToSet(s)
           /\ IsInjective(s) => IsInjective(Front(s))
<1>1. Len(s) \in Nat \ {0} /\ DOMAIN s = 1..Len(s) /\ \A i \in 1..Len(s) : s[i] \in S
  BY LenProperties, EmptySeq, ElementOfSeq
<1>2. /\ Front(s) \in Seq(S) /\ Len(Front(s)) = Len(s) - 1
      /\ \A i \in 1..(Len(s) - 1) : Front(s)[i] = s[i]
  BY <1>1, SubSeqProperties DEF Front
<1>3. DOMAIN Front(s) = 1..(Len(s) - 1)
  BY <1>2, LenProperties
<1> QED
  BY <1>1, <1>2, <1>3 DEF ToSet, IsInjective

\* How often e is in s.
Occurrences(s, e) == Cardinality({i \in DOMAIN s : s[i] = e})

LEMMA OccurrencesFinite ==
    ASSUME NEW S, NEW s \in Seq(S), NEW e
    PROVE  IsFiniteSet({i \in DOMAIN s : s[i] = e}) /\ Occurrences(s, e) \in Nat
<1>1. DOMAIN s = 1..Len(s) /\ Len(s) \in Nat
  BY LenProperties
<1>2. IsFiniteSet(1..Len(s))
  BY <1>1, FS_Interval
<1>3. {i \in DOMAIN s : s[i] = e} \in SUBSET (1..Len(s))
  BY <1>1
<1>4. IsFiniteSet({i \in DOMAIN s : s[i] = e})
  BY <1>2, <1>3, FS_Subset
<1> QED
  BY <1>4, FS_CardinalityType DEF Occurrences

\* Once more for a new last element.
LEMMA OccurrencesAppend ==
    ASSUME NEW S, NEW s \in Seq(S), NEW d, NEW e
    PROVE  Occurrences(Append(s, d), e) = Occurrences(s, e) + IF d = e THEN 1 ELSE 0
<1> DEFINE old == {i \in DOMAIN s : s[i] = e}
           new == {i \in DOMAIN Append(s, d) : Append(s, d)[i] = e}
<1>1. /\ DOMAIN s = 1..Len(s) /\ Len(s) \in Nat /\ s \in Seq(S \cup {d})
      /\ DOMAIN Append(s, d) = 1..(Len(s) + 1)
      /\ \A i \in 1..Len(s) : Append(s, d)[i] = s[i]
      /\ Append(s, d)[Len(s) + 1] = d
  BY LenProperties
<1>2. IsFiniteSet(old) /\ Cardinality(old) \in Nat /\ Len(s) + 1 \notin old
  <2>1. IsFiniteSet(old) /\ Cardinality(old) \in Nat
    BY OccurrencesFinite DEF Occurrences
  <2>2. Len(s) + 1 \notin old
    BY <1>1
  <2> QED
    BY <2>1, <2>2
<1>3. new = IF d = e THEN old \cup {Len(s) + 1} ELSE old
  BY <1>1
<1>4. Occurrences(s, e) = Cardinality(old) /\ Occurrences(Append(s, d), e) = Cardinality(new)
  BY DEF Occurrences
<1> HIDE DEF old, new
<1>5. CASE d = e
  BY <1>2, <1>3, <1>4, <1>5, FS_AddElement
<1>6. CASE d # e
  BY <1>2, <1>3, <1>4, <1>6
<1> QED
  BY <1>5, <1>6

\* Once less when the first element is taken.
LEMMA OccurrencesTail ==
    ASSUME NEW S, NEW s \in Seq(S), s # <<>>, NEW e
    PROVE  Occurrences(s, e) = Occurrences(Tail(s), e) + IF Head(s) = e THEN 1 ELSE 0
<1> DEFINE all  == {i \in DOMAIN s : s[i] = e}
           rest == {i \in DOMAIN Tail(s) : Tail(s)[i] = e}
           back == all \ {1}
<1>1. /\ DOMAIN s = 1..Len(s) /\ Len(s) \in Nat \ {0} /\ Head(s) = s[1]
      /\ Tail(s) \in Seq(S) /\ DOMAIN Tail(s) = 1..(Len(s) - 1)
      /\ \A i \in 1..(Len(s) - 1) : Tail(s)[i] = s[i + 1]
  BY LenProperties
<1>2. IsFiniteSet(all) /\ IsFiniteSet(rest) /\ Cardinality(rest) \in Nat
  BY <1>1, OccurrencesFinite DEF Occurrences
<1>3. ExistsBijection(rest, back)
  <2> DEFINE f == [i \in rest |-> i + 1]
  <2>1. \A i \in rest : i \in Nat /\ i + 1 \in back
    BY <1>1
  <2>2. \A j \in back : j - 1 \in rest /\ j \in Nat /\ (j - 1) + 1 = j
    BY <1>1
  <2> HIDE DEF rest, back
  <2>3. f \in [rest -> back]
    BY <2>1
  <2>4. \A i, j \in rest : f[i] = f[j] => i = j
    BY <2>1
  <2>5. \A j \in back : \E i \in rest : f[i] = j
    BY <2>2
  <2>6. f \in Bijection(rest, back)
    BY <2>3, <2>4, <2>5 DEF Bijection, Injection, Surjection, IsInjective
  <2> QED
    BY <2>6 DEF ExistsBijection
<1>4. Cardinality(back) = Cardinality(rest)
  BY <1>2, <1>3, FS_Bijection
<1>5. IF Head(s) = e THEN 1 \in all ELSE 1 \notin all
  BY <1>1
<1>6. Occurrences(s, e) = Cardinality(all) /\ Occurrences(Tail(s), e) = Cardinality(rest)
  BY DEF Occurrences
<1>7. Cardinality(back) = (IF 1 \in all THEN Cardinality(all) - 1 ELSE Cardinality(all))
  BY <1>2, FS_RemoveElement
<1>8. Cardinality(all) \in Nat
  BY <1>2, FS_CardinalityType
<1> HIDE DEF all, rest, back
<1> QED
  BY <1>2, <1>4, <1>5, <1>6, <1>7, <1>8

\* Once less when an element is removed, wherever it is.
LEMMA OccurrencesRemoveAt ==
    ASSUME NEW S, NEW s \in Seq(S), NEW k \in DOMAIN s, NEW e
    PROVE  Occurrences(s, e) = Occurrences(RemoveAt(s, k), e) + IF s[k] = e THEN 1 ELSE 0
<1> DEFINE less == RemoveAt(s, k)
           all  == {i \in DOMAIN s : s[i] = e}
           rest == {i \in DOMAIN less : less[i] = e}
           back == all \ {k}
<1>1. /\ Len(s) \in Nat /\ DOMAIN s = 1..Len(s) /\ DOMAIN less = 1..(Len(s) - 1)
      /\ less \in Seq(S) /\ k \in 1..Len(s)
      /\ \A l \in 1..(Len(s) - 1) : less[l] = IF l < k THEN s[l] ELSE s[l + 1]
  BY RemoveAtProperties, LenProperties
<1>2. IsFiniteSet(all) /\ Cardinality(all) \in Nat
  BY OccurrencesFinite DEF Occurrences
<1>3. IsFiniteSet(rest) /\ Cardinality(rest) \in Nat
  BY <1>1, OccurrencesFinite DEF Occurrences
<1> HIDE DEF less
<1>4. ExistsBijection(rest, back)
  <2> DEFINE was(l) == IF l < k THEN l ELSE l + 1
             f == [l \in rest |-> was(l)]
  <2>1. \A l \in rest : was(l) \in back
    BY <1>1
  <2>2. \A l, m \in rest : was(l) = was(m) => l = m
    BY <1>1
  <2>3. \A j \in back : \E l \in rest : was(l) = j
    <3> SUFFICES ASSUME NEW j \in back PROVE \E l \in rest : was(l) = j
      OBVIOUS
    <3>1. j \in 1..Len(s) /\ j # k /\ s[j] = e
      BY <1>1
    <3>2. CASE j < k
      BY <1>1, <3>1, <3>2
    <3>3. CASE j > k
      <4>1. j - 1 \in 1..(Len(s) - 1) /\ ~(j - 1 < k) /\ (j - 1) + 1 = j
        BY <1>1, <3>1, <3>3
      <4> QED
        BY <1>1, <3>1, <4>1
    <3> QED
      BY <1>1, <3>1, <3>2, <3>3
  <2> HIDE DEF rest, back, was
  <2>4. f \in [rest -> back]
    BY <2>1
  <2>5. f \in Bijection(rest, back)
    BY <2>2, <2>3, <2>4 DEF Bijection, Injection, Surjection, IsInjective
  <2> QED
    BY <2>5 DEF ExistsBijection
<1>5. Cardinality(back) = Cardinality(rest)
  BY <1>3, <1>4, FS_Bijection
<1>6. IF s[k] = e THEN k \in all ELSE k \notin all
  BY <1>1
<1>7. Occurrences(s, e) = Cardinality(all) /\ Occurrences(RemoveAt(s, k), e) = Cardinality(rest)
  BY DEF Occurrences, less
<1>8. Cardinality(back) = (IF k \in all THEN Cardinality(all) - 1 ELSE Cardinality(all))
  BY <1>2, FS_RemoveElement
<1> HIDE DEF all, rest, back
<1> QED
  BY <1>2, <1>3, <1>5, <1>6, <1>7, <1>8

\* What does not occur is not an element, and what occurs once has one position.
LEMMA OccurrencesPositions ==
    ASSUME NEW S, NEW s \in Seq(S), NEW e
    PROVE  /\ Occurrences(s, e) = 0 <=> \A i \in DOMAIN s : s[i] # e
           /\ Occurrences(s, e) <= 1 =>
                  \A i, j \in DOMAIN s : s[i] = e /\ s[j] = e => i = j
<1> DEFINE all == {i \in DOMAIN s : s[i] = e}
<1>1. IsFiniteSet(all) /\ Cardinality(all) \in Nat
  BY OccurrencesFinite DEF Occurrences
<1>2. Cardinality(all) = 0 <=> all = {}
  BY <1>1, FS_EmptySet
<1>3. ASSUME NEW i \in all, NEW j \in all, i # j PROVE Cardinality(all) > 1
  <2>1. Cardinality(all) # 0
    BY <1>2, <1>3
  <2>2. Cardinality(all) # 1
    <3>1. \A x : all # {x}
      BY <1>3
    <3> QED
      BY <1>1, <3>1, FS_Singleton
  <2> QED
    BY <1>1, <2>1, <2>2
<1>4. Occurrences(s, e) = Cardinality(all)
  BY DEF Occurrences
<1>5. \A i \in DOMAIN s : s[i] = e <=> i \in all
  OBVIOUS
<1> HIDE DEF all
<1>6. (\E i, j \in all : i # j) => Cardinality(all) > 1
  BY <1>3
<1>7. Cardinality(all) <= 1 => \A i, j \in all : i = j
  BY <1>1, <1>6
<1>8. all = {} <=> \A i \in DOMAIN s : s[i] # e
  <2>1. all \subseteq DOMAIN s
    BY DEF all
  <2> QED
    BY <1>5, <2>1
<1> QED
  BY <1>2, <1>4, <1>5, <1>7, <1>8

-----------------------------------------------------------------------------
(***************************************************************************)
(* Selections                                                              *)
(***************************************************************************)
\* No two elements of a finite set of numbers have the same rank in it.
LEMMA RankInjective ==
    ASSUME NEW K, K \subseteq Nat, IsFiniteSet(K), NEW i \in K, NEW j \in K, Rank(K, i) = Rank(K, j)
    PROVE  i = j
<1> DEFINE upTo(k) == {l \in K : l <= k}
<1>1. ASSUME NEW k \in K, NEW l \in K, k < l
      PROVE  Rank(K, k) # Rank(K, l)
  <2>1. k \in Nat /\ l \in Nat
    OBVIOUS
  <2>2. \A m \in upTo(k) : m \in upTo(l)
    BY <1>1, <2>1
  <2>3. upTo(k) \in SUBSET upTo(l)
    BY <2>2
  <2>4. l \in upTo(l) /\ l \notin upTo(k)
    BY <1>1, <2>1
  <2>5. IsFiniteSet(upTo(l))
    BY FS_Subset
  <2>6. Cardinality(upTo(k)) # Cardinality(upTo(l))
    BY <2>3, <2>4, <2>5, FS_Subset
  <2> QED
    BY <2>6 DEF Rank
<1>2. i < j \/ j < i \/ i = j
  OBVIOUS
<1> QED
  BY <1>1, <1>2

\* The ranks in a finite set of numbers count its elements.
LEMMA RankOnto ==
    ASSUME NEW K, K \subseteq Nat, IsFiniteSet(K)
    PROVE  /\ \A i \in K : Rank(K, i) \in 1..Cardinality(K)
           /\ \A n \in 1..Cardinality(K) : \E i \in K : Rank(K, i) = n
<1> DEFINE upTo(i) == {j \in K : j <= i}
           rank    == [i \in K |-> Rank(K, i)]
<1>1. \A i \in K : IsFiniteSet(upTo(i)) /\ Cardinality(upTo(i)) \in Nat /\ Cardinality(upTo(i)) <= Cardinality(K)
  <2> TAKE i \in K
  <2>1. upTo(i) \in SUBSET K
    OBVIOUS
  <2> QED
    BY <2>1, FS_Subset, FS_CardinalityType
<1>2. \A i \in K : Cardinality(upTo(i)) > 0
  <2> TAKE i \in K
  <2>1. i \in upTo(i)
    OBVIOUS
  <2> QED
    BY <1>1, <2>1, FS_EmptySet
<1>3. Cardinality(K) \in Nat
  BY FS_CardinalityType
<1>4. \A i \in K : Rank(K, i) \in 1..Cardinality(K)
  BY <1>1, <1>2, <1>3 DEF Rank
<1>5. rank \in Injection(K, 1..Cardinality(K))
  BY <1>4, RankInjective DEF Injection, IsInjective
<1>6. IsFiniteSet(1..Cardinality(K)) /\ Cardinality(1..Cardinality(K)) = Cardinality(K)
  BY <1>3, FS_Interval
<1>7. rank \in Surjection(K, 1..Cardinality(K))
  BY <1>5, <1>6, FS_Injection
<1> QED
  BY <1>4, <1>7 DEF Surjection

\* A selection has the elements at the positions, one for each.
LEMMA SelectedProperties ==
    ASSUME NEW S, NEW s \in Seq(S), NEW K, K \subseteq DOMAIN s
    PROVE  /\ IsFiniteSet(K) /\ Cardinality(K) \in Nat
           /\ Selected(s, K) \in Seq(S) /\ Len(Selected(s, K)) = Cardinality(K)
           /\ \A n \in 1..Cardinality(K) : \E i \in K : Selected(s, K)[n] = s[i]
           /\ \A i \in K : \E n \in 1..Cardinality(K) : Selected(s, K)[n] = s[i]
<1>1. DOMAIN s = 1..Len(s) /\ Len(s) \in Nat
  BY LenProperties
<1>2. K \subseteq Nat /\ IsFiniteSet(K) /\ Cardinality(K) \in Nat
  <2>1. IsFiniteSet(1..Len(s)) /\ K \in SUBSET (1..Len(s))
    BY <1>1, FS_Interval
  <2>2. IsFiniteSet(K)
    BY <2>1, FS_Subset
  <2> QED
    BY <2>1, <2>2, FS_CardinalityType
<1>3. /\ \A i \in K : Rank(K, i) \in 1..Cardinality(K)
      /\ \A n \in 1..Cardinality(K) : \E i \in K : Rank(K, i) = n
  BY <1>1, <1>2, RankOnto
<1> DEFINE at(n) == CHOOSE i \in K : Rank(K, i) = n
<1>4. \A n \in 1..Cardinality(K) : at(n) \in K /\ Rank(K, at(n)) = n
  BY <1>3
<1>5. \A i, j \in K : Rank(K, i) = Rank(K, j) => i = j
  BY <1>2, RankInjective
<1>6. \A n \in 1..Cardinality(K) : Selected(s, K)[n] = s[at(n)]
  BY DEF Selected
<1>7. \A n \in 1..Cardinality(K) : s[at(n)] \in S
  BY <1>1, <1>4, ElementOfSeq
<1>8. Selected(s, K) \in [1..Cardinality(K) -> S]
  BY <1>6, <1>7 DEF Selected
<1>9. Selected(s, K) \in Seq(S) /\ Len(Selected(s, K)) = Cardinality(K)
  BY <1>2, <1>8, SeqDef, LenProperties
<1>10. ASSUME NEW i \in K
       PROVE  \E n \in 1..Cardinality(K) : Selected(s, K)[n] = s[i]
  <2>1. at(Rank(K, i)) = i
    BY <1>3, <1>4, <1>5
  <2> QED
    BY <1>3, <1>6, <2>1
<1> QED
  BY <1>2, <1>4, <1>6, <1>9, <1>10

\* The set, once each, in some order.
LEMMA SetToSeqProperties ==
    ASSUME NEW S, IsFiniteSet(S)
    PROVE  SetToSeq(S) \in Seq(S) /\ {SetToSeq(S)[i] : i \in DOMAIN SetToSeq(S)} = S
<1> DEFINE n == Cardinality(S)
           s == SetToSeq(S)
<1>1. n \in Nat /\ ExistsBijection(1..n, S)
  BY FS_CardinalityType
<1>2. \E f \in [1..n -> S] : IsInjective(f)
  BY <1>1 DEF ExistsBijection, Bijection, Injection, IsInjective
<1>3. s \in [1..n -> S] /\ IsInjective(s)
  BY <1>2 DEF SetToSeq
<1>4. s \in Seq(S) /\ DOMAIN s = 1..n
  BY <1>1, <1>3
<1>5. IsFiniteSet(1..n) /\ Cardinality(1..n) = n
  BY <1>1, FS_Interval
<1>6. s \in Injection(1..n, S)
  BY <1>3 DEF Injection, IsInjective
<1>7. s \in Surjection(1..n, S)
  <2> HIDE DEF s
  <2> QED
    BY <1>5, <1>6, FS_Injection
<1>8. \A x \in S : \E i \in 1..n : s[i] = x
  BY <1>7 DEF Surjection
<1> QED
  BY <1>3, <1>4, <1>8

-----------------------------------------------------------------------------
(***************************************************************************)
(* Reversing, and elements that differ                                     *)
(***************************************************************************)
LEMMA ReverseElements ==
    ASSUME NEW S, NEW s \in Seq(S)
    PROVE  /\ Reverse(s) \in Seq(S) /\ DOMAIN Reverse(s) = DOMAIN s
           /\ \A i \in DOMAIN s : /\ Len(s) - i + 1 \in DOMAIN s
                                 /\ Reverse(s)[i] = s[Len(s) - i + 1]
                                 /\ s[i] = Reverse(s)[Len(s) - i + 1]
<1>1. DOMAIN s = 1..Len(s) /\ Len(s) \in Nat /\ \A i \in 1..Len(s) : s[i] \in S
  BY LenProperties, ElementOfSeq
<1>2. \A i \in 1..Len(s) : Len(s) - i + 1 \in 1..Len(s) /\ Len(s) - (Len(s) - i + 1) + 1 = i
  BY <1>1
<1>3. Reverse(s) = [i \in 1..Len(s) |-> s[Len(s) - i + 1]]
  BY DEF Reverse
<1>4. Reverse(s) \in [1..Len(s) -> S]
  BY <1>1, <1>2, <1>3
<1>5. Reverse(s) \in Seq(S) /\ DOMAIN Reverse(s) = 1..Len(s)
  BY <1>1, <1>4, SeqDef
<1> QED
  BY <1>1, <1>2, <1>3, <1>5

\* A bounded set of numbers has a greatest one.
LEMMA GreatestNumber ==
    ASSUME NEW n \in Nat, NEW K, K \subseteq 1..n, K # {}
    PROVE  \E k \in K : \A l \in K : l <= k
<1> DEFINE I == {n - k : k \in K}
<1>1. \A k \in K : k \in Nat /\ k <= n /\ n - k \in Nat
  OBVIOUS
<1>2. I \subseteq Nat /\ I # {}
  BY <1>1
<1>3. PICK i \in I : \A j \in I : i <= j
  <2> HIDE DEF I
  <2> QED
    BY <1>2, LeastNumber
<1>4. PICK k \in K : i = n - k
  OBVIOUS
<1>5. \A l \in K : n - k <= n - l
  BY <1>3, <1>4
<1> QED
  BY <1>1, <1>5

\* A sequence that has no element twice has as many as it is long.
LEMMA DistinctElements ==
    ASSUME NEW S, NEW s \in Seq(S), \A i, j \in DOMAIN s : s[i] = s[j] => i = j
    PROVE  Cardinality({s[i] : i \in DOMAIN s}) = Len(s)
<1> DEFINE T == {s[i] : i \in DOMAIN s}
<1>1. DOMAIN s = 1..Len(s) /\ Len(s) \in Nat /\ s \in [1..Len(s) -> T]
  BY LenProperties
<1>2. s \in Bijection(1..Len(s), T)
  <2>1. s \in Injection(1..Len(s), T)
    BY <1>1 DEF Injection, IsInjective
  <2>2. s \in Surjection(1..Len(s), T)
    BY <1>1 DEF Surjection
  <2> QED
    BY <2>1, <2>2 DEF Bijection
<1> HIDE DEF T
<1>3. ExistsBijection(1..Len(s), T)
  BY <1>2 DEF ExistsBijection
<1> QED
  BY <1>1, <1>3, FS_CountingElements DEF T

\* Two sequences without a common element, and without one that is in either twice.
LEMMA JoinedDistinct ==
    ASSUME NEW S, NEW s \in Seq(S), NEW t \in Seq(S),
           \A i, j \in DOMAIN s : s[i] = s[j] => i = j,
           \A i, j \in DOMAIN t : t[i] = t[j] => i = j,
           \A i \in DOMAIN s, j \in DOMAIN t : s[i] # t[j]
    PROVE  /\ s \o t \in Seq(S)
           /\ \A i, j \in DOMAIN (s \o t) : (s \o t)[i] = (s \o t)[j] => i = j
           /\ \A x : (\E i \in DOMAIN (s \o t) : (s \o t)[i] = x) <=>
                     (\E i \in DOMAIN s : s[i] = x) \/ (\E i \in DOMAIN t : t[i] = x)
<1> DEFINE u == s \o t
<1>1. /\ DOMAIN s = 1..Len(s) /\ Len(s) \in Nat /\ DOMAIN t = 1..Len(t) /\ Len(t) \in Nat
      /\ u \in Seq(S) /\ DOMAIN u = 1..(Len(s) + Len(t))
      /\ \A i \in 1..(Len(s) + Len(t)) : u[i] = IF i <= Len(s) THEN s[i] ELSE t[i - Len(s)]
  BY LenProperties, ConcatProperties
<1> HIDE DEF u
<1>2. \A i \in DOMAIN s : i \in DOMAIN u /\ u[i] = s[i]
  BY <1>1
<1>3. ASSUME NEW i \in DOMAIN t PROVE i + Len(s) \in DOMAIN u /\ u[i + Len(s)] = t[i]
  <2>1. i + Len(s) \in 1..(Len(s) + Len(t)) /\ ~(i + Len(s) <= Len(s)) /\ (i + Len(s)) - Len(s) = i
    BY <1>1
  <2> QED
    BY <1>1, <2>1
<1>4. ASSUME NEW i \in DOMAIN u
      PROVE  \/ i \in DOMAIN s /\ u[i] = s[i]
             \/ i - Len(s) \in DOMAIN t /\ u[i] = t[i - Len(s)] /\ i \in Nat
  BY <1>1
<1>5. \A i, j \in DOMAIN u : u[i] = u[j] => i = j
  <2> TAKE i, j \in DOMAIN u
  <2>1. i \in Nat /\ j \in Nat
    BY <1>1
  <2>2. i - Len(s) = j - Len(s) => i = j
    BY <1>1, <2>1
  <2> QED
    BY <1>4, <2>2
<1>6. ASSUME NEW x
      PROVE  (\E i \in DOMAIN u : u[i] = x) <=>
                 (\E i \in DOMAIN s : s[i] = x) \/ (\E i \in DOMAIN t : t[i] = x)
  BY <1>2, <1>3, <1>4
<1> QED
  BY <1>1, <1>5, <1>6 DEF u
=============================================================================
