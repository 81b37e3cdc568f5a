---------------------------- MODULE Selection_proofs ----------------------------
(***************************************************************************)
(* What a loop that skips entries yields, for every list.  Induction is    *)
(* over the sets of the numbers with a property: such a set has a least    *)
(* element, which needs no theorem with an operator as a parameter.        *)
(***************************************************************************)
EXTENDS Selection, FiniteSetTheorems, SequenceTheorems, WellFoundedInduction, TLAPS

\* A set of natural numbers has a least element.
LEMMA LeastNatural ==
    ASSUME NEW T \in SUBSET Nat, T # {}
    PROVE  \E x \in T : \A y \in T : x <= y
<1> DEFINE R == OpToRel(<, Nat)
<1>1. IsWellFoundedOn(R, Nat)
  BY NatLessThanWellFounded
<1>2. \A x, y \in Nat : y < x => <<y, x>> \in R
  BY DEF OpToRel
<1> HIDE DEF R
<1>3. PICK x \in T : \A y \in T : <<y, x>> \notin R
  BY <1>1, WFMin
<1>4. ASSUME NEW y \in T
      PROVE  x <= y
  <2>1. x \in Nat /\ y \in Nat
    OBVIOUS
  <2>2. ~(y < x)
    BY <1>2, <1>3, <2>1, Zenon
  <2> QED
    BY <2>1, <2>2
<1> QED
  BY <1>4

\* Induction: a set with 0 and every successor up to m holds all up to m.
LEMMA UpToInduction ==
    ASSUME NEW m \in Nat, NEW T, 0 \in T,
           \A n \in 0 .. m - 1 : n \in T => n + 1 \in T
    PROVE  0 .. m \subseteq T
<1> DEFINE missing == (0 .. m) \ T
<1> SUFFICES ASSUME missing # {}
             PROVE  FALSE
  OBVIOUS
<1>1. PICK x \in missing : \A y \in missing : x <= y
  <2>1. missing \in SUBSET Nat
    OBVIOUS
  <2> HIDE DEF missing
  <2> QED
    BY <2>1, LeastNatural
<1>2. x # 0 /\ x - 1 \in 0 .. m - 1 /\ x - 1 \notin missing
  BY <1>1
<1> QED
  BY <1>2

-----------------------------------------------------------------------------
\* Counting the kept positions.
LEMMA CountType ==
    ASSUME NEW keep, NEW k \in Nat
    PROVE  /\ IsFiniteSet({j \in 1 .. k : j \in keep})
           /\ CountUpTo(keep, k) \in Nat
<1> DEFINE K == {j \in 1 .. k : j \in keep}
<1>1. IsFiniteSet(1 .. k) /\ K \in SUBSET (1 .. k)
  BY FS_Interval
<1>2. IsFiniteSet(K)
  BY <1>1, FS_Subset
<1>3. Cardinality(K) \in Nat
  BY <1>2, FS_CardinalityType
<1> QED
  BY <1>2, <1>3 DEF CountUpTo

LEMMA CountNone ==
    ASSUME NEW keep
    PROVE  CountUpTo(keep, 0) = 0
<1>1. {j \in 1 .. 0 : j \in keep} = {}
  OBVIOUS
<1> QED
  BY <1>1, FS_EmptySet DEF CountUpTo

LEMMA CountNext ==
    ASSUME NEW keep, NEW k \in Nat
    PROVE  CountUpTo(keep, k + 1)
              = IF k + 1 \in keep THEN CountUpTo(keep, k) + 1 ELSE CountUpTo(keep, k)
<1> DEFINE K == {j \in 1 .. k : j \in keep}
           L == {j \in 1 .. k + 1 : j \in keep}
<1>1. IsFiniteSet(K)
  BY CountType
<1>2. CASE k + 1 \in keep
  <2>1. L = K \cup {k + 1} /\ k + 1 \notin K
    BY <1>2
  <2> HIDE DEF K, L
  <2>2. Cardinality(L) = Cardinality(K) + 1
    BY <1>1, <2>1, FS_AddElement
  <2> QED
    BY <1>2, <2>2 DEF CountUpTo, K, L
<1>3. CASE k + 1 \notin keep
  <2>1. L = K
    BY <1>3
  <2> QED
    BY <1>3, <2>1 DEF CountUpTo
<1> QED
  BY <1>2, <1>3

-----------------------------------------------------------------------------
\* The loop does what its definition says: there is a function that satisfies
\* the recursion, so CHOOSE yields one.
LEMMA LoopDefined ==
    ASSUME NEW seq, NEW keep, Len(seq) \in Nat
    PROVE  Turns(seq, keep) =
              [n \in 0 .. Len(seq) |->
                  IF n = 0 THEN <<>>
                  ELSE IF n \in keep THEN Append(Turns(seq, keep)[n - 1], seq[n])
                  ELSE Turns(seq, keep)[n - 1]]
<1> DEFINE m == Len(seq)
           Turn(before, n) == IF n \in keep THEN Append(before, seq[n]) ELSE before
           Loop(g, k) == g = [n \in 0 .. k |-> IF n = 0 THEN <<>> ELSE Turn(g[n - 1], n)]
           T == {k \in 0 .. m : \E g : Loop(g, k)}
<1>1. 0 \in T
  <2>1. Loop([n \in 0 .. 0 |-> <<>>], 0)
    OBVIOUS
  <2> HIDE DEF Loop
  <2>2. \E g : Loop(g, 0)
    BY <2>1
  <2> QED
    BY <2>2
<1>2. ASSUME NEW k \in 0 .. m - 1, k \in T
      PROVE  k + 1 \in T
  <2>1. PICK g : Loop(g, k)
    BY <1>2
  <2> DEFINE h == [n \in 0 .. k + 1 |-> IF n <= k THEN g[n] ELSE Turn(g[k], k + 1)]
  <2> HIDE DEF Turn
  <2>2. Loop(h, k + 1)
    <3>1. ASSUME NEW n \in 0 .. k + 1
          PROVE  h[n] = IF n = 0 THEN <<>> ELSE Turn(h[n - 1], n)
      BY <2>1
    <3> QED
      BY <3>1
  <2> HIDE DEF Loop
  <2>3. \E f : Loop(f, k + 1)
    BY <2>2
  <2> QED
    BY <2>3
<1>3. m \in T
  <2>1. m \in Nat
    OBVIOUS
  <2> HIDE DEF T, m
  <2>2. 0 .. m \subseteq T
    BY <1>1, <1>2, <2>1, UpToInduction
  <2> QED
    BY <2>1, <2>2
<1>4. PICK g : Loop(g, m)
  BY <1>3
<1> QED
  BY <1>4 DEF Turns

\* What the loop has appended after n turns is a sequence of kept entries, in
\* their order: the entry at a kept position is at the place the count gives.
Appended(seq, keep, n, s) ==
    /\ s \in Seq({seq[k] : k \in 1 .. n})
    /\ Len(s) = CountUpTo(keep, n)
    /\ \A k \in 1 .. n : k \in keep =>
          /\ CountUpTo(keep, k) \in 1 .. Len(s)
          /\ s[CountUpTo(keep, k)] = seq[k]
    /\ \A i \in 1 .. Len(s) : \E k \in 1 .. n :
          k \in keep /\ CountUpTo(keep, k) = i /\ s[i] = seq[k]

LEMMA AppendedNext ==
    ASSUME NEW seq, NEW keep, NEW n \in Nat, NEW s, Appended(seq, keep, n, s)
    PROVE  Appended(seq, keep, n + 1,
                    IF n + 1 \in keep THEN Append(s, seq[n + 1]) ELSE s)
<1> DEFINE S == {seq[k] : k \in 1 .. n}
           U == {seq[k] : k \in 1 .. n + 1}
           c(k) == CountUpTo(keep, k)
<1>1. s \in Seq(U)
  <2>1. S \subseteq U
    OBVIOUS
  <2> QED
    BY <2>1, SeqMonotonic DEF Appended
<1>2. \A k \in Nat : c(k) \in Nat
  BY CountType
<1>3. c(n + 1) = IF n + 1 \in keep THEN c(n) + 1 ELSE c(n)
  BY CountNext
<1>4. seq[n + 1] \in U /\ Len(s) \in Nat /\ Len(s) = c(n)
  BY <1>1 DEF Appended
<1>5. 1 .. n + 1 = (1 .. n) \cup {n + 1}
  OBVIOUS
<1>6. CASE n + 1 \in keep
  <2> DEFINE t == Append(s, seq[n + 1])
  <2>1. /\ t \in Seq(U) /\ Len(t) = c(n) + 1 /\ t[c(n) + 1] = seq[n + 1]
        /\ \A i \in 1 .. c(n) : t[i] = s[i]
    BY <1>1, <1>4
  <2> HIDE DEF t, c
  <2>2. ASSUME NEW k \in 1 .. n + 1, k \in keep
        PROVE  c(k) \in 1 .. Len(t) /\ t[c(k)] = seq[k]
    <3>1. CASE k \in 1 .. n
      BY <1>2, <1>4, <2>1, <2>2, <3>1 DEF Appended, c
    <3>2. CASE k = n + 1
      <4>1. c(k) = c(n) + 1 /\ c(n) \in Nat
        BY <1>2, <1>3, <1>6, <3>2
      <4> QED
        BY <2>1, <3>2, <4>1
    <3> QED
      BY <1>5, <3>1, <3>2
  <2>3. ASSUME NEW i \in 1 .. Len(t)
        PROVE  \E k \in 1 .. n + 1 : k \in keep /\ c(k) = i /\ t[i] = seq[k]
    <3>1. CASE i \in 1 .. Len(s)
      <4>1. PICK k \in 1 .. n : k \in keep /\ c(k) = i /\ s[i] = seq[k]
        BY <3>1 DEF Appended, c
      <4> QED
        BY <1>4, <1>5, <2>1, <3>1, <4>1
    <3>2. CASE i = c(n) + 1
      BY <1>3, <1>5, <1>6, <2>1, <3>2
    <3>3. i \in 1 .. Len(s) \/ i = c(n) + 1
      <4>1. c(n) \in Nat /\ i \in 1 .. c(n) + 1 /\ Len(s) = c(n)
        BY <1>2, <1>4, <2>1
      <4> HIDE DEF c
      <4> QED
        BY <4>1
    <3> QED
      BY <3>1, <3>2, <3>3
  <2> HIDE DEF U
  <2>4. Len(t) = c(n + 1)
    BY <1>3, <1>6, <2>1
  <2> QED
    BY <1>6, <2>1, <2>2, <2>3, <2>4 DEF Appended, c, t, U
<1>7. CASE n + 1 \notin keep
  <2> HIDE DEF c
  <2>1. \A k \in 1 .. n + 1 : k \in keep => k \in 1 .. n
    BY <1>5, <1>7
  <2>2. Len(s) = c(n + 1)
    BY <1>3, <1>4, <1>7
  <2> QED
    BY <1>1, <1>5, <1>7, <2>1, <2>2 DEF Appended, c
<1> QED
  BY <1>6, <1>7

\* A loop that skips entries yields the entries it keeps, each once, in order,
\* and nothing else.
THEOREM KeepsWhatItShould ==
    ASSUME NEW S, NEW seq \in Seq(S), NEW keep
    PROVE  Appended(seq, keep, Len(seq), Kept(seq, keep))
<1> DEFINE m == Len(seq)
           upTo == Turns(seq, keep)
           T == {n \in 0 .. m : Appended(seq, keep, n, upTo[n])}
<1>1. m \in Nat
  OBVIOUS
<1>2. upTo = [n \in 0 .. m |->
                 IF n = 0 THEN <<>>
                 ELSE IF n \in keep THEN Append(upTo[n - 1], seq[n]) ELSE upTo[n - 1]]
  BY <1>1, LoopDefined
<1>3. Kept(seq, keep) = upTo[m]
  BY DEF Kept
<1> HIDE DEF upTo, m
<1>4. 0 \in T
  <2>1. upTo[0] = <<>>
    BY <1>1, <1>2
  <2>2. Appended(seq, keep, 0, <<>>)
    BY CountNone DEF Appended
  <2> QED
    BY <1>1, <2>1, <2>2
<1>5. ASSUME NEW n \in 0 .. m - 1, n \in T
      PROVE  n + 1 \in T
  <2>1. n \in Nat /\ n + 1 \in 0 .. m /\ n + 1 # 0 /\ (n + 1) - 1 = n
    BY <1>1
  <2>2. upTo[n + 1] = IF n + 1 \in keep THEN Append(upTo[n], seq[n + 1]) ELSE upTo[n]
    BY <1>2, <2>1
  <2>3. Appended(seq, keep, n + 1, upTo[n + 1])
    BY <1>5, <2>1, <2>2, AppendedNext
  <2> QED
    BY <2>1, <2>3
<1>6. m \in T
  <2>1. 0 .. m \subseteq T
    <3> HIDE DEF T
    <3> QED
      BY <1>1, <1>4, <1>5, UpToInduction
  <2> QED
    BY <1>1, <2>1
<1> QED
  BY <1>3, <1>6 DEF m
=============================================================================
