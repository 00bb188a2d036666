---------------------------- MODULE TimersProofs ----------------------------
(***************************************************************************)
(* Proofs about Timers and the PriorityHeap it is built on.                 *)
(*                                                                          *)
(* The loops of the heap are recursive functions of the number of turns.    *)
(* They are reasoned about by induction on that number, for a set instead   *)
(* of a predicate (UpTo, Stays), once Iterated has shown that the function  *)
(* exists.  What a heap holds is compared by tallies: how many places hold  *)
(* an element of a set.                                                     *)
(***************************************************************************)
EXTENDS Timers, FiniteSetTheorems, FunctionTheorems, SequenceTheorems, WellFoundedInduction, TLAPS

\* A set of naturals that is not empty has a least element.
LEMMA Least ==
    ASSUME NEW T, T \subseteq Nat, T # {}
    PROVE  \E m \in T : \A n \in T : m <= n
<1>1. PICK m \in T : \A n \in T : ~ (<<n, m>> \in OpToRel(<, Nat))
  BY NatLessThanWellFounded, WFMin
<1>2. ASSUME NEW n \in T PROVE m <= n
  <2>1. ~ (<<n, m>> \in {p \in Nat \X Nat : p[1] < p[2]})
    BY <1>1 DEF OpToRel
  <2>2. ~ (n < m)
    BY <2>1
  <2> QED
    BY <2>2
<1> QED
  BY <1>1, <1>2

\* Induction, for a set instead of a predicate.
LEMMA UpTo ==
    ASSUME NEW N \in Nat, NEW T, 0 \in T, \A n \in 0 .. N - 1 : n \in T => n + 1 \in T
    PROVE  \A n \in 0 .. N : n \in T
<1> DEFINE Bad == (0 .. N) \ T
<1> SUFFICES ASSUME Bad # {} PROVE FALSE
  OBVIOUS
<1>1. Bad \subseteq Nat
  OBVIOUS
<1> HIDE DEF Bad
<1>2. PICK m \in Bad : \A n \in Bad : m <= n
  BY <1>1, Least
<1>3. m \in 0 .. N /\ m \notin T /\ m # 0
  BY <1>2 DEF Bad
<1>4. m - 1 \in 0 .. N - 1 /\ m - 1 + 1 = m
  BY <1>3
<1>5. m - 1 \in T
  BY <1>2, <1>4 DEF Bad
<1> QED
  BY <1>3, <1>4, <1>5

\* A loop of N turns over S, and where it is after each of them.
Loops(N, S) == [1 .. N -> [S -> S]]

Runs(g, N, S, a, F) ==
    g \in [0 .. N -> S] /\ g[0] = a /\ \A n \in 1 .. N : g[n] = F[n][g[n - 1]]

\* What is defined by recursion on the number of turns is defined.
LEMMA Iterated ==
    ASSUME NEW N \in Nat, NEW S, NEW a \in S, NEW F \in Loops(N, S)
    PROVE  \E g : Runs(g, N, S, a, F)
<1> USE DEF Loops
<1> DEFINE Turns(m, g) == g \in [0 .. m -> S] /\ g[0] = a /\ \A n \in 1 .. m : g[n] = F[n][g[n - 1]]
           T == {m \in 0 .. N : \E g : Turns(m, g)}
<1>1. 0 \in T
  <2> DEFINE g == [n \in 0 .. 0 |-> a]
  <2>1. Turns(0, g)
    OBVIOUS
  <2>2. \E f : Turns(0, f)
    BY <2>1, Zenon
  <2> HIDE DEF Turns
  <2> QED
    BY <2>2
<1>2. ASSUME NEW m \in 0 .. N - 1, m \in T PROVE m + 1 \in T
  <2>1. PICK g : Turns(m, g)
    BY <1>2
  <2> DEFINE h == [n \in 0 .. m + 1 |-> IF n = m + 1 THEN F[m + 1][g[m]] ELSE g[n]]
  <2>2. m \in 0 .. m /\ m + 1 \in 1 .. N /\ m + 1 \in 0 .. N
    OBVIOUS
  <2>3. F[m + 1][g[m]] \in S
    BY <2>1, <2>2
  <2>4. h \in [0 .. m + 1 -> S]
    BY <2>1, <2>3
  <2>5. \A n \in 0 .. m : h[n] = g[n]
    OBVIOUS
  <2>6. h[m + 1] = F[m + 1][h[m]]
    <3>1. m + 1 \in 0 .. m + 1 /\ h[m] = g[m]
      BY <2>2, <2>5
    <3>2. h[m + 1] = F[m + 1][g[m]]
      BY <3>1
    <3> HIDE DEF h
    <3> QED
      BY <3>1, <3>2
  <2> HIDE DEF h
  <2>7. Turns(m + 1, h)
    <3>1. h[0] = a
      BY <2>1, <2>5
    <3>2. ASSUME NEW n \in 1 .. m + 1 PROVE h[n] = F[n][h[n - 1]]
      <4>1. CASE n = m + 1
        BY <2>6, <4>1
      <4>2. CASE n \in 1 .. m
        <5>1. n \in 0 .. m /\ n - 1 \in 0 .. m
          BY <4>2
        <5> QED
          BY <2>1, <2>5, <4>2, <5>1
      <4> QED
        BY <4>1, <4>2
    <3> QED
      BY <2>4, <3>1, <3>2
  <2> QED
    BY <2>2, <2>7
<1> HIDE DEF T
<1>3. N \in 0 .. N /\ \A n \in 0 .. N : n \in T
  BY <1>1, <1>2, UpTo
<1>4. \E g : Turns(N, g)
  BY <1>3 DEF T
<1> QED
  BY <1>4 DEF Runs

\* What holds at the beginning and is kept by every turn holds at the end.
LEMMA Stays ==
    ASSUME NEW N \in Nat, NEW S, NEW t, t[0] \in S, \A n \in 1 .. N : t[n - 1] \in S => t[n] \in S
    PROVE  \A n \in 0 .. N : t[n] \in S
<1> DEFINE T == {n \in 0 .. N : t[n] \in S}
<1>1. 0 \in T
  OBVIOUS
<1>2. ASSUME NEW n \in 0 .. N - 1, n \in T PROVE n + 1 \in T
  <2>1. n + 1 \in 1 .. N /\ n + 1 \in 0 .. N /\ (n + 1) - 1 = n
    OBVIOUS
  <2> QED
    BY <1>2, <2>1
<1> HIDE DEF T
<1>3. \A n \in 0 .. N : n \in T
  BY <1>1, <1>2, UpTo
<1> QED
  BY <1>3 DEF T

-----------------------------------------------------------------------------
(***************************************************************************)
(* Sequences and what they hold                                             *)
(***************************************************************************)

\* A function on the first n positions is a sequence of that length.
LEMMA SeqIs ==
    ASSUME NEW E, NEW n \in Nat, NEW t \in [1 .. n -> E]
    PROVE  t \in Seq(E) /\ Len(t) = n /\ DOMAIN t = 1 .. n
  OBVIOUS

\* What is known of the positions of a sequence.
LEMMA SeqHas ==
    ASSUME NEW E, NEW s \in Seq(E)
    PROVE  /\ Len(s) \in Nat /\ DOMAIN s = 1 .. Len(s) /\ s \in [1 .. Len(s) -> E]
           /\ \A i \in 1 .. Len(s) : s[i] \in E
  OBVIOUS

\* The parent of a position.
LEMMA Halves ==
    ASSUME NEW j \in Nat
    PROVE  j \div 2 \in Nat /\ 2 * (j \div 2) <= j /\ j <= 2 * (j \div 2) + 1
  OBVIOUS

\* How many places of s hold an element of P.
Places(s, P) == {i \in 1 .. Len(s) : s[i] \in P}
Tally(s, P) == Cardinality(Places(s, P))

\* t holds what s holds, each as often.
Same(s, t) == Len(t) = Len(s) /\ \A P : Tally(t, P) = Tally(s, P)

\* A tally is a number up to the length; at its bounds none or all of the elements count.
LEMMA TallyFacts ==
    ASSUME NEW s, Len(s) \in Nat, NEW P
    PROVE  /\ IsFiniteSet(Places(s, P)) /\ Tally(s, P) \in Nat /\ Tally(s, P) <= Len(s)
           /\ Tally(s, P) = 0 <=> \A i \in 1 .. Len(s) : s[i] \notin P
           /\ Tally(s, P) = Len(s) <=> \A i \in 1 .. Len(s) : s[i] \in P
<1>1. IsFiniteSet(1 .. Len(s)) /\ Cardinality(1 .. Len(s)) = Len(s)
  BY FS_Interval
<1>2. Places(s, P) \in SUBSET (1 .. Len(s))
  BY DEF Places
<1>3. /\ IsFiniteSet(Places(s, P)) /\ Tally(s, P) <= Len(s)
      /\ Tally(s, P) = Len(s) => Places(s, P) = 1 .. Len(s)
  BY <1>1, <1>2, FS_Subset DEF Tally
<1>4. Tally(s, P) \in Nat /\ (Tally(s, P) = 0 <=> Places(s, P) = {})
  BY <1>3, FS_CardinalityType, FS_EmptySet DEF Tally
<1>5. (\A i \in 1 .. Len(s) : s[i] \in P) => Places(s, P) = 1 .. Len(s)
  BY DEF Places
<1>6. (\A i \in 1 .. Len(s) : s[i] \in P) => Tally(s, P) = Len(s)
  BY <1>1, <1>5 DEF Tally
<1>7. Places(s, P) = {} <=> \A i \in 1 .. Len(s) : s[i] \notin P
  BY DEF Places
<1>8. Places(s, P) = 1 .. Len(s) => \A i \in 1 .. Len(s) : s[i] \in P
  BY DEF Places
<1> QED
  BY <1>3, <1>4, <1>6, <1>7, <1>8

\* An exchange of two elements, and that it loses none.
LEMMA SwapFacts ==
    ASSUME NEW E, NEW s \in Seq(E), NEW i \in 1 .. Len(s), NEW j \in 1 .. Len(s), i # j
    PROVE  /\ Swap(s, i, j) \in Seq(E)
           /\ \A k \in 1 .. Len(s) :
                  Swap(s, i, j)[k] = IF k = i THEN s[j] ELSE IF k = j THEN s[i] ELSE s[k]
           /\ Same(s, Swap(s, i, j))
<1> DEFINE t == Swap(s, i, j)
           n == Len(s)
<1>1. n \in Nat /\ s \in [1 .. n -> E]
  BY SeqHas
<1>2. t \in [1 .. n -> E] /\ \A k \in 1 .. n : t[k] = IF k = i THEN s[j] ELSE IF k = j THEN s[i] ELSE s[k]
  BY <1>1 DEF Swap
<1> HIDE DEF t
<1>3. t \in Seq(E) /\ Len(t) = n
  BY <1>1, <1>2, SeqIs
<1>4. ASSUME NEW P PROVE Tally(t, P) = Tally(s, P)
  <2> DEFINE A == Places(s, P)
             B == Places(t, P)
             f == [k \in A |-> IF k = i THEN j ELSE IF k = j THEN i ELSE k]
  <2>1. \A k \in 1 .. n : k \in A <=> s[k] \in P
    BY DEF Places
  <2>2. \A k \in 1 .. n : k \in B <=> t[k] \in P
    BY <1>3 DEF Places
  <2>3. A \subseteq 1 .. n /\ B \subseteq 1 .. n
    BY <1>3 DEF Places
  <2>4. IsFiniteSet(A)
    BY <1>1, TallyFacts
  <2> HIDE DEF A, B
  <2>5. f \in [A -> B]
    BY <1>2, <2>1, <2>2, <2>3
  <2>6. \A k, l \in A : f[k] = f[l] => k = l
    OBVIOUS
  <2>7. ASSUME NEW k \in B PROVE \E l \in A : f[l] = k
    <3> DEFINE l == IF k = i THEN j ELSE IF k = j THEN i ELSE k
    <3>1. l \in 1 .. n /\ s[l] = t[k]
      BY <1>2, <2>3, <2>7
    <3>2. l \in A
      BY <2>1, <2>2, <2>3, <2>7, <3>1
    <3> QED
      BY <3>2
  <2> HIDE DEF f
  <2>8. f \in Bijection(A, B)
    BY <2>5, <2>6, <2>7 DEF Bijection, Injection, Surjection, IsInjective
  <2>9. ExistsBijection(A, B)
    BY <2>8 DEF ExistsBijection
  <2> QED
    BY <2>4, <2>9, FS_Bijection DEF A, B, Tally
<1> QED
  BY <1>2, <1>3, <1>4 DEF t, Same

\* The tally after an element is appended.
LEMMA AppendTally ==
    ASSUME NEW E, NEW s \in Seq(E), NEW e \in E
    PROVE  /\ Append(s, e) \in Seq(E) /\ Len(Append(s, e)) = Len(s) + 1
           /\ \A P : Tally(Append(s, e), P) = Tally(s, P) + IF e \in P THEN 1 ELSE 0
<1> DEFINE t == Append(s, e)
           n == Len(s)
<1>1. n \in Nat /\ t \in Seq(E) /\ Len(t) = n + 1 /\ t[n + 1] = e /\ \A k \in 1 .. n : t[k] = s[k]
  OBVIOUS
<1> HIDE DEF t
<1>2. ASSUME NEW P PROVE Tally(t, P) = Tally(s, P) + IF e \in P THEN 1 ELSE 0
  <2>1. IsFiniteSet(Places(s, P)) /\ Tally(s, P) \in Nat /\ n + 1 \notin Places(s, P)
    BY <1>1, TallyFacts DEF Places
  <2>2. CASE e \in P
    <3>1. Places(t, P) = Places(s, P) \cup {n + 1}
      BY <1>1, <2>2 DEF Places
    <3> QED
      BY <2>1, <2>2, <3>1, FS_AddElement DEF Tally
  <2>3. CASE e \notin P
    <3>1. Places(t, P) = Places(s, P)
      BY <1>1, <2>3 DEF Places
    <3> QED
      BY <2>1, <2>3, <3>1 DEF Tally
  <2> QED
    BY <2>2, <2>3
<1> QED
  BY <1>1, <1>2 DEF t

\* The tally of two sequences in a row.
LEMMA ConcatTally ==
    ASSUME NEW E, NEW s \in Seq(E), NEW u \in Seq(E)
    PROVE  /\ s \o u \in Seq(E) /\ Len(s \o u) = Len(s) + Len(u)
           /\ \A P : Tally(s \o u, P) = Tally(s, P) + Tally(u, P)
<1> DEFINE t == s \o u
           n == Len(s)
           m == Len(u)
<1>1. /\ n \in Nat /\ m \in Nat /\ t \in Seq(E) /\ Len(t) = n + m
      /\ \A k \in 1 .. n : t[k] = s[k]
      /\ \A k \in 1 .. m : t[n + k] = u[k]
  OBVIOUS
<1> HIDE DEF t
<1>2. ASSUME NEW P PROVE Tally(t, P) = Tally(s, P) + Tally(u, P)
  <2> DEFINE A == Places(s, P)
             B == Places(u, P)
             C == {k \in n + 1 .. n + m : t[k] \in P}
             f == [k \in B |-> n + k]
  <2>1. IsFiniteSet(A) /\ IsFiniteSet(B)
    BY <1>1, TallyFacts
  <2>2. A \subseteq 1 .. n /\ B \subseteq 1 .. m /\ \A k \in 1 .. m : k \in B <=> u[k] \in P
    BY DEF Places
  <2>3. Places(t, P) = A \cup C /\ A \cap C = {}
    <3>1. \A k \in 1 .. n + m : k \in 1 .. n \/ k \in n + 1 .. n + m
      BY <1>1
    <3>2. \A k \in 1 .. n : k \in 1 .. n + m /\ k \notin n + 1 .. n + m
      BY <1>1
    <3>3. \A k \in n + 1 .. n + m : k \in 1 .. n + m
      BY <1>1
    <3> QED
      BY <1>1, <3>1, <3>2, <3>3 DEF Places
  <2>4. f \in [B -> C]
    <3>1. ASSUME NEW k \in B PROVE n + k \in C
      <4>1. k \in 1 .. m /\ n + k \in n + 1 .. n + m
        BY <1>1, <2>2
      <4> QED
        BY <1>1, <2>2, <4>1
    <3> QED
      BY <3>1
  <2>5. \A k, l \in B : f[k] = f[l] => k = l
    BY <1>1, <2>2
  <2>6. ASSUME NEW k \in C PROVE \E l \in B : f[l] = k
    <3>1. k - n \in 1 .. m /\ n + (k - n) = k
      BY <1>1
    <3>2. k - n \in B
      BY <1>1, <2>2, <3>1
    <3> QED
      BY <3>1, <3>2
  <2> HIDE DEF A, B, C, f
  <2>7. f \in Bijection(B, C)
    BY <2>4, <2>5, <2>6 DEF Bijection, Injection, Surjection, IsInjective
  <2>8. IsFiniteSet(C) /\ Cardinality(C) = Cardinality(B)
    BY <2>1, <2>7, FS_Bijection DEF ExistsBijection
  <2>9. Cardinality(A \cup C) = Cardinality(A) + Cardinality(C) - Cardinality({})
    BY <2>1, <2>3, <2>8, FS_Union
  <2>10. Cardinality(A) \in Nat /\ Cardinality(B) \in Nat /\ Cardinality({}) = 0
    BY <2>1, FS_CardinalityType, FS_EmptySet
  <2> QED
    BY <2>3, <2>8, <2>9, <2>10 DEF Tally, A, B
<1> QED
  BY <1>1, <1>2 DEF t

\* What pop and delete leave behind when the last element fills the gap.
Filled(s, i) == [Front(s) EXCEPT ![i] = Last(s)]

\* A sequence without its last element.
LEMMA FrontFacts ==
    ASSUME NEW E, NEW s \in Seq(E), Len(s) > 0
    PROVE  /\ Front(s) \in Seq(E) /\ Len(Front(s)) = Len(s) - 1 /\ Last(s) = s[Len(s)] /\ Last(s) \in E
           /\ \A k \in 1 .. Len(s) - 1 : Front(s)[k] = s[k]
           /\ \A P : Tally(s, P) = Tally(Front(s), P) + IF Last(s) \in P THEN 1 ELSE 0
<1> DEFINE f == Front(s)
           l == Last(s)
           n == Len(s)
<1>1. n \in Nat /\ n > 0 /\ \A k \in 1 .. n : s[k] \in E
  OBVIOUS
<1>2. 1 \in Int /\ n - 1 \in Int /\ (\A k \in 1 .. n - 1 : s[k] \in E) /\ f = SubSeq(s, 1, n - 1)
  BY <1>1 DEF Front
<1>3. /\ f \in Seq(E) /\ Len(f) = IF 1 <= n - 1 THEN n - 1 - 1 + 1 ELSE 0
      /\ \A k \in 1 .. n - 1 - 1 + 1 : f[k] = s[1 + k - 1]
  BY <1>2, SubSeqProperties
<1> HIDE DEF f
<1>4. Len(f) = n - 1 /\ \A k \in 1 .. n - 1 : f[k] = s[k]
  <2>1. Len(f) = n - 1
    <3> HIDE DEF n
    <3>1. n = 1 \/ (1 <= n - 1 /\ n - 1 - 1 + 1 = n - 1)
      BY <1>1
    <3>2. n = 1 => ~ (1 <= n - 1) /\ n - 1 = 0
      OBVIOUS
    <3> QED
      BY <1>3, <3>1, <3>2
  <2>2. ASSUME NEW k \in 1 .. n - 1 PROVE f[k] = s[k]
    <3>1. k \in 1 .. n - 1 - 1 + 1 /\ 1 + k - 1 = k
      BY <1>1
    <3>2. f[k] = s[1 + k - 1]
      BY <1>3, <3>1
    <3> QED
      BY <3>1, <3>2
  <2> QED
    BY <2>1, <2>2
<1>5. l = s[n] /\ l \in E
  BY <1>1 DEF Last
<1> HIDE DEF l
<1> DEFINE u == Append(f, l)
<1>6. u \in Seq(E) /\ Len(u) = n /\ u[n] = s[n] /\ \A k \in 1 .. n - 1 : u[k] = s[k]
  <2>1. u \in Seq(E) /\ Len(u) = n - 1 + 1 /\ u[n - 1 + 1] = l /\ \A k \in 1 .. n - 1 : u[k] = f[k]
    BY <1>3, <1>4, <1>5
  <2>2. n - 1 + 1 = n
    BY <1>1
  <2> HIDE DEF u
  <2> QED
    BY <1>4, <1>5, <2>1, <2>2
<1>7. \A P : Tally(u, P) = Tally(f, P) + IF l \in P THEN 1 ELSE 0
  BY <1>3, <1>5, AppendTally
<1> HIDE DEF u
<1>8. u = s
  <2>1. \A k \in 1 .. n : u[k] = s[k]
    BY <1>1, <1>6
  <2> QED
    BY <1>6, <2>1
<1> QED
  BY <1>3, <1>4, <1>5, <1>7, <1>8 DEF f, l

\* The gap at i is filled: the element at i is gone, once, and no other.
LEMMA FilledFacts ==
    ASSUME NEW E, NEW s \in Seq(E), NEW i \in 1 .. Len(s) - 1
    PROVE  /\ Filled(s, i) \in Seq(E) /\ Len(Filled(s, i)) = Len(s) - 1
           /\ \A k \in 1 .. Len(s) - 1 : Filled(s, i)[k] = IF k = i THEN s[Len(s)] ELSE s[k]
           /\ \A P : Tally(s, P) = Tally(Filled(s, i), P) + IF s[i] \in P THEN 1 ELSE 0
<1> DEFINE t == Filled(s, i)
           n == Len(s)
<1>1. n \in Nat /\ n > 0 /\ n - 1 \in Nat /\ i \in 1 .. n /\ n \in 1 .. n /\ i # n /\ s[i] \in E
  OBVIOUS
<1>2. /\ Front(s) \in Seq(E) /\ Len(Front(s)) = n - 1 /\ Last(s) = s[n] /\ Last(s) \in E
      /\ \A k \in 1 .. n - 1 : Front(s)[k] = s[k]
  BY <1>1, FrontFacts
<1>3. Front(s) \in [1 .. n - 1 -> E]
  BY <1>2, SeqHas
<1>4. t \in [1 .. n - 1 -> E] /\ \A k \in 1 .. n - 1 : t[k] = IF k = i THEN s[n] ELSE s[k]
  BY <1>2, <1>3 DEF Filled
<1> HIDE DEF t
<1>5. t \in Seq(E) /\ Len(t) = n - 1
  BY <1>1, <1>4, SeqIs
<1> DEFINE u == Append(t, s[i])
           w == Swap(s, i, n)
<1>6. /\ w \in Seq(E) /\ Same(s, w)
      /\ \A k \in 1 .. n : w[k] = IF k = i THEN s[n] ELSE IF k = n THEN s[i] ELSE s[k]
  BY <1>1, SwapFacts
<1>7. u \in Seq(E) /\ Len(u) = n /\ u[n] = s[i] /\ \A k \in 1 .. n - 1 : u[k] = t[k]
  BY <1>1, <1>5
<1> HIDE DEF u, w
<1>8. u = w
  <2>1. Len(w) = n
    BY <1>6 DEF Same
  <2>2. \A k \in 1 .. n : u[k] = w[k]
    BY <1>1, <1>4, <1>6, <1>7
  <2> QED
    BY <1>6, <1>7, <2>1, <2>2
<1>9. \A P : Tally(u, P) = Tally(t, P) + IF s[i] \in P THEN 1 ELSE 0
  BY <1>1, <1>5, AppendTally DEF u
<1>10. \A P : Tally(u, P) = Tally(s, P)
  BY <1>6, <1>8 DEF Same
<1> QED
  BY <1>4, <1>5, <1>9, <1>10 DEF t

-----------------------------------------------------------------------------
(***************************************************************************)
(* The loops of PriorityHeap                                                *)
(***************************************************************************)

\* The elements of a heap are ordered by a number.
Timed(E) == \A e \in E : e.time \in Nat

\* Where a loop can be that moves an element of s by exchanges.
HeapStates(E, s) ==
    {p \in [contents : Seq(E), index : Nat] : p.index \in 1 .. Len(s) /\ Same(s, p.contents)}

\* k is not smaller than its parent.
InPlace(c, k) == c[k \div 2].time <= c[k].time

\* Only the element at the index may be smaller than its parent, and the children of the
\* index are not smaller than that parent.
NearUp(p) ==
    /\ \A k \in 2 .. Len(p.contents) : k # p.index => InPlace(p.contents, k)
    /\ \A k \in 2 .. Len(p.contents) :
          p.index > 1 /\ k \div 2 = p.index => p.contents[p.index \div 2].time <= p.contents[k].time

UpStates(E, s) == {p \in HeapStates(E, s) : NearUp(p)}

UpDone(p) == ~ (p.index > 1 /\ Less(p.contents[p.index], p.contents[p.index \div 2]))

\* A turn of bubble_up keeps its invariant; it moves up or is at the end of a heap.
LEMMA UpStepFacts ==
    ASSUME NEW E, Timed(E), NEW s \in Seq(E), NEW p \in UpStates(E, s)
    PROVE  /\ UpStep(p) \in UpStates(E, s)
           /\ UpDone(p) => UpStep(p) = p /\ Valid(p.contents)
           /\ ~ UpDone(p) => UpStep(p).index < p.index
<1> DEFINE c == p.contents
           i == p.index
           q == i \div 2
           n == Len(s)
<1>1. /\ p \in [contents : Seq(E), index : Nat] /\ c \in Seq(E) /\ i \in 1 .. n
      /\ Same(s, c) /\ NearUp(p) /\ n \in Nat /\ Len(c) = n
  BY DEF UpStates, HeapStates, Same
<1>2. \A k \in 1 .. n : c[k] \in E /\ c[k].time \in Nat
  BY <1>1, SeqHas DEF Timed
<1>3. CASE UpDone(p)
  <2>1. UpStep(p) = p
    BY <1>3 DEF UpDone, UpStep
  <2>2. ASSUME NEW k \in 2 .. n PROVE ~ Less(c[k], c[k \div 2])
    <3>1. k \div 2 \in 1 .. n /\ k \in 1 .. n
      BY <1>1, Halves
    <3>2. CASE k = i
      BY <1>3, <3>2 DEF UpDone
    <3>3. CASE k # i
      BY <1>1, <1>2, <3>1, <3>3 DEF NearUp, InPlace, Less
    <3> QED
      BY <3>2, <3>3
  <2> QED
    BY <1>1, <1>3, <2>1, <2>2 DEF Valid
<1>4. CASE ~ UpDone(p)
  <2> DEFINE d == Swap(c, i, q)
             r == [contents |-> d, index |-> q]
  <2>1. q \in 1 .. n /\ q < i /\ i > 1 /\ c[i].time < c[q].time /\ UpStep(p) = r
    <3>1. i > 1 /\ Less(c[i], c[q]) /\ UpStep(p) = r
      BY <1>4 DEF UpDone, UpStep
    <3> QED
      BY <1>1, <3>1, Halves DEF Less
  <2>2. /\ d \in Seq(E) /\ Same(c, d)
        /\ \A k \in 1 .. n : d[k] = IF k = i THEN c[q] ELSE IF k = q THEN c[i] ELSE c[k]
    BY <1>1, <2>1, SwapFacts
  <2> HIDE DEF d
  <2>3. Len(d) = n /\ Same(s, d)
    BY <1>1, <2>2 DEF Same
  <2>4. r.contents = d /\ r.index = q /\ r \in HeapStates(E, s)
    BY <1>1, <2>1, <2>2, <2>3 DEF HeapStates
  <2>5. ASSUME NEW k \in 2 .. n, k # q PROVE InPlace(d, k)
    <3> DEFINE h == k \div 2
    <3>1. h \in 1 .. n /\ h < k /\ k \in 1 .. n
      BY <1>1, Halves
    <3>2. k # i => c[h].time <= c[k].time
      BY <1>1 DEF NearUp, InPlace
    <3>3. h = i => c[q].time <= c[k].time
      BY <1>1, <2>1 DEF NearUp
    <3>4. k = i => h = q
      OBVIOUS
    <3> HIDE DEF h, q, i, c
    <3>5. /\ d[h] = IF h = i THEN c[q] ELSE IF h = q THEN c[i] ELSE c[h]
          /\ d[k] = IF k = i THEN c[q] ELSE c[k]
      BY <2>2, <2>5, <3>1
    <3>6. c[h].time \in Nat /\ c[k].time \in Nat /\ c[q].time \in Nat /\ c[i].time \in Nat
      BY <1>1, <1>2, <2>1, <3>1
    <3> SUFFICES d[h].time <= d[k].time
      BY DEF InPlace, h
    <3>7. CASE k = i
      BY <2>1, <3>1, <3>4, <3>5, <3>6, <3>7
    <3>8. CASE k # i /\ h = i
      BY <2>1, <3>3, <3>5, <3>6, <3>8
    <3>9. CASE k # i /\ h # i
      BY <2>1, <3>2, <3>5, <3>6, <3>9
    <3> QED
      BY <3>7, <3>8, <3>9
  <2>6. ASSUME NEW k \in 2 .. n, q > 1, k \div 2 = q PROVE d[q \div 2].time <= d[k].time
    <3> DEFINE h == q \div 2
    <3>1. h \in 1 .. n /\ h < q /\ k \in 1 .. n /\ q < k /\ q \in 2 .. n
      BY <1>1, <2>1, <2>6, Halves
    <3>2. c[h].time <= c[q].time
      BY <1>1, <2>1, <3>1 DEF NearUp, InPlace
    <3>3. k # i => c[q].time <= c[k].time
      BY <1>1, <2>6 DEF NearUp, InPlace
    <3> HIDE DEF h, q, i, c
    <3>4. d[h] = c[h] /\ d[k] = IF k = i THEN c[q] ELSE c[k]
      BY <2>1, <2>2, <3>1
    <3>5. c[h].time \in Nat /\ c[k].time \in Nat /\ c[q].time \in Nat
      BY <1>2, <2>1, <3>1
    <3>6. d[h].time <= d[k].time
      BY <3>2, <3>3, <3>4, <3>5
    <3> QED
      BY <3>6 DEF h
  <2>7. NearUp(r)
    <3> HIDE DEF r, q
    <3> QED
      BY <2>3, <2>4, <2>5, <2>6 DEF NearUp
  <2> QED
    BY <1>4, <2>1, <2>4, <2>7 DEF UpStates
<1> QED
  BY <1>3, <1>4

\* The recursive function of bubble_up has the value its definition gives it.
LEMMA UpTurnsDef ==
    ASSUME NEW S, NEW s, NEW i, Len(s) \in Nat, [contents |-> s, index |-> i] \in S,
           \A p \in S : UpStep(p) \in S
    PROVE  /\ \A n \in 0 .. Len(s) : UpTurns(s, i)[n] \in S
           /\ UpTurns(s, i)[0] = [contents |-> s, index |-> i]
           /\ \A n \in 1 .. Len(s) : UpTurns(s, i)[n] = UpStep(UpTurns(s, i)[n - 1])
<1> DEFINE a == [contents |-> s, index |-> i]
           N == Len(s)
           F == [n \in 1 .. N |-> [p \in S |-> UpStep(p)]]
<1>1. F \in Loops(N, S) /\ \A p \in S, n \in 1 .. N : F[n][p] = UpStep(p)
  BY DEF Loops
<1>2. a \in S /\ N \in Nat
  OBVIOUS
<1> HIDE DEF a, N, F
<1>3. PICK g : Runs(g, N, S, a, F)
  BY <1>1, <1>2, Iterated
<1>4. g \in [0 .. N -> S] /\ \A n \in 0 .. N : g[n] = IF n = 0 THEN a ELSE UpStep(g[n - 1])
  <2>1. ASSUME NEW n \in 1 .. N PROVE g[n] = UpStep(g[n - 1])
    <3>1. n - 1 \in 0 .. N
      BY <1>2
    <3> QED
      BY <1>1, <1>3, <3>1 DEF Runs
  <2> QED
    BY <1>2, <1>3, <2>1 DEF Runs
<1>5. g = [n \in 0 .. N |-> IF n = 0 THEN a ELSE UpStep(g[n - 1])]
  BY <1>4
<1>6. UpTurns(s, i) = [n \in 0 .. N |-> IF n = 0 THEN a ELSE UpStep(UpTurns(s, i)[n - 1])]
  BY <1>5, Zenon DEF UpTurns, a, N
<1> DEFINE t == UpTurns(s, i)
<1> HIDE DEF t
<1>7. \A n \in 0 .. N : t[n] = IF n = 0 THEN a ELSE UpStep(t[n - 1])
  BY <1>6 DEF t
<1>8. t[0] = a /\ \A n \in 1 .. N : t[n] = UpStep(t[n - 1])
  BY <1>2, <1>7
<1>9. \A n \in 0 .. N : t[n] \in S
  BY <1>2, <1>8, Stays
<1> QED
  BY <1>8, <1>9 DEF t, a, N

\* bubble_up makes a heap of what was one but for the element at i.
LEMMA BubbleUpFacts ==
    ASSUME NEW E, Timed(E), NEW s \in Seq(E), NEW i \in 1 .. Len(s), NearUp([contents |-> s, index |-> i])
    PROVE  BubbleUp(s, i) \in Seq(E) /\ Same(s, BubbleUp(s, i)) /\ Valid(BubbleUp(s, i))
<1> DEFINE S == UpStates(E, s)
           t == UpTurns(s, i)
           n == Len(s)
<1>1. n \in Nat /\ n \in 0 .. n /\ [contents |-> s, index |-> i] \in S
  BY DEF UpStates, HeapStates, Same
<1>2. \A p \in S : UpStep(p) \in S
  BY UpStepFacts
<1> HIDE DEF S
<1>3. /\ \A k \in 0 .. n : t[k] \in S
      /\ t[0] = [contents |-> s, index |-> i]
      /\ \A k \in 1 .. n : t[k] = UpStep(t[k - 1])
  BY <1>1, <1>2, UpTurnsDef
<1> HIDE DEF t
<1>4. \A p \in S : /\ p.index \in 1 .. n
                   /\ UpDone(p) => UpStep(p) = p /\ Valid(p.contents)
                   /\ ~ UpDone(p) => UpStep(p).index < p.index
  BY UpStepFacts DEF S, UpStates, HeapStates
<1> DEFINE T == {k \in 0 .. n : UpDone(t[k]) \/ t[k].index <= i - k}
<1>5. 0 \in T
  BY <1>1, <1>3
<1>6. ASSUME NEW k \in 0 .. n - 1, k \in T PROVE k + 1 \in T
  <2>1. k + 1 \in 1 .. n /\ k + 1 \in 0 .. n /\ (k + 1) - 1 = k /\ k \in 0 .. n
    BY <1>1
  <2>2. t[k] \in S /\ t[k + 1] \in S /\ t[k + 1] = UpStep(t[k])
    BY <1>3, <2>1
  <2>3. CASE UpDone(t[k])
    BY <1>4, <2>1, <2>2, <2>3
  <2>4. CASE ~ UpDone(t[k])
    <3>1. t[k + 1].index < t[k].index /\ t[k].index <= i - k /\ t[k].index \in Nat /\ t[k + 1].index \in Nat
      BY <1>4, <1>6, <2>2, <2>4
    <3>2. t[k + 1].index <= i - (k + 1)
      BY <2>1, <3>1
    <3> QED
      BY <2>1, <3>2
  <2> QED
    BY <2>3, <2>4
<1>7. n \in T
  <2> HIDE DEF T
  <2> QED
    BY <1>1, <1>5, <1>6, UpTo
<1>8. UpDone(t[n])
  <2>1. t[n].index \in 1 .. n
    BY <1>1, <1>3, <1>4
  <2> QED
    BY <1>1, <1>7, <2>1
<1>9. t[n] \in S /\ Valid(t[n].contents) /\ BubbleUp(s, i) = t[n].contents
  BY <1>1, <1>3, <1>4, <1>8 DEF BubbleUp, t
<1> QED
  BY <1>9 DEF S, UpStates, HeapStates

\* The parents from lo on are not greater than their children.
ValidFrom(c, lo) == \A k \in 2 .. Len(c) : k \div 2 >= lo => InPlace(c, k)

\* Only the element at the index may be greater than its children, of those from lo on,
\* and its children are not smaller than its parent.
NearDown(p, lo) ==
    /\ \A k \in 2 .. Len(p.contents) : k \div 2 >= lo /\ k \div 2 # p.index => InPlace(p.contents, k)
    /\ \A k \in 2 .. Len(p.contents) :
          p.index \div 2 >= lo /\ k \div 2 = p.index => p.contents[p.index \div 2].time <= p.contents[k].time

DownStates(E, s, lo) == {p \in HeapStates(E, s) : NearDown(p, lo)}

DownDone(p) ==
    \/ 2 * p.index > Len(p.contents)
    \/ Less(p.contents[p.index], p.contents[SmallerChild(p.contents, p.index)])

\* SmallerChild is a child, and no child is smaller.
LEMMA SmallerChildFacts ==
    ASSUME NEW E, Timed(E), NEW c \in Seq(E), NEW i \in 1 .. Len(c), 2 * i <= Len(c)
    PROVE  /\ SmallerChild(c, i) \in 1 .. Len(c) /\ SmallerChild(c, i) \div 2 = i /\ i < SmallerChild(c, i)
           /\ \A k \in 2 .. Len(c) : k \div 2 = i => c[SmallerChild(c, i)].time <= c[k].time
<1> DEFINE n == Len(c)
           j == SmallerChild(c, i)
<1>1. n \in Nat /\ \A k \in 1 .. n : c[k].time \in Nat
  BY SeqHas DEF Timed
<1>2. j = 2 * i \/ (2 * i + 1 <= n /\ j = 2 * i + 1)
  BY <1>1 DEF SmallerChild
<1>3. j \in 1 .. n /\ j \div 2 = i /\ i < j
  <2>1. 2 * i \in 1 .. n /\ (2 * i) \div 2 = i /\ i < 2 * i
    BY <1>1
  <2>2. 2 * i + 1 <= n => 2 * i + 1 \in 1 .. n /\ (2 * i + 1) \div 2 = i /\ i < 2 * i + 1
    BY <1>1
  <2> HIDE DEF j
  <2> QED
    BY <1>2, <2>1, <2>2
<1>4. ASSUME NEW k \in 2 .. n, k \div 2 = i PROVE c[j].time <= c[k].time
  <2>1. k = 2 * i \/ k = 2 * i + 1
    BY <1>4
  <2>2. 2 * i \in 1 .. n /\ k \in 1 .. n
    BY <1>1
  <2>3. CASE j = 2 * i
    <3>1. k = j \/ Less(c[2 * i], c[2 * i + 1])
      BY <1>1, <2>1, <2>3 DEF SmallerChild
    <3> QED
      BY <1>1, <2>1, <2>2, <2>3, <3>1 DEF Less
  <2>4. CASE j = 2 * i + 1
    <3>1. ~ Less(c[2 * i], c[2 * i + 1]) /\ 2 * i + 1 \in 1 .. n
      BY <1>1, <1>2, <2>4 DEF SmallerChild
    <3> QED
      BY <1>1, <2>1, <2>2, <2>4, <3>1 DEF Less
  <2> QED
    BY <1>2, <2>3, <2>4
<1> QED
  BY <1>3, <1>4

\* A turn of bubble_down keeps its invariant; it moves down or is at the end of a heap.
LEMMA DownStepFacts ==
    ASSUME NEW E, Timed(E), NEW s \in Seq(E), NEW lo \in Nat, lo > 0, NEW p \in DownStates(E, s, lo)
    PROVE  /\ DownStep(p) \in DownStates(E, s, lo)
           /\ DownDone(p) => DownStep(p) = p /\ ValidFrom(p.contents, lo)
           /\ ~ DownDone(p) => DownStep(p).index > p.index
<1> DEFINE c == p.contents
           i == p.index
           j == SmallerChild(c, i)
           n == Len(s)
<1>1. /\ p \in [contents : Seq(E), index : Nat] /\ c \in Seq(E) /\ i \in 1 .. n
      /\ Same(s, c) /\ NearDown(p, lo) /\ n \in Nat /\ Len(c) = n
  BY DEF DownStates, HeapStates, Same
<1>2. \A k \in 1 .. n : c[k] \in E /\ c[k].time \in Nat
  BY <1>1, SeqHas DEF Timed
<1>3. 2 * i <= n => /\ j \in 1 .. n /\ j \div 2 = i /\ i < j
                    /\ \A k \in 2 .. n : k \div 2 = i => c[j].time <= c[k].time
  BY <1>1, SmallerChildFacts
<1>4. CASE DownDone(p)
  <2>1. DownStep(p) = p
    BY <1>1, <1>4 DEF DownDone, DownStep
  <2>2. ASSUME NEW k \in 2 .. n, k \div 2 >= lo PROVE InPlace(c, k)
    <3>1. CASE k \div 2 = i
      <4>1. 2 * i <= n /\ k \in 1 .. n
        BY <1>1, <3>1, Halves
      <4>2. c[i].time < c[j].time
        BY <1>1, <1>4, <4>1 DEF DownDone, Less
      <4>3. c[j].time <= c[k].time
        BY <1>3, <3>1, <4>1
      <4>4. c[i].time \in Nat /\ c[j].time \in Nat /\ c[k].time \in Nat
        BY <1>1, <1>2, <1>3, <4>1
      <4>5. c[i].time <= c[k].time
        BY <4>2, <4>3, <4>4
      <4> QED
        BY <3>1, <4>5 DEF InPlace
    <3>2. CASE k \div 2 # i
      BY <1>1, <2>2, <3>2 DEF NearDown
    <3> QED
      BY <3>1, <3>2
  <2> QED
    BY <1>1, <1>4, <2>1, <2>2 DEF ValidFrom
<1>5. CASE ~ DownDone(p)
  <2> DEFINE d == Swap(c, i, j)
             r == [contents |-> d, index |-> j]
  <2>1. 2 * i <= n /\ ~ Less(c[i], c[j]) /\ DownStep(p) = r
    BY <1>1, <1>5 DEF DownDone, DownStep
  <2>2. j \in 1 .. n /\ i < j /\ j \div 2 = i /\ c[j].time <= c[i].time
    BY <1>1, <1>2, <1>3, <2>1 DEF Less
  <2>3. /\ d \in Seq(E) /\ Same(c, d)
        /\ \A k \in 1 .. n : d[k] = IF k = i THEN c[j] ELSE IF k = j THEN c[i] ELSE c[k]
    BY <1>1, <2>2, SwapFacts
  <2> HIDE DEF d, j
  <2>4. Len(d) = n /\ Same(s, d)
    BY <1>1, <2>3 DEF Same
  <2>5. r.contents = d /\ r.index = j /\ r \in HeapStates(E, s)
    BY <1>1, <2>2, <2>3, <2>4 DEF HeapStates
  <2>6. ASSUME NEW k \in 2 .. n, k \div 2 >= lo, k \div 2 # j PROVE InPlace(d, k)
    <3> DEFINE h == k \div 2
    <3>1. h \in 1 .. n /\ h < k /\ k \in 1 .. n
      BY <1>1, Halves
    <3>2. h # i => c[h].time <= c[k].time
      BY <1>1, <2>6 DEF NearDown, InPlace
    <3>3. h = i => c[j].time <= c[k].time
      BY <1>3, <2>1
    <3>4. k = i => c[h].time <= c[j].time
      <4> SUFFICES ASSUME k = i PROVE c[i \div 2].time <= c[j].time
        OBVIOUS
      <4>1. j \in 2 .. n /\ i \div 2 >= lo
        BY <1>1, <2>2, <2>6
      <4> QED
        BY <1>1, <2>2, <4>1 DEF NearDown
    <3> SUFFICES d[h].time <= d[k].time
      BY DEF InPlace, h
    <3> HIDE DEF h, i, c
    <3>5. /\ d[h] = IF h = i THEN c[j] ELSE c[h]
          /\ d[k] = IF k = i THEN c[j] ELSE IF k = j THEN c[i] ELSE c[k]
      BY <2>3, <2>6, <3>1 DEF h
    <3>6. c[h].time \in Nat /\ c[k].time \in Nat /\ c[j].time \in Nat /\ c[i].time \in Nat
      BY <1>1, <1>2, <2>2, <3>1
    <3>7. CASE k = i
      BY <3>1, <3>4, <3>5, <3>6, <3>7
    <3>8. CASE k # i /\ h = i
      BY <2>2, <3>3, <3>5, <3>6, <3>8
    <3>9. CASE k # i /\ h # i
      <4>1. k # j
        BY <2>2, <3>9 DEF h
      <4> QED
        BY <3>2, <3>5, <3>6, <3>9, <4>1
    <3> QED
      BY <3>7, <3>8, <3>9
  <2>7. ASSUME NEW k \in 2 .. n, j \div 2 >= lo, k \div 2 = j PROVE d[j \div 2].time <= d[k].time
    <3>1. k \in 1 .. n /\ j < k /\ i >= lo /\ j >= lo
      BY <1>1, <2>2, <2>7, Halves
    <3>2. c[j].time <= c[k].time
      BY <1>1, <2>2, <2>7, <3>1 DEF NearDown, InPlace
    <3>3. d[i] = c[j] /\ d[k] = c[k]
      BY <1>1, <2>2, <2>3, <3>1
    <3> QED
      BY <2>2, <3>2, <3>3
  <2>8. NearDown(r, lo)
    <3> HIDE DEF r
    <3> QED
      BY <2>4, <2>5, <2>6, <2>7 DEF NearDown
  <2> QED
    BY <1>5, <2>1, <2>2, <2>5, <2>8 DEF DownStates
<1> QED
  BY <1>4, <1>5

\* The recursive function of bubble_down has the value its definition gives it.
LEMMA DownTurnsDef ==
    ASSUME NEW S, NEW s, NEW i, Len(s) \in Nat, [contents |-> s, index |-> i] \in S,
           \A p \in S : DownStep(p) \in S
    PROVE  /\ \A n \in 0 .. Len(s) : DownTurns(s, i)[n] \in S
           /\ DownTurns(s, i)[0] = [contents |-> s, index |-> i]
           /\ \A n \in 1 .. Len(s) : DownTurns(s, i)[n] = DownStep(DownTurns(s, i)[n - 1])
<1> DEFINE a == [contents |-> s, index |-> i]
           N == Len(s)
           F == [n \in 1 .. N |-> [p \in S |-> DownStep(p)]]
<1>1. F \in Loops(N, S) /\ \A p \in S, n \in 1 .. N : F[n][p] = DownStep(p)
  BY DEF Loops
<1>2. a \in S /\ N \in Nat
  OBVIOUS
<1> HIDE DEF a, N, F
<1>3. PICK g : Runs(g, N, S, a, F)
  BY <1>1, <1>2, Iterated
<1>4. g \in [0 .. N -> S] /\ \A n \in 0 .. N : g[n] = IF n = 0 THEN a ELSE DownStep(g[n - 1])
  <2>1. ASSUME NEW n \in 1 .. N PROVE g[n] = DownStep(g[n - 1])
    <3>1. n - 1 \in 0 .. N
      BY <1>2
    <3> QED
      BY <1>1, <1>3, <3>1 DEF Runs
  <2> QED
    BY <1>2, <1>3, <2>1 DEF Runs
<1>5. g = [n \in 0 .. N |-> IF n = 0 THEN a ELSE DownStep(g[n - 1])]
  BY <1>4
<1>6. DownTurns(s, i) = [n \in 0 .. N |-> IF n = 0 THEN a ELSE DownStep(DownTurns(s, i)[n - 1])]
  BY <1>5, Zenon DEF DownTurns, a, N
<1> DEFINE t == DownTurns(s, i)
<1> HIDE DEF t
<1>7. \A n \in 0 .. N : t[n] = IF n = 0 THEN a ELSE DownStep(t[n - 1])
  BY <1>6 DEF t
<1>8. t[0] = a /\ \A n \in 1 .. N : t[n] = DownStep(t[n - 1])
  BY <1>2, <1>7
<1>9. \A n \in 0 .. N : t[n] \in S
  BY <1>2, <1>8, Stays
<1> QED
  BY <1>8, <1>9 DEF t, a, N

\* bubble_down makes a heap of what was one, from lo on, but for the element at i.
LEMMA BubbleDownFacts ==
    ASSUME NEW E, Timed(E), NEW s \in Seq(E), NEW lo \in Nat, lo > 0, NEW i \in 1 .. Len(s),
           NearDown([contents |-> s, index |-> i], lo)
    PROVE  BubbleDown(s, i) \in Seq(E) /\ Same(s, BubbleDown(s, i)) /\ ValidFrom(BubbleDown(s, i), lo)
<1> DEFINE S == DownStates(E, s, lo)
           t == DownTurns(s, i)
           n == Len(s)
<1>1. n \in Nat /\ n \in 0 .. n /\ [contents |-> s, index |-> i] \in S
  BY DEF DownStates, HeapStates, Same
<1>2. \A p \in S : DownStep(p) \in S
  BY DownStepFacts
<1> HIDE DEF S
<1>3. /\ \A k \in 0 .. n : t[k] \in S
      /\ t[0] = [contents |-> s, index |-> i]
      /\ \A k \in 1 .. n : t[k] = DownStep(t[k - 1])
  BY <1>1, <1>2, DownTurnsDef
<1> HIDE DEF t
<1>4. \A p \in S : /\ p.index \in 1 .. n
                   /\ DownDone(p) => DownStep(p) = p /\ ValidFrom(p.contents, lo)
                   /\ ~ DownDone(p) => DownStep(p).index > p.index
  BY DownStepFacts DEF S, DownStates, HeapStates
<1> DEFINE T == {k \in 0 .. n : DownDone(t[k]) \/ t[k].index > k}
<1>5. 0 \in T
  BY <1>1, <1>3
<1>6. ASSUME NEW k \in 0 .. n - 1, k \in T PROVE k + 1 \in T
  <2>1. k + 1 \in 1 .. n /\ k + 1 \in 0 .. n /\ (k + 1) - 1 = k /\ k \in 0 .. n
    BY <1>1
  <2>2. t[k] \in S /\ t[k + 1] \in S /\ t[k + 1] = DownStep(t[k])
    BY <1>3, <2>1
  <2>3. CASE DownDone(t[k])
    BY <1>4, <2>1, <2>2, <2>3
  <2>4. CASE ~ DownDone(t[k])
    <3>1. t[k + 1].index > t[k].index /\ t[k].index > k /\ t[k].index \in Nat /\ t[k + 1].index \in Nat
      BY <1>4, <1>6, <2>2, <2>4
    <3>2. t[k + 1].index > k + 1
      BY <2>1, <3>1
    <3> QED
      BY <2>1, <3>2
  <2> QED
    BY <2>3, <2>4
<1>7. n \in T
  <2> HIDE DEF T
  <2> QED
    BY <1>1, <1>5, <1>6, UpTo
<1>8. DownDone(t[n])
  <2>1. t[n].index \in 1 .. n
    BY <1>1, <1>3, <1>4
  <2> QED
    BY <1>1, <1>7, <2>1
<1>9. t[n] \in S /\ ValidFrom(t[n].contents, lo) /\ BubbleDown(s, i) = t[n].contents
  BY <1>1, <1>3, <1>4, <1>8 DEF BubbleDown, t
<1> QED
  BY <1>9 DEF S, DownStates, HeapStates

\* The first n elements.
Take(s, n) == [k \in 1 .. n |-> s[k]]

\* Tallies of the first n elements, one by one.
LEMMA TakeFacts ==
    ASSUME NEW E, NEW s \in Seq(E)
    PROVE  /\ Take(s, Len(s)) = s /\ \A P : Tally(Take(s, 0), P) = 0
           /\ \A n \in 0 .. Len(s) : Take(s, n) \in Seq(E) /\ Len(Take(s, n)) = n
           /\ \A n \in 1 .. Len(s) : \A P :
                  Tally(Take(s, n), P) = Tally(Take(s, n - 1), P) + IF s[n] \in P THEN 1 ELSE 0
<1>1. Len(s) \in Nat /\ \A k \in 1 .. Len(s) : s[k] \in E
  BY SeqHas
<1>2. ASSUME NEW n \in 0 .. Len(s) PROVE Take(s, n) \in Seq(E) /\ Len(Take(s, n)) = n
  <2>1. n \in Nat /\ Take(s, n) \in [1 .. n -> E]
    BY <1>1 DEF Take
  <2> QED
    BY <2>1, SeqIs
<1>3. Take(s, Len(s)) = s
  BY <1>1, SeqHas DEF Take
<1>4. ASSUME NEW P PROVE Tally(Take(s, 0), P) = 0
  <2>1. Len(Take(s, 0)) = 0
    BY <1>1, <1>2
  <2> QED
    BY <2>1, TallyFacts
<1>5. ASSUME NEW n \in 1 .. Len(s), NEW P
      PROVE  Tally(Take(s, n), P) = Tally(Take(s, n - 1), P) + IF s[n] \in P THEN 1 ELSE 0
  <2> DEFINE t == Take(s, n)
             u == Take(s, n - 1)
  <2>1. n \in 0 .. Len(s) /\ n - 1 \in 0 .. Len(s) /\ n - 1 + 1 = n
    BY <1>1
  <2>2. t \in Seq(E) /\ u \in Seq(E) /\ Len(t) = n /\ Len(u) = n - 1 /\ s[n] \in E
    BY <1>1, <1>2, <2>1
  <2>3. t[n] = s[n] /\ \A k \in 1 .. n - 1 : t[k] = u[k]
    BY <2>1 DEF Take
  <2> HIDE DEF t, u
  <2> DEFINE v == Append(u, s[n])
  <2>4. v \in Seq(E) /\ Len(v) = n /\ v[n] = s[n] /\ \A k \in 1 .. n - 1 : v[k] = u[k]
    <3>1. v \in Seq(E) /\ Len(v) = n - 1 + 1 /\ v[n - 1 + 1] = s[n] /\ \A k \in 1 .. n - 1 : v[k] = u[k]
      BY <2>2
    <3> HIDE DEF v
    <3> QED
      BY <2>1, <3>1
  <2>5. Tally(v, P) = Tally(u, P) + IF s[n] \in P THEN 1 ELSE 0
    BY <2>2, AppendTally
  <2> HIDE DEF v
  <2>6. v = t
    <3>1. \A k \in 1 .. n : v[k] = t[k]
      BY <2>3, <2>4
    <3> QED
      BY <2>2, <2>4, <3>1
  <2> QED
    BY <2>5, <2>6 DEF t, u
<1> QED
  BY <1>2, <1>3, <1>4, <1>5

\* Heaps of elements of E.
Heaps(E) == {s \in Seq(E) : Valid(s)}

\* valid? without its negation, and from the root on.
LEMMA ValidIs ==
    ASSUME NEW E, Timed(E), NEW s \in Seq(E)
    PROVE  /\ Valid(s) <=> \A k \in 2 .. Len(s) : InPlace(s, k)
           /\ Valid(s) <=> ValidFrom(s, 1)
<1>1. Len(s) \in Nat /\ \A k \in 1 .. Len(s) : s[k].time \in Nat
  BY SeqHas DEF Timed
<1>2. \A k \in 2 .. Len(s) : k \in 1 .. Len(s) /\ k \div 2 \in 1 .. Len(s) /\ k \div 2 >= 1
  BY <1>1, Halves
<1>3. \A k \in 2 .. Len(s) : InPlace(s, k) <=> ~ Less(s[k], s[k \div 2])
  BY <1>1, <1>2 DEF InPlace, Less
<1> QED
  BY <1>2, <1>3 DEF Valid, ValidFrom

\* The recursive function of heapify! has the value its definition gives it.
LEMMA HeapifyTurnsDef ==
    ASSUME NEW S, NEW s, Len(s) \div 2 \in Nat, s \in S,
           \A n \in 1 .. Len(s) \div 2, x \in S : BubbleDown(x, Len(s) \div 2 + 1 - n) \in S
    PROVE  /\ \A n \in 0 .. Len(s) \div 2 : HeapifyTurns(s)[n] \in S
           /\ HeapifyTurns(s)[0] = s
           /\ \A n \in 1 .. Len(s) \div 2 :
                  HeapifyTurns(s)[n] = BubbleDown(HeapifyTurns(s)[n - 1], Len(s) \div 2 + 1 - n)
<1> DEFINE a == s
           N == Len(s) \div 2
           Step(n, x) == BubbleDown(x, Len(s) \div 2 + 1 - n)
           F == [n \in 1 .. N |-> [x \in S |-> Step(n, x)]]
<1>1. F \in Loops(N, S) /\ \A x \in S, n \in 1 .. N : F[n][x] = Step(n, x)
  BY DEF Loops
<1>2. a \in S /\ N \in Nat /\ \A n \in 1 .. N, x \in S : Step(n, x) \in S
  OBVIOUS
<1> HIDE DEF a, N, F, Step
<1>3. PICK g : Runs(g, N, S, a, F)
  BY <1>1, <1>2, Iterated
<1>4. g \in [0 .. N -> S] /\ \A n \in 0 .. N : g[n] = IF n = 0 THEN a ELSE Step(n, g[n - 1])
  <2>1. ASSUME NEW n \in 1 .. N PROVE g[n] = Step(n, g[n - 1])
    <3>1. n - 1 \in 0 .. N
      BY <1>2
    <3> QED
      BY <1>1, <1>3, <3>1 DEF Runs
  <2> QED
    BY <1>2, <1>3, <2>1 DEF Runs
<1>5. g = [n \in 0 .. N |-> IF n = 0 THEN a ELSE Step(n, g[n - 1])]
  BY <1>4
<1>6. HeapifyTurns(s) = [n \in 0 .. N |-> IF n = 0 THEN a ELSE Step(n, HeapifyTurns(s)[n - 1])]
  BY <1>5, Zenon DEF HeapifyTurns, a, N, Step
<1> DEFINE t == HeapifyTurns(s)
<1> HIDE DEF t
<1>7. \A n \in 0 .. N : t[n] = IF n = 0 THEN a ELSE Step(n, t[n - 1])
  BY <1>6 DEF t
<1>8. t[0] = a /\ \A n \in 1 .. N : t[n] = Step(n, t[n - 1])
  BY <1>2, <1>7
<1>9. \A n \in 0 .. N : t[n] \in S
  BY <1>2, <1>8, Stays
<1> QED
  BY <1>8, <1>9 DEF t, a, N, Step

\* heapify! makes a heap of any sequence.
LEMMA HeapifyFacts ==
    ASSUME NEW E, Timed(E), NEW s \in Seq(E)
    PROVE  Heapify(s) \in Heaps(E) /\ Same(s, Heapify(s))
<1> DEFINE L == Len(s)
           N == L \div 2
           S == {c \in Seq(E) : Same(s, c)}
           t == HeapifyTurns(s)
<1>1. L \in Nat /\ N \in Nat /\ N \in 0 .. N /\ 2 * N <= L /\ L <= 2 * N + 1
  BY SeqHas, Halves
<1>2. s \in S
  BY DEF Same
<1>3. \A n \in 1 .. N : N + 1 - n \in 1 .. L
  BY <1>1
<1>4. ASSUME NEW n \in 1 .. N, NEW c \in S
      PROVE  /\ BubbleDown(c, N + 1 - n) \in S
             /\ ValidFrom(c, N + 1 - (n - 1)) => ValidFrom(BubbleDown(c, N + 1 - n), N + 1 - n)
  <2> DEFINE i == N + 1 - n
             p == [contents |-> c, index |-> i]
             b == BubbleDown(c, i)
  <2>1. c \in Seq(E) /\ Len(c) = L /\ Same(s, c) /\ i \in 1 .. L /\ i \in Nat /\ i > 0
    BY <1>1, <1>3 DEF Same
  <2>2. N + 1 - (n - 1) = i + 1
    BY <1>1
  <2> HIDE DEF i
  <2>3. L + 1 \in Nat /\ L + 1 > 0 /\ NearDown(p, L + 1)
    <3>1. \A k \in 2 .. L : ~ (k \div 2 >= L + 1)
      BY <1>1, Halves
    <3>2. ~ (i \div 2 >= L + 1)
      BY <1>1, <2>1, Halves
    <3> QED
      BY <1>1, <2>1, <3>1, <3>2 DEF NearDown
  <2>4. b \in Seq(E) /\ Same(c, b)
    BY <2>1, <2>3, BubbleDownFacts
  <2>5. b \in S
    BY <2>1, <2>4 DEF Same
  <2>6. ASSUME ValidFrom(c, i + 1) PROVE ValidFrom(b, i)
    <3>1. \A k \in 2 .. L : k \div 2 >= i /\ k \div 2 # i => k \div 2 >= i + 1
      BY <2>1, Halves
    <3>2. ~ (i \div 2 >= i)
      BY <2>1, Halves
    <3>3. NearDown(p, i)
      BY <2>1, <2>6, <3>1, <3>2 DEF NearDown, ValidFrom
    <3> QED
      BY <2>1, <3>3, BubbleDownFacts
  <2> QED
    BY <2>2, <2>5, <2>6 DEF i
<1> HIDE DEF S, N
<1>5. /\ \A n \in 0 .. N : t[n] \in S
      /\ t[0] = s
      /\ \A n \in 1 .. N : t[n] = BubbleDown(t[n - 1], N + 1 - n)
  BY <1>1, <1>2, <1>4, HeapifyTurnsDef DEF N
<1> HIDE DEF t
<1> DEFINE T == {n \in 0 .. N : ValidFrom(t[n], N + 1 - n)}
<1>6. 0 \in T
  <2>1. \A k \in 2 .. L : ~ (k \div 2 >= N + 1)
    BY <1>1, Halves
  <2>2. ValidFrom(s, N + 1) /\ N + 1 - 0 = N + 1 /\ 0 \in 0 .. N
    BY <1>1, <2>1 DEF ValidFrom
  <2> QED
    BY <1>5, <2>2
<1>7. ASSUME NEW n \in 0 .. N - 1, n \in T PROVE n + 1 \in T
  <2>1. n + 1 \in 1 .. N /\ n + 1 \in 0 .. N /\ (n + 1) - 1 = n /\ n \in 0 .. N
    BY <1>1
  <2>2. t[n] \in S /\ t[n + 1] = BubbleDown(t[n], N + 1 - (n + 1))
    BY <1>5, <2>1
  <2>3. ValidFrom(t[n], N + 1 - ((n + 1) - 1))
    BY <1>7, <2>1
  <2>4. ValidFrom(BubbleDown(t[n], N + 1 - (n + 1)), N + 1 - (n + 1))
    BY <1>4, <2>1, <2>2, <2>3
  <2> QED
    BY <2>1, <2>2, <2>4
<1>8. N \in T
  <2> HIDE DEF T
  <2> QED
    BY <1>1, <1>6, <1>7, UpTo
<1>9. N + 1 - N = 1
  BY <1>1
<1>10. t[N] \in S /\ ValidFrom(t[N], 1) /\ Heapify(s) = t[N]
  BY <1>1, <1>5, <1>8, <1>9 DEF Heapify, t, N
<1> QED
  BY <1>10, ValidIs DEF S, Heaps

\* push keeps a heap one.
LEMMA PushFacts ==
    ASSUME NEW E, Timed(E), NEW s \in Heaps(E), NEW e \in E
    PROVE  Push(s, e) \in Heaps(E) /\ Same(Append(s, e), Push(s, e))
<1> DEFINE t == Append(s, e)
           i == Len(s) + 1
           p == [contents |-> t, index |-> i]
<1>1. s \in Seq(E) /\ Len(s) \in Nat /\ \A k \in 2 .. Len(s) : InPlace(s, k)
  BY SeqHas, ValidIs DEF Heaps
<1>2. t \in Seq(E) /\ Len(t) = i /\ \A k \in 1 .. Len(s) : t[k] = s[k]
  BY <1>1
<1> HIDE DEF t
<1>3. i \in 1 .. Len(t)
  BY <1>1, <1>2
<1>4. ASSUME NEW k \in 2 .. i, k # i PROVE InPlace(t, k)
  <2>1. k \in 2 .. Len(s) /\ k \in 1 .. Len(s) /\ k \div 2 \in 1 .. Len(s)
    BY <1>1, <1>4, Halves
  <2> QED
    BY <1>1, <1>2, <2>1 DEF InPlace
<1>5. ASSUME NEW k \in 2 .. i PROVE k \div 2 # i
  BY <1>1, Halves
<1>6. NearUp(p)
  BY <1>2, <1>4, <1>5 DEF NearUp
<1> QED
  BY <1>2, <1>3, <1>6, BubbleUpFacts DEF Push, Heaps, t

\* The recursive function of concat has the value its definition gives it.
LEMMA PushTurnsDef ==
    ASSUME NEW S, NEW s, NEW u, Len(u) \in Nat, s \in S,
           \A n \in 1 .. Len(u), x \in S : Push(x, u[n]) \in S
    PROVE  /\ \A n \in 0 .. Len(u) : PushTurns(s, u)[n] \in S
           /\ PushTurns(s, u)[0] = s
           /\ \A n \in 1 .. Len(u) : PushTurns(s, u)[n] = Push(PushTurns(s, u)[n - 1], u[n])
<1> DEFINE a == s
           N == Len(u)
           Step(n, x) == Push(x, u[n])
           F == [n \in 1 .. N |-> [x \in S |-> Step(n, x)]]
<1>1. F \in Loops(N, S) /\ \A x \in S, n \in 1 .. N : F[n][x] = Step(n, x)
  BY DEF Loops
<1>2. a \in S /\ N \in Nat /\ \A n \in 1 .. N, x \in S : Step(n, x) \in S
  OBVIOUS
<1> HIDE DEF a, N, F, Step
<1>3. PICK g : Runs(g, N, S, a, F)
  BY <1>1, <1>2, Iterated
<1>4. g \in [0 .. N -> S] /\ \A n \in 0 .. N : g[n] = IF n = 0 THEN a ELSE Step(n, g[n - 1])
  <2>1. ASSUME NEW n \in 1 .. N PROVE g[n] = Step(n, g[n - 1])
    <3>1. n - 1 \in 0 .. N
      BY <1>2
    <3> QED
      BY <1>1, <1>3, <3>1 DEF Runs
  <2> QED
    BY <1>2, <1>3, <2>1 DEF Runs
<1>5. g = [n \in 0 .. N |-> IF n = 0 THEN a ELSE Step(n, g[n - 1])]
  BY <1>4
<1>6. PushTurns(s, u) = [n \in 0 .. N |-> IF n = 0 THEN a ELSE Step(n, PushTurns(s, u)[n - 1])]
  BY <1>5, Zenon DEF PushTurns, a, N, Step
<1> DEFINE t == PushTurns(s, u)
<1> HIDE DEF t
<1>7. \A n \in 0 .. N : t[n] = IF n = 0 THEN a ELSE Step(n, t[n - 1])
  BY <1>6 DEF t
<1>8. t[0] = a /\ \A n \in 1 .. N : t[n] = Step(n, t[n - 1])
  BY <1>2, <1>7
<1>9. \A n \in 0 .. N : t[n] \in S
  BY <1>2, <1>8, Stays
<1> QED
  BY <1>8, <1>9 DEF t, a, N, Step

\* concat adds what it is given, whichever way it takes, and keeps a heap one.
LEMMA ConcatFacts ==
    ASSUME NEW E, Timed(E), NEW s \in Heaps(E), NEW u \in Seq(E)
    PROVE  Concat(s, u) \in Heaps(E) /\ Same(s \o u, Concat(s, u))
<1>1. /\ s \in Seq(E) /\ s \o u \in Seq(E) /\ Len(s \o u) = Len(s) + Len(u)
      /\ \A P : Tally(s \o u, P) = Tally(s, P) + Tally(u, P)
  BY ConcatTally DEF Heaps
<1>2. CASE s = <<>> \/ Len(u) > Len(s) * HEAPIFY_INSERT_RATIO
  BY <1>1, <1>2, HeapifyFacts DEF Concat
<1>3. CASE ~ (s = <<>> \/ Len(u) > Len(s) * HEAPIFY_INSERT_RATIO)
  <2> DEFINE N == Len(u)
             S == Heaps(E)
             t == PushTurns(s, u)
  <2>1. N \in Nat /\ Len(s) \in Nat /\ N \in 0 .. N /\ \A n \in 1 .. N : u[n] \in E
    BY <1>1, SeqHas
  <2>2. \A n \in 1 .. N, c \in S : Push(c, u[n]) \in S
    BY <2>1, PushFacts
  <2>3. /\ \A n \in 0 .. N : t[n] \in S
        /\ t[0] = s
        /\ \A n \in 1 .. N : t[n] = Push(t[n - 1], u[n])
    BY <2>1, <2>2, PushTurnsDef
  <2> HIDE DEF t
  <2> DEFINE So(n) == Len(t[n]) = Len(s) + n /\ \A P : Tally(t[n], P) = Tally(s, P) + Tally(Take(u, n), P)
             T == {n \in 0 .. N : So(n)}
  <2>4. 0 \in T
    <3>1. \A P : Tally(s, P) \in Nat /\ Tally(Take(u, 0), P) = 0
      BY <2>1, TallyFacts, TakeFacts
    <3> QED
      BY <2>1, <2>3, <3>1
  <2>5. ASSUME NEW n \in 0 .. N - 1, n \in T PROVE n + 1 \in T
    <3>1. n + 1 \in 1 .. N /\ n + 1 \in 0 .. N /\ (n + 1) - 1 = n /\ n \in 0 .. N /\ n \in Nat
      BY <2>1
    <3> DEFINE e == u[n + 1]
               c == t[n]
               d == t[n + 1]
    <3>2. c \in Heaps(E) /\ c \in Seq(E) /\ e \in E /\ d = Push(c, e) /\ So(n)
      BY <2>1, <2>3, <2>5, <3>1 DEF Heaps
    <3>3. \A P : Tally(Take(u, n + 1), P) = Tally(Take(u, n), P) + IF e \in P THEN 1 ELSE 0
      BY <3>1, TakeFacts
    <3> HIDE DEF c, d, e
    <3>4. Len(d) = Len(c) + 1 /\ \A P : Tally(d, P) = Tally(c, P) + IF e \in P THEN 1 ELSE 0
      <4>1. /\ Len(Append(c, e)) = Len(c) + 1
            /\ \A P : Tally(Append(c, e), P) = Tally(c, P) + IF e \in P THEN 1 ELSE 0
        BY <3>2, AppendTally
      <4>2. Same(Append(c, e), d)
        BY <3>2, PushFacts
      <4> QED
        BY <4>1, <4>2 DEF Same
    <3>5. Len(c) = Len(s) + n /\ \A P : Tally(c, P) = Tally(s, P) + Tally(Take(u, n), P)
      BY <3>2 DEF c
    <3>6. Len(d) = Len(s) + (n + 1)
      BY <2>1, <3>1, <3>4, <3>5
    <3>7. ASSUME NEW P PROVE Tally(d, P) = Tally(s, P) + Tally(Take(u, n + 1), P)
      <4>1. Tally(s, P) \in Nat /\ Tally(Take(u, n), P) \in Nat
        <5>1. Len(Take(u, n)) = n
          BY <3>1, TakeFacts
        <5> QED
          BY <2>1, <3>1, <5>1, TallyFacts
      <4>2. Tally(d, P) = Tally(s, P) + Tally(Take(u, n), P) + IF e \in P THEN 1 ELSE 0
        BY <3>4, <3>5
      <4>3. Tally(Take(u, n + 1), P) = Tally(Take(u, n), P) + IF e \in P THEN 1 ELSE 0
        BY <3>3
      <4> QED
        BY <4>1, <4>2, <4>3
    <3>8. So(n + 1)
      BY <3>6, <3>7 DEF d
    <3> QED
      BY <3>1, <3>8
  <2>6. N \in T
    <3> HIDE DEF T
    <3> QED
      BY <2>1, <2>4, <2>5, UpTo
  <2>7. t[N] \in S /\ So(N) /\ Take(u, N) = u /\ Concat(s, u) = t[N]
    BY <1>3, <2>1, <2>3, <2>6, TakeFacts DEF Concat, t
  <2> QED
    BY <1>1, <2>7 DEF Same
<1> QED
  BY <1>2, <1>3

\* The root is the least element of a heap.
LEMMA RootMin ==
    ASSUME NEW E, Timed(E), NEW s \in Heaps(E), NEW i \in 1 .. Len(s)
    PROVE  s[1].time <= s[i].time
<1> DEFINE n == Len(s)
           T == {k \in 0 .. n - 1 : \A l \in 1 .. k + 1 : s[1].time <= s[l].time}
<1>1. /\ s \in Seq(E) /\ n \in Nat /\ n - 1 \in Nat /\ \A k \in 2 .. n : s[k \div 2].time <= s[k].time
      /\ \A k \in 1 .. n : s[k].time \in Nat
  BY SeqHas, ValidIs DEF Heaps, Timed, InPlace
<1>2. 0 \in T
  <2>1. 0 \in 0 .. n - 1 /\ 1 \in 1 .. n /\ \A l \in 1 .. 0 + 1 : l = 1
    BY <1>1
  <2>2. s[1].time <= s[1].time
    BY <1>1, <2>1
  <2> QED
    BY <2>1, <2>2
<1>3. ASSUME NEW k \in 0 .. (n - 1) - 1, k \in T PROVE k + 1 \in T
  <2>1. k + 1 \in 0 .. n - 1
    BY <1>1
  <2>2. ASSUME NEW l \in 1 .. (k + 1) + 1 PROVE s[1].time <= s[l].time
    <3>1. CASE l \in 1 .. k + 1
      BY <1>3, <3>1
    <3>2. CASE l = k + 2
      <4>1. l \in 2 .. n /\ l \div 2 \in 1 .. k + 1 /\ l \div 2 \in 1 .. n /\ l \in 1 .. n /\ 1 \in 1 .. n
        BY <1>1, <3>2, Halves
      <4>2. s[1].time <= s[l \div 2].time /\ s[l \div 2].time <= s[l].time
        BY <1>1, <1>3, <4>1
      <4> QED
        BY <1>1, <4>1, <4>2
    <3> QED
      BY <1>1, <3>1, <3>2
  <2> QED
    BY <2>1, <2>2
<1>4. i - 1 \in 0 .. n - 1 /\ i \in 1 .. (i - 1) + 1
  BY <1>1
<1>5. i - 1 \in T
  <2> HIDE DEF T
  <2> QED
    BY <1>1, <1>2, <1>3, <1>4, UpTo
<1> QED
  BY <1>4, <1>5

\* t holds what s holds but for e, once.
Without(s, e, t) == Len(t) = Len(s) - 1 /\ \A P : Tally(s, P) = Tally(t, P) + IF e \in P THEN 1 ELSE 0

\* pop takes the root out of a heap and leaves one.
LEMMA PopFacts ==
    ASSUME NEW E, Timed(E), NEW s \in Heaps(E), s # <<>>
    PROVE  Pop(s) \in Heaps(E) /\ Without(s, s[1], Pop(s))
<1>1. s \in Seq(E) /\ Len(s) \in Nat /\ Len(s) > 0 /\ \A k \in 2 .. Len(s) : InPlace(s, k)
  BY SeqHas, ValidIs DEF Heaps
<1>2. CASE Len(s) = 1
  <2>1. Pop(s) = <<>> /\ Len(<<>>) = 0 /\ <<>> \in Seq(E)
    BY <1>2 DEF Pop
  <2>2. Valid(<<>>)
    BY <2>1 DEF Valid
  <2>3. ASSUME NEW P PROVE Tally(s, P) = Tally(<<>>, P) + IF s[1] \in P THEN 1 ELSE 0
    <3>1. Tally(<<>>, P) = 0
      BY <2>1, TallyFacts
    <3>2. Tally(s, P) \in Nat /\ Tally(s, P) <= 1
      BY <1>2, TallyFacts
    <3>3. \A k \in 1 .. Len(s) : k = 1
      BY <1>2
    <3>4. 1 \in 1 .. Len(s)
      BY <1>2
    <3>5. Tally(s, P) = 0 <=> s[1] \notin P
      BY <1>1, <3>3, <3>4, TallyFacts
    <3> QED
      BY <3>1, <3>2, <3>5
  <2> QED
    BY <1>2, <2>1, <2>2, <2>3 DEF Heaps, Without
<1>3. CASE Len(s) # 1
  <2> DEFINE f == Filled(s, 1)
             n == Len(s) - 1
             p == [contents |-> f, index |-> 1]
             b == BubbleDown(f, 1)
  <2>1. n \in Nat /\ 1 \in 1 .. n /\ Pop(s) = b
    <3> DEFINE m == Len(s)
    <3>1. m \in Nat /\ m > 0 /\ m # 1 /\ n = m - 1
      BY <1>1, <1>3
    <3> HIDE DEF m
    <3>2. m - 1 \in Nat /\ 1 \in 1 .. m - 1 /\ ~ (m <= 1)
      BY <3>1
    <3> QED
      BY <3>2 DEF Pop, Filled, m
  <2>2. /\ f \in Seq(E) /\ Len(f) = n
        /\ \A k \in 1 .. n : f[k] = IF k = 1 THEN s[Len(s)] ELSE s[k]
        /\ \A P : Tally(s, P) = Tally(f, P) + IF s[1] \in P THEN 1 ELSE 0
    BY <1>1, <2>1, FilledFacts
  <2> HIDE DEF f
  <2>3. ASSUME NEW k \in 2 .. n, k \div 2 # 1 PROVE InPlace(f, k)
    <3>1. k \in 1 .. n /\ k # 1 /\ k \div 2 \in 1 .. n /\ k \in 2 .. Len(s)
      BY <1>1, Halves
    <3> QED
      BY <1>1, <2>2, <2>3, <3>1 DEF InPlace
  <2>4. ~ (1 \div 2 >= 1)
    OBVIOUS
  <2>5. NearDown(p, 1)
    BY <2>2, <2>3, <2>4 DEF NearDown
  <2>6. b \in Seq(E) /\ Same(f, b) /\ ValidFrom(b, 1)
    BY <2>1, <2>2, <2>5, BubbleDownFacts
  <2> HIDE DEF b
  <2>7. b \in Heaps(E)
    BY <2>6, ValidIs DEF Heaps
  <2>8. Without(s, s[1], b)
    BY <2>2, <2>6 DEF Without, Same
  <2> QED
    BY <2>1, <2>7, <2>8
<1> QED
  BY <1>2, <1>3

\* delete takes one element out of a heap and leaves one.
LEMMA DeleteFacts ==
    ASSUME NEW E, Timed(E), NEW s \in Heaps(E), NEW i \in 1 .. Len(s)
    PROVE  Delete(s, i) \in Heaps(E) /\ Without(s, s[i], Delete(s, i))
<1>1. /\ s \in Seq(E) /\ Len(s) \in Nat /\ Len(s) > 0 /\ \A k \in 2 .. Len(s) : s[k \div 2].time <= s[k].time
      /\ \A k \in 1 .. Len(s) : s[k].time \in Nat
  BY SeqHas, ValidIs DEF Heaps, InPlace, Timed
<1>2. CASE i = Len(s)
  <2> DEFINE f == Front(s)
             n == Len(s) - 1
  <2>1. /\ f \in Seq(E) /\ Len(f) = n /\ \A k \in 1 .. n : f[k] = s[k]
        /\ \A P : Tally(s, P) = Tally(f, P) + IF s[Len(s)] \in P THEN 1 ELSE 0
    <3>1. s \in Seq(E) /\ Len(s) > 0
      BY <1>1
    <3> QED
      BY <3>1, FrontFacts
  <2> HIDE DEF f
  <2>2. ASSUME NEW k \in 2 .. n PROVE InPlace(f, k)
    <3>1. k \in 1 .. n /\ k \div 2 \in 1 .. n /\ k \in 2 .. Len(s)
      BY <1>1, Halves
    <3> QED
      BY <1>1, <2>1, <3>1 DEF InPlace
  <2>3. f \in Heaps(E)
    BY <2>1, <2>2, ValidIs DEF Heaps
  <2>4. Delete(s, i) = f /\ Without(s, s[i], f)
    BY <1>2, <2>1 DEF Delete, Without, f
  <2> QED
    BY <2>3, <2>4
<1>3. CASE i # Len(s)
  <2> DEFINE f == Filled(s, i)
             n == Len(s) - 1
             p == [contents |-> f, index |-> i]
             q == i \div 2
  <2>1. n \in Nat /\ i \in 1 .. n
    BY <1>1, <1>3
  <2>2. /\ f \in Seq(E) /\ Len(f) = n
        /\ \A k \in 1 .. n : f[k] = IF k = i THEN s[Len(s)] ELSE s[k]
        /\ \A P : Tally(s, P) = Tally(f, P) + IF s[i] \in P THEN 1 ELSE 0
    <3>1. s \in Seq(E)
      BY <1>1
    <3> QED
      BY <2>1, <3>1, FilledFacts
  <2>3. Delete(s, i) = IF i > 1 /\ Less(f[i], f[q]) THEN BubbleUp(f, i) ELSE BubbleDown(f, i)
    BY <1>3 DEF Delete, Filled
  <2> HIDE DEF f
  <2>4. \A k \in 1 .. n : f[k].time \in Nat
    BY <2>2, SeqHas DEF Timed
  <2>5. ASSUME NEW k \in 2 .. n PROVE /\ k \in 1 .. n /\ k \div 2 \in 1 .. n /\ k \in 2 .. Len(s) /\ k \in 1 .. Len(s)
                                      /\ k \div 2 < k /\ k \div 2 \in 1 .. Len(s)
    BY <1>1, Halves
  <2>6. ASSUME NEW k \in 2 .. n, k # i, k \div 2 # i PROVE InPlace(f, k)
    BY <1>1, <2>2, <2>5, <2>6 DEF InPlace
  <2>7. ASSUME NEW k \in 2 .. n, i > 1, k \div 2 = i
        PROVE  f[q].time <= f[k].time /\ s[q].time <= s[i].time /\ s[i].time <= s[k].time
    <3>1. i \in 2 .. n /\ k # i
      BY <2>1, <2>5, <2>7
    <3>2. q \in 1 .. n /\ q # i
      BY <2>5, <3>1
    <3>3. f[q] = s[q] /\ f[k] = s[k]
      BY <2>2, <2>5, <3>1, <3>2
    <3>4. s[q].time <= s[i].time /\ s[i].time <= s[k].time
      BY <1>1, <2>5, <2>7, <3>1
    <3>5. s[q].time \in Nat /\ s[i].time \in Nat /\ s[k].time \in Nat
      BY <1>1, <2>5, <3>1
    <3> QED
      BY <3>3, <3>4, <3>5
  <2>8. CASE i > 1 /\ Less(f[i], f[q])
    <3>1. ASSUME NEW k \in 2 .. n, k # i PROVE InPlace(f, k)
      <4>1. CASE k \div 2 # i
        BY <2>6, <3>1, <4>1
      <4>2. CASE k \div 2 = i
        <5>1. f[q].time <= f[k].time /\ f[i].time < f[q].time
          BY <2>7, <2>8, <4>2 DEF Less
        <5>2. i \in 2 .. n /\ q \in 1 .. n /\ k \in 1 .. n
          BY <2>1, <2>5, <2>8
        <5>3. f[i].time <= f[k].time
          BY <2>1, <2>4, <5>1, <5>2
        <5> QED
          BY <4>2, <5>3 DEF InPlace
      <4> QED
        BY <4>1, <4>2
    <3>2. NearUp(p)
      BY <2>2, <2>7, <3>1 DEF NearUp
    <3> DEFINE b == BubbleUp(f, i)
    <3>3. b \in Seq(E) /\ Same(f, b) /\ Valid(b)
      BY <2>1, <2>2, <3>2, BubbleUpFacts
    <3> HIDE DEF b
    <3>4. b \in Heaps(E) /\ Without(s, s[i], b)
      BY <2>2, <3>3 DEF Without, Same, Heaps
    <3> QED
      BY <2>3, <2>8, <3>4 DEF b
  <2>9. CASE ~ (i > 1 /\ Less(f[i], f[q]))
    <3>1. ASSUME NEW k \in 2 .. n, k \div 2 # i PROVE InPlace(f, k)
      <4>1. CASE k # i
        BY <2>6, <3>1, <4>1
      <4>2. CASE k = i
        <5>1. f[k].time \in Nat /\ f[k \div 2].time \in Nat
          BY <2>4, <2>5
        <5> QED
          BY <2>9, <4>2, <5>1 DEF InPlace, Less
      <4> QED
        BY <4>1, <4>2
    <3>2. i \div 2 >= 1 => i > 1
      BY <2>1, Halves
    <3>3. NearDown(p, 1)
      BY <2>2, <2>7, <3>1, <3>2 DEF NearDown
    <3> DEFINE b == BubbleDown(f, i)
    <3>4. b \in Seq(E) /\ Same(f, b) /\ ValidFrom(b, 1)
      BY <2>1, <2>2, <3>3, BubbleDownFacts
    <3> HIDE DEF b
    <3>5. b \in Heaps(E) /\ Without(s, s[i], b)
      BY <2>2, <3>4, ValidIs DEF Without, Same, Heaps
    <3> QED
      BY <2>3, <2>9, <3>5 DEF b
  <2> QED
    BY <2>8, <2>9
<1> QED
  BY <1>2, <1>3

\* The recursive function of reject! has the value its definition gives it.
LEMMA RejectTurnsDef ==
    ASSUME NEW S, NEW s, NEW R, Len(s) \in Nat, <<>> \in S,
           \A n \in 1 .. Len(s), x \in S : (IF s[n] \in R THEN x ELSE Append(x, s[n])) \in S
    PROVE  /\ \A n \in 0 .. Len(s) : RejectTurns(s, R)[n] \in S
           /\ RejectTurns(s, R)[0] = <<>>
           /\ \A n \in 1 .. Len(s) :
                  RejectTurns(s, R)[n] =
                      (IF s[n] \in R THEN RejectTurns(s, R)[n - 1] ELSE Append(RejectTurns(s, R)[n - 1], s[n]))
<1> DEFINE a == <<>>
           N == Len(s)
           Step(n, x) == (IF s[n] \in R THEN x ELSE Append(x, s[n]))
           F == [n \in 1 .. N |-> [x \in S |-> Step(n, x)]]
<1>1. F \in Loops(N, S) /\ \A x \in S, n \in 1 .. N : F[n][x] = Step(n, x)
  BY DEF Loops
<1>2. a \in S /\ N \in Nat /\ \A n \in 1 .. N, x \in S : Step(n, x) \in S
  OBVIOUS
<1> HIDE DEF a, N, F, Step
<1>3. PICK g : Runs(g, N, S, a, F)
  BY <1>1, <1>2, Iterated
<1>4. g \in [0 .. N -> S] /\ \A n \in 0 .. N : g[n] = IF n = 0 THEN a ELSE Step(n, g[n - 1])
  <2>1. ASSUME NEW n \in 1 .. N PROVE g[n] = Step(n, g[n - 1])
    <3>1. n - 1 \in 0 .. N
      BY <1>2
    <3> QED
      BY <1>1, <1>3, <3>1 DEF Runs
  <2> QED
    BY <1>2, <1>3, <2>1 DEF Runs
<1>5. g = [n \in 0 .. N |-> IF n = 0 THEN a ELSE Step(n, g[n - 1])]
  BY <1>4
<1>6. RejectTurns(s, R) = [n \in 0 .. N |-> IF n = 0 THEN a ELSE Step(n, RejectTurns(s, R)[n - 1])]
  BY <1>5, Zenon DEF RejectTurns, a, N, Step
<1> DEFINE t == RejectTurns(s, R)
<1> HIDE DEF t
<1>7. \A n \in 0 .. N : t[n] = IF n = 0 THEN a ELSE Step(n, t[n - 1])
  BY <1>6 DEF t
<1>8. t[0] = a /\ \A n \in 1 .. N : t[n] = Step(n, t[n - 1])
  BY <1>2, <1>7
<1>9. \A n \in 0 .. N : t[n] \in S
  <2>1. \A n \in 1 .. N : t[n - 1] \in S => t[n] \in S
    BY <1>2, <1>8
  <2>2. t[0] \in S
    BY <1>2, <1>8
  <2> QED
    BY <1>2, <2>1, <2>2, Stays
<1> QED
  BY <1>8, <1>9 DEF t, a, N, Step

\* What reject! leaves.
LEMMA RejectFacts ==
    ASSUME NEW E, NEW s \in Seq(E), NEW R
    PROVE  Reject(s, R) \in Seq(E) /\ \A P : Tally(Reject(s, R), P) = Tally(s, P \ R)
<1> DEFINE N == Len(s)
           S == Seq(E)
           t == RejectTurns(s, R)
<1>1. N \in Nat /\ N \in 0 .. N /\ <<>> \in S /\ \A n \in 1 .. N : s[n] \in E
  BY SeqHas
<1>2. \A n \in 1 .. N, c \in S : (IF s[n] \in R THEN c ELSE Append(c, s[n])) \in S
  BY <1>1
<1>3. /\ \A n \in 0 .. N : t[n] \in S
      /\ t[0] = <<>>
      /\ \A n \in 1 .. N : t[n] = (IF s[n] \in R THEN t[n - 1] ELSE Append(t[n - 1], s[n]))
  BY <1>1, <1>2, RejectTurnsDef
<1> HIDE DEF t
<1> DEFINE So(n) == \A P : Tally(t[n], P) = Tally(Take(s, n), P \ R)
           T == {n \in 0 .. N : So(n)}
<1>4. 0 \in T
  <2>1. Len(<<>>) = 0 /\ 0 \in 0 .. N
    BY <1>1
  <2>2. \A P : Tally(<<>>, P) = 0
    BY <2>1, TallyFacts
  <2> QED
    BY <1>3, <2>1, <2>2, TakeFacts
<1>5. ASSUME NEW n \in 0 .. N - 1, n \in T PROVE n + 1 \in T
  <2>1. n + 1 \in 1 .. N /\ n + 1 \in 0 .. N /\ (n + 1) - 1 = n /\ n \in 0 .. N /\ n \in Nat
    BY <1>1
  <2> DEFINE e == s[n + 1]
             c == t[n]
             d == t[n + 1]
  <2>2. c \in Seq(E) /\ e \in E /\ So(n) /\ d = IF e \in R THEN c ELSE Append(c, e)
    BY <1>1, <1>3, <1>5, <2>1
  <2>3. \A P : Tally(Take(s, n + 1), P) = Tally(Take(s, n), P) + IF e \in P THEN 1 ELSE 0
    BY <2>1, TakeFacts
  <2>4. Len(Take(s, n)) = n
    BY <2>1, TakeFacts
  <2>5. \A P : Tally(Take(s, n), P) \in Nat
    BY <2>1, <2>4, TallyFacts
  <2> HIDE DEF c, d, e
  <2>6. ASSUME NEW P PROVE Tally(d, P) = Tally(Take(s, n + 1), P \ R)
    <3>1. Tally(c, P) = Tally(Take(s, n), P \ R) /\ Tally(Take(s, n), P \ R) \in Nat
      BY <2>2, <2>5 DEF c
    <3>2. Tally(Take(s, n + 1), P \ R) = Tally(Take(s, n), P \ R) + IF e \in P \ R THEN 1 ELSE 0
      BY <2>3
    <3>3. CASE e \in R
      BY <2>2, <3>1, <3>2, <3>3
    <3>4. CASE e \notin R
      <4>1. Tally(Append(c, e), P) = Tally(c, P) + IF e \in P THEN 1 ELSE 0
        BY <2>2, AppendTally
      <4>2. d = Append(c, e) /\ (e \in P \ R <=> e \in P)
        BY <2>2, <3>4
      <4> QED
        BY <3>1, <3>2, <4>1, <4>2
    <3> QED
      BY <3>3, <3>4
  <2> QED
    BY <2>1, <2>6 DEF d
<1>6. N \in T
  <2> HIDE DEF T
  <2> QED
    BY <1>1, <1>4, <1>5, UpTo
<1>7. t[N] \in Seq(E) /\ So(N) /\ Take(s, N) = s /\ Reject(s, R) = t[N]
  BY <1>1, <1>3, <1>6, TakeFacts DEF Reject, t
<1> QED
  BY <1>7

\* delete_if takes what it rejects out of a heap, and nothing else, and leaves one.
LEMMA DeleteIfFacts ==
    ASSUME NEW E, Timed(E), NEW s \in Heaps(E), NEW R
    PROVE  DeleteIf(s, R) \in Heaps(E) /\ \A P : Tally(DeleteIf(s, R), P) = Tally(s, P \ R)
<1> DEFINE u == Reject(s, R)
<1>1. s \in Seq(E) /\ Len(s) \in Nat /\ u \in Seq(E) /\ \A P : Tally(u, P) = Tally(s, P \ R)
  BY RejectFacts, SeqHas DEF Heaps
<1>2. DeleteIf(s, R) = IF Len(u) < Len(s) THEN Heapify(u) ELSE s
  BY DEF DeleteIf
<1> HIDE DEF u
<1>3. CASE Len(u) < Len(s)
  <2>1. Heapify(u) \in Heaps(E) /\ Same(u, Heapify(u))
    BY <1>1, HeapifyFacts
  <2> QED
    BY <1>1, <1>2, <1>3, <2>1 DEF Same
<1>4. CASE ~ (Len(u) < Len(s))
  <2>1. Len(u) \in Nat /\ (\A k \in 1 .. Len(u) : u[k] \in E) /\ \A k \in 1 .. Len(s) : s[k] \in E
    BY <1>1, SeqHas
  <2>2. Tally(u, E) = Len(u) /\ Tally(s, E \ R) \in Nat /\ Tally(s, E \ R) <= Len(s)
    BY <1>1, <2>1, TallyFacts
  <2>3. Tally(s, E \ R) = Len(s)
    BY <1>1, <1>4, <2>1, <2>2
  <2>4. \A k \in 1 .. Len(s) : s[k] \in E \ R
    BY <1>1, <2>3, TallyFacts
  <2>5. \A P : Places(s, P \ R) = Places(s, P)
    BY <2>4 DEF Places
  <2>6. \A P : Tally(s, P \ R) = Tally(s, P)
    BY <2>5 DEF Tally
  <2> QED
    BY <1>2, <1>4, <2>6
<1> QED
  BY <1>3, <1>4

-----------------------------------------------------------------------------
(***************************************************************************)
(* The handles of Timers                                                    *)
(***************************************************************************)

\* Handles as the heap keeps them, as they are outside of it, and the ones to count.
Kept == {h \in Handle : h.timers = h.block}
Free == {h \in Handle : ~ h.timers}
Dead == {h \in Handle : IsCancelled(h)}
Due(t) == {h \in Handle : Live(h) /\ h.time = t}

\* The sets of handles, and the fields of one.
LEMMA Handles ==
    /\ Timed(Handle) /\ Timed(Kept) /\ Seq(Kept) \subseteq Seq(Handle) /\ Seq(Free) \subseteq Seq(Handle)
    /\ \A h \in Handle : /\ h.time \in Times /\ h.block \in BOOLEAN /\ h.timers \in BOOLEAN
                         /\ h = [time |-> h.time, block |-> h.block, timers |-> h.timers]
<1>1. \A h \in Handle : /\ h.time \in Times /\ h.block \in BOOLEAN /\ h.timers \in BOOLEAN
                        /\ h = [time |-> h.time, block |-> h.block, timers |-> h.timers]
  BY DEF Handle
<1>2. Kept \subseteq Handle /\ Free \subseteq Handle
  BY DEF Kept, Free
<1>3. Timed(Handle) /\ Timed(Kept)
  BY <1>1, <1>2, TimersAssumption DEF Timed
<1>4. Seq(Kept) \subseteq Seq(Handle) /\ Seq(Free) \subseteq Seq(Handle)
  BY <1>2, SeqMonotonic
<1> QED
  BY <1>1, <1>3, <1>4

\* A handle with another block.
LEMMA WithBlock ==
    ASSUME NEW h \in Handle, NEW v
    PROVE  [h EXCEPT !.block = v] = [time |-> h.time, block |-> v, timers |-> h.timers]
  BY DEF Handle

\* A handle with another @timers.
LEMMA WithTimers ==
    ASSUME NEW h \in Handle, NEW v
    PROVE  [h EXCEPT !.timers = v] = [time |-> h.time, block |-> h.block, timers |-> v]
  BY DEF Handle

\* A handle that cancel! has cleared.
LEMMA Cleared ==
    ASSUME NEW h \in Handle
    PROVE  [[h EXCEPT !.block = FALSE] EXCEPT !.timers = FALSE] = [time |-> h.time, block |-> FALSE, timers |-> FALSE]
<1> DEFINE r == [h EXCEPT !.block = FALSE]
<1>1. r = [time |-> h.time, block |-> FALSE, timers |-> h.timers]
  BY WithBlock, Zenon
<1> HIDE DEF r
<1>2. r \in Handle /\ r.time = h.time /\ r.block = FALSE
  BY <1>1 DEF Handle
<1>3. [r EXCEPT !.timers = FALSE] = [time |-> r.time, block |-> r.block, timers |-> FALSE]
  BY <1>2, WithTimers, Zenon
<1>4. [r EXCEPT !.timers = FALSE] = [time |-> h.time, block |-> FALSE, timers |-> FALSE]
  BY <1>2, <1>3, Zenon
<1> QED
  BY <1>4, Zenon DEF r

\* The counts of the properties are tallies.
LEMMA Measured ==
    ASSUME NEW s \in Seq(Handle)
    PROVE  Retained(s) = Tally(s, Dead) /\ Count(s) = [t \in Times |-> Tally(s, Due(t))]
<1>1. DOMAIN s = 1 .. Len(s) /\ \A i \in 1 .. Len(s) : s[i] \in Handle
  BY SeqHas
<1>2. {i \in DOMAIN s : IsCancelled(s[i])} = Places(s, Dead)
  BY <1>1 DEF Places, Dead
<1>3. \A t \in Times : {i \in DOMAIN s : Live(s[i]) /\ s[i].time = t} = Places(s, Due(t))
  BY <1>1 DEF Places, Due
<1>4. \A t \in Times : Cardinality({i \in DOMAIN s : Live(s[i]) /\ s[i].time = t}) = Tally(s, Due(t))
  BY <1>3 DEF Tally
<1> QED
  BY <1>2, <1>4 DEF Retained, Count, Tally

\* One element is replaced.
LEMMA ReplaceTally ==
    ASSUME NEW E, NEW s \in Seq(E), NEW i \in 1 .. Len(s), NEW e, NEW r,
           Len(r) = Len(s), \A k \in 1 .. Len(s) : r[k] = IF k = i THEN e ELSE s[k], NEW P
    PROVE  Tally(r, P) + (IF s[i] \in P THEN 1 ELSE 0) = Tally(s, P) + IF e \in P THEN 1 ELSE 0
<1> DEFINE A == {k \in 1 .. Len(s) : k # i /\ s[k] \in P}
<1>1. Len(s) \in Nat /\ IsFiniteSet(Places(s, P)) /\ IsFiniteSet(Places(r, P))
  BY SeqHas, TallyFacts
<1>2. Places(s, P) = IF s[i] \in P THEN A \cup {i} ELSE A
  BY DEF Places
<1>3. Places(r, P) = IF e \in P THEN A \cup {i} ELSE A
  BY DEF Places
<1>4. A \subseteq Places(s, P) /\ i \notin A
  BY DEF Places
<1> HIDE DEF A
<1>5. IsFiniteSet(A)
  BY <1>1, <1>4, FS_Subset
<1>6. Cardinality(A) \in Nat /\ Cardinality(A \cup {i}) = Cardinality(A) + 1
  BY <1>4, <1>5, FS_CardinalityType, FS_AddElement
<1> QED
  BY <1>2, <1>3, <1>6 DEF Tally

\* cancel! of a handle with its block.
LEMMA CancellingFacts ==
    ASSUME NEW s \in Seq(Handle), NEW i \in 1 .. Len(s), Live(s[i])
    PROVE  /\ Cancelling(s, i) \in Seq(Handle) /\ Len(Cancelling(s, i)) = Len(s)
           /\ \A k \in 1 .. Len(s) :
                  Cancelling(s, i)[k] = IF k = i THEN [time |-> s[i].time, block |-> FALSE, timers |-> FALSE] ELSE s[k]
           /\ Tally(Cancelling(s, i), Dead) = Tally(s, Dead) + 1
           /\ \A t : Tally(Cancelling(s, i), Due(t)) = IF t = s[i].time THEN Tally(s, Due(t)) - 1 ELSE Tally(s, Due(t))
           /\ s \in Heaps(Kept) => Cancelling(s, i) \in Heaps(Kept)
           /\ s \in Seq(Free) => Cancelling(s, i) \in Seq(Free)
<1> DEFINE r == Cancelling(s, i)
           n == Len(s)
           e == [time |-> s[i].time, block |-> FALSE, timers |-> FALSE]
<1>1. n \in Nat /\ s \in [1 .. n -> Handle] /\ DOMAIN s = 1 .. n /\ s[i] \in Handle /\ \A k \in 1 .. n : s[k] \in Handle
  BY SeqHas
<1>2. [[s[i] EXCEPT !.block = FALSE] EXCEPT !.timers = FALSE] = e
  BY <1>1, Cleared
<1>3. e \in Handle /\ e \in Kept /\ e \in Free /\ e \in Dead /\ \A t : e \notin Due(t)
  BY <1>1 DEF Handle, Kept, Free, Dead, Due, IsCancelled, Live
<1> HIDE DEF e
<1>4. r = [k \in 1 .. n |-> IF k = i THEN e ELSE s[k]]
  BY <1>1, <1>2 DEF Cancelling
<1>5. r \in [1 .. n -> Handle] /\ \A k \in 1 .. n : r[k] = IF k = i THEN e ELSE s[k]
  BY <1>1, <1>3, <1>4
<1> HIDE DEF r
<1>6. r \in Seq(Handle) /\ Len(r) = n
  BY <1>1, <1>5, SeqIs
<1>7. s[i] \notin Dead /\ \A t : s[i] \in Due(t) <=> t = s[i].time
  BY <1>1 DEF Dead, Due, IsCancelled, Live
<1>8. \A P : Tally(r, P) + (IF s[i] \in P THEN 1 ELSE 0) = Tally(s, P) + IF e \in P THEN 1 ELSE 0
  BY <1>5, <1>6, ReplaceTally
<1>9. \A P : Tally(r, P) \in Nat /\ Tally(s, P) \in Nat
  BY <1>1, <1>6, TallyFacts
<1>10. Tally(r, Dead) = Tally(s, Dead) + 1
  BY <1>3, <1>7, <1>8, <1>9
<1>11. \A t : Tally(r, Due(t)) = IF t = s[i].time THEN Tally(s, Due(t)) - 1 ELSE Tally(s, Due(t))
  BY <1>3, <1>7, <1>8, <1>9
<1>12. ASSUME s \in Seq(Free) PROVE r \in Seq(Free)
  <2>1. r \in [1 .. n -> Free]
    BY <1>3, <1>5, <1>12, SeqHas
  <2> QED
    BY <1>1, <2>1, SeqIs
<1>13. ASSUME s \in Heaps(Kept) PROVE r \in Heaps(Kept)
  <2>1. s \in Seq(Kept) /\ Timed(Kept) /\ e.time = s[i].time
    BY <1>13, Handles DEF Heaps, e
  <2>2. r \in [1 .. n -> Kept]
    BY <1>3, <1>5, <2>1, SeqHas
  <2>3. r \in Seq(Kept)
    BY <1>1, <2>2, SeqIs
  <2>4. \A k \in 1 .. n : r[k].time = s[k].time
    BY <1>5, <2>1
  <2>5. \A k \in 2 .. n : k \in 1 .. n /\ k \div 2 \in 1 .. n
    BY <1>1, Halves
  <2>6. \A k \in 2 .. n : ~ Less(r[k], r[k \div 2]) <=> ~ Less(s[k], s[k \div 2])
    BY <2>4, <2>5 DEF Less
  <2> QED
    BY <1>6, <1>13, <2>3, <2>6 DEF Heaps, Valid
<1> QED
  BY <1>5, <1>6, <1>10, <1>11, <1>12, <1>13 DEF r, e

\* The handles that are not cancelled remain.
LEMMA RemainingFacts ==
    ASSUME NEW E, E \subseteq Handle, NEW s \in Seq(E)
    PROVE  /\ Remaining(s) \in Seq(E) /\ Len(Remaining(s)) <= Len(s) /\ Tally(Remaining(s), Dead) = 0
           /\ \A t : Tally(Remaining(s), Due(t)) = Tally(s, Due(t))
<1> DEFINE R == {h \in Range(s) : IsCancelled(h)}
           u == Remaining(s)
           n == Len(s)
<1>1. n \in Nat /\ DOMAIN s = 1 .. n /\ \A k \in 1 .. n : s[k] \in E /\ s[k] \in Handle
  BY SeqHas
<1>2. \A k \in 1 .. n : s[k] \in R <=> IsCancelled(s[k])
  BY <1>1 DEF Range
<1> HIDE DEF R
<1>3. u \in Seq(E) /\ \A P : Tally(u, P) = Tally(s, P \ R)
  BY RejectFacts DEF Remaining, R
<1> HIDE DEF u
<1>4. Tally(u, Dead) = 0
  <2>1. \A k \in 1 .. n : s[k] \notin Dead \ R
    BY <1>2 DEF Dead
  <2> QED
    BY <1>1, <1>3, <2>1, TallyFacts
<1>5. ASSUME NEW t PROVE Tally(u, Due(t)) = Tally(s, Due(t))
  <2>1. \A k \in 1 .. n : s[k] \in Due(t) \ R <=> s[k] \in Due(t)
    BY <1>2 DEF Due, Live, IsCancelled
  <2>2. Places(s, Due(t) \ R) = Places(s, Due(t))
    BY <2>1 DEF Places
  <2> QED
    BY <1>3, <2>2 DEF Tally
<1>6. Len(u) <= n
  <2>1. Len(u) \in Nat /\ \A k \in 1 .. Len(u) : u[k] \in E
    BY <1>3, SeqHas
  <2>2. Tally(u, E) = Len(u)
    BY <2>1, TallyFacts
  <2>3. Tally(s, E \ R) <= n
    BY <1>1, TallyFacts
  <2> QED
    BY <1>3, <2>2, <2>3
<1> QED
  BY <1>3, <1>4, <1>5, <1>6 DEF u

\* The heap and the @cancelled that operations pass on agree.
Counted(s) == s.heap \in Heaps(Kept) /\ s.cancelled = Tally(s.heap, Dead)

\* The timers of s are those of the heaps q and r together.
Joins(s, q, r) ==
    Len(s.heap) <= Len(q) + Len(r) /\ \A t : Tally(s.heap, Due(t)) = Tally(q, Due(t)) + Tally(r, Due(t))

\* What flush! inserts: every scheduled timer, marked as being in the heap, and no cancelled handle.
LEMMA InsertedFacts ==
    ASSUME scheduled \in Seq(Free)
    PROVE  /\ Inserted \in Seq(Kept) /\ Len(Inserted) <= Len(scheduled) /\ Tally(Inserted, Dead) = 0
           /\ \A t : Tally(Inserted, Due(t)) = Tally(scheduled, Due(t))
<1> DEFINE k == Remaining(scheduled)
           u == Inserted
           n == Len(k)
<1>1. Free \subseteq Handle
  BY DEF Free
<1>2. /\ k \in Seq(Free) /\ n <= Len(scheduled) /\ Tally(k, Dead) = 0
      /\ \A t : Tally(k, Due(t)) = Tally(scheduled, Due(t))
  BY <1>1, RemainingFacts
<1>3. u = [i \in DOMAIN k |-> [k[i] EXCEPT !.timers = TRUE]]
  BY DEF Inserted
<1> HIDE DEF k, u
<1>4. n \in Nat /\ DOMAIN k = 1 .. n /\ \A i \in 1 .. n : k[i] \in Handle
  BY <1>1, <1>2, SeqHas
<1>5. \A i \in 1 .. n : k[i] \notin Dead
  BY <1>2, <1>4, TallyFacts
<1>6. \A i \in 1 .. n : k[i].block = TRUE
  BY <1>4, <1>5, Handles DEF Dead, IsCancelled
<1>7. ASSUME NEW i \in 1 .. n PROVE u[i] = [time |-> k[i].time, block |-> k[i].block, timers |-> TRUE]
  <2>1. u[i] = [k[i] EXCEPT !.timers = TRUE]
    BY <1>3, <1>4
  <2> QED
    BY <1>4, <2>1, WithTimers, Zenon
<1>8. \A i \in 1 .. n : u[i] \in Handle /\ u[i].time = k[i].time /\ u[i].block = TRUE /\ u[i].timers = TRUE
  <2> SUFFICES ASSUME NEW i \in 1 .. n
               PROVE  u[i] \in Handle /\ u[i].time = k[i].time /\ u[i].block = TRUE /\ u[i].timers = TRUE
    OBVIOUS
  <2>1. k[i] \in Handle /\ k[i].block = TRUE /\ k[i].time \in Times
    BY <1>4, <1>6, Handles
  <2> DEFINE v == u[i]
  <2>2. v = [time |-> k[i].time, block |-> TRUE, timers |-> TRUE]
    BY <1>7, <2>1, Zenon
  <2> HIDE DEF v
  <2>3. v \in Handle /\ v.time = k[i].time /\ v.block = TRUE /\ v.timers = TRUE
    BY <2>1, <2>2 DEF Handle
  <2> QED
    BY <2>3 DEF v
<1>9. u \in [1 .. n -> Kept]
  <2>1. \A i \in 1 .. n : u[i] \in Kept
    BY <1>8 DEF Kept
  <2> QED
    BY <1>3, <1>4, <2>1
<1>10. u \in Seq(Kept) /\ Len(u) = n
  BY <1>4, <1>9, SeqIs
<1>11. Tally(u, Dead) = 0
  <2>1. \A i \in 1 .. n : u[i] \notin Dead
    BY <1>8 DEF Dead, IsCancelled
  <2> QED
    BY <1>4, <1>10, <2>1, TallyFacts
<1>12. ASSUME NEW t PROVE Tally(u, Due(t)) = Tally(k, Due(t))
  <2>1. \A i \in 1 .. n : u[i] \in Due(t) <=> k[i] \in Due(t)
    BY <1>4, <1>6, <1>8 DEF Due, Live
  <2>2. Places(u, Due(t)) = Places(k, Due(t))
    BY <1>10, <2>1 DEF Places
  <2> QED
    BY <2>2 DEF Tally
<1> QED
  BY <1>2, <1>10, <1>11, <1>12 DEF u

\* flush! loses no timer and keeps @cancelled right and small.
LEMMA FlushedFacts ==
    ASSUME heap \in Heaps(Kept), scheduled \in Seq(Free), cancelled = Tally(heap, Dead)
    PROVE  /\ Counted(Flushed) /\ Joins(Flushed, heap, scheduled)
           /\ Flushed.cancelled < COMPACT_MINIMUM_COUNT \/ Flushed.cancelled * 2 <= Len(Flushed.heap)
<1> DEFINE u == Inserted
           F == Flushed
           CMC == COMPACT_MINIMUM_COUNT
<1>1. /\ u \in Seq(Kept) /\ Len(u) <= Len(scheduled) /\ Tally(u, Dead) = 0
      /\ \A t : Tally(u, Due(t)) = Tally(scheduled, Due(t))
  BY InsertedFacts
<1>2. /\ heap \in Seq(Kept) /\ Kept \subseteq Handle /\ Timed(Kept) /\ CMC \in Nat /\ CMC > 0
      /\ Len(heap) \in Nat /\ Len(u) \in Nat /\ Len(scheduled) \in Nat
  BY <1>1, Handles, SeqHas, TimersAssumption DEF Heaps, Kept
<1>3. \A P : Tally(heap, P) \in Nat /\ Tally(u, P) \in Nat /\ Tally(scheduled, P) \in Nat
  BY <1>2, TallyFacts
<1> HIDE DEF u
<1>4. CASE cancelled >= CMC /\ cancelled * 2 > Len(heap)
  <2> DEFINE k == Remaining(heap)
             q == k \o u
             w == Heapify(q)
  <2>1. F = [heap |-> w, cancelled |-> 0]
    BY <1>4 DEF Flushed, u
  <2>2. k \in Seq(Kept) /\ Len(k) <= Len(heap) /\ Tally(k, Dead) = 0 /\ \A t : Tally(k, Due(t)) = Tally(heap, Due(t))
    BY <1>2, RemainingFacts
  <2> HIDE DEF k
  <2>3. q \in Seq(Kept) /\ Len(q) = Len(k) + Len(u) /\ \A P : Tally(q, P) = Tally(k, P) + Tally(u, P)
    BY <1>1, <2>2, ConcatTally
  <2> HIDE DEF q
  <2>4. w \in Heaps(Kept) /\ Same(q, w)
    BY <1>2, <2>3, HeapifyFacts
  <2> HIDE DEF w, F
  <2>5. F.heap = w /\ F.cancelled = 0
    BY <2>1
  <2>6. Len(w) = Len(q) /\ \A P : Tally(w, P) = Tally(q, P)
    BY <2>4 DEF Same
  <2>7. Tally(w, Dead) = 0
    BY <1>1, <2>2, <2>3, <2>6
  <2>8. \A t : Tally(w, Due(t)) = Tally(heap, Due(t)) + Tally(scheduled, Due(t))
    BY <1>1, <2>2, <2>3, <2>6
  <2>9. Len(k) \in Nat
    BY <2>2, SeqHas
  <2>10. Len(w) <= Len(heap) + Len(scheduled)
    BY <1>1, <1>2, <2>2, <2>3, <2>6, <2>9
  <2>11. Counted(F)
    BY <2>4, <2>5, <2>7 DEF Counted
  <2>12. Joins(F, heap, scheduled)
    BY <2>5, <2>8, <2>10 DEF Joins
  <2>13. F.cancelled < CMC
    BY <1>2, <2>5
  <2> QED
    BY <2>11, <2>12, <2>13 DEF F
<1>5. CASE /\ ~ (cancelled >= CMC /\ cancelled * 2 > Len(heap))
           /\ cancelled = Len(heap) /\ u = <<>>
  <2> DEFINE w == <<>>
  <2>1. F = [heap |-> w, cancelled |-> 0]
    BY <1>5 DEF Flushed, u
  <2>2. Len(w) = 0 /\ w \in Seq(Kept)
    OBVIOUS
  <2>3. w \in Heaps(Kept)
    BY <2>2 DEF Heaps, Valid
  <2> HIDE DEF w, F
  <2>4. F.heap = w /\ F.cancelled = 0
    BY <2>1
  <2>5. \A P : Tally(w, P) = 0
    BY <2>2, TallyFacts
  <2>6. \A i \in 1 .. Len(heap) : heap[i] \in Dead
    BY <1>2, <1>5, TallyFacts
  <2>7. ASSUME NEW t PROVE Tally(heap, Due(t)) = 0 /\ Tally(scheduled, Due(t)) = 0
    <3>1. \A i \in 1 .. Len(heap) : heap[i] \notin Due(t)
      BY <2>6 DEF Dead, Due, IsCancelled, Live
    <3>2. u = w
      BY <1>5 DEF w
    <3> QED
      BY <1>1, <1>2, <2>5, <3>1, <3>2, TallyFacts
  <2>8. Counted(F)
    BY <2>3, <2>4, <2>5 DEF Counted
  <2>9. Joins(F, heap, scheduled)
    BY <1>2, <2>2, <2>4, <2>5, <2>7 DEF Joins
  <2>10. F.cancelled < CMC
    BY <1>2, <2>4
  <2> QED
    BY <2>8, <2>9, <2>10 DEF F
<1>6. CASE /\ ~ (cancelled >= CMC /\ cancelled * 2 > Len(heap))
           /\ ~ (cancelled = Len(heap) /\ u = <<>>)
  <2> DEFINE q == heap \o u
             w == Concat(heap, u)
  <2>1. F = [heap |-> w, cancelled |-> cancelled]
    BY <1>6 DEF Flushed, u
  <2>2. q \in Seq(Kept) /\ Len(q) = Len(heap) + Len(u) /\ \A P : Tally(q, P) = Tally(heap, P) + Tally(u, P)
    BY <1>1, <1>2, ConcatTally
  <2>3. w \in Heaps(Kept) /\ Same(q, w)
    BY <1>1, <1>2, ConcatFacts
  <2> HIDE DEF w, q, F
  <2>4. F.heap = w /\ F.cancelled = cancelled
    BY <2>1
  <2>5. Len(w) = Len(heap) + Len(u) /\ \A P : Tally(w, P) = Tally(heap, P) + Tally(u, P)
    BY <2>2, <2>3 DEF Same
  <2>6. Tally(w, Dead) = cancelled
    BY <1>1, <1>3, <2>5
  <2>7. \A t : Tally(w, Due(t)) = Tally(heap, Due(t)) + Tally(scheduled, Due(t))
    BY <1>1, <2>5
  <2>8. Counted(F)
    BY <2>3, <2>4, <2>6 DEF Counted
  <2>9. Joins(F, heap, scheduled)
    <3>1. Len(w) <= Len(heap) + Len(scheduled)
      BY <1>1, <1>2, <2>5
    <3> QED
      BY <2>4, <2>7, <3>1 DEF Joins
  <2>10. F.cancelled < CMC \/ F.cancelled * 2 <= Len(F.heap)
    <3>1. cancelled \in Nat
      BY <1>3
    <3>2. cancelled < CMC \/ cancelled * 2 <= Len(heap)
      BY <1>2, <1>6, <3>1
    <3>3. cancelled < CMC \/ cancelled * 2 <= Len(w)
      BY <1>2, <2>5, <3>1, <3>2
    <3> QED
      BY <2>4, <3>3
  <2> QED
    BY <2>8, <2>9, <2>10 DEF F
<1> QED
  BY <1>4, <1>5, <1>6

\* s has the timers of r, in a heap that is not larger.
Fewer(s, r) == Len(s.heap) <= Len(r.heap) /\ \A t : Tally(s.heap, Due(t)) = Tally(r.heap, Due(t))

\* A cancelled handle at the root is no timer.
LEMMA SkipFacts ==
    ASSUME NEW s, Counted(s), s.heap # <<>>, IsCancelled(s.heap[1])
    PROVE  Counted(Skip(s)) /\ Fewer(Skip(s), s) /\ Len(Skip(s).heap) = Len(s.heap) - 1
<1> DEFINE q == s.heap
           w == Pop(q)
           h == q[1]
           r == Skip(s)
<1>1. q \in Heaps(Kept) /\ q \in Seq(Kept) /\ Len(q) \in Nat /\ 1 \in 1 .. Len(q) /\ Timed(Kept)
  BY Handles, SeqHas DEF Counted, Heaps
<1>2. h \in Dead /\ \A t : h \notin Due(t)
  BY <1>1, SeqHas DEF Kept, Dead, Due, IsCancelled, Live
<1>3. w \in Heaps(Kept) /\ Without(q, h, w)
  BY <1>1, PopFacts
<1>4. r = [heap |-> w, cancelled |-> IF s.cancelled > 0 THEN s.cancelled - 1 ELSE 0]
  BY DEF Skip
<1> HIDE DEF w, h, r
<1>5. r.heap = w /\ r.cancelled = IF s.cancelled > 0 THEN s.cancelled - 1 ELSE 0
  BY <1>4
<1>6. Len(w) = Len(q) - 1 /\ \A P : Tally(q, P) = Tally(w, P) + IF h \in P THEN 1 ELSE 0
  BY <1>3 DEF Without
<1>7. Len(w) \in Nat
  BY <1>3, SeqHas DEF Heaps
<1>8. \A P : Tally(w, P) \in Nat
  BY <1>7, TallyFacts
<1>9. r.cancelled = Tally(w, Dead)
  <2>1. s.cancelled = Tally(w, Dead) + 1 /\ Tally(w, Dead) \in Nat
    BY <1>2, <1>6, <1>8 DEF Counted
  <2> QED
    BY <1>5, <2>1
<1>10. \A t : Tally(w, Due(t)) = Tally(q, Due(t))
  BY <1>2, <1>6, <1>8
<1>11. Len(w) <= Len(q)
  BY <1>1, <1>6
<1> QED
  BY <1>3, <1>5, <1>6, <1>9, <1>10, <1>11 DEF Counted, Fewer, r

SkipStates(s) == {r \in [heap : Heaps(Kept), cancelled : Nat] : Counted(r) /\ Fewer(r, s)}

SkipDone(s) == ~ (s.heap # <<>> /\ IsCancelled(s.heap[1]))

\* A turn of wait_interval keeps the count and the timers; it shortens the heap or is done.
LEMMA SkipStepFacts ==
    ASSUME NEW s, NEW r \in SkipStates(s)
    PROVE  /\ SkipStep(r) \in SkipStates(s)
           /\ SkipDone(r) => SkipStep(r) = r
           /\ ~ SkipDone(r) => Len(SkipStep(r).heap) = Len(r.heap) - 1
<1>1. r \in [heap : Heaps(Kept), cancelled : Nat] /\ Counted(r) /\ Fewer(r, s)
  BY DEF SkipStates
<1>2. CASE SkipDone(r)
  <2>1. SkipStep(r) = r
    BY <1>2 DEF SkipDone, SkipStep
  <2> QED
    BY <1>2, <2>1
<1>3. CASE ~ SkipDone(r)
  <2> DEFINE w == Skip(r)
  <2>1. SkipStep(r) = w
    BY <1>3 DEF SkipDone, SkipStep
  <2>2. Counted(w) /\ Fewer(w, r) /\ Len(w.heap) = Len(r.heap) - 1
    BY <1>1, <1>3, SkipFacts DEF SkipDone
  <2>3. w = [heap |-> w.heap, cancelled |-> w.cancelled]
    BY DEF Skip
  <2> HIDE DEF w
  <2>4. w.heap \in Heaps(Kept) /\ Len(w.heap) \in Nat /\ w.cancelled = Tally(w.heap, Dead)
    BY <2>2, SeqHas DEF Counted, Heaps
  <2>5. w.cancelled \in Nat
    BY <2>4, TallyFacts
  <2>6. Fewer(w, s)
    <3>1. Len(w.heap) <= Len(r.heap) /\ Len(r.heap) <= Len(s.heap) /\ Len(w.heap) = Len(r.heap) - 1
      BY <1>1, <2>2 DEF Fewer
    <3>2. Len(r.heap) \in Nat
      BY <1>1, SeqHas DEF Counted, Heaps
    <3>3. Len(w.heap) <= Len(s.heap)
      BY <1>1, <2>2, <2>4, <3>2 DEF Fewer
    <3> QED
      BY <1>1, <2>2, <3>3 DEF Fewer
  <2>7. w \in SkipStates(s)
    BY <2>2, <2>3, <2>4, <2>5, <2>6 DEF SkipStates
  <2> QED
    BY <1>3, <2>1, <2>2, <2>7
<1> QED
  BY <1>2, <1>3

\* The recursive function of wait_interval has the value its definition gives it.
LEMMA SkipTurnsDef ==
    ASSUME NEW S, NEW s, Len(s.heap) \in Nat, s \in S,
           \A n \in 1 .. Len(s.heap), x \in S : SkipStep(x) \in S
    PROVE  /\ \A n \in 0 .. Len(s.heap) : SkipTurns(s)[n] \in S
           /\ SkipTurns(s)[0] = s
           /\ \A n \in 1 .. Len(s.heap) : SkipTurns(s)[n] = SkipStep(SkipTurns(s)[n - 1])
<1> DEFINE a == s
           N == Len(s.heap)
           Step(n, x) == SkipStep(x)
           F == [n \in 1 .. N |-> [x \in S |-> Step(n, x)]]
<1>1. F \in Loops(N, S) /\ \A x \in S, n \in 1 .. N : F[n][x] = Step(n, x)
  BY DEF Loops
<1>2. a \in S /\ N \in Nat /\ \A n \in 1 .. N, x \in S : Step(n, x) \in S
  OBVIOUS
<1> HIDE DEF a, N, F, Step
<1>3. PICK g : Runs(g, N, S, a, F)
  BY <1>1, <1>2, Iterated
<1>4. g \in [0 .. N -> S] /\ \A n \in 0 .. N : g[n] = IF n = 0 THEN a ELSE Step(n, g[n - 1])
  <2>1. ASSUME NEW n \in 1 .. N PROVE g[n] = Step(n, g[n - 1])
    <3>1. n - 1 \in 0 .. N
      BY <1>2
    <3> QED
      BY <1>1, <1>3, <3>1 DEF Runs
  <2> QED
    BY <1>2, <1>3, <2>1 DEF Runs
<1>5. g = [n \in 0 .. N |-> IF n = 0 THEN a ELSE Step(n, g[n - 1])]
  BY <1>4
<1>6. SkipTurns(s) = [n \in 0 .. N |-> IF n = 0 THEN a ELSE Step(n, SkipTurns(s)[n - 1])]
  BY <1>5, Zenon DEF SkipTurns, a, N, Step
<1> DEFINE t == SkipTurns(s)
<1> HIDE DEF t
<1>7. \A n \in 0 .. N : t[n] = IF n = 0 THEN a ELSE Step(n, t[n - 1])
  BY <1>6 DEF t
<1>8. t[0] = a /\ \A n \in 1 .. N : t[n] = Step(n, t[n - 1])
  BY <1>2, <1>7
<1>9. \A n \in 0 .. N : t[n] \in S
  BY <1>2, <1>8, Stays
<1> QED
  BY <1>8, <1>9 DEF t, a, N, Step

\* wait_interval comes to a timer or to the end of the heap, and loses none.
LEMMA SkipAllFacts ==
    ASSUME NEW s \in [heap : Heaps(Kept), cancelled : Nat], Counted(s)
    PROVE  Counted(SkipAll(s)) /\ Fewer(SkipAll(s), s) /\ SkipDone(SkipAll(s))
<1> DEFINE S == SkipStates(s)
           t == SkipTurns(s)
           n == Len(s.heap)
<1>1. n \in Nat /\ n \in 0 .. n
  BY SeqHas DEF Heaps
<1>2. s \in S
  BY <1>1 DEF SkipStates, Fewer
<1>3. \A r \in S : SkipStep(r) \in S
  BY SkipStepFacts
<1> HIDE DEF S
<1>4. /\ \A k \in 0 .. n : t[k] \in S
      /\ t[0] = s
      /\ \A k \in 1 .. n : t[k] = SkipStep(t[k - 1])
  BY <1>1, <1>2, <1>3, SkipTurnsDef
<1> HIDE DEF t
<1>5. \A r \in S : /\ Counted(r) /\ Fewer(r, s)
                   /\ SkipDone(r) => SkipStep(r) = r
                   /\ ~ SkipDone(r) => Len(SkipStep(r).heap) = Len(r.heap) - 1
  BY SkipStepFacts DEF S, SkipStates
<1>6. \A r \in S : Len(r.heap) \in Nat /\ (Len(r.heap) = 0 => SkipDone(r))
  <2> SUFFICES ASSUME NEW r \in S PROVE Len(r.heap) \in Nat /\ (Len(r.heap) = 0 => SkipDone(r))
    OBVIOUS
  <2>1. r.heap \in Seq(Kept)
    BY <1>5 DEF Counted, Heaps
  <2>2. Len(r.heap) \in Nat /\ (Len(r.heap) = 0 => r.heap = <<>>)
    BY <2>1, EmptySeq
  <2> QED
    BY <2>2 DEF SkipDone
<1> DEFINE T == {k \in 0 .. n : SkipDone(t[k]) \/ Len(t[k].heap) <= n - k}
<1>7. 0 \in T
  BY <1>1, <1>4
<1>8. ASSUME NEW k \in 0 .. n - 1, k \in T PROVE k + 1 \in T
  <2>1. k + 1 \in 1 .. n /\ k + 1 \in 0 .. n /\ (k + 1) - 1 = k /\ k \in 0 .. n
    BY <1>1
  <2>2. t[k] \in S /\ t[k + 1] \in S /\ t[k + 1] = SkipStep(t[k])
    BY <1>4, <2>1
  <2>3. CASE SkipDone(t[k])
    BY <1>5, <2>1, <2>2, <2>3
  <2>4. CASE ~ SkipDone(t[k])
    <3>1. Len(t[k + 1].heap) = Len(t[k].heap) - 1 /\ Len(t[k].heap) <= n - k /\ Len(t[k].heap) \in Nat
      BY <1>5, <1>6, <1>8, <2>2, <2>4
    <3>2. Len(t[k + 1].heap) <= n - (k + 1)
      BY <1>1, <2>1, <3>1
    <3> QED
      BY <2>1, <3>2
  <2> QED
    BY <2>3, <2>4
<1>9. n \in T
  <2> HIDE DEF T
  <2> QED
    BY <1>1, <1>7, <1>8, UpTo
<1>10. t[n] \in S
  BY <1>1, <1>4
<1>11. SkipDone(t[n])
  <2>1. SkipDone(t[n]) \/ Len(t[n].heap) <= n - n
    BY <1>9
  <2>2. Len(t[n].heap) \in Nat /\ n - n = 0
    BY <1>1, <1>6, <1>10
  <2> QED
    BY <1>6, <1>10, <2>1, <2>2
<1>12. SkipAll(s) = t[n]
  BY DEF SkipAll, t
<1> QED
  BY <1>5, <1>10, <1>11, <1>12

-----------------------------------------------------------------------------
(***************************************************************************)
(* The invariant of Timers                                                  *)
(***************************************************************************)

\* The heap is one, and a handle knows whether it is in it.
HandlesInv ==
    heap \in Heaps(Kept) /\ scheduled \in Seq(Free) /\ out \in Seq(Free) /\ Len(out) <= 1

CountInv == cancelled = Tally(heap, Dead) /\ Len(heap) + Len(scheduled) <= MaxHandles

FiresInv == fires \in Seq(Times) /\ inside \in BOOLEAN /\ (inside => fires # <<>>)

TInv == HandlesInv /\ CountInv /\ FiresInv /\ event \in Event

\* What a step can do to a timer.
LEMMA EventsAre ==
    /\ Nothing \in Event
    /\ \A t \in Times : /\ [what |-> "schedule", time |-> t] \in Event
                       /\ [what |-> "cancel", time |-> t] \in Event
    /\ \A t, now \in Times : [what |-> "fire", time |-> t, now |-> now] \in Event
  BY DEF Event

\* What the invariant says of types and lengths.
LEMMA Lengths ==
    ASSUME TInv
    PROVE  /\ Len(heap) \in Nat /\ Len(scheduled) \in Nat /\ MaxHandles \in Nat /\ Timed(Kept)
           /\ heap \in Seq(Kept) /\ heap \in Seq(Handle) /\ scheduled \in Seq(Handle) /\ out \in Seq(Handle)
           /\ \A i \in 1 .. Len(heap) : heap[i] \in Kept
           /\ DOMAIN heap = 1 .. Len(heap) /\ DOMAIN scheduled = 1 .. Len(scheduled) /\ DOMAIN out = 1 .. Len(out)
           /\ \A P : Tally(heap, P) \in Nat /\ Tally(scheduled, P) \in Nat /\ Tally(heap, P) <= Len(heap)
<1>1. heap \in Seq(Kept) /\ scheduled \in Seq(Free) /\ out \in Seq(Free)
  BY DEF TInv, HandlesInv, Heaps
<1>2. Len(heap) \in Nat /\ Len(scheduled) \in Nat /\ MaxHandles \in Nat /\ \A i \in 1 .. Len(heap) : heap[i] \in Kept
  BY <1>1, SeqHas, TimersAssumption
<1>3. DOMAIN heap = 1 .. Len(heap) /\ DOMAIN scheduled = 1 .. Len(scheduled) /\ DOMAIN out = 1 .. Len(out)
  BY <1>1, SeqHas
<1>4. \A P : Tally(heap, P) \in Nat /\ Tally(scheduled, P) \in Nat /\ Tally(heap, P) <= Len(heap)
  BY <1>2, TallyFacts
<1>5. Timed(Kept) /\ heap \in Seq(Handle) /\ scheduled \in Seq(Handle) /\ out \in Seq(Handle)
  BY <1>1, Handles
<1> QED
  BY <1>1, <1>2, <1>3, <1>4, <1>5

\* The invariant holds initially.
LEMMA InitInv == Init => TInv
<1> SUFFICES ASSUME Init PROVE TInv
  OBVIOUS
<1> DEFINE e == <<>>
<1>1. e \in Seq(Kept) /\ e \in Seq(Free) /\ e \in Seq(Times) /\ Len(e) = 0
  OBVIOUS
<1>2. Valid(e)
  BY <1>1 DEF Valid
<1>3. Tally(e, Dead) = 0
  BY <1>1, TallyFacts
<1>4. heap = e /\ scheduled = e /\ out = e /\ fires = e /\ cancelled = 0 /\ inside = FALSE /\ event = Nothing
  BY DEF Init
<1> HIDE DEF e
<1>5. HandlesInv
  BY <1>1, <1>2, <1>4 DEF HandlesInv, Heaps
<1>6. CountInv
  BY <1>1, <1>3, <1>4, TimersAssumption DEF CountInv
<1>7. FiresInv
  BY <1>1, <1>4 DEF FiresInv
<1> QED
  BY <1>4, <1>5, <1>6, <1>7, EventsAre DEF TInv

\* schedule adds one timer.
LEMMA ScheduleStep ==
    ASSUME TInv, NEW t \in Times, Schedule(t)
    PROVE  /\ TInv' /\ heap' = heap /\ event' = [what |-> "schedule", time |-> t]
           /\ \A u : Tally(scheduled', Due(u)) = Tally(scheduled, Due(u)) + IF u = t THEN 1 ELSE 0
<1> DEFINE h == [time |-> t, block |-> TRUE, timers |-> FALSE]
<1>1. /\ scheduled' = Append(scheduled, h) /\ UNCHANGED <<heap, cancelled, out, fires, inside>>
      /\ event' = [what |-> "schedule", time |-> t]
  BY DEF Schedule
<1>2. h \in Handle /\ h \in Free /\ \A u : h \in Due(u) <=> u = t
  BY DEF Handle, Free, Due, Live
<1> HIDE DEF h
<1>3. scheduled' \in Seq(Free) /\ Len(scheduled') = Len(scheduled) + 1
  BY <1>1, <1>2, AppendTally DEF TInv, HandlesInv
<1>4. \A P : Tally(scheduled', P) = Tally(scheduled, P) + IF h \in P THEN 1 ELSE 0
  BY <1>1, <1>2, AppendTally DEF TInv, HandlesInv
<1>5. HandlesInv' /\ FiresInv'
  BY <1>1, <1>3 DEF TInv, HandlesInv, FiresInv
<1>6. CountInv'
  <2>1. Len(heap) + Len(scheduled) < MaxHandles
    BY DEF Schedule
  <2>2. Len(heap) + (Len(scheduled) + 1) <= MaxHandles
    BY <2>1, Lengths
  <2> QED
    BY <1>1, <1>3, <2>2 DEF TInv, CountInv
<1>7. event' \in Event
  BY <1>1, EventsAre
<1> QED
  BY <1>1, <1>2, <1>4, <1>5, <1>6, <1>7 DEF TInv

\* One timer of time t less, as the abstract specification has it.
Loses(s, r, t) ==
    /\ Tally(s, Due(t)) > 0
    /\ \A u : Tally(r, Due(u)) = IF u = t THEN Tally(s, Due(u)) - 1 ELSE Tally(s, Due(u))

\* One that has been cancelled, where it was.
CancelSeen(t) ==
    /\ event' = [what |-> "cancel", time |-> t]
    /\ \/ Loses(heap, heap', t) /\ scheduled' = scheduled
       \/ Loses(scheduled, scheduled', t) /\ heap' = heap

\* cancel! of a handle with its block takes one timer away.
LEMMA CancellingLoses ==
    ASSUME NEW s \in Seq(Handle), NEW i \in 1 .. Len(s), Live(s[i])
    PROVE  s[i].time \in Times /\ Loses(s, Cancelling(s, i), s[i].time)
<1> DEFINE t == s[i].time
<1>1. s[i] \in Handle /\ Len(s) \in Nat
  BY SeqHas
<1>2. t \in Times /\ s[i] \in Due(t)
  BY <1>1, Handles DEF Due
<1>3. Tally(s, Due(t)) \in Nat /\ Tally(s, Due(t)) # 0
  BY <1>1, <1>2, TallyFacts
<1>4. \A u : Tally(Cancelling(s, i), Due(u)) = IF u = t THEN Tally(s, Due(u)) - 1 ELSE Tally(s, Due(u))
  BY CancellingFacts
<1> HIDE DEF t
<1>5. Tally(s, Due(t)) > 0
  BY <1>3
<1> QED
  BY <1>2, <1>4, <1>5 DEF Loses, t

\* cancel! keeps the invariant: in the heap it counts, elsewhere it does not, and on a
\* handle that has been taken out it does nothing to a timer.
LEMMA CancelStep ==
    ASSUME TInv, Cancel
    PROVE  /\ TInv'
           /\ \/ \E t \in Times : CancelSeen(t)
              \/ event' = Nothing /\ UNCHANGED <<heap, scheduled>>
<1>1. UNCHANGED <<fires, inside>>
  BY DEF Cancel
<1>2. FiresInv'
  BY <1>1 DEF TInv, FiresInv
<1>3. ASSUME NEW i \in DOMAIN heap, Live(heap[i]), heap' = Cancelling(heap, i),
             cancelled' = cancelled + CancelCount(heap[i]), UNCHANGED <<scheduled, out>>,
             event' = [what |-> "cancel", time |-> heap[i].time]
      PROVE  TInv' /\ \E t \in Times : CancelSeen(t)
  <2>1. i \in 1 .. Len(heap) /\ heap \in Seq(Handle) /\ heap[i] \in Kept /\ heap \in Heaps(Kept)
    BY Lengths DEF TInv, HandlesInv
  <2>2. heap' \in Heaps(Kept) /\ Len(heap') = Len(heap) /\ Tally(heap', Dead) = Tally(heap, Dead) + 1
    BY <1>3, <2>1, CancellingFacts
  <2>3. CancelCount(heap[i]) = 1
    BY <1>3, <2>1 DEF Kept, Live, CancelCount
  <2>4. HandlesInv'
    BY <1>3, <2>2 DEF TInv, HandlesInv
  <2>5. CountInv'
    BY <1>3, <2>2, <2>3 DEF TInv, CountInv
  <2>6. heap[i].time \in Times /\ Loses(heap, heap', heap[i].time)
    BY <1>3, <2>1, CancellingLoses
  <2>7. event' \in Event
    BY <1>3, <2>6, EventsAre
  <2>8. CancelSeen(heap[i].time)
    BY <1>3, <2>6 DEF CancelSeen
  <2> QED
    BY <1>2, <2>4, <2>5, <2>6, <2>7, <2>8 DEF TInv
<1>4. ASSUME NEW i \in DOMAIN scheduled, Live(scheduled[i]), scheduled' = Cancelling(scheduled, i),
             cancelled' = cancelled + CancelCount(scheduled[i]), UNCHANGED <<heap, out>>,
             event' = [what |-> "cancel", time |-> scheduled[i].time]
      PROVE  TInv' /\ \E t \in Times : CancelSeen(t)
  <2>1. i \in 1 .. Len(scheduled) /\ scheduled \in Seq(Handle) /\ scheduled \in Seq(Free)
    BY Lengths DEF TInv, HandlesInv
  <2>2. scheduled' \in Seq(Free) /\ Len(scheduled') = Len(scheduled)
    BY <1>4, <2>1, CancellingFacts
  <2>3. scheduled[i] \in Free
    BY <2>1, SeqHas
  <2>4. CancelCount(scheduled[i]) = 0 /\ cancelled \in Nat
    BY <2>3, Lengths DEF Free, CancelCount, TInv, CountInv
  <2>5. cancelled' = cancelled
    BY <1>4, <2>4
  <2>6. HandlesInv'
    BY <1>4, <2>2 DEF TInv, HandlesInv
  <2>7. CountInv'
    BY <1>4, <2>2, <2>5 DEF TInv, CountInv
  <2>8. scheduled[i].time \in Times /\ Loses(scheduled, scheduled', scheduled[i].time)
    BY <1>4, <2>1, CancellingLoses
  <2>9. event' \in Event
    BY <1>4, <2>8, EventsAre
  <2>10. CancelSeen(scheduled[i].time)
    BY <1>4, <2>8 DEF CancelSeen
  <2> QED
    BY <1>2, <2>6, <2>7, <2>8, <2>9, <2>10 DEF TInv
<1>5. ASSUME NEW i \in DOMAIN out, Live(out[i]), out' = Cancelling(out, i),
             cancelled' = cancelled + CancelCount(out[i]), UNCHANGED <<heap, scheduled>>, event' = Nothing
      PROVE  TInv' /\ event' = Nothing /\ UNCHANGED <<heap, scheduled>>
  <2>1. i \in 1 .. Len(out) /\ out \in Seq(Handle) /\ out \in Seq(Free) /\ Len(out) <= 1
    BY Lengths DEF TInv, HandlesInv
  <2>2. out' \in Seq(Free) /\ Len(out') = Len(out)
    BY <1>5, <2>1, CancellingFacts
  <2>3. out[i] \in Free
    BY <2>1, SeqHas
  <2>4. CancelCount(out[i]) = 0 /\ cancelled \in Nat
    BY <2>3, Lengths DEF Free, CancelCount, TInv, CountInv
  <2>5. cancelled' = cancelled
    BY <1>5, <2>4
  <2>6. HandlesInv'
    BY <1>5, <2>1, <2>2 DEF TInv, HandlesInv
  <2>7. CountInv'
    BY <1>5, <2>5 DEF TInv, CountInv
  <2> QED
    BY <1>2, <1>5, <2>6, <2>7, EventsAre DEF TInv
<1> QED
  BY <1>3, <1>4, <1>5 DEF Cancel

\* Every timer that was scheduled is in the heap now, and nothing else is done to one.
Looked ==
    /\ event' = Nothing
    /\ \A t : /\ Tally(heap', Due(t)) = Tally(heap, Due(t)) + Tally(scheduled, Due(t))
              /\ Tally(scheduled', Due(t)) = 0

\* What flush! and wait_interval assign keeps the invariant.
LEMMA BecomeStep ==
    ASSUME TInv, NEW s, Counted(s), Joins(s, heap, scheduled), Become(s), UNCHANGED out
    PROVE  HandlesInv' /\ CountInv' /\ event' \in Event /\ Looked
<1>1. scheduled' = <<>> /\ heap' = s.heap /\ cancelled' = s.cancelled /\ event' = Nothing
  BY DEF Become
<1>2. <<>> \in Seq(Free) /\ Len(<<>>) = 0
  OBVIOUS
<1>3. scheduled' \in Seq(Free) /\ Len(scheduled') = 0
  BY <1>1, <1>2
<1>4. \A P : Tally(scheduled', P) = 0
  BY <1>3, TallyFacts
<1>5. heap' \in Heaps(Kept) /\ cancelled' = Tally(heap', Dead) /\ Len(heap') \in Nat
  BY <1>1, SeqHas DEF Counted, Heaps
<1>6. Len(heap') <= Len(heap) + Len(scheduled)
  BY <1>1 DEF Joins
<1>7. HandlesInv'
  BY <1>3, <1>5 DEF TInv, HandlesInv
<1>8. CountInv'
  <2>1. Len(heap) + Len(scheduled) <= MaxHandles
    BY DEF TInv, CountInv
  <2>2. Len(heap') + Len(scheduled') <= MaxHandles
    BY <1>3, <1>5, <1>6, <2>1, Lengths
  <2> QED
    BY <1>5, <2>2, TimersAssumption DEF CountInv
<1>9. Looked
  BY <1>1, <1>4 DEF Looked, Joins
<1>10. event' \in Event
  BY <1>1, EventsAre
<1> QED
  BY <1>7, <1>8, <1>9, <1>10

\* FlushedFacts in a state of the invariant.
LEMMA FlushedCounted ==
    ASSUME TInv
    PROVE  /\ Counted(Flushed) /\ Joins(Flushed, heap, scheduled)
           /\ Flushed \in [heap : Heaps(Kept), cancelled : Nat]
           /\ Flushed.cancelled < COMPACT_MINIMUM_COUNT \/ Flushed.cancelled * 2 <= Len(Flushed.heap)
<1> DEFINE F == Flushed
<1>1. /\ Counted(F) /\ Joins(F, heap, scheduled)
      /\ F.cancelled < COMPACT_MINIMUM_COUNT \/ F.cancelled * 2 <= Len(F.heap)
  BY FlushedFacts DEF TInv, HandlesInv, CountInv
<1>2. F = [heap |-> F.heap, cancelled |-> F.cancelled]
  BY DEF Flushed
<1> HIDE DEF F
<1>3. F.heap \in Heaps(Kept) /\ Len(F.heap) \in Nat /\ F.cancelled = Tally(F.heap, Dead)
  BY <1>1, SeqHas DEF Counted, Heaps
<1>4. F.cancelled \in Nat
  BY <1>3, TallyFacts
<1>5. F \in [heap : Heaps(Kept), cancelled : Nat]
  BY <1>2, <1>3, <1>4
<1> QED
  BY <1>1, <1>5 DEF F

\* size keeps the invariant and brings every scheduled timer into the heap.
LEMMA SizeStep ==
    ASSUME TInv, Size
    PROVE  TInv' /\ Looked
<1>1. Become(Flushed) /\ UNCHANGED <<out, fires, inside>>
  BY DEF Size
<1>2. HandlesInv' /\ CountInv' /\ event' \in Event /\ Looked
  BY <1>1, FlushedCounted, BecomeStep
<1>3. FiresInv'
  BY <1>1 DEF TInv, FiresInv
<1> QED
  BY <1>2, <1>3 DEF TInv

\* wait_interval does too, and leaves a timer at the root.
LEMMA WaitIntervalStep ==
    ASSUME TInv, WaitInterval
    PROVE  TInv' /\ Looked /\ (heap' # <<>> => Live(heap'[1]))
<1> DEFINE F == Flushed
           s == SkipAll(F)
<1>1. Become(s) /\ UNCHANGED <<out, fires, inside>>
  BY DEF WaitInterval
<1>2. Counted(F) /\ Joins(F, heap, scheduled) /\ F \in [heap : Heaps(Kept), cancelled : Nat]
  BY FlushedCounted
<1> HIDE DEF F
<1>3. Counted(s) /\ Fewer(s, F) /\ SkipDone(s)
  BY <1>2, SkipAllFacts
<1> HIDE DEF s
<1>4. Joins(s, heap, scheduled)
  <2>1. Len(s.heap) <= Len(F.heap) /\ Len(F.heap) <= Len(heap) + Len(scheduled)
    BY <1>2, <1>3 DEF Fewer, Joins
  <2>2. Len(s.heap) \in Nat /\ Len(F.heap) \in Nat
    BY <1>2, <1>3, SeqHas DEF Counted, Heaps
  <2>3. Len(s.heap) <= Len(heap) + Len(scheduled)
    BY <2>1, <2>2, Lengths
  <2> QED
    BY <1>2, <1>3, <2>3 DEF Fewer, Joins
<1>5. HandlesInv' /\ CountInv' /\ event' \in Event /\ Looked
  BY <1>1, <1>3, <1>4, BecomeStep
<1>6. FiresInv'
  BY <1>1 DEF TInv, FiresInv
<1>7. heap' # <<>> => Live(heap'[1])
  BY <1>1, <1>3 DEF Become, SkipDone, IsCancelled, Live
<1> QED
  BY <1>5, <1>6, <1>7 DEF TInv

\* fire does too, when it begins.
LEMMA FireBeginStep ==
    ASSUME TInv, NEW t \in Times, FireBegin(t)
    PROVE  TInv' /\ Looked
<1>1. Become(Flushed) /\ UNCHANGED out /\ fires' = Append(fires, t) /\ inside' = TRUE
  BY DEF FireBegin
<1>2. HandlesInv' /\ CountInv' /\ event' \in Event /\ Looked
  BY <1>1, FlushedCounted, BecomeStep
<1>3. FiresInv'
  <2>1. fires' \in Seq(Times) /\ Len(fires') = Len(fires) + 1 /\ Len(fires) \in Nat
    BY <1>1 DEF TInv, FiresInv
  <2>2. fires' # <<>>
    BY <2>1
  <2> QED
    BY <1>1, <2>1, <2>2 DEF FiresInv
<1> QED
  BY <1>2, <1>3 DEF TInv

\* fire drops a cancelled handle and no timer.
LEMMA FireSkipStep ==
    ASSUME TInv, FireSkip
    PROVE  /\ TInv' /\ event' = Nothing /\ scheduled' = scheduled
           /\ \A u : Tally(heap', Due(u)) = Tally(heap, Due(u))
<1> DEFINE s == State
           r == Skip(s)
<1>1. /\ heap # <<>> /\ IsCancelled(heap[1]) /\ heap' = r.heap /\ cancelled' = r.cancelled
      /\ event' = Nothing /\ UNCHANGED <<scheduled, out, fires, inside>>
  BY DEF FireSkip
<1>2. s.heap = heap /\ s.cancelled = cancelled
  BY DEF State
<1> HIDE DEF s
<1>3. Counted(s)
  BY <1>2 DEF Counted, TInv, HandlesInv, CountInv
<1>4. Counted(r) /\ Fewer(r, s)
  BY <1>1, <1>2, <1>3, SkipFacts
<1> HIDE DEF r
<1>5. /\ heap' \in Heaps(Kept) /\ cancelled' = Tally(heap', Dead) /\ Len(heap') <= Len(heap)
      /\ \A u : Tally(heap', Due(u)) = Tally(heap, Due(u))
  BY <1>1, <1>2, <1>4 DEF Counted, Fewer
<1>6. Len(heap') \in Nat
  BY <1>5, SeqHas DEF Heaps
<1>7. HandlesInv' /\ FiresInv'
  BY <1>1, <1>5 DEF TInv, HandlesInv, FiresInv
<1>8. CountInv'
  <2>1. Len(heap) + Len(scheduled) <= MaxHandles /\ scheduled' = scheduled
    BY <1>1 DEF TInv, CountInv
  <2>2. Len(heap') + Len(scheduled) <= MaxHandles
    BY <1>5, <1>6, <2>1, Lengths
  <2> QED
    BY <1>5, <2>1, <2>2 DEF CountInv
<1> QED
  BY <1>1, <1>5, <1>7, <1>8, EventsAre DEF TInv

\* fire takes the earliest timer of the heap, which is due, and calls it.
LEMMA FireCallStep ==
    ASSUME TInv, FireCall
    PROVE  /\ TInv' /\ scheduled' = scheduled
           /\ \E t, now \in Times :
                 /\ event' = [what |-> "fire", time |-> t, now |-> now]
                 /\ t <= now
                 /\ \A u \in Times : u < t => Tally(heap, Due(u)) = 0
                 /\ Loses(heap, heap', t)
<1> DEFINE h == heap[1]
           t == h.time
           now == Last(fires)
<1>1. /\ heap # <<>> /\ Live(h) /\ heap' = Pop(heap) /\ out' = <<Removed(h)>> /\ inside' = FALSE
      /\ t <= now /\ event' = [what |-> "fire", time |-> t, now |-> now]
      /\ UNCHANGED <<scheduled, cancelled, fires>>
  BY DEF FireCall
<1>2. /\ heap \in Heaps(Kept) /\ heap \in Seq(Kept) /\ Timed(Kept) /\ Len(heap) \in Nat
      /\ \A i \in 1 .. Len(heap) : heap[i] \in Kept /\ heap[i] \in Handle /\ heap[i].time \in Nat
  BY Lengths, Handles DEF TInv, HandlesInv, Kept, Timed
<1>3. 1 \in 1 .. Len(heap)
  BY <1>1, <1>2
<1>4. h \in Kept /\ h \in Handle /\ t \in Times /\ t \in Nat
  BY <1>2, <1>3, Handles
<1>5. h \notin Dead /\ \A u : h \in Due(u) <=> u = t
  BY <1>1, <1>4 DEF Dead, Due, IsCancelled, Live
<1>6. heap' \in Heaps(Kept) /\ Without(heap, h, heap')
  BY <1>1, <1>2, PopFacts
<1>7. Len(heap') \in Nat
  BY <1>6, SeqHas DEF Heaps
<1>8. /\ Len(heap') = Len(heap) - 1
      /\ \A P : Tally(heap', P) \in Nat /\ Tally(heap, P) = Tally(heap', P) + IF h \in P THEN 1 ELSE 0
  BY <1>6, <1>7, TallyFacts DEF Without
<1>9. HandlesInv'
  <2> DEFINE r == Removed(h)
  <2>1. r = [time |-> h.time, block |-> h.block, timers |-> FALSE]
    BY <1>4, WithTimers, Zenon DEF Removed
  <2> HIDE DEF r
  <2>2. r \in Free
    BY <1>4, <2>1, Handles DEF Free, Handle
  <2>3. <<r>> \in Seq(Free) /\ Len(<<r>>) = 1
    BY <2>2
  <2> QED
    BY <1>1, <1>6, <2>3 DEF TInv, HandlesInv, r
<1>10. CountInv'
  <2>1. Tally(heap', Dead) = Tally(heap, Dead)
    BY <1>5, <1>8
  <2>2. Len(heap) + Len(scheduled) <= MaxHandles
    BY DEF TInv, CountInv
  <2>3. Len(heap') + Len(scheduled) <= MaxHandles
    BY <1>7, <1>8, <2>2, Lengths
  <2> QED
    BY <1>1, <2>1, <2>3 DEF TInv, CountInv
<1>11. FiresInv'
  BY <1>1 DEF TInv, FiresInv
<1>12. Tally(heap, Due(t)) > 0
  <2>1. Tally(heap, Due(t)) = Tally(heap', Due(t)) + 1 /\ Tally(heap', Due(t)) \in Nat
    BY <1>5, <1>8
  <2> QED
    BY <2>1
<1>13. ASSUME NEW u \in Times, u < t PROVE Tally(heap, Due(u)) = 0
  <2>1. \A i \in 1 .. Len(heap) : t <= heap[i].time
    BY <1>2, RootMin
  <2>2. ASSUME NEW i \in 1 .. Len(heap) PROVE heap[i] \notin Due(u)
    <3>1. heap[i].time \in Nat /\ t <= heap[i].time /\ u \in Nat
      BY <1>2, <2>1, TimersAssumption
    <3>2. heap[i].time # u
      BY <1>4, <1>13, <3>1
    <3> QED
      BY <3>2 DEF Due
  <2> QED
    BY <1>2, <2>2, TallyFacts
<1>14. \A u : Tally(heap', Due(u)) = IF u = t THEN Tally(heap, Due(u)) - 1 ELSE Tally(heap, Due(u))
  BY <1>5, <1>8
<1>15. now \in Times
  <2>1. fires \in Seq(Times) /\ fires # <<>>
    BY DEF FireCall, TInv, FiresInv
  <2>2. Len(fires) \in Nat /\ Len(fires) > 0
    BY <2>1
  <2> QED
    BY <2>1, <2>2, FrontFacts
<1>16. Loses(heap, heap', t)
  BY <1>12, <1>14 DEF Loses
<1> HIDE DEF t, now
<1>17. event' \in Event
  BY <1>1, <1>4, <1>15, EventsAre
<1> QED
  BY <1>1, <1>4, <1>9, <1>10, <1>11, <1>13, <1>15, <1>16, <1>17 DEF TInv

\* Blocks that return or raise and the end of fire keep the invariant.
LEMMA BlockStep ==
    ASSUME TInv, BlockReturns \/ BlockRaises \/ FireEnd
    PROVE  TInv' /\ event' = Nothing /\ heap' = heap /\ scheduled' = scheduled
<1>1. event' = Nothing /\ UNCHANGED <<heap, scheduled, cancelled, out>>
  BY DEF BlockReturns, BlockRaises, FireEnd
<1>2. HandlesInv' /\ CountInv'
  BY <1>1 DEF TInv, HandlesInv, CountInv
<1>3. fires \in Seq(Times) /\ fires # <<>>
  BY DEF BlockReturns, BlockRaises, FireEnd, TInv, FiresInv
<1>4. Len(fires) \in Nat /\ Len(fires) > 0
  BY <1>3
<1>5. Front(fires) \in Seq(Times)
  BY <1>3, <1>4, FrontFacts
<1>6. FiresInv'
  <2>1. CASE BlockReturns
    BY <1>3, <2>1 DEF BlockReturns, FiresInv
  <2>2. CASE BlockRaises \/ FireEnd
    <3>1. fires' = Front(fires) /\ inside' = FALSE
      BY <2>2 DEF BlockRaises, FireEnd, TInv, FiresInv
    <3> QED
      BY <1>5, <3>1 DEF FiresInv
  <2> QED
    BY <2>1, <2>2
<1> QED
  BY <1>1, <1>2, <1>6, EventsAre DEF TInv

\* Every step keeps the invariant.
LEMMA NextInv == TInv /\ [Next]_vars => TInv'
<1> SUFFICES ASSUME TInv, [Next]_vars PROVE TInv'
  OBVIOUS
<1>1. CASE Cancel
  BY <1>1, CancelStep
<1>2. CASE Size
  BY <1>2, SizeStep
<1>3. CASE WaitInterval
  BY <1>3, WaitIntervalStep
<1>4. CASE FireSkip
  BY <1>4, FireSkipStep
<1>5. CASE FireCall
  BY <1>5, FireCallStep
<1>6. CASE BlockReturns \/ BlockRaises \/ FireEnd
  BY <1>6, BlockStep
<1>7. ASSUME NEW t \in Times, Schedule(t) PROVE TInv'
  BY <1>7, ScheduleStep
<1>8. ASSUME NEW t \in Times, FireBegin(t) PROVE TInv'
  BY <1>8, FireBeginStep
<1>9. CASE UNCHANGED vars
  BY <1>9 DEF vars, TInv, HandlesInv, CountInv, FiresInv
<1> QED
  BY <1>1, <1>2, <1>3, <1>4, <1>5, <1>6, <1>7, <1>8, <1>9 DEF Next

\* The inductive invariant of Timers.
LEMMA Inductive == Spec => []TInv
  BY InitInv, NextInv, PTL DEF Spec

-----------------------------------------------------------------------------
(***************************************************************************)
(* Theorems                                                                 *)
(***************************************************************************)

\* Every variable of Timers keeps its type; @cancelled is never more than the handles.
THEOREM TypeCorrect == Spec => []TypeOK
<1>1. TInv => TypeOK
  <2> SUFFICES ASSUME TInv PROVE TypeOK
    OBVIOUS
  <2>1. heap \in Seq(Handle) /\ scheduled \in Seq(Handle) /\ out \in Seq(Handle) /\ Len(out) <= 1
    BY Lengths DEF TInv, HandlesInv
  <2>2. cancelled \in Nat /\ cancelled <= Len(heap) /\ Len(heap) + Len(scheduled) <= MaxHandles
    BY Lengths DEF TInv, CountInv
  <2>3. cancelled \in 0 .. MaxHandles
    BY <2>2, Lengths
  <2> QED
    BY <2>1, <2>3 DEF TypeOK, TInv, FiresInv
<1> QED
  BY <1>1, Inductive, PTL

\* @cancelled is the number of cancelled handles in the heap, wherever handles are
\* cancelled and whichever way flush!, wait_interval and fire take.
THEOREM CountedRight == Spec => []CancelledCounted
<1>1. TInv => CancelledCounted
  BY Lengths, Measured DEF TInv, CountInv, CancelledCounted
<1> QED
  BY <1>1, Inductive, PTL

\* A flush leaves few cancelled handles in the heap, or no more than half of it.
THEOREM RetentionIsBounded == Spec => RetentionBounded
<1>1. ASSUME TInv, TInv', Size
      PROVE  Retained(heap') < COMPACT_MINIMUM_COUNT \/ Retained(heap') * 2 <= Len(heap')
  <2>1. heap' = Flushed.heap /\ cancelled' = Flushed.cancelled
    BY <1>1 DEF Size, Become
  <2>2. cancelled' = Tally(heap', Dead) /\ heap' \in Seq(Kept)
    BY <1>1 DEF TInv, HandlesInv, CountInv, Heaps
  <2>3. Retained(heap') = cancelled'
    BY <2>2, Handles, Measured
  <2>4. cancelled' < COMPACT_MINIMUM_COUNT \/ cancelled' * 2 <= Len(heap')
    BY <1>1, <2>1, FlushedCounted
  <2> QED
    BY <2>3, <2>4
<1>2. TInv /\ TInv' /\ [Next]_vars =>
        [Size => Retained(heap') < COMPACT_MINIMUM_COUNT \/ Retained(heap') * 2 <= Len(heap')]_vars
  BY <1>1
<1>3. Spec => [][Next]_vars
  BY PTL DEF Spec
<1> QED
  BY <1>2, <1>3, Inductive, PTL DEF RetentionBounded

\* fire ends when no timer in the heap is due, and wait_interval finds the earliest timer,
\* which is not a cancelled one.
THEOREM EarliestIsFound == Spec => EarliestFound
<1> DEFINE Ended == FireEnd => \A i \in DOMAIN heap : Live(heap[i]) => heap[i].time > Last(fires)
           Found == WaitInterval => \A h \in Range(heap \o scheduled) :
                                        Live(h) => heap' # <<>> /\ heap'[1].time <= h.time
           Alive == WaitInterval => (heap' # <<>> => Live(heap'[1]))
<1>1. TInv => Ended
  <2> SUFFICES ASSUME TInv, FireEnd, NEW i \in DOMAIN heap PROVE heap[i].time > Last(fires)
    OBVIOUS
  <2>1. i \in 1 .. Len(heap) /\ 1 \in 1 .. Len(heap) /\ heap \in Heaps(Kept) /\ Timed(Kept)
        /\ heap[1] \in Kept /\ heap[i] \in Kept
    BY Lengths DEF TInv, HandlesInv
  <2>2. heap[1].time <= heap[i].time /\ heap[1].time \in Nat /\ heap[i].time \in Nat
    BY <2>1, RootMin DEF Timed
  <2>3. heap # <<>>
    BY <2>1
  <2>4. heap[1].time > Last(fires) /\ fires \in Seq(Times) /\ fires # <<>>
    BY <2>3 DEF FireEnd, TInv, FiresInv
  <2>5. Len(fires) \in Nat /\ Len(fires) > 0
    BY <2>4
  <2>6. Last(fires) \in Nat
    BY <2>4, <2>5, FrontFacts, TimersAssumption
  <2> QED
    BY <2>2, <2>4, <2>6
<1>2. TInv /\ TInv' => Found
  <2> SUFFICES ASSUME TInv, TInv', WaitInterval, NEW h \in Range(heap \o scheduled), Live(h)
               PROVE  heap' # <<>> /\ heap'[1].time <= h.time
    OBVIOUS
  <2> DEFINE q == heap \o scheduled
             t == h.time
  <2>1. q \in Seq(Handle) /\ \A P : Tally(q, P) = Tally(heap, P) + Tally(scheduled, P)
    BY Lengths, ConcatTally
  <2>2. Len(q) \in Nat /\ DOMAIN q = 1 .. Len(q) /\ \A k \in 1 .. Len(q) : q[k] \in Handle
    BY <2>1, SeqHas
  <2>3. PICK k \in 1 .. Len(q) : q[k] = h
    BY <2>2 DEF Range
  <2>4. h \in Due(t)
    BY <2>2, <2>3 DEF Due
  <2>5. Tally(q, Due(t)) # 0
    BY <2>2, <2>3, <2>4, TallyFacts
  <2>6. Tally(heap', Due(t)) # 0
    BY <2>1, <2>5, WaitIntervalStep DEF Looked
  <2>7. heap' \in Heaps(Kept) /\ heap' \in Seq(Kept) /\ Timed(Kept) /\ Len(heap') \in Nat
    BY Handles, SeqHas DEF TInv, HandlesInv, Heaps
  <2>8. PICK j \in 1 .. Len(heap') : heap'[j] \in Due(t)
    BY <2>6, <2>7, TallyFacts
  <2>9. heap'[1].time <= heap'[j].time /\ heap'[j].time = t
    BY <2>7, <2>8, RootMin DEF Due
  <2>10. heap' # <<>>
    BY <2>7, <2>8
  <2> QED
    BY <2>9, <2>10
<1>3. TInv => Alive
  BY WaitIntervalStep
<1> HIDE DEF Ended, Found, Alive
<1>4. Spec => [][Next]_vars
  BY PTL DEF Spec
<1>5. Spec => [][Ended]_vars /\ [][Found]_vars /\ [][Alive]_vars
  BY <1>1, <1>2, <1>3, <1>4, Inductive, PTL
<1> QED
  BY <1>5 DEF EarliestFound, Ended, Found, Alive

\* The elements of a sequence are what its tallies say.
LEMMA ElementsAre ==
    ASSUME NEW E, NEW s \in Seq(E)
    PROVE  /\ \A e : e \in Range(s) <=> Tally(s, {e}) # 0
           /\ Elements(s) = [e \in Range(s) |-> Tally(s, {e})]
<1>1. Len(s) \in Nat /\ DOMAIN s = 1 .. Len(s)
  BY SeqHas
<1>2. \A e : e \in Range(s) <=> \E i \in 1 .. Len(s) : s[i] = e
  BY <1>1 DEF Range
<1>3. \A e : Tally(s, {e}) = 0 <=> \A i \in 1 .. Len(s) : s[i] # e
  <2> SUFFICES ASSUME NEW e PROVE Tally(s, {e}) = 0 <=> \A i \in 1 .. Len(s) : s[i] # e
    OBVIOUS
  <2>1. Tally(s, {e}) = 0 <=> \A i \in 1 .. Len(s) : s[i] \notin {e}
    BY <1>1, TallyFacts
  <2> QED
    BY <2>1
<1>4. \A e : {i \in DOMAIN s : s[i] = e} = Places(s, {e})
  BY <1>1 DEF Places
<1>5. Elements(s) = [e \in Range(s) |-> Tally(s, {e})]
  BY <1>4 DEF Elements, Tally
<1> QED
  BY <1>2, <1>3, <1>5

\* Sequences with the same tallies have the same elements.
LEMMA SameElements ==
    ASSUME NEW E, NEW s \in Seq(E), NEW r \in Seq(E), \A P : Tally(r, P) = Tally(s, P)
    PROVE  Elements(r) = Elements(s)
<1>1. /\ \A e : e \in Range(s) <=> Tally(s, {e}) # 0
      /\ Elements(s) = [e \in Range(s) |-> Tally(s, {e})]
  BY ElementsAre
<1>2. /\ \A e : e \in Range(r) <=> Tally(r, {e}) # 0
      /\ Elements(r) = [e \in Range(r) |-> Tally(r, {e})]
  BY ElementsAre
<1>3. Range(r) = Range(s)
  BY <1>1, <1>2
<1> QED
  BY <1>1, <1>2, <1>3

\* The heap stays one, and delete and delete_if of it take out what they are asked to and
\* nothing else, and leave one.
THEOREM DeletesRight == Spec => []DeletesExactly
<1>1. ASSUME TInv, NEW i \in DOMAIN heap
      PROVE  Valid(Delete(heap, i)) /\ Elements(Append(Delete(heap, i), heap[i])) = Elements(heap)
  <2> DEFINE d == Delete(heap, i)
             r == Append(d, heap[i])
  <2>1. i \in 1 .. Len(heap) /\ heap[i] \in Kept /\ heap \in Heaps(Kept) /\ heap \in Seq(Kept) /\ Timed(Kept)
    BY <1>1, Lengths DEF TInv, HandlesInv
  <2>2. d \in Heaps(Kept) /\ Without(heap, heap[i], d)
    BY <2>1, DeleteFacts
  <2> HIDE DEF d
  <2>3. r \in Seq(Kept) /\ \A P : Tally(r, P) = Tally(d, P) + IF heap[i] \in P THEN 1 ELSE 0
    BY <2>1, <2>2, AppendTally DEF Heaps
  <2> HIDE DEF r
  <2>4. \A P : Tally(r, P) = Tally(heap, P)
    BY <2>2, <2>3 DEF Without
  <2>5. Elements(r) = Elements(heap)
    BY <2>1, <2>3, <2>4, SameElements
  <2> QED
    BY <2>2, <2>5 DEF Heaps, d, r
<1> DEFINE R == {h \in Range(heap) : IsCancelled(h)}
           D == {h \in Range(heap) : Live(h)}
           kept == DeleteIf(heap, R)
<1>2. ASSUME TInv
      PROVE  Valid(kept) /\ Elements(kept) = [h \in D |-> Elements(heap)[h]]
  <2>1. heap \in Heaps(Kept) /\ heap \in Seq(Kept) /\ Timed(Kept)
    BY <1>2, Lengths DEF TInv, HandlesInv
  <2>2. \A h : h \in R <=> h \in Range(heap) /\ IsCancelled(h)
    OBVIOUS
  <2>3. \A h : h \in D <=> h \in Range(heap) /\ h \notin R
    BY DEF IsCancelled, Live
  <2> HIDE DEF R, D
  <2>4. kept \in Heaps(Kept) /\ kept \in Seq(Kept) /\ \A P : Tally(kept, P) = Tally(heap, P \ R)
    BY <2>1, DeleteIfFacts DEF Heaps
  <2> HIDE DEF kept
  <2>5. /\ \A h : h \in Range(heap) <=> Tally(heap, {h}) # 0
        /\ Elements(heap) = [h \in Range(heap) |-> Tally(heap, {h})]
    BY <2>1, ElementsAre
  <2>6. /\ \A h : h \in Range(kept) <=> Tally(kept, {h}) # 0
        /\ Elements(kept) = [h \in Range(kept) |-> Tally(kept, {h})]
    BY <2>4, ElementsAre
  <2>7. \A P : (\A e : e \notin P) => Tally(heap, P) = 0
    <3>1. Len(heap) \in Nat
      BY <1>2, Lengths
    <3> QED
      BY <3>1, TallyFacts
  <2>8. ASSUME NEW h PROVE Tally(kept, {h}) = IF h \in R THEN 0 ELSE Tally(heap, {h})
    <3>1. CASE h \in R
      <4>1. \A e : e \notin {h} \ R
        BY <3>1
      <4>2. Tally(heap, {h} \ R) = 0
        BY <2>7, <4>1
      <4> QED
        BY <2>4, <3>1, <4>2
    <3>2. CASE h \notin R
      <4>1. {h} \ R = {h}
        BY <3>2
      <4> QED
        BY <2>4, <3>2, <4>1
    <3> QED
      BY <3>1, <3>2
  <2>9. Range(kept) = D
    BY <2>3, <2>5, <2>6, <2>8
  <2>10. \A h \in D : Tally(kept, {h}) = Elements(heap)[h]
    BY <2>3, <2>5, <2>8
  <2>11. Elements(kept) = [h \in D |-> Elements(heap)[h]]
    BY <2>6, <2>9, <2>10
  <2> QED
    BY <2>4, <2>11 DEF Heaps
<1>3. TInv => DeletesExactly
  <2> SUFFICES ASSUME TInv PROVE DeletesExactly
    OBVIOUS
  <2>1. Valid(heap)
    BY DEF TInv, HandlesInv, Heaps
  <2> QED
    BY <1>1, <1>2, <2>1 DEF DeletesExactly
<1> QED
  BY <1>3, Inductive, PTL

-----------------------------------------------------------------------------
(***************************************************************************)
(* Refinement                                                               *)
(***************************************************************************)

\* The refinement mapping, in tallies.
LEMMA CountsAre ==
    ASSUME TInv
    PROVE  /\ Count(heap) = [t \in Times |-> Tally(heap, Due(t))]
           /\ Count(scheduled) = [t \in Times |-> Tally(scheduled, Due(t))]
  BY Lengths, Measured

\* Timers is the sorted set of timers that TimerSet describes: no timer goes away unless it
\* is cancelled or its block is called, and blocks are called once, when they are due, the
\* earliest first and never after cancel!.
THEOREM SetRefined == Spec => ImplementsTimerSet
<1>1. Init => Sorted!Init
  <2> SUFFICES ASSUME Init PROVE Sorted!Init
    OBVIOUS
  <2>1. TInv /\ heap = <<>> /\ scheduled = <<>> /\ Len(<<>>) = 0
    BY InitInv DEF Init
  <2>2. \A P : Tally(heap, P) = 0 /\ Tally(scheduled, P) = 0
    BY <2>1, TallyFacts
  <2> QED
    BY <2>1, <2>2, CountsAre DEF Init, Sorted!Init, Nothing, Sorted!Nothing
<1>2. ASSUME TInv, TInv', [Next]_vars PROVE Sorted!Next \/ UNCHANGED <<Count(scheduled), Count(heap), event>>
  <2>1. /\ Count(heap) = [t \in Times |-> Tally(heap, Due(t))]
        /\ Count(scheduled) = [t \in Times |-> Tally(scheduled, Due(t))]
    BY <1>2, CountsAre
  <2>2. /\ Count(heap)' = [t \in Times |-> Tally(heap', Due(t))]
        /\ Count(scheduled)' = [t \in Times |-> Tally(scheduled', Due(t))]
    <3>1. heap' \in Seq(Handle) /\ scheduled' \in Seq(Handle)
      BY <1>2, Handles DEF TInv, HandlesInv, Heaps
    <3>2. /\ Count(heap') = [t \in Times |-> Tally(heap', Due(t))]
          /\ Count(scheduled') = [t \in Times |-> Tally(scheduled', Due(t))]
      BY <3>1, Measured
    <3> QED
      BY <3>2 DEF Count, IsCancelled, Live
  <2>3. ASSUME Looked PROVE Sorted!Look
    <3>1. Count(heap)' = [t \in Times |-> Count(heap)[t] + Count(scheduled)[t]]
      BY <2>1, <2>2, <2>3 DEF Looked
    <3>2. Count(scheduled)' = [t \in Times |-> 0]
      BY <2>2, <2>3 DEF Looked
    <3> QED
      BY <2>3, <3>1, <3>2 DEF Looked, Sorted!Look, Nothing, Sorted!Nothing
  <2>4. scheduled' = scheduled => Count(scheduled)' = Count(scheduled)
    BY <2>1, <2>2
  <2>5. heap' = heap => Count(heap)' = Count(heap)
    BY <2>1, <2>2
  <2>6. ASSUME event' = Nothing, Count(heap)' = Count(heap), Count(scheduled)' = Count(scheduled)
         PROVE  Sorted!Next
    BY <2>6 DEF Sorted!Next, Sorted!Rest, Nothing, Sorted!Nothing
  <2>7. ASSUME NEW t \in Times, Loses(heap, heap', t)
         PROVE  Count(heap)[t] > 0 /\ Count(heap)' = [Count(heap) EXCEPT ![t] = @ - 1]
    BY <2>1, <2>2, <2>7 DEF Loses
  <2>8. CASE Cancel
    <3>1. ASSUME NEW t \in Times, CancelSeen(t) PROVE Sorted!Cancel(t)
      <4>1. CASE Loses(heap, heap', t) /\ scheduled' = scheduled
        BY <2>4, <2>7, <3>1, <4>1 DEF CancelSeen, Sorted!Cancel
      <4>2. CASE Loses(scheduled, scheduled', t) /\ heap' = heap
        <5>1. Count(scheduled)[t] > 0 /\ Count(scheduled)' = [Count(scheduled) EXCEPT ![t] = @ - 1]
          BY <2>1, <2>2, <4>2 DEF Loses
        <5> QED
          BY <2>5, <3>1, <4>2, <5>1 DEF CancelSeen, Sorted!Cancel
      <4> QED
        BY <3>1, <4>1, <4>2 DEF CancelSeen
    <3>2. CASE event' = Nothing /\ UNCHANGED <<heap, scheduled>>
      BY <2>4, <2>5, <2>6, <3>2
    <3> QED
      BY <1>2, <2>8, <3>1, <3>2, CancelStep DEF Sorted!Next
  <2>9. CASE Size
    BY <1>2, <2>3, <2>9, SizeStep DEF Sorted!Next
  <2>10. CASE WaitInterval
    BY <1>2, <2>3, <2>10, WaitIntervalStep DEF Sorted!Next
  <2>11. CASE FireSkip
    <3>1. event' = Nothing /\ scheduled' = scheduled /\ \A u : Tally(heap', Due(u)) = Tally(heap, Due(u))
      BY <1>2, <2>11, FireSkipStep
    <3>2. Count(heap)' = Count(heap)
      BY <2>1, <2>2, <3>1
    <3> QED
      BY <2>4, <2>6, <3>1, <3>2
  <2>12. CASE FireCall
    <3>1. PICK t \in Times, now \in Times :
             /\ event' = [what |-> "fire", time |-> t, now |-> now]
             /\ t <= now
             /\ \A u \in Times : u < t => Tally(heap, Due(u)) = 0
             /\ Loses(heap, heap', t)
      BY <1>2, <2>12, FireCallStep
    <3>2. Count(heap)[t] > 0 /\ Count(heap)' = [Count(heap) EXCEPT ![t] = @ - 1]
      BY <2>7, <3>1
    <3>3. \A u \in Times : u < t => Count(heap)[u] = 0
      BY <2>1, <3>1
    <3>4. scheduled' = scheduled
      BY <1>2, <2>12, FireCallStep
    <3>5. Sorted!Fire(t, now)
      BY <2>4, <3>1, <3>2, <3>3, <3>4 DEF Sorted!Fire
    <3> QED
      BY <3>5 DEF Sorted!Next
  <2>13. CASE BlockReturns \/ BlockRaises \/ FireEnd
    BY <1>2, <2>4, <2>5, <2>13, <2>6, BlockStep
  <2>14. ASSUME NEW t \in Times, Schedule(t) PROVE Sorted!Next
    <3>1. /\ heap' = heap /\ event' = [what |-> "schedule", time |-> t]
          /\ \A u : Tally(scheduled', Due(u)) = Tally(scheduled, Due(u)) + IF u = t THEN 1 ELSE 0
      BY <1>2, <2>14, ScheduleStep
    <3>2. \A u : Tally(scheduled, Due(u)) \in Nat
      BY <1>2, Lengths
    <3>3. Count(scheduled)' = [Count(scheduled) EXCEPT ![t] = @ + 1]
      BY <2>1, <2>2, <3>1, <3>2
    <3>4. Sorted!Schedule(t)
      BY <2>5, <3>1, <3>3 DEF Sorted!Schedule
    <3> QED
      BY <3>4 DEF Sorted!Next
  <2>15. ASSUME NEW t \in Times, FireBegin(t) PROVE Sorted!Next
    BY <1>2, <2>3, <2>15, FireBeginStep DEF Sorted!Next
  <2>16. CASE UNCHANGED vars
    BY <2>4, <2>5, <2>16 DEF vars
  <2> QED
    BY <1>2, <2>8, <2>9, <2>10, <2>11, <2>12, <2>13, <2>14, <2>15, <2>16 DEF Next
<1> QED
  BY <1>1, <1>2, Inductive, PTL DEF Spec, ImplementsTimerSet, Sorted!Spec
=============================================================================
