---------------------------- MODULE EPollProofs ----------------------------
(***************************************************************************)
(* Proofs about EPoll, for any number of descriptors, fibers, IOs and       *)
(* processes: the lists of waiting fibers are sound whatever happens, and   *)
(* descriptors are armed for the fibers that wait for them unless the       *)
(* program does one of the four things the model names with its flags.      *)
(***************************************************************************)
EXTENDS EPoll, SequenceTheorems, TLAPS

USE SetsAssumption

-----------------------------------------------------------------------------
(***************************************************************************)
(* Lists                                                                    *)
(***************************************************************************)

ListNodes == Fibers \cup {Saved}

\* The elements of s that come before n, all of them when n is not in s.
Before(s, n) == {s[i] : i \in {k \in 1 .. Len(s) : \A j \in 1 .. k : s[j] # n}}

LEMMA ListFacts ==
    ASSUME NEW s \in Seq(ListNodes)
    PROVE  /\ Len(s) \in Nat /\ DOMAIN s = 1 .. Len(s)
           /\ Range(s) = {s[i] : i \in 1 .. Len(s)}
           /\ Range(s) \subseteq ListNodes
           /\ IsInjective(s) <=> \A i, j \in 1 .. Len(s) : s[i] = s[j] => i = j
           /\ \A n : Before(s, n) \subseteq Range(s) \ {n}
           /\ \A n : n \notin Range(s) => Before(s, n) = Range(s)
<1>1. Len(s) \in Nat /\ DOMAIN s = 1 .. Len(s) /\ \A i \in 1 .. Len(s) : s[i] \in ListNodes
  OBVIOUS
<1>2. Range(s) = {s[i] : i \in 1 .. Len(s)}
  BY <1>1 DEF Range
<1>3. \A n : Before(s, n) \subseteq Range(s) \ {n}
  <2> SUFFICES ASSUME NEW n, NEW i \in 1 .. Len(s), \A j \in 1 .. i : s[j] # n
               PROVE  s[i] \in Range(s) /\ s[i] # n
    BY DEF Before
  <2>1. i \in 1 .. i
    OBVIOUS
  <2> QED
    BY <1>2, <2>1
<1>4. ASSUME NEW n, n \notin Range(s) PROVE Before(s, n) = Range(s)
  <2>1. ASSUME NEW i \in 1 .. Len(s), NEW j \in 1 .. i PROVE s[j] # n
    <3>1. j \in 1 .. Len(s)
      BY <1>1
    <3> QED
      BY <1>2, <1>4, <3>1
  <2> QED
    BY <1>2, <2>1 DEF Before
<1> QED
  BY <1>1, <1>2, <1>3, <1>4 DEF IsInjective

LEMMA PlaceFacts ==
    ASSUME NEW s \in Seq(ListNodes), IsInjective(s), NEW n \in Range(s)
    PROVE  /\ Place(s, n) \in 1 .. Len(s)
           /\ s[Place(s, n)] = n
           /\ \A i \in 1 .. Len(s) : s[i] = n => i = Place(s, n)
  BY ListFacts DEF Place

LEMMA RemoveFacts ==
    ASSUME NEW s \in Seq(ListNodes), NEW k \in 1 .. Len(s)
    PROVE  /\ RemoveAt(s, k) \in Seq(ListNodes)
           /\ Len(RemoveAt(s, k)) = Len(s) - 1
           /\ \A j \in 1 .. Len(s) - 1 : RemoveAt(s, k)[j] = IF j < k THEN s[j] ELSE s[j + 1]
<1> DEFINE a == SubSeq(s, 1, k - 1)
           b == SubSeq(s, k + 1, Len(s))
<1>0. Len(s) \in Nat /\ k \in Int /\ \A i \in 1 .. Len(s) : s[i] \in ListNodes
  OBVIOUS
<1>1. /\ a \in Seq(ListNodes) /\ Len(a) = k - 1
      /\ \A i \in 1 .. k - 1 : a[i] = s[i]
  <2>1. \A i \in 1 .. k - 1 : s[i] \in ListNodes
    BY <1>0
  <2>2. /\ a \in Seq(ListNodes) /\ Len(a) = (IF 1 <= k - 1 THEN (k - 1) - 1 + 1 ELSE 0)
        /\ \A i \in 1 .. (k - 1) - 1 + 1 : a[i] = s[1 + i - 1]
    BY <1>0, <2>1, SubSeqProperties
  <2> QED
    BY <1>0, <2>2
<1>2. /\ b \in Seq(ListNodes) /\ Len(b) = Len(s) - k
      /\ \A i \in 1 .. Len(s) - k : b[i] = s[k + i]
  <2>1. \A i \in k + 1 .. Len(s) : s[i] \in ListNodes
    BY <1>0
  <2>2. /\ b \in Seq(ListNodes)
        /\ Len(b) = (IF k + 1 <= Len(s) THEN Len(s) - (k + 1) + 1 ELSE 0)
        /\ \A i \in 1 .. Len(s) - (k + 1) + 1 : b[i] = s[(k + 1) + i - 1]
    BY <1>0, <2>1, SubSeqProperties
  <2> QED
    BY <1>0, <2>2
<1> HIDE DEF a, b
<1>3. /\ a \o b \in Seq(ListNodes) /\ Len(a \o b) = Len(a) + Len(b)
      /\ \A i \in 1 .. Len(a) + Len(b) : (a \o b)[i] = IF i <= Len(a) THEN a[i] ELSE b[i - Len(a)]
  <2>1. a \in Seq(ListNodes) /\ b \in Seq(ListNodes)
    BY <1>1, <1>2
  <2> QED
    BY <2>1, ConcatProperties
<1>4. ASSUME NEW j \in 1 .. Len(s) - 1 PROVE (a \o b)[j] = IF j < k THEN s[j] ELSE s[j + 1]
  <2>1. CASE j < k
    <3>1. j \in 1 .. k - 1 /\ j <= Len(a) /\ j \in 1 .. Len(a) + Len(b)
      BY <1>0, <1>1, <1>2, <2>1
    <3> QED
      BY <1>1, <1>3, <2>1, <3>1
  <2>2. CASE ~(j < k)
    <3>1. /\ j \in 1 .. Len(a) + Len(b) /\ ~(j <= Len(a))
          /\ j - Len(a) \in 1 .. Len(s) - k /\ k + (j - Len(a)) = j + 1
      BY <1>0, <1>1, <1>2, <2>2
    <3> QED
      BY <1>2, <1>3, <2>2, <3>1
  <2> QED
    BY <2>1, <2>2
<1>5. Len(a) + Len(b) = Len(s) - 1
  BY <1>0, <1>1, <1>2
<1> QED
  BY <1>3, <1>4, <1>5 DEF RemoveAt, a, b

LEMMA InsertFacts ==
    ASSUME NEW s \in Seq(ListNodes), NEW k \in 1 .. Len(s), NEW e \in ListNodes
    PROVE  /\ InsertAt(s, k, e) \in Seq(ListNodes)
           /\ Len(InsertAt(s, k, e)) = Len(s) + 1
           /\ \A j \in 1 .. Len(s) + 1 :
                 InsertAt(s, k, e)[j] = IF j < k THEN s[j] ELSE IF j = k THEN e ELSE s[j - 1]
<1> DEFINE a == SubSeq(s, 1, k - 1)
           b == SubSeq(s, k, Len(s))
           c == a \o <<e>>
<1>0. Len(s) \in Nat /\ k \in Int /\ \A i \in 1 .. Len(s) : s[i] \in ListNodes
  OBVIOUS
<1>1. /\ a \in Seq(ListNodes) /\ Len(a) = k - 1
      /\ \A i \in 1 .. k - 1 : a[i] = s[i]
  <2>1. \A i \in 1 .. k - 1 : s[i] \in ListNodes
    BY <1>0
  <2>2. /\ a \in Seq(ListNodes) /\ Len(a) = (IF 1 <= k - 1 THEN (k - 1) - 1 + 1 ELSE 0)
        /\ \A i \in 1 .. (k - 1) - 1 + 1 : a[i] = s[1 + i - 1]
    BY <1>0, <2>1, SubSeqProperties
  <2> QED
    BY <1>0, <2>2
<1>2. /\ b \in Seq(ListNodes) /\ Len(b) = Len(s) - k + 1
      /\ \A i \in 1 .. Len(s) - k + 1 : b[i] = s[k + i - 1]
  <2>1. \A i \in k .. Len(s) : s[i] \in ListNodes
    BY <1>0
  <2>2. /\ b \in Seq(ListNodes) /\ Len(b) = (IF k <= Len(s) THEN Len(s) - k + 1 ELSE 0)
        /\ \A i \in 1 .. Len(s) - k + 1 : b[i] = s[k + i - 1]
    BY <1>0, <2>1, SubSeqProperties
  <2> QED
    BY <1>0, <2>2
<1> HIDE DEF a, b
<1>3. /\ c \in Seq(ListNodes) /\ Len(c) = k
      /\ \A i \in 1 .. k : c[i] = IF i < k THEN s[i] ELSE e
  <2>1. <<e>> \in Seq(ListNodes) /\ Len(<<e>>) = 1 /\ <<e>>[1] = e
    OBVIOUS
  <2>2. a \in Seq(ListNodes)
    BY <1>1
  <2>3. /\ c \in Seq(ListNodes) /\ Len(c) = Len(a) + Len(<<e>>)
        /\ \A i \in 1 .. Len(a) + Len(<<e>>) :
              c[i] = IF i <= Len(a) THEN a[i] ELSE <<e>>[i - Len(a)]
    BY <2>1, <2>2, ConcatProperties
  <2>4. ASSUME NEW i \in 1 .. k PROVE c[i] = IF i < k THEN s[i] ELSE e
    <3>1. /\ i \in 1 .. Len(a) + Len(<<e>>) /\ Len(a) = k - 1
          /\ i < k => i <= Len(a) /\ i \in 1 .. k - 1
          /\ ~(i < k) => ~(i <= Len(a)) /\ i - Len(a) = 1
      BY <1>0, <1>1, <2>1
    <3>2. c[i] = IF i <= Len(a) THEN a[i] ELSE <<e>>[i - Len(a)]
      BY <2>3, <3>1
    <3> HIDE DEF c
    <3>3. CASE i < k
      BY <1>1, <3>1, <3>2, <3>3
    <3>4. CASE ~(i < k)
      BY <2>1, <3>1, <3>2, <3>4
    <3> QED
      BY <3>3, <3>4
  <2> QED
    BY <1>1, <2>1, <2>3, <2>4
<1> HIDE DEF c
<1>4. /\ c \o b \in Seq(ListNodes) /\ Len(c \o b) = Len(c) + Len(b)
      /\ \A i \in 1 .. Len(c) + Len(b) : (c \o b)[i] = IF i <= Len(c) THEN c[i] ELSE b[i - Len(c)]
  <2>1. c \in Seq(ListNodes) /\ b \in Seq(ListNodes)
    BY <1>2, <1>3
  <2> QED
    BY <2>1, ConcatProperties
<1>5. ASSUME NEW j \in 1 .. Len(s) + 1
      PROVE  (c \o b)[j] = IF j < k THEN s[j] ELSE IF j = k THEN e ELSE s[j - 1]
  <2>0. j \in 1 .. Len(c) + Len(b)
    BY <1>0, <1>2, <1>3
  <2>1. CASE j <= k
    <3>1. j \in 1 .. k /\ j <= Len(c) /\ (j < k \/ j = k)
      BY <1>0, <1>3, <2>1
    <3>2. (c \o b)[j] = c[j]
      BY <1>4, <2>0, <3>1
    <3>3. c[j] = IF j < k THEN s[j] ELSE e
      BY <1>3, <3>1
    <3> QED
      BY <3>1, <3>2, <3>3
  <2>2. CASE ~(j <= k)
    <3>1. ~(j <= Len(c)) /\ j - Len(c) \in 1 .. Len(s) - k + 1 /\ k + (j - Len(c)) - 1 = j - 1
      BY <1>0, <1>3, <2>2
    <3> QED
      BY <1>2, <1>4, <2>0, <2>2, <3>1
  <2> QED
    BY <2>1, <2>2
<1>6. Len(c) + Len(b) = Len(s) + 1
  BY <1>0, <1>2, <1>3
<1> QED
  BY <1>4, <1>5, <1>6 DEF InsertAt, a, b, c

\* node->tail of a node of the list.
LEMMA FollowingNode ==
    ASSUME NEW s \in Seq(ListNodes), IsInjective(s), NEW n \in Range(s)
    PROVE  /\ Following(s, n) = None \/ Following(s, n) \in Range(s) \ {n}
           /\ Before(s, Following(s, n)) \subseteq Before(s, n) \cup {n}
<1> DEFINE k == Place(s, n)
<1>1. /\ k \in 1 .. Len(s) /\ s[k] = n /\ \A i \in 1 .. Len(s) : s[i] = n => i = k
      /\ Len(s) \in Nat /\ Range(s) = {s[i] : i \in 1 .. Len(s)}
  BY PlaceFacts, ListFacts
<1>2. Following(s, n) = IF k = Len(s) THEN None ELSE s[k + 1]
  BY DEF Following
<1> HIDE DEF k
<1>3. Following(s, n) = None \/ Following(s, n) \in Range(s) \ {n}
  BY <1>1, <1>2
<1>4. ASSUME NEW i \in 1 .. Len(s), \A j \in 1 .. i : s[j] # Following(s, n)
      PROVE  s[i] \in Before(s, n) \cup {n}
  <2>1. i <= k
    BY <1>1, <1>2, <1>4
  <2>2. CASE i = k
    BY <1>1, <2>2
  <2>3. CASE i < k
    <3>1. ASSUME NEW j \in 1 .. i PROVE s[j] # n
      <4>1. j \in 1 .. Len(s) /\ j # k
        BY <1>1, <2>3
      <4> QED
        BY <1>1, <4>1
    <3> QED
      BY <3>1 DEF Before
  <2> QED
    BY <1>1, <2>1, <2>2, <2>3
<1> QED
  BY <1>3, <1>4 DEF Before

\* IO_Event_List_pop: the rest keeps its order.
LEMMA DropNode ==
    ASSUME NEW s \in Seq(ListNodes), IsInjective(s), NEW n \in Range(s)
    PROVE  /\ Drop(s, n) \in Seq(ListNodes) /\ IsInjective(Drop(s, n))
           /\ Range(Drop(s, n)) = Range(s) \ {n}
           /\ \A m : m # n => Before(Drop(s, n), m) \subseteq Before(s, m)
           /\ Before(Drop(s, n), Following(s, n)) \subseteq Before(s, n)
<1> DEFINE k == Place(s, n)
           t == Drop(s, n)
           up(i) == IF i < k THEN i ELSE i + 1
<1>1. /\ k \in 1 .. Len(s) /\ s[k] = n /\ \A i \in 1 .. Len(s) : s[i] = n => i = k
      /\ Len(s) \in Nat /\ Range(s) = {s[i] : i \in 1 .. Len(s)}
      /\ \A i, j \in 1 .. Len(s) : s[i] = s[j] => i = j
  BY PlaceFacts, ListFacts
<1>2. /\ t \in Seq(ListNodes) /\ Len(t) = Len(s) - 1
      /\ \A j \in 1 .. Len(s) - 1 : t[j] = IF j < k THEN s[j] ELSE s[j + 1]
  BY <1>1, RemoveFacts DEF Drop
<1> HIDE DEF k, t
<1>3. \A i \in 1 .. Len(t) : up(i) \in 1 .. Len(s) /\ up(i) # k /\ t[i] = s[up(i)]
  BY <1>1, <1>2
<1>4. \A i, j \in 1 .. Len(t) : up(i) = up(j) => i = j
  BY <1>1, <1>2
<1>5. \A c \in 1 .. Len(s) : c # k => \E j \in 1 .. Len(t) : up(j) = c
  <2> SUFFICES ASSUME NEW c \in 1 .. Len(s), c # k PROVE \E j \in 1 .. Len(t) : up(j) = c
    OBVIOUS
  <2>1. CASE c < k
    <3>1. c \in 1 .. Len(t) /\ up(c) = c
      BY <1>1, <1>2, <2>1
    <3> QED
      BY <3>1
  <2>2. CASE c > k
    <3>1. c - 1 \in 1 .. Len(t) /\ up(c - 1) = c
      BY <1>1, <1>2, <2>2
    <3> QED
      BY <3>1
  <2> QED
    BY <1>1, <2>1, <2>2
<1>6. Range(t) = {t[i] : i \in 1 .. Len(t)}
  BY <1>2, ListFacts
<1>7. IsInjective(t)
  <2>1. ASSUME NEW i \in 1 .. Len(t), NEW j \in 1 .. Len(t), t[i] = t[j] PROVE i = j
    BY <1>1, <1>3, <1>4, <2>1
  <2> QED
    BY <1>2, <2>1, ListFacts
<1>8. Range(t) = Range(s) \ {n}
  <2>1. ASSUME NEW i \in 1 .. Len(t) PROVE t[i] \in Range(s) \ {n}
    BY <1>1, <1>3
  <2>2. ASSUME NEW c \in 1 .. Len(s), s[c] # n PROVE s[c] \in Range(t)
    <3>1. PICK j \in 1 .. Len(t) : up(j) = c
      BY <1>1, <1>5, <2>2
    <3>2. t[j] = s[c]
      BY <1>3, <3>1
    <3> QED
      BY <1>6, <3>2
  <2> QED
    BY <1>1, <1>6, <2>1, <2>2
<1>9. ASSUME NEW m, m # n, NEW i \in 1 .. Len(t), \A j \in 1 .. i : t[j] # m
      PROVE  t[i] \in Before(s, m)
  <2>1. ASSUME NEW c \in 1 .. up(i) PROVE s[c] # m
    <3>1. CASE c = k
      BY <1>1, <1>9, <3>1
    <3>2. CASE c # k
      <4>1. c \in 1 .. Len(s)
        BY <1>1, <1>3
      <4>2. PICK j \in 1 .. Len(t) : up(j) = c
        BY <1>5, <3>2, <4>1
      <4>3. j \in 1 .. i
        BY <1>1, <1>2, <4>2
      <4> QED
        BY <1>3, <1>9, <4>2, <4>3
    <3> QED
      BY <3>1, <3>2
  <2> QED
    BY <1>3, <2>1 DEF Before
<1>10. Before(t, Following(s, n)) \subseteq Before(s, n)
  <2> SUFFICES ASSUME NEW i \in 1 .. Len(t), \A j \in 1 .. i : t[j] # Following(s, n)
               PROVE  t[i] \in Before(s, n)
    BY DEF Before
  <2>1. Following(s, n) = IF k = Len(s) THEN None ELSE s[k + 1]
    BY DEF Following, k
  <2>2. i < k
    <3>1. SUFFICES ASSUME k <= i PROVE FALSE
      BY <1>1, <1>2
    <3>2. k \in 1 .. i /\ k \in 1 .. Len(t) /\ k # Len(s)
      BY <1>1, <1>2, <3>1
    <3>3. t[k] = s[k + 1]
      BY <1>1, <1>2, <3>2
    <3> QED
      BY <2>1, <3>2, <3>3
  <2>3. ASSUME NEW c \in 1 .. i PROVE s[c] # n
    <3>1. c \in 1 .. Len(s) /\ c # k
      BY <1>1, <1>2, <2>2
    <3> QED
      BY <1>1, <3>1
  <2>4. t[i] = s[i] /\ i \in 1 .. Len(s)
    BY <1>1, <1>2, <2>2
  <2> QED
    BY <2>3, <2>4 DEF Before
<1>11. \A m : m # n => Before(t, m) \subseteq Before(s, m)
  <2> SUFFICES ASSUME NEW m, m # n, NEW x \in Before(t, m) PROVE x \in Before(s, m)
    OBVIOUS
  <2>1. PICK i \in 1 .. Len(t) : t[i] = x /\ \A j \in 1 .. i : t[j] # m
    BY DEF Before
  <2> QED
    BY <1>9, <2>1
<1> QED
  BY <1>2, <1>7, <1>8, <1>10, <1>11 DEF t

\* IO_Event_List_append of the saved node, before the node handle looks at.
LEMMA SavedNode ==
    ASSUME NEW s \in Seq(ListNodes), IsInjective(s), NEW n \in Range(s), Saved \notin Range(s)
    PROVE  /\ PutBefore(s, Saved, n) \in Seq(ListNodes) /\ IsInjective(PutBefore(s, Saved, n))
           /\ Range(PutBefore(s, Saved, n)) = Range(s) \cup {Saved}
           /\ Before(PutBefore(s, Saved, n), Saved) \subseteq Before(s, n)
<1> DEFINE k == Place(s, n)
           t == PutBefore(s, Saved, n)
           up(i) == IF i < k THEN i ELSE i + 1
<1>1. /\ k \in 1 .. Len(s) /\ s[k] = n /\ \A i \in 1 .. Len(s) : s[i] = n => i = k
      /\ Len(s) \in Nat /\ Range(s) = {s[i] : i \in 1 .. Len(s)}
      /\ \A i, j \in 1 .. Len(s) : s[i] = s[j] => i = j
  BY PlaceFacts, ListFacts
<1>2. /\ t \in Seq(ListNodes) /\ Len(t) = Len(s) + 1
      /\ \A j \in 1 .. Len(s) + 1 : t[j] = IF j < k THEN s[j] ELSE IF j = k THEN Saved ELSE s[j - 1]
  <2>1. Saved \in ListNodes
    BY DEF ListNodes
  <2>2. t = InsertAt(s, k, Saved)
    BY DEF PutBefore
  <2> HIDE DEF k, t
  <2>3. k \in 1 .. Len(s)
    BY <1>1
  <2>4. /\ InsertAt(s, k, Saved) \in Seq(ListNodes) /\ Len(InsertAt(s, k, Saved)) = Len(s) + 1
        /\ \A j \in 1 .. Len(s) + 1 :
              InsertAt(s, k, Saved)[j] = IF j < k THEN s[j] ELSE IF j = k THEN Saved ELSE s[j - 1]
    BY <2>1, <2>3, InsertFacts
  <2> QED
    BY <2>2, <2>4
<1> HIDE DEF k, t
<1>3. t[k] = Saved /\ k \in 1 .. Len(t)
  BY <1>1, <1>2
<1>4. ASSUME NEW j \in 1 .. Len(t), j # k
      PROVE  \E i \in 1 .. Len(s) : up(i) = j /\ t[j] = s[i]
  <2>1. CASE j < k
    <3>1. j \in 1 .. Len(s) /\ up(j) = j /\ t[j] = s[j]
      BY <1>1, <1>2, <2>1
    <3> QED
      BY <3>1
  <2>2. CASE j > k
    <3>1. j - 1 \in 1 .. Len(s) /\ up(j - 1) = j /\ t[j] = s[j - 1]
      BY <1>1, <1>2, <2>2
    <3> QED
      BY <3>1
  <2> QED
    BY <1>1, <1>2, <1>4, <2>1, <2>2
<1>5. ASSUME NEW i \in 1 .. Len(s) PROVE up(i) \in 1 .. Len(t) /\ t[up(i)] = s[i]
  BY <1>1, <1>2
<1>6. Range(t) = {t[i] : i \in 1 .. Len(t)}
  BY <1>2, ListFacts
<1>7. IsInjective(t)
  <2>1. ASSUME NEW i \in 1 .. Len(t), NEW j \in 1 .. Len(t), t[i] = t[j] PROVE i = j
    <3>1. \A c \in 1 .. Len(s) : s[c] # Saved
      BY <1>1
    <3>2. CASE i = k \/ j = k
      BY <1>3, <1>4, <2>1, <3>1, <3>2
    <3>3. CASE i # k /\ j # k
      <4>1. PICK a \in 1 .. Len(s) : up(a) = i /\ t[i] = s[a]
        BY <1>4, <3>3
      <4>2. PICK b \in 1 .. Len(s) : up(b) = j /\ t[j] = s[b]
        BY <1>4, <3>3
      <4>3. a = b
        BY <1>1, <2>1, <4>1, <4>2
      <4> QED
        BY <4>1, <4>2, <4>3
    <3> QED
      BY <3>2, <3>3
  <2> QED
    BY <1>2, <2>1, ListFacts
<1>8. Range(t) = Range(s) \cup {Saved}
  <2>1. ASSUME NEW j \in 1 .. Len(t) PROVE t[j] \in Range(s) \cup {Saved}
    BY <1>1, <1>3, <1>4
  <2>2. ASSUME NEW i \in 1 .. Len(s) PROVE s[i] \in Range(t)
    <3>1. up(i) \in 1 .. Len(t) /\ t[up(i)] = s[i]
      BY <1>5
    <3> QED
      BY <1>6, <3>1
  <2>3. Saved \in Range(t)
    BY <1>3, <1>6
  <2>4. Range(s) \subseteq Range(t)
    BY <1>1, <2>2
  <2>5. Range(t) \subseteq Range(s) \cup {Saved}
    BY <1>6, <2>1
  <2> QED
    BY <2>3, <2>4, <2>5
<1>9. Before(t, Saved) \subseteq Before(s, n)
  <2> SUFFICES ASSUME NEW x \in Before(t, Saved) PROVE x \in Before(s, n)
    OBVIOUS
  <2>1. PICK i \in 1 .. Len(t) : t[i] = x /\ \A j \in 1 .. i : t[j] # Saved
    BY DEF Before
  <2>2. i < k
    <3>1. ~(k \in 1 .. i)
      BY <1>3, <2>1
    <3> QED
      BY <1>1, <1>2, <3>1
  <2>3. t[i] = s[i] /\ i \in 1 .. Len(s)
    BY <1>1, <1>2, <2>2
  <2>4. ASSUME NEW c \in 1 .. i PROVE s[c] # n
    <3>1. c \in 1 .. Len(s) /\ c # k
      BY <1>1, <1>2, <2>2
    <3> QED
      BY <1>1, <3>1
  <2> QED
    BY <2>1, <2>3, <2>4 DEF Before
<1> QED
  BY <1>2, <1>7, <1>8, <1>9 DEF t

\* IO_Event_List_prepend of a fiber that is in no list.
LEMMA PrependNode ==
    ASSUME NEW s \in Seq(ListNodes), IsInjective(s), NEW f \in Fibers, f \notin Range(s)
    PROVE  /\ <<f>> \o s \in Seq(ListNodes) /\ IsInjective(<<f>> \o s)
           /\ Range(<<f>> \o s) = Range(s) \cup {f}
           /\ \A n : Before(<<f>> \o s, n) \subseteq Before(s, n) \cup {f}
<1> DEFINE t == <<f>> \o s
<1>1. /\ Len(s) \in Nat /\ Range(s) = {s[i] : i \in 1 .. Len(s)}
      /\ \A i, j \in 1 .. Len(s) : s[i] = s[j] => i = j
  BY ListFacts
<1>2. /\ t \in Seq(ListNodes) /\ Len(t) = Len(s) + 1
      /\ t[1] = f /\ \A i \in 1 .. Len(s) : t[i + 1] = s[i]
  BY <1>1 DEF ListNodes
<1> HIDE DEF t
<1>3. ASSUME NEW j \in 1 .. Len(t), j # 1 PROVE j - 1 \in 1 .. Len(s) /\ t[j] = s[j - 1]
  <2>1. j - 1 \in 1 .. Len(s) /\ (j - 1) + 1 = j
    BY <1>1, <1>2, <1>3
  <2> QED
    BY <1>2, <2>1
<1>4. Range(t) = {t[i] : i \in 1 .. Len(t)}
  BY <1>2, ListFacts
<1>5. IsInjective(t)
  <2>1. ASSUME NEW i \in 1 .. Len(t), NEW j \in 1 .. Len(t), t[i] = t[j] PROVE i = j
    <3>1. \A c \in 1 .. Len(s) : s[c] # f
      BY <1>1
    <3>2. CASE i = 1 \/ j = 1
      BY <1>2, <1>3, <2>1, <3>1, <3>2
    <3>3. CASE i # 1 /\ j # 1
      <4>1. i - 1 = j - 1
        BY <1>1, <1>3, <2>1, <3>3
      <4> QED
        BY <4>1
    <3> QED
      BY <3>2, <3>3
  <2> QED
    BY <1>2, <2>1, ListFacts
<1>6. Range(t) = Range(s) \cup {f}
  <2>1. ASSUME NEW j \in 1 .. Len(t) PROVE t[j] \in Range(s) \cup {f}
    BY <1>1, <1>2, <1>3
  <2>2. ASSUME NEW i \in 1 .. Len(s) PROVE s[i] \in Range(t)
    <3>1. i + 1 \in 1 .. Len(t) /\ t[i + 1] = s[i]
      BY <1>1, <1>2
    <3> QED
      BY <1>4, <3>1
  <2>3. 1 \in 1 .. Len(t) /\ f \in Range(t)
    BY <1>1, <1>2, <1>4
  <2>4. Range(s) \subseteq Range(t)
    BY <1>1, <2>2
  <2>5. Range(t) \subseteq Range(s) \cup {f}
    BY <1>4, <2>1
  <2> QED
    BY <2>3, <2>4, <2>5
<1>7. ASSUME NEW n, NEW x \in Before(t, n), x # f PROVE x \in Before(s, n)
  <2>1. PICK i \in 1 .. Len(t) : t[i] = x /\ \A j \in 1 .. i : t[j] # n
    BY DEF Before
  <2>2. i - 1 \in 1 .. Len(s) /\ s[i - 1] = x
    BY <1>2, <1>3, <1>7, <2>1
  <2>3. ASSUME NEW c \in 1 .. i - 1 PROVE s[c] # n
    <3>1. c \in 1 .. Len(s) /\ c + 1 \in 1 .. i
      BY <1>1, <1>2, <2>2
    <3> QED
      BY <1>2, <2>1, <3>1
  <2> QED
    BY <2>2, <2>3 DEF Before
<1> QED
  BY <1>2, <1>5, <1>6, <1>7 DEF t

-----------------------------------------------------------------------------
(***************************************************************************)
(* The lists, whatever the program does                                     *)
(***************************************************************************)

\* Where handle is in each phase.
Phases ==
    /\ phase = "resumed" => current # None
    /\ node # None => phase = "handling" /\ current # None
    /\ phase = "user" => current = None

LInv == TypeOK /\ ListsSound /\ Phases

\* What Descriptor_update returns: nothing to do, the descriptor is left, epoll
\* refuses, or it is armed for the waiting events.
EntrySet == [io : IOs \cup Pids \cup {None}, waiting : SUBSET Events, registered : SUBSET Events]

LEMMA UpdateFacts ==
    ASSUME TypeOK, NEW d \in FDs, NEW e \in EntrySet, NEW io \in IOs \cup Pids \cup {None},
           NEW o
    PROVE  LET u == Update(e, io, d, o)
           IN  /\ u.entry \in EntrySet /\ u.interest \in SUBSET Events /\ u.failed \in BOOLEAN
               /\ \/ /\ e.io = io /\ e.registered = e.waiting
                     /\ u.entry = e /\ u.interest = interest[d] /\ ~u.failed
                  \/ /\ e.waiting = {} /\ ~u.failed
                     /\ u.entry.io = None /\ u.entry.waiting = {} /\ u.entry.registered = {}
                     /\ u.interest = {} \/ u.interest = interest[d]
                  \/ /\ e.waiting # {} /\ u.failed /\ Refused(o)
                     /\ u.entry.io = io /\ u.entry.waiting = e.waiting
                     /\ u.entry.registered = IF e.io = io THEN e.registered ELSE {}
                     /\ u.interest = interest[d]
                  \/ /\ e.waiting # {} /\ ~u.failed /\ ~Refused(o)
                     /\ u.entry.io = io /\ u.entry.waiting = e.waiting
                     /\ u.entry.registered = e.waiting /\ u.interest = e.waiting
<1>1. interest[d] \in SUBSET Events
  BY DEF TypeOK
<1>2. CASE e.io = io /\ e.registered = e.waiting
  BY <1>1, <1>2 DEF Update, SameIO, EntrySet
<1>3. CASE ~(e.io = io /\ e.registered = e.waiting) /\ e.waiting = {}
  BY <1>1, <1>3 DEF Update, SameIO, EntrySet
<1>4. CASE ~(e.io = io /\ e.registered = e.waiting) /\ e.waiting # {} /\ Refused(o)
  BY <1>1, <1>4 DEF Update, SameIO, EntrySet
<1>5. CASE ~(e.io = io /\ e.registered = e.waiting) /\ e.waiting # {} /\ ~Refused(o)
  BY <1>1, <1>5 DEF Update, SameIO, EntrySet
<1> QED
  BY <1>2, <1>3, <1>4, <1>5

\* What the invariant says of the list of a descriptor.
LEMMA ListOf ==
    ASSUME LInv, NEW d \in FDs
    PROVE  /\ list[d] \in Seq(ListNodes) /\ IsInjective(list[d])
           /\ \A f \in Fibers : f \in Range(list[d]) <=> at[f] = d
           /\ Saved \in Range(list[d]) <=> phase = "resumed" /\ d = current
  BY DEF LInv, TypeOK, ListsSound, ListLive, SavedBounded, ListNodes

\* Lists as the invariant wants them, from those facts.
LEMMA ListsFrom ==
    ASSUME list' \in [FDs -> Seq(ListNodes)],
           \A d \in FDs :
              /\ IsInjective(list'[d])
              /\ \A f \in Fibers : f \in Range(list'[d]) <=> at'[f] = d
              /\ Saved \in Range(list'[d]) <=> phase' = "resumed" /\ d = current',
           node' # None => at'[node'] = current'
    PROVE  ListsSound'
<1>1. \A d \in FDs : Range(list'[d]) \subseteq ListNodes
  BY ListFacts
<1>2. \A d \in FDs : Range(list'[d]) \ {Saved} = {f \in Fibers : at'[f] = d}
  BY <1>1 DEF ListNodes
<1> QED
  BY <1>2 DEF ListsSound, ListLive, SavedBounded

\* The wait of a fiber leaves the lists sound.
LEMMA RegisterLists ==
    ASSUME LInv, NEW f \in Fibers, at[f] = None, NEW d \in FDs, NEW io \in IOs \cup Pids,
           NEW evs \in SUBSET Events, Register(f, io, d, evs), UNCHANGED handleVars
    PROVE  /\ entry' \in [FDs -> EntrySet] /\ interest' \in [FDs -> SUBSET Events]
           /\ list' \in [FDs -> Seq(ListNodes)]
           /\ at' \in [Fibers -> FDs \cup {None}]
           /\ target' \in [Fibers -> IOs \cup Pids \cup {None}]
           /\ events' \in [Fibers -> SUBSET Events]
           /\ ListsSound'
<1> DEFINE e == [entry[d] EXCEPT !.waiting = @ \cup evs]
           u == Update(e, io, d, io)
<1>1. TypeOK /\ ListsSound /\ list \in [FDs -> Seq(ListNodes)] /\ entry \in [FDs -> EntrySet]
  BY DEF LInv, TypeOK, ListNodes, EntrySet
<1>2. e \in EntrySet
  BY <1>1 DEF EntrySet
<1>3. u.entry \in EntrySet /\ u.interest \in SUBSET Events
  BY <1>1, <1>2, UpdateFacts
<1>4. /\ entry' = [entry EXCEPT ![d] = u.entry]
      /\ interest' = [interest EXCEPT ![d] = u.interest]
      /\ \/ UNCHANGED waitVars
         \/ /\ list' = [list EXCEPT ![d] = <<f>> \o @]
            /\ at' = [at EXCEPT ![f] = d]
            /\ target' = [target EXCEPT ![f] = io]
            /\ events' = [events EXCEPT ![f] = evs]
  BY DEF Register
<1> HIDE DEF u, e
<1>5. entry' \in [FDs -> EntrySet] /\ interest' \in [FDs -> SUBSET Events]
  BY <1>1, <1>3, <1>4 DEF TypeOK
<1>6. CASE UNCHANGED waitVars
  BY <1>1, <1>5, <1>6 DEF waitVars, handleVars, TypeOK, ListsSound, ListLive, SavedBounded
<1>7. CASE /\ list' = [list EXCEPT ![d] = <<f>> \o @]
           /\ at' = [at EXCEPT ![f] = d]
           /\ target' = [target EXCEPT ![f] = io]
           /\ events' = [events EXCEPT ![f] = evs]
  <2>1. /\ at' \in [Fibers -> FDs \cup {None}]
        /\ target' \in [Fibers -> IOs \cup Pids \cup {None}]
        /\ events' \in [Fibers -> SUBSET Events]
        /\ \A g \in Fibers : at'[g] = IF g = f THEN d ELSE at[g]
    BY <1>1, <1>7 DEF TypeOK
  <2>2. /\ <<f>> \o list[d] \in Seq(ListNodes) /\ IsInjective(<<f>> \o list[d])
        /\ Range(<<f>> \o list[d]) = Range(list[d]) \cup {f}
    BY ListOf, PrependNode
  <2>3. list' \in [FDs -> Seq(ListNodes)]
    BY <1>1, <1>7, <2>2
  <2>4. ASSUME NEW c \in FDs
        PROVE  /\ IsInjective(list'[c])
               /\ \A g \in Fibers : g \in Range(list'[c]) <=> at'[g] = c
               /\ Saved \in Range(list'[c]) <=> phase' = "resumed" /\ c = current'
    <3>1. CASE c = d
      <4>1. list'[c] = <<f>> \o list[d]
        BY <1>1, <1>7, <3>1
      <4> QED
        BY <2>1, <2>2, <3>1, <4>1, ListOf DEF handleVars
    <3>2. CASE c # d
      <4>1. list'[c] = list[c]
        BY <1>1, <1>7, <3>2
      <4> QED
        BY <2>1, <3>2, <4>1, ListOf DEF handleVars
    <3> QED
      BY <3>1, <3>2
  <2>5. node' # None => at'[node'] = current'
    BY <1>1, <2>1 DEF handleVars, ListsSound, ListLive, TypeOK, LInv, Phases
  <2> QED
    BY <1>5, <2>1, <2>3, <2>4, <2>5, ListsFrom
<1> QED
  BY <1>4, <1>6, <1>7

\* A fiber that leaves its wait, s being the list it is in.
LEMMA LeaveFacts ==
    ASSUME LInv, NEW f \in Fibers, at[f] # None, NEW s \in Seq(ListNodes), IsInjective(s),
           f \in Range(s), Leave(f, s)
    PROVE  /\ at' \in [Fibers -> FDs \cup {None}]
           /\ list' \in [FDs -> Seq(ListNodes)]
           /\ target' \in [Fibers -> IOs \cup Pids \cup {None}]
           /\ events' \in [Fibers -> SUBSET Events]
           /\ object' \in [FDs -> IOs \cup Pids \cup {None}]
           /\ interest' \in [FDs -> SUBSET Events]
           /\ condition' \in [FDs -> SUBSET (Events \cup Conditions)]
           /\ \A g \in Fibers : /\ at'[g] = IF g = f THEN None ELSE at[g]
                                /\ g # f => target'[g] = target[g] /\ events'[g] = events[g]
           /\ \A d \in FDs : list'[d] = IF d = at[f] THEN Drop(s, f) ELSE list[d]
           /\ IsInjective(Drop(s, f)) /\ Range(Drop(s, f)) = Range(s) \ {f}
<1>1. /\ TypeOK /\ at[f] \in FDs /\ list \in [FDs -> Seq(ListNodes)]
  BY DEF LInv, TypeOK, ListNodes
<1>2. Drop(s, f) \in Seq(ListNodes) /\ IsInjective(Drop(s, f)) /\ Range(Drop(s, f)) = Range(s) \ {f}
  BY DropNode
<1>3. /\ at' = [at EXCEPT ![f] = None]
      /\ list' = [list EXCEPT ![at[f]] = Drop(s, f)]
      /\ target' = [target EXCEPT ![f] = None]
      /\ events' = [events EXCEPT ![f] = {}]
  BY DEF Leave
<1>4. /\ object' \in [FDs -> IOs \cup Pids \cup {None}]
      /\ interest' \in [FDs -> SUBSET Events]
      /\ condition' \in [FDs -> SUBSET (Events \cup Conditions)]
  BY <1>1 DEF Leave, TypeOK
<1>5. list' \in [FDs -> Seq(ListNodes)]
  BY <1>1, <1>2, <1>3
<1>6. \A d \in FDs : list'[d] = IF d = at[f] THEN Drop(s, f) ELSE list[d]
  BY <1>1, <1>3
<1>7. /\ at' \in [Fibers -> FDs \cup {None}]
      /\ target' \in [Fibers -> IOs \cup Pids \cup {None}]
      /\ events' \in [Fibers -> SUBSET Events]
      /\ \A g \in Fibers : /\ at'[g] = IF g = f THEN None ELSE at[g]
                           /\ g # f => target'[g] = target[g] /\ events'[g] = events[g]
  BY <1>1, <1>3 DEF TypeOK
<1> QED
  BY <1>2, <1>4, <1>5, <1>6, <1>7

LEMMA InitLists == Init => LInv
<1> SUFFICES ASSUME Init PROVE LInv
  OBVIOUS
<1>1. TypeOK
  BY DEF Init, TypeOK
<1>2. \A d \in FDs : list[d] \in Seq(ListNodes) /\ list[d] = <<>>
  BY DEF Init
<1>3. \A d \in FDs : Range(list[d]) = {} /\ IsInjective(list[d])
  <2> SUFFICES ASSUME NEW d \in FDs PROVE Range(list[d]) = {} /\ IsInjective(list[d])
    OBVIOUS
  <2>1. Len(list[d]) = 0
    BY <1>2
  <2> QED
    BY <1>2, <2>1, ListFacts
<1>4. \A f \in Fibers, d \in FDs : at[f] # d
  BY DEF Init
<1> QED
  BY <1>1, <1>3, <1>4 DEF Init, LInv, ListsSound, ListLive, SavedBounded, Phases

LEMMA IoWaitLists ==
    ASSUME LInv, NEW f \in Fibers, NEW d \in FDs, NEW evs \in (SUBSET Events) \ {{}}, IoWait(f, d, evs)
    PROVE  LInv'
<1>1. /\ at[f] = None /\ object[d] \in IOs \cup Pids /\ evs \in SUBSET Events
      /\ Register(f, object[d], d, evs) /\ UNCHANGED handleVars
      /\ UNCHANGED <<object, condition, process>>
  BY DEF IoWait
<1>2. /\ entry' \in [FDs -> EntrySet] /\ interest' \in [FDs -> SUBSET Events]
      /\ list' \in [FDs -> Seq(ListNodes)]
      /\ at' \in [Fibers -> FDs \cup {None}]
      /\ target' \in [Fibers -> IOs \cup Pids \cup {None}]
      /\ events' \in [Fibers -> SUBSET Events]
      /\ ListsSound'
  BY <1>1, RegisterLists
<1> QED
  BY <1>1, <1>2 DEF LInv, TypeOK, Phases, handleVars, EntrySet, ListNodes

LEMMA ProcessWaitLists ==
    ASSUME LInv, NEW f \in Fibers, NEW p \in Pids, NEW d \in FDs, ProcessWait(f, p, d)
    PROVE  LInv'
<1>1. CASE process[p] = "exited"
  <2>1. /\ process' \in [Pids -> {"running", "exited", "reaped"}]
        /\ UNCHANGED <<object, condition, interest, entry, waitVars, handleVars>>
    BY <1>1 DEF ProcessWait, LInv, TypeOK
  <2> QED
    BY <2>1 DEF LInv, TypeOK, ListsSound, ListLive, SavedBounded, Phases, waitVars, handleVars
<1>2. CASE process[p] # "exited"
  <2>1. /\ at[f] = None /\ p \in IOs \cup Pids /\ {"readable"} \in SUBSET Events
        /\ Register(f, p, d, {"readable"}) /\ UNCHANGED handleVars /\ UNCHANGED process
    BY <1>2 DEF ProcessWait, Events
  <2>2. /\ entry' \in [FDs -> EntrySet] /\ interest' \in [FDs -> SUBSET Events]
        /\ list' \in [FDs -> Seq(ListNodes)]
        /\ at' \in [Fibers -> FDs \cup {None}]
        /\ target' \in [Fibers -> IOs \cup Pids \cup {None}]
        /\ events' \in [Fibers -> SUBSET Events]
        /\ ListsSound'
    BY <2>1, RegisterLists
  <2>3. /\ object' \in [FDs -> IOs \cup Pids \cup {None}]
        /\ condition' \in [FDs -> SUBSET (Events \cup Conditions)]
    <3>1. object' = [object EXCEPT ![d] = p] /\ condition' = [condition EXCEPT ![d] = {}]
      BY <1>2 DEF ProcessWait
    <3> QED
      BY <3>1 DEF LInv, TypeOK
  <2> QED
    BY <2>1, <2>2, <2>3 DEF LInv, TypeOK, Phases, handleVars, EntrySet, ListNodes
<1> QED
  BY <1>1, <1>2

LEMMA CancelLists ==
    ASSUME LInv, NEW f \in Fibers, Cancel(f)
    PROVE  LInv'
<1>1. /\ at[f] # None /\ Leave(f, list[at[f]]) /\ UNCHANGED <<process, entry, handleVars>>
      /\ at[f] \in FDs /\ phase # "handling"
  BY DEF Cancel, LInv, TypeOK, UserRuns
<1>2. list[at[f]] \in Seq(ListNodes) /\ IsInjective(list[at[f]]) /\ f \in Range(list[at[f]])
  BY <1>1, ListOf
<1>3. /\ at' \in [Fibers -> FDs \cup {None}]
      /\ list' \in [FDs -> Seq(ListNodes)]
      /\ target' \in [Fibers -> IOs \cup Pids \cup {None}]
      /\ events' \in [Fibers -> SUBSET Events]
      /\ object' \in [FDs -> IOs \cup Pids \cup {None}]
      /\ interest' \in [FDs -> SUBSET Events]
      /\ condition' \in [FDs -> SUBSET (Events \cup Conditions)]
      /\ \A g \in Fibers : at'[g] = IF g = f THEN None ELSE at[g]
      /\ \A d \in FDs : list'[d] = IF d = at[f] THEN Drop(list[at[f]], f) ELSE list[d]
      /\ IsInjective(Drop(list[at[f]], f)) /\ Range(Drop(list[at[f]], f)) = Range(list[at[f]]) \ {f}
  BY <1>1, <1>2, LeaveFacts
<1>4. ASSUME NEW d \in FDs
      PROVE  /\ IsInjective(list'[d])
             /\ \A g \in Fibers : g \in Range(list'[d]) <=> at'[g] = d
             /\ Saved \in Range(list'[d]) <=> phase' = "resumed" /\ d = current'
  <2>1. Saved # f
    OBVIOUS
  <2>2. CASE d = at[f]
    <3>1. IsInjective(list'[d]) /\ Range(list'[d]) = Range(list[d]) \ {f}
      BY <1>3, <2>2
    <3>2. ASSUME NEW g \in Fibers PROVE g \in Range(list'[d]) <=> at'[g] = d
      BY <1>1, <1>3, <3>1, ListOf
    <3>3. Saved \in Range(list'[d]) <=> phase' = "resumed" /\ d = current'
      BY <1>1, <2>1, <3>1, ListOf DEF handleVars
    <3> QED
      BY <3>1, <3>2, <3>3
  <2>3. CASE d # at[f]
    BY <1>1, <1>3, <2>3, ListOf DEF handleVars
  <2> QED
    BY <2>2, <2>3
<1>5. node' = None
  BY <1>1 DEF LInv, Phases, handleVars
<1>6. ListsSound'
  BY <1>3, <1>4, <1>5, ListsFrom
<1> QED
  BY <1>1, <1>3, <1>6 DEF LInv, TypeOK, Phases, handleVars, ListNodes

\* A step that changes no list, nor where handle is.
LEMMA OtherLists ==
    ASSUME LInv, TypeOK', UNCHANGED <<list, at, current, node>>,
           phase' = phase \/ (phase # "resumed" /\ current = None /\ phase' \in {"user", "handling"})
    PROVE  LInv'
  BY DEF LInv, ListsSound, ListLive, SavedBounded, Phases

LEMMA HandleBeginLists ==
    ASSUME LInv, NEW d \in FDs, HandleBegin(d)
    PROVE  LInv'
<1>1. /\ list[d] \in Seq(ListNodes) /\ Range(list[d]) = {list[d][i] : i \in 1 .. Len(list[d])}
      /\ \A f \in Fibers : f \in Range(list[d]) <=> at[f] = d
      /\ Saved \notin Range(list[d])
  BY ListOf, ListFacts DEF HandleBegin
<1>2. node' # None => node' \in Fibers /\ at[node'] = d
  <2>0. node' = IF list[d] = <<>> THEN None ELSE Head(list[d])
    BY DEF HandleBegin
  <2>1. CASE list[d] = <<>>
    BY <2>0, <2>1
  <2>2. CASE list[d] # <<>>
    <3>1. 1 \in 1 .. Len(list[d]) /\ node' = list[d][1]
      BY <1>1, <2>0, <2>2
    <3>2. node' \in Range(list[d]) /\ node' \in ListNodes
      BY <1>1, <3>1
    <3> QED
      BY <1>1, <3>2 DEF ListNodes
  <2> QED
    BY <2>1, <2>2
<1>3. TypeOK'
  <2>1. entry' \in [FDs -> EntrySet]
    <3>1. entry \in [FDs -> EntrySet] /\ entry' = [entry EXCEPT ![d].waiting = {}]
      BY DEF LInv, TypeOK, HandleBegin, EntrySet
    <3> QED
      BY <3>1 DEF EntrySet
  <2>2. batch' \in [FDs -> SUBSET Events] /\ happened' \in SUBSET Events
    BY DEF LInv, TypeOK, HandleBegin
  <2> QED
    BY <1>2, <2>1, <2>2 DEF LInv, TypeOK, HandleBegin, kernelVars, waitVars, EntrySet
<1>4. ListsSound' /\ Phases'
  BY <1>2 DEF LInv, ListsSound, ListLive, SavedBounded, Phases, HandleBegin, waitVars
<1> QED
  BY <1>3, <1>4 DEF LInv

\* Where handle is when it looks at a fiber.
LEMMA AtNode ==
    ASSUME LInv, phase = "handling", node # None
    PROVE  /\ current \in FDs /\ node \in Fibers /\ at[node] = current
           /\ node \in Range(list[current]) /\ Saved \notin Range(list[current])
  BY ListOf DEF LInv, TypeOK, Phases, ListsSound, ListLive

LEMMA HandleSkipLists ==
    ASSUME LInv, HandleSkip
    PROVE  LInv'
<1>1. /\ phase = "handling" /\ node # None /\ node' = Following(list[current], node)
      /\ entry' = [entry EXCEPT ![current].waiting = @ \cup events[node]]
      /\ UNCHANGED <<kernelVars, waitVars, phase, batch, current, happened>>
  BY DEF HandleSkip
<1>2. /\ current \in FDs /\ node \in Fibers /\ at[node] = current
      /\ node \in Range(list[current]) /\ Saved \notin Range(list[current])
      /\ list[current] \in Seq(ListNodes) /\ IsInjective(list[current])
      /\ Range(list[current]) \subseteq ListNodes
      /\ \A f \in Fibers : f \in Range(list[current]) <=> at[f] = current
  BY <1>1, AtNode, ListOf, ListFacts
<1>3. node' # None => node' \in Fibers /\ at[node'] = current
  <2>1. node' = None \/ node' \in Range(list[current])
    BY <1>1, <1>2, FollowingNode
  <2>2. node' = None \/ node' \in Fibers
    BY <1>2, <2>1 DEF ListNodes
  <2> QED
    BY <1>2, <2>1, <2>2
<1>4. entry' \in [FDs -> EntrySet]
  <2>1. entry \in [FDs -> EntrySet] /\ events[node] \in SUBSET Events
    BY <1>2 DEF LInv, TypeOK, EntrySet
  <2> QED
    BY <1>1, <1>2, <2>1 DEF EntrySet
<1>5. TypeOK'
  BY <1>1, <1>3, <1>4 DEF LInv, TypeOK, kernelVars, waitVars, EntrySet
<1>6. ListsSound' /\ Phases'
  BY <1>1, <1>3 DEF LInv, ListsSound, ListLive, SavedBounded, Phases, waitVars
<1> QED
  BY <1>5, <1>6 DEF LInv

LEMMA HandleResumeLists ==
    ASSUME LInv, HandleResume
    PROVE  LInv'
<1> DEFINE s == PutBefore(list[current], Saved, node)
<1>1. /\ phase = "handling" /\ node # None /\ Leave(node, s)
      /\ node' = None /\ phase' = "resumed" /\ UNCHANGED <<entry, batch, current, happened>>
      /\ process' \in [Pids -> {"running", "exited", "reaped"}]
  BY DEF HandleResume, LInv, TypeOK
<1>2. /\ current \in FDs /\ node \in Fibers /\ at[node] = current
      /\ node \in Range(list[current]) /\ Saved \notin Range(list[current])
      /\ list[current] \in Seq(ListNodes) /\ IsInjective(list[current])
  BY <1>1, AtNode, ListOf
<1>3. s \in Seq(ListNodes) /\ IsInjective(s) /\ Range(s) = Range(list[current]) \cup {Saved}
  BY <1>2, SavedNode
<1> HIDE DEF s
<1>4. at[node] # None /\ node \in Range(s) /\ Saved # node
  BY <1>2, <1>3
<1>5. /\ at' \in [Fibers -> FDs \cup {None}]
      /\ list' \in [FDs -> Seq(ListNodes)]
      /\ target' \in [Fibers -> IOs \cup Pids \cup {None}]
      /\ events' \in [Fibers -> SUBSET Events]
      /\ object' \in [FDs -> IOs \cup Pids \cup {None}]
      /\ interest' \in [FDs -> SUBSET Events]
      /\ condition' \in [FDs -> SUBSET (Events \cup Conditions)]
      /\ \A g \in Fibers : at'[g] = IF g = node THEN None ELSE at[g]
      /\ \A d \in FDs : list'[d] = IF d = at[node] THEN Drop(s, node) ELSE list[d]
      /\ IsInjective(Drop(s, node)) /\ Range(Drop(s, node)) = Range(s) \ {node}
  BY <1>1, <1>2, <1>3, <1>4, LeaveFacts
<1>6. ASSUME NEW d \in FDs
      PROVE  /\ IsInjective(list'[d])
             /\ \A g \in Fibers : g \in Range(list'[d]) <=> at'[g] = d
             /\ Saved \in Range(list'[d]) <=> phase' = "resumed" /\ d = current'
  <2>1. CASE d = current
    <3>1. /\ IsInjective(list'[d])
          /\ Range(list'[d]) = (Range(list[d]) \cup {Saved}) \ {node}
      BY <1>2, <1>3, <1>5, <2>1
    <3>2. ASSUME NEW g \in Fibers PROVE g \in Range(list'[d]) <=> at'[g] = d
      <4>1. g # Saved /\ (g \in Range(list[d]) <=> at[g] = d)
        BY ListOf
      <4> QED
        BY <1>2, <1>5, <2>1, <3>1, <4>1
    <3>3. Saved \in Range(list'[d])
      BY <1>4, <3>1
    <3> QED
      BY <1>1, <2>1, <3>1, <3>2, <3>3
  <2>2. CASE d # current
    BY <1>1, <1>2, <1>5, <2>2, ListOf
  <2> QED
    BY <2>1, <2>2
<1>7. ListsSound'
  BY <1>1, <1>5, <1>6, ListsFrom
<1> QED
  BY <1>1, <1>2, <1>5, <1>7 DEF LInv, TypeOK, Phases, ListNodes

\* The saved node is taken out, when the fiber comes back and when an exception does.
LEMMA SavedOut ==
    ASSUME LInv, phase = "resumed", list' = [list EXCEPT ![current] = Drop(@, Saved)], UNCHANGED at,
           phase' # "resumed", node' # None => node' \in Fibers /\ at[node'] = current'
    PROVE  list' \in [FDs -> Seq(ListNodes)] /\ ListsSound'
<1>1. current \in FDs /\ list \in [FDs -> Seq(ListNodes)]
  BY DEF LInv, TypeOK, Phases, ListNodes
<1>2. list[current] \in Seq(ListNodes) /\ IsInjective(list[current]) /\ Saved \in Range(list[current])
  BY <1>1, ListOf
<1>3. /\ Drop(list[current], Saved) \in Seq(ListNodes) /\ IsInjective(Drop(list[current], Saved))
      /\ Range(Drop(list[current], Saved)) = Range(list[current]) \ {Saved}
  BY <1>2, DropNode
<1>4. list' \in [FDs -> Seq(ListNodes)]
  BY <1>1, <1>3
<1>5. ASSUME NEW d \in FDs
      PROVE  /\ IsInjective(list'[d])
             /\ \A g \in Fibers : g \in Range(list'[d]) <=> at'[g] = d
             /\ Saved \in Range(list'[d]) <=> phase' = "resumed" /\ d = current'
  <2>1. CASE d = current
    <3>1. list'[d] = Drop(list[current], Saved)
      BY <1>1, <2>1
    <3> QED
      BY <1>1, <1>3, <2>1, <3>1, ListOf
  <2>2. CASE d # current
    <3>1. list'[d] = list[d]
      BY <1>1, <2>2
    <3> QED
      BY <2>2, <3>1, ListOf
  <2> QED
    BY <2>1, <2>2
<1> QED
  BY <1>4, <1>5, ListsFrom

LEMMA ReturnLists ==
    ASSUME LInv, Return
    PROVE  LInv'
<1>1. /\ phase = "resumed" /\ phase' = "handling" /\ node' = Following(list[current], Saved)
      /\ list' = [list EXCEPT ![current] = Drop(@, Saved)]
      /\ UNCHANGED <<kernelVars, entry, at, target, events, batch, current, happened>>
  BY DEF Return
<1>2. current \in FDs
  BY <1>1 DEF LInv, TypeOK, Phases
<1>3. /\ list[current] \in Seq(ListNodes) /\ IsInjective(list[current]) /\ Saved \in Range(list[current])
      /\ Range(list[current]) \subseteq ListNodes
      /\ \A f \in Fibers : f \in Range(list[current]) <=> at[f] = current
  BY <1>1, <1>2, ListOf, ListFacts
<1>4. node' # None => node' \in Fibers /\ at[node'] = current
  <2>1. node' = None \/ node' \in Range(list[current]) \ {Saved}
    BY <1>1, <1>3, FollowingNode
  <2>2. node' = None \/ node' \in Fibers
    BY <1>3, <2>1 DEF ListNodes
  <2> QED
    BY <1>3, <2>1, <2>2
<1>5. list' \in [FDs -> Seq(ListNodes)] /\ ListsSound'
  BY <1>1, <1>4, SavedOut
<1> QED
  BY <1>1, <1>2, <1>4, <1>5 DEF LInv, TypeOK, Phases, kernelVars, ListNodes

LEMMA EscapeLists ==
    ASSUME LInv, Escape
    PROVE  LInv'
<1>1. /\ phase = "resumed" /\ phase' = "user" /\ current' = None /\ node' = None
      /\ list' = [list EXCEPT ![current] = Drop(@, Saved)]
      /\ batch' \in [FDs -> SUBSET Events] /\ happened' \in SUBSET Events
      /\ UNCHANGED <<kernelVars, entry, at, target, events>>
  BY DEF Escape, LInv, Phases
<1>2. list' \in [FDs -> Seq(ListNodes)] /\ ListsSound'
  BY <1>1, SavedOut
<1> QED
  BY <1>1, <1>2 DEF LInv, TypeOK, Phases, kernelVars, ListNodes

LEMMA HandleEndLists ==
    ASSUME LInv, HandleEnd
    PROVE  LInv'
<1> DEFINE u == Update(entry[current], entry[current].io, current, object[current])
<1>1. /\ phase = "handling" /\ current # None /\ node = None
      /\ entry' = [entry EXCEPT ![current] = u.entry]
      /\ interest' = [interest EXCEPT ![current] = u.interest]
      /\ current' = None /\ happened' = {}
      /\ UNCHANGED <<object, condition, process, waitVars, phase, batch, node>>
  BY DEF HandleEnd
<1>2. /\ TypeOK /\ current \in FDs /\ entry \in [FDs -> EntrySet]
  BY <1>1 DEF LInv, TypeOK, EntrySet
<1>3. entry[current] \in EntrySet /\ entry[current].io \in IOs \cup Pids \cup {None}
  BY <1>2 DEF EntrySet
<1>4. u.entry \in EntrySet /\ u.interest \in SUBSET Events
  BY <1>2, <1>3, UpdateFacts
<1> HIDE DEF u
<1>5. entry' \in [FDs -> EntrySet] /\ interest' \in [FDs -> SUBSET Events]
  BY <1>1, <1>2, <1>4 DEF TypeOK
<1>6. TypeOK'
  BY <1>1, <1>2, <1>5 DEF TypeOK, waitVars, EntrySet
<1>7. ListsSound' /\ Phases'
  BY <1>1 DEF LInv, ListsSound, ListLive, SavedBounded, Phases, waitVars
<1> QED
  BY <1>6, <1>7 DEF LInv

LEMMA NextLists == LInv /\ [Next]_vars => LInv'
<1> SUFFICES ASSUME LInv, [Next]_vars PROVE LInv'
  OBVIOUS
<1>0. TypeOK /\ Phases
  BY DEF LInv
<1>1. CASE \E f \in Fibers, d \in FDs, evs \in (SUBSET Events) \ {{}} : IoWait(f, d, evs)
  BY <1>1, IoWaitLists
<1>2. CASE \E f \in Fibers, p \in Pids, d \in FDs : ProcessWait(f, p, d)
  BY <1>2, ProcessWaitLists
<1>3. CASE \E f \in Fibers : Cancel(f)
  BY <1>3, CancelLists
<1>4. ASSUME NEW d \in FDs, NEW io \in IOs, Open(d, io) PROVE LInv'
  <2>1. TypeOK'
    BY <1>0, <1>4 DEF Open, TypeOK, waitVars, handleVars
  <2> QED
    BY <1>4, <2>1, OtherLists DEF Open, waitVars, handleVars
<1>5. ASSUME NEW d \in FDs, Close(d) PROVE LInv'
  <2>1. TypeOK'
    BY <1>0, <1>5 DEF Close, TypeOK, waitVars, handleVars
  <2> QED
    BY <1>5, <2>1, OtherLists DEF Close, waitVars, handleVars
<1>6. ASSUME NEW d \in FDs, Reopen(d) PROVE LInv'
  <2>1. TypeOK'
    BY <1>0, <1>6 DEF Reopen, TypeOK, waitVars, handleVars
  <2> QED
    BY <1>6, <2>1, OtherLists DEF Reopen, waitVars, handleVars
<1>7. ASSUME NEW d \in FDs, NEW c \in SUBSET Conditions, Change(d, c) PROVE LInv'
  <2>1. TypeOK'
    BY <1>0, <1>7 DEF Change, TypeOK, waitVars, handleVars
  <2> QED
    BY <1>7, <2>1, OtherLists DEF Change, waitVars, handleVars
<1>8. ASSUME NEW p \in Pids, Exit(p) PROVE LInv'
  <2>1. TypeOK'
    BY <1>0, <1>8 DEF Exit, TypeOK, Events, waitVars, handleVars
  <2> QED
    BY <1>8, <2>1, OtherLists DEF Exit, waitVars, handleVars
<1>9. CASE Select
  <2>1. \A d \in FDs : ReadyEvents(d) \in SUBSET Events
    BY <1>0 DEF TypeOK, ReadyEvents, Reported, Events
  <2>2. TypeOK'
    BY <1>0, <1>9, <2>1 DEF Select, TypeOK, kernelVars, waitVars
  <2> QED
    BY <1>0, <1>9, <2>2, OtherLists DEF Select, Phases, waitVars
<1>10. CASE \E d \in FDs : HandleBegin(d)
  BY <1>10, HandleBeginLists
<1>11. CASE HandleSkip
  BY <1>11, HandleSkipLists
<1>12. CASE HandleResume
  BY <1>12, HandleResumeLists
<1>13. CASE HandleEnd
  BY <1>13, HandleEndLists
<1>14. CASE SelectEnd
  <2>1. TypeOK'
    BY <1>0, <1>14 DEF SelectEnd, TypeOK, kernelVars, waitVars
  <2> QED
    BY <1>14, <2>1, OtherLists DEF SelectEnd, waitVars
<1>15. CASE Return
  BY <1>15, ReturnLists
<1>16. CASE Escape
  BY <1>16, EscapeLists
<1>17. CASE UNCHANGED vars
  <2>1. TypeOK'
    BY <1>0, <1>17 DEF vars, TypeOK, kernelVars, waitVars, handleVars
  <2> QED
    BY <1>17, <2>1, OtherLists DEF vars, waitVars, handleVars
<1> QED
  BY <1>1, <1>2, <1>3, <1>4, <1>5, <1>6, <1>7, <1>8, <1>9, <1>10, <1>11, <1>12, <1>13,
     <1>14, <1>15, <1>16, <1>17 DEF Next, HandleStep

LEMMA ListsInvariant == Spec => []LInv
  BY InitLists, NextLists, PTL DEF Spec

\* The variables of the model have their types: Descriptor_update, Waiting_register and
\* handle store nothing but descriptors, fibers, events and IOs.
THEOREM TypeCorrect == Spec => []TypeOK
<1>1. LInv => TypeOK
  BY DEF LInv
<1> QED
  BY <1>1, ListsInvariant, PTL

\* Whatever the program does, with any number of fibers and descriptors: the list of a
\* descriptor holds the fibers that wait for it and no structure of a stack frame that
\* is gone (epoll.c: io_wait_ensure, process_wait_ensure, select_handle_events_ensure).
THEOREM ListsSafe == Spec => []ListsSound
<1>1. LInv => ListsSound
  BY DEF LInv
<1> QED
  BY <1>1, ListsInvariant, PTL

-----------------------------------------------------------------------------
(***************************************************************************)
(* What is armed, when the flags exclude what breaks it                     *)
(***************************************************************************)

\* The entry of a descriptor tells what the kernel is asked for, as long as it was
\* made for what the descriptor is open on; what epoll refuses is not in the
\* interest set.
EntryTrue ==
    \A d \in FDs :
        /\ entry[d].io # None /\ entry[d].io = object[d] => interest[d] = entry[d].registered
        /\ Refused(object[d]) => interest[d] = {}

\* A fiber waits for what its descriptor is open on, and the entry was made for it;
\* one fiber only waits on a descriptor of a process.
WaitsTrue ==
    /\ \A f \in Fibers : at[f] # None =>
          /\ target[f] = object[at[f]]
          /\ entry[at[f]].io = object[at[f]]
          /\ ~Refused(object[at[f]])
          /\ events[f] # {}
    /\ \A f, g \in Fibers :
          at[f] # None /\ at[f] = at[g] /\ object[at[f]] \in Pids => f = g

\* How far handle has come in the list of current.
Stop == IF phase = "resumed" THEN Saved ELSE node

\* The entry holds the events of every waiting fiber, at current those of the fibers
\* handle has passed and of those that came after it began.
EntryCovers ==
    \A f \in Fibers : at[f] # None =>
        IF at[f] = current
        THEN f \in Before(list[current], Stop) => events[f] \subseteq entry[current].waiting
        ELSE events[f] \subseteq entry[at[f]].waiting \cap entry[at[f]].registered

ArmedInv == EntryTrue /\ WaitsTrue /\ EntryCovers

CInv == LInv /\ ArmedInv

\* Waiting_register on a descriptor that is, or has just been, opened on io.
LEMMA RegisterArmed ==
    ASSUME CInv, NEW f \in Fibers, at[f] = None, NEW d \in FDs, NEW io \in IOs \cup Pids,
           NEW evs \in SUBSET Events, evs # {}, Register(f, io, d, evs), UNCHANGED handleVars,
           object' = [object EXCEPT ![d] = io],
           \/ object[d] = io /\ io \in IOs
           \/ object[d] = None /\ io \in Pids /\ entry[d].io # io
    PROVE  ArmedInv'
<1> DEFINE e == [entry[d] EXCEPT !.waiting = @ \cup evs]
           u == Update(e, io, d, io)
<1>1. LInv /\ TypeOK /\ EntryTrue /\ WaitsTrue /\ EntryCovers /\ entry \in [FDs -> EntrySet]
  BY DEF CInv, ArmedInv, LInv, TypeOK, EntrySet
<1>2. /\ e \in EntrySet /\ e.io = entry[d].io /\ e.registered = entry[d].registered
      /\ e.waiting = entry[d].waiting \cup evs /\ e.waiting # {}
  BY <1>1 DEF EntrySet
<1>3. /\ entry' = [entry EXCEPT ![d] = u.entry]
      /\ interest' = [interest EXCEPT ![d] = u.interest]
      /\ u.failed => UNCHANGED waitVars
      /\ ~u.failed => /\ list' = [list EXCEPT ![d] = <<f>> \o @]
                      /\ at' = [at EXCEPT ![f] = d]
                      /\ target' = [target EXCEPT ![f] = io]
                      /\ events' = [events EXCEPT ![f] = evs]
  BY DEF Register
<1> HIDE DEF e
<1>4. \/ /\ e.io = io /\ e.registered = e.waiting
         /\ u.entry = e /\ u.interest = interest[d] /\ ~u.failed
      \/ /\ e.waiting # {} /\ u.failed /\ Refused(io)
         /\ u.entry.io = io /\ u.entry.waiting = e.waiting
         /\ u.entry.registered = IF e.io = io THEN e.registered ELSE {}
         /\ u.interest = interest[d]
      \/ /\ e.waiting # {} /\ ~u.failed /\ ~Refused(io)
         /\ u.entry.io = io /\ u.entry.waiting = e.waiting
         /\ u.entry.registered = e.waiting /\ u.interest = e.waiting
  <2>1. io \in IOs \cup Pids \cup {None}
    OBVIOUS
  <2> HIDE DEF u
  <2> QED
    BY <1>1, <1>2, <2>1, UpdateFacts DEF u
<1> HIDE DEF u
<1>5. \A c \in FDs : /\ entry'[c] = IF c = d THEN u.entry ELSE entry[c]
                     /\ interest'[c] = IF c = d THEN u.interest ELSE interest[c]
                     /\ object'[c] = IF c = d THEN io ELSE object[c]
  BY <1>1, <1>3 DEF TypeOK
<1>6. /\ io # None /\ (Refused(io) => object[d] = io) /\ (object[d] = None => Refused(object[d]))
      /\ Refused(io) => interest[d] = {}
  BY <1>1 DEF Refused, EntryTrue
<1>7. e.io = io => object[d] = io /\ interest[d] = entry[d].registered
  BY <1>1, <1>2, <1>6 DEF EntryTrue
<1>8. /\ u.entry.io = io /\ u.entry.waiting = e.waiting
      /\ u.interest = u.entry.registered /\ (Refused(io) => u.interest = {})
      /\ ~u.failed => ~Refused(io) /\ u.entry.registered = e.waiting
  BY <1>2, <1>4, <1>6, <1>7
<1>9. EntryTrue'
  <2>1. \A c \in FDs :
            /\ entry'[c].io # None /\ entry'[c].io = object'[c] => interest'[c] = entry'[c].registered
            /\ Refused(object'[c]) => interest'[c] = {}
    BY <1>1, <1>5, <1>8 DEF EntryTrue
  <2> QED
    BY <2>1 DEF EntryTrue, Refused
<1>10. \A g \in Fibers : at[g] = d => object[d] = io /\ target[g] = io /\ ~Refused(io) /\ io \in IOs
  BY <1>1, <1>6 DEF WaitsTrue, TypeOK
<1>11. CASE u.failed
  <2>1. UNCHANGED waitVars /\ \A g \in Fibers : at[g] # d
    BY <1>3, <1>4, <1>10, <1>11
  <2>2. ASSUME NEW g \in Fibers, at[g] # None
        PROVE  /\ at[g] \in FDs /\ at[g] # d
               /\ object'[at[g]] = object[at[g]] /\ entry'[at[g]] = entry[at[g]]
    BY <1>1, <1>5, <2>1, <2>2 DEF TypeOK
  <2>3. WaitsTrue'
    BY <1>1, <2>1, <2>2 DEF WaitsTrue, waitVars, Refused
  <2>4. EntryCovers'
    BY <1>1, <2>1, <2>2 DEF EntryCovers, waitVars, handleVars, Stop
  <2> QED
    BY <1>9, <2>3, <2>4 DEF ArmedInv
<1>12. CASE ~u.failed
  <2>1. /\ \A g \in Fibers : /\ at'[g] = IF g = f THEN d ELSE at[g]
                             /\ target'[g] = IF g = f THEN io ELSE target[g]
                             /\ events'[g] = IF g = f THEN evs ELSE events[g]
        /\ \A c \in FDs : list'[c] = IF c = d THEN <<f>> \o list[d] ELSE list[c]
    BY <1>1, <1>3, <1>12 DEF TypeOK
  <2>2. WaitsTrue'
    <3>1. ASSUME NEW g \in Fibers, at'[g] # None
          PROVE  /\ target'[g] = object'[at'[g]]
                 /\ entry'[at'[g]].io = object'[at'[g]]
                 /\ ~Refused(object'[at'[g]])
                 /\ events'[g] # {}
      <4>1. CASE at'[g] = d
        BY <1>1, <1>5, <1>8, <1>10, <1>12, <2>1, <4>1 DEF WaitsTrue
      <4>2. CASE at'[g] # d
        <5>1. g # f /\ at'[g] = at[g] /\ at[g] \in FDs /\ at[g] # d /\ at[g] # None
          BY <1>1, <2>1, <3>1, <4>2 DEF TypeOK
        <5> QED
          BY <1>1, <1>5, <2>1, <5>1 DEF WaitsTrue
      <4> QED
        BY <4>1, <4>2
    <3>2. ASSUME NEW g \in Fibers, NEW h \in Fibers, at'[g] # None, at'[g] = at'[h],
                 object'[at'[g]] \in Pids
          PROVE  g = h
      <4>1. CASE at'[g] = d
        <5>1. io \in Pids /\ io \notin IOs
          BY <1>5, <3>2, <4>1
        <5>2. at[g] # d /\ at[h] # d
          BY <1>10, <5>1
        <5> QED
          BY <2>1, <3>2, <4>1, <5>2
      <4>2. CASE at'[g] # d
        <5>1. g # f /\ h # f /\ at'[g] = at[g] /\ at'[h] = at[h] /\ at[g] \in FDs /\ at[g] # d
          BY <1>1, <2>1, <3>2, <4>2 DEF TypeOK
        <5>2. object'[at[g]] = object[at[g]]
          BY <1>5, <5>1
        <5> QED
          BY <1>1, <3>2, <5>1, <5>2 DEF WaitsTrue
      <4> QED
        BY <4>1, <4>2
    <3> QED
      BY <3>1, <3>2 DEF WaitsTrue, Refused
  <2>3. EntryCovers'
    <3>1. Stop' = Stop /\ current' = current
      BY DEF Stop, handleVars
    <3>2. ASSUME NEW g \in Fibers, at'[g] # None
          PROVE  IF at'[g] = current
                 THEN g \in Before(list'[current], Stop) => events'[g] \subseteq entry'[current].waiting
                 ELSE events'[g] \subseteq entry'[at'[g]].waiting \cap entry'[at'[g]].registered
      <4>1. CASE at'[g] # d
        <5>1. g # f /\ at'[g] = at[g] /\ at[g] \in FDs /\ at[g] # d /\ at[g] # None
          BY <1>1, <2>1, <3>2, <4>1 DEF TypeOK
        <5>2. entry'[at[g]] = entry[at[g]] /\ list'[at[g]] = list[at[g]] /\ events'[g] = events[g]
          BY <1>5, <2>1, <5>1
        <5> QED
          BY <1>1, <5>1, <5>2 DEF EntryCovers
      <4>2. CASE at'[g] = d
        <5>1. entry'[d].waiting = e.waiting /\ entry'[d].registered = e.waiting
          BY <1>5, <1>8, <1>12
        <5>2. CASE g = f
          BY <1>2, <2>1, <4>2, <5>1, <5>2
        <5>3. CASE g # f
          <6>1. at[g] = d /\ events'[g] = events[g]
            BY <2>1, <4>2, <5>3
          <6>2. list[d] \in Seq(ListNodes) /\ IsInjective(list[d]) /\ f \notin Range(list[d])
            BY <1>1, ListOf
          <6>3. Before(list'[d], Stop) \subseteq Before(list[d], Stop) \cup {f}
            BY <2>1, <6>2, PrependNode
          <6>4. CASE d = current
            BY <1>1, <1>2, <4>2, <5>1, <5>3, <6>1, <6>3, <6>4 DEF EntryCovers
          <6>5. CASE d # current
            BY <1>1, <1>2, <4>2, <5>1, <6>1, <6>5 DEF EntryCovers
          <6> QED
            BY <6>4, <6>5
        <5> QED
          BY <5>2, <5>3
      <4> QED
        BY <4>1, <4>2
    <3> HIDE DEF Stop
    <3> QED
      BY <3>1, <3>2 DEF EntryCovers
  <2> QED
    BY <1>9, <2>2, <2>3 DEF ArmedInv
<1> QED
  BY <1>11, <1>12

\* A fiber leaves its wait: the descriptor of a process is closed, and nobody else
\* waits on it.
LEMMA LeaveArmed ==
    ASSUME CInv, NEW f \in Fibers, at[f] # None, NEW s \in Seq(ListNodes), IsInjective(s),
           f \in Range(s), Leave(f, s), UNCHANGED <<entry, current>>,
           IF at[f] = current
           THEN Before(Drop(s, f), Stop') \subseteq Before(list[current], Stop)
           ELSE Stop' = Stop
    PROVE  ArmedInv'
<1> DEFINE d == at[f]
<1>1. LInv /\ TypeOK /\ EntryTrue /\ WaitsTrue /\ EntryCovers /\ d \in FDs
  BY DEF CInv, ArmedInv, LInv, TypeOK
<1>2. /\ \A g \in Fibers : /\ at'[g] = IF g = f THEN None ELSE at[g]
                           /\ g # f => target'[g] = target[g] /\ events'[g] = events[g]
      /\ \A c \in FDs : list'[c] = IF c = d THEN Drop(s, f) ELSE list[c]
  BY <1>1, LeaveFacts
<1>3. \A c \in FDs : \/ object'[c] = object[c] /\ interest'[c] = interest[c]
                     \/ c = d /\ object[d] \in Pids /\ object'[c] = None /\ interest'[c] = {}
  BY <1>1 DEF Leave, TypeOK, WaitsTrue
<1>4. EntryTrue'
  <2>1. \A c \in FDs :
            /\ entry[c].io # None /\ entry[c].io = object'[c] => interest'[c] = entry[c].registered
            /\ Refused(object'[c]) => interest'[c] = {}
    BY <1>1, <1>3 DEF EntryTrue
  <2> QED
    BY <2>1 DEF EntryTrue, Refused
<1>5. ASSUME NEW g \in Fibers, at'[g] # None
      PROVE  /\ g # f /\ at'[g] = at[g] /\ at[g] \in FDs /\ at[g] # None
             /\ object'[at[g]] = object[at[g]]
             /\ target'[g] = target[g] /\ events'[g] = events[g]
  <2>1. g # f /\ at'[g] = at[g] /\ at[g] \in FDs /\ at[g] # None
    BY <1>1, <1>2, <1>5 DEF TypeOK
  <2>2. ~(at[g] = d /\ object[d] \in Pids)
    BY <1>1, <2>1 DEF WaitsTrue
  <2> QED
    BY <1>2, <1>3, <2>1, <2>2
<1>6. WaitsTrue'
  <2>1. ASSUME NEW g \in Fibers, at'[g] # None
        PROVE  /\ target'[g] = object'[at'[g]]
               /\ entry'[at'[g]].io = object'[at'[g]]
               /\ ~Refused(object'[at'[g]])
               /\ events'[g] # {}
    BY <1>1, <1>5, <2>1 DEF WaitsTrue
  <2>2. ASSUME NEW g \in Fibers, NEW h \in Fibers, at'[g] # None, at'[g] = at'[h],
               object'[at'[g]] \in Pids
        PROVE  g = h
    BY <1>1, <1>5, <2>2 DEF WaitsTrue
  <2> QED
    BY <2>1, <2>2 DEF WaitsTrue, Refused
<1>7. EntryCovers'
  <2>1. ASSUME NEW g \in Fibers, at'[g] # None
        PROVE  IF at'[g] = current
               THEN g \in Before(list'[current], Stop') => events'[g] \subseteq entry[current].waiting
               ELSE events'[g] \subseteq entry[at'[g]].waiting \cap entry[at'[g]].registered
    <3>1. /\ g # f /\ at'[g] = at[g] /\ at[g] \in FDs /\ at[g] # None
          /\ events'[g] = events[g]
      BY <1>5, <2>1
    <3>2. CASE at[g] # current
      BY <1>1, <3>1, <3>2 DEF EntryCovers
    <3>3. CASE at[g] = current
      <4>1. Before(list'[current], Stop') \subseteq Before(list[current], Stop)
        <5>1. CASE at[f] = current
          BY <1>2, <3>1, <3>3, <5>1
        <5>2. CASE at[f] # current
          BY <1>2, <3>1, <3>3, <5>2
        <5> QED
          BY <5>1, <5>2
      <4> QED
        BY <1>1, <3>1, <3>3, <4>1 DEF EntryCovers
    <3> QED
      BY <3>2, <3>3
  <2> QED
    BY <2>1 DEF EntryCovers
<1> QED
  BY <1>4, <1>6, <1>7 DEF ArmedInv

LEMMA InitArmed == Init => CInv
<1> SUFFICES ASSUME Init PROVE ArmedInv
  BY InitLists DEF CInv
<1> QED
  BY DEF Init, ArmedInv, EntryTrue, WaitsTrue, EntryCovers

LEMMA IoWaitArmed ==
    ASSUME CInv, NEW f \in Fibers, NEW d \in FDs, NEW evs \in (SUBSET Events) \ {{}}, IoWait(f, d, evs)
    PROVE  ArmedInv'
<1>0. evs \in SUBSET Events /\ evs # {}
  OBVIOUS
<1>1. /\ at[f] = None /\ object[d] \in IOs
      /\ Register(f, object[d], d, evs) /\ UNCHANGED handleVars /\ object' = object
  BY DEF IoWait
<1>2. object' = [object EXCEPT ![d] = object[d]]
  BY <1>1 DEF CInv, LInv, TypeOK
<1> QED
  BY <1>0, <1>1, <1>2, RegisterArmed

LEMMA ProcessWaitArmed ==
    ASSUME ~MayRetry, CInv, NEW f \in Fibers, NEW p \in Pids, NEW d \in FDs, ProcessWait(f, p, d)
    PROVE  ArmedInv'
<1>1. CASE process[p] = "exited"
  <2>1. UNCHANGED <<object, condition, interest, entry, waitVars, handleVars>>
    BY <1>1 DEF ProcessWait
  <2> QED
    BY <2>1 DEF CInv, ArmedInv, EntryTrue, WaitsTrue, EntryCovers, Refused, Stop, waitVars, handleVars
<1>2. CASE process[p] # "exited"
  <2>1. /\ at[f] = None /\ object[d] = None /\ entry[d].io # p
        /\ object' = [object EXCEPT ![d] = p]
        /\ Register(f, p, d, {"readable"}) /\ UNCHANGED handleVars
    BY <1>2 DEF ProcessWait
  <2>2. {"readable"} \in SUBSET Events /\ {"readable"} # {} /\ p \in IOs \cup Pids
    BY DEF Events
  <2> QED
    BY <2>1, <2>2, RegisterArmed
<1> QED
  BY <1>1, <1>2

LEMMA CancelArmed ==
    ASSUME CInv, NEW f \in Fibers, Cancel(f)
    PROVE  ArmedInv'
<1>1. /\ at[f] # None /\ Leave(f, list[at[f]]) /\ UNCHANGED <<process, entry, handleVars>>
      /\ at[f] \in FDs /\ phase # "handling" /\ LInv
  BY DEF Cancel, CInv, LInv, TypeOK, UserRuns
<1>2. list[at[f]] \in Seq(ListNodes) /\ IsInjective(list[at[f]]) /\ f \in Range(list[at[f]])
  BY <1>1, ListOf
<1>3. Stop' = Stop /\ UNCHANGED <<entry, current>>
  BY <1>1 DEF Stop, handleVars
<1>4. at[f] = current => Before(Drop(list[at[f]], f), Stop) \subseteq Before(list[current], Stop)
  <2> SUFFICES ASSUME at[f] = current
               PROVE  Before(Drop(list[at[f]], f), Stop) \subseteq Before(list[at[f]], Stop)
    OBVIOUS
  <2>1. phase = "resumed" /\ Stop = Saved /\ Stop # f
    BY <1>1 DEF LInv, Phases, TypeOK, Stop
  <2> QED
    BY <1>2, <2>1, DropNode
<1> HIDE DEF Stop
<1> QED
  BY <1>1, <1>2, <1>3, <1>4, LeaveArmed

LEMMA HandleBeginArmed ==
    ASSUME CInv, NEW d \in FDs, HandleBegin(d)
    PROVE  ArmedInv'
<1>1. LInv /\ TypeOK /\ EntryTrue /\ WaitsTrue /\ EntryCovers /\ entry \in [FDs -> EntrySet]
  BY DEF CInv, ArmedInv, LInv, TypeOK, EntrySet
<1>2. /\ current = None /\ current' = d /\ phase = "handling" /\ phase' = phase
      /\ entry' = [entry EXCEPT ![d].waiting = {}]
      /\ node' = IF list[d] = <<>> THEN None ELSE Head(list[d])
      /\ UNCHANGED <<kernelVars, waitVars>>
  BY DEF HandleBegin
<1>3. \A c \in FDs : /\ entry'[c].io = entry[c].io /\ entry'[c].registered = entry[c].registered
                     /\ c # d => entry'[c] = entry[c]
  BY <1>1, <1>2 DEF EntrySet
<1>4. EntryTrue'
  BY <1>1, <1>2, <1>3 DEF EntryTrue, Refused, kernelVars
<1>5. WaitsTrue'
  BY <1>1, <1>2, <1>3 DEF WaitsTrue, TypeOK, Refused, kernelVars, waitVars
<1>6. Before(list[d], node') = {}
  <2>1. list[d] \in Seq(ListNodes) /\ Len(list[d]) \in Nat
    BY <1>1, ListOf, ListFacts
  <2>2. CASE list[d] = <<>>
    BY <2>2 DEF Before
  <2>3. CASE list[d] # <<>>
    <3>1. node' = list[d][1]
      BY <1>2, <2>1, <2>3
    <3>2. \A i \in 1 .. Len(list[d]) : 1 \in 1 .. i
      BY <2>1
    <3> QED
      BY <3>1, <3>2 DEF Before
  <2> QED
    BY <2>2, <2>3
<1>7. EntryCovers'
  <2>1. Stop' = node'
    BY <1>2 DEF Stop
  <2>2. ASSUME NEW g \in Fibers, at[g] # None
        PROVE  IF at[g] = d
               THEN g \in Before(list[d], node') => events[g] \subseteq entry'[d].waiting
               ELSE events[g] \subseteq entry'[at[g]].waiting \cap entry'[at[g]].registered
    <3>1. CASE at[g] = d
      BY <1>6, <3>1
    <3>2. CASE at[g] # d
      <4>1. at[g] \in FDs /\ at[g] # current /\ entry'[at[g]] = entry[at[g]]
        BY <1>1, <1>2, <1>3, <2>2, <3>2 DEF TypeOK
      <4> QED
        BY <1>1, <2>2, <3>2, <4>1 DEF EntryCovers
    <3> QED
      BY <3>1, <3>2
  <2> QED
    BY <1>2, <2>1, <2>2 DEF EntryCovers, waitVars
<1> QED
  BY <1>4, <1>5, <1>7 DEF ArmedInv

LEMMA HandleSkipArmed ==
    ASSUME CInv, HandleSkip
    PROVE  ArmedInv'
<1>1. LInv /\ TypeOK /\ EntryTrue /\ WaitsTrue /\ EntryCovers /\ entry \in [FDs -> EntrySet]
  BY DEF CInv, ArmedInv, LInv, TypeOK, EntrySet
<1>2. /\ phase = "handling" /\ node # None /\ node' = Following(list[current], node)
      /\ entry' = [entry EXCEPT ![current].waiting = @ \cup events[node]]
      /\ UNCHANGED <<kernelVars, waitVars, phase, batch, current, happened>>
  BY DEF HandleSkip
<1>3. /\ current \in FDs /\ node \in Fibers /\ node \in Range(list[current])
      /\ list[current] \in Seq(ListNodes) /\ IsInjective(list[current])
  BY <1>1, <1>2, AtNode, ListOf
<1>4. /\ \A c \in FDs : /\ entry'[c].io = entry[c].io /\ entry'[c].registered = entry[c].registered
                        /\ c # current => entry'[c] = entry[c]
      /\ entry'[current].waiting = entry[current].waiting \cup events[node]
  BY <1>1, <1>2, <1>3 DEF EntrySet
<1>5. EntryTrue'
  BY <1>1, <1>2, <1>4 DEF EntryTrue, Refused, kernelVars
<1>6. WaitsTrue'
  BY <1>1, <1>2, <1>4 DEF WaitsTrue, TypeOK, Refused, kernelVars, waitVars
<1>7. EntryCovers'
  <2>1. Stop' = node' /\ Stop = node
    BY <1>2 DEF Stop
  <2>2. Before(list[current], node') \subseteq Before(list[current], node) \cup {node}
    BY <1>2, <1>3, FollowingNode
  <2>3. ASSUME NEW g \in Fibers, at[g] # None
        PROVE  IF at[g] = current
               THEN g \in Before(list[current], node') => events[g] \subseteq entry'[current].waiting
               ELSE events[g] \subseteq entry'[at[g]].waiting \cap entry'[at[g]].registered
    <3>1. CASE at[g] = current
      BY <1>1, <1>4, <2>1, <2>2, <2>3, <3>1 DEF EntryCovers
    <3>2. CASE at[g] # current
      BY <1>1, <1>4, <2>3, <3>2 DEF EntryCovers, TypeOK
    <3> QED
      BY <3>1, <3>2
  <2> QED
    BY <1>2, <2>1, <2>3 DEF EntryCovers, waitVars
<1> QED
  BY <1>5, <1>6, <1>7 DEF ArmedInv

LEMMA HandleResumeArmed ==
    ASSUME CInv, HandleResume
    PROVE  ArmedInv'
<1> DEFINE s == PutBefore(list[current], Saved, node)
<1>1. /\ phase = "handling" /\ node # None /\ Leave(node, s) /\ LInv
      /\ phase' = "resumed" /\ UNCHANGED <<entry, current>>
  BY DEF HandleResume, CInv
<1>2. /\ current \in FDs /\ node \in Fibers /\ at[node] = current
      /\ node \in Range(list[current]) /\ Saved \notin Range(list[current])
      /\ list[current] \in Seq(ListNodes) /\ IsInjective(list[current])
  BY <1>1, AtNode, ListOf
<1>3. /\ s \in Seq(ListNodes) /\ IsInjective(s) /\ Range(s) = Range(list[current]) \cup {Saved}
      /\ Before(s, Saved) \subseteq Before(list[current], node)
  BY <1>2, SavedNode
<1> HIDE DEF s
<1>4. at[node] # None /\ node \in Range(s) /\ Saved # node
  BY <1>2, <1>3
<1>5. Before(Drop(s, node), Saved) \subseteq Before(s, Saved)
  BY <1>3, <1>4, DropNode
<1>6. Stop' = Saved /\ Stop = node
  BY <1>1 DEF Stop
<1>7. Before(Drop(s, node), Stop') \subseteq Before(list[current], Stop)
  BY <1>3, <1>5, <1>6
<1> QED
  BY <1>1, <1>2, <1>3, <1>4, <1>7, LeaveArmed

LEMMA ReturnArmed ==
    ASSUME CInv, Return
    PROVE  ArmedInv'
<1>1. LInv /\ TypeOK /\ EntryTrue /\ WaitsTrue /\ EntryCovers
  BY DEF CInv, ArmedInv, LInv
<1>2. /\ phase = "resumed" /\ phase' = "handling" /\ node' = Following(list[current], Saved)
      /\ list' = [list EXCEPT ![current] = Drop(@, Saved)]
      /\ UNCHANGED <<kernelVars, entry, at, target, events, batch, current, happened>>
  BY DEF Return
<1>3. current \in FDs
  BY <1>1, <1>2 DEF LInv, TypeOK, Phases
<1>4. /\ list[current] \in Seq(ListNodes) /\ IsInjective(list[current]) /\ Saved \in Range(list[current])
      /\ list'[current] = Drop(list[current], Saved)
  BY <1>1, <1>2, <1>3, ListOf DEF TypeOK
<1>5. Stop' = node' /\ Stop = Saved
  BY <1>2 DEF Stop
<1>6. Before(list'[current], Stop') \subseteq Before(list[current], Stop)
  BY <1>2, <1>4, <1>5, DropNode
<1>7. EntryTrue' /\ WaitsTrue'
  BY <1>1, <1>2 DEF EntryTrue, WaitsTrue, Refused, kernelVars
<1>8. EntryCovers'
  <2> HIDE DEF Stop
  <2> QED
    BY <1>1, <1>2, <1>6 DEF EntryCovers
<1> QED
  BY <1>7, <1>8 DEF ArmedInv

LEMMA HandleEndArmed ==
    ASSUME CInv, HandleEnd
    PROVE  ArmedInv'
<1> DEFINE e == entry[current]
           u == Update(e, e.io, current, object[current])
<1>1. LInv /\ TypeOK /\ EntryTrue /\ WaitsTrue /\ EntryCovers /\ entry \in [FDs -> EntrySet]
  BY DEF CInv, ArmedInv, LInv, TypeOK, EntrySet
<1>2. /\ phase = "handling" /\ current # None /\ node = None /\ current \in FDs
      /\ entry' = [entry EXCEPT ![current] = u.entry]
      /\ interest' = [interest EXCEPT ![current] = u.interest]
      /\ current' = None
      /\ UNCHANGED <<object, condition, process, waitVars, phase, batch, node>>
  BY <1>1 DEF HandleEnd, TypeOK
<1>3. e \in EntrySet /\ e.io \in IOs \cup Pids \cup {None}
  BY <1>1, <1>2 DEF EntrySet
<1> HIDE DEF e
<1>4. \/ /\ e.registered = e.waiting /\ u.entry = e /\ u.interest = interest[current]
      \/ /\ e.waiting = {}
         /\ u.entry.io = None /\ u.entry.waiting = {} /\ u.entry.registered = {}
         /\ u.interest = {} \/ u.interest = interest[current]
      \/ /\ Refused(object[current]) /\ u.entry.io = e.io /\ u.entry.waiting = e.waiting
         /\ u.entry.registered = e.registered /\ u.interest = interest[current]
      \/ /\ ~Refused(object[current]) /\ u.entry.io = e.io /\ u.entry.waiting = e.waiting
         /\ u.entry.registered = e.waiting /\ u.interest = e.waiting
  BY <1>1, <1>2, <1>3, UpdateFacts
<1> HIDE DEF u
<1>5. \A c \in FDs : /\ entry'[c] = IF c = current THEN u.entry ELSE entry[c]
                     /\ interest'[c] = IF c = current THEN u.interest ELSE interest[c]
                     /\ object'[c] = object[c]
  BY <1>1, <1>2 DEF TypeOK
<1>6. \A g \in Fibers : at[g] = current =>
          /\ events[g] \subseteq e.waiting /\ events[g] # {}
          /\ ~Refused(object[current]) /\ e.io = object[current]
  <2> SUFFICES ASSUME NEW g \in Fibers, at[g] = current
               PROVE  /\ events[g] \subseteq e.waiting /\ events[g] # {}
                      /\ ~Refused(object[current]) /\ e.io = object[current]
    OBVIOUS
  <2>1. /\ list[current] \in Seq(ListNodes) /\ g \in Range(list[current])
        /\ Saved \notin Range(list[current])
    BY <1>1, <1>2, ListOf
  <2>2. None \notin Range(list[current])
    BY <2>1, ListFacts DEF ListNodes
  <2>3. g \in Before(list[current], Stop)
    <3>1. Stop = None
      BY <1>2 DEF Stop
    <3> QED
      BY <2>1, <2>2, <3>1, ListFacts
  <2> HIDE DEF Stop
  <2> QED
    BY <1>1, <1>2, <2>3 DEF EntryCovers, WaitsTrue, e
<1>7. EntryTrue'
  <2>1. /\ e.io # None /\ e.io = object[current] => interest[current] = e.registered
        /\ Refused(object[current]) => interest[current] = {}
    BY <1>1, <1>2 DEF EntryTrue, e
  <2>2. /\ u.entry.io # None /\ u.entry.io = object[current] => u.interest = u.entry.registered
        /\ Refused(object[current]) => u.interest = {}
    BY <1>4, <2>1
  <2>3. \A c \in FDs :
            /\ entry'[c].io # None /\ entry'[c].io = object[c] => interest'[c] = entry'[c].registered
            /\ Refused(object[c]) => interest'[c] = {}
    BY <1>1, <1>5, <2>2 DEF EntryTrue
  <2> QED
    BY <1>2, <2>3 DEF EntryTrue, Refused
<1>8. \A g \in Fibers : at[g] = current =>
          /\ events[g] \subseteq u.entry.waiting /\ events[g] \subseteq u.entry.registered
          /\ u.entry.io = object[current]
  BY <1>4, <1>6
<1>9. WaitsTrue'
  <2>1. ASSUME NEW g \in Fibers, at[g] # None PROVE entry'[at[g]].io = object[at[g]]
    <3>1. at[g] \in FDs /\ entry[at[g]].io = object[at[g]]
      BY <1>1, <2>1 DEF WaitsTrue, TypeOK
    <3>2. CASE at[g] = current
      BY <1>5, <1>8, <3>1, <3>2
    <3>3. CASE at[g] # current
      BY <1>5, <3>1, <3>3
    <3> QED
      BY <3>2, <3>3
  <2> QED
    BY <1>1, <1>2, <2>1 DEF WaitsTrue, Refused, waitVars
<1>10. EntryCovers'
  <2>1. ASSUME NEW g \in Fibers, at[g] # None
        PROVE  events[g] \subseteq entry'[at[g]].waiting \cap entry'[at[g]].registered
    <3>1. CASE at[g] = current
      BY <1>2, <1>5, <1>8, <3>1
    <3>2. CASE at[g] # current
      BY <1>1, <1>5, <2>1, <3>2 DEF EntryCovers, TypeOK
    <3> QED
      BY <3>1, <3>2
  <2> QED
    BY <1>2, <2>1 DEF EntryCovers, waitVars
<1> QED
  BY <1>7, <1>9, <1>10 DEF ArmedInv

\* A step that leaves the entries, the waits and the interest set alone.
LEMMA OtherArmed ==
    ASSUME CInv, UNCHANGED <<object, interest, entry, waitVars, current, node>>,
           (phase' = "resumed") = (phase = "resumed")
    PROVE  ArmedInv'
  BY DEF CInv, ArmedInv, EntryTrue, WaitsTrue, EntryCovers, Refused, Stop, waitVars

LEMMA NextArmed ==
    ASSUME ~MayRetry, ~MayEscape, ~MayReopen, ~MayAbandon, CInv, [Next]_vars
    PROVE  CInv'
<1> SUFFICES ArmedInv'
  BY NextLists DEF CInv
<1>0. TypeOK /\ Phases /\ EntryTrue /\ WaitsTrue /\ EntryCovers
  BY DEF CInv, ArmedInv, LInv
<1>1. CASE \E f \in Fibers, d \in FDs, evs \in (SUBSET Events) \ {{}} : IoWait(f, d, evs)
  BY <1>1, IoWaitArmed
<1>2. CASE \E f \in Fibers, p \in Pids, d \in FDs : ProcessWait(f, p, d)
  BY <1>2, ProcessWaitArmed
<1>3. CASE \E f \in Fibers : Cancel(f)
  BY <1>3, CancelArmed
<1>4. ASSUME NEW d \in FDs, NEW io \in IOs, Open(d, io) PROVE ArmedInv'
  <2>1. /\ object[d] = None /\ entry[d].io # io
        /\ UNCHANGED <<interest, entry, waitVars, current, node, phase>>
        /\ \A c \in FDs : object'[c] = IF c = d THEN io ELSE object[c]
    BY <1>0, <1>4 DEF Open, handleVars, TypeOK
  <2>2. \A f \in Fibers : at[f] # None => object'[at[f]] = object[at[f]]
    BY <1>0, <2>1 DEF WaitsTrue, TypeOK, Refused
  <2>3. EntryTrue'
    BY <1>0, <2>1 DEF EntryTrue, Refused
  <2>4. WaitsTrue'
    BY <1>0, <2>1, <2>2 DEF WaitsTrue, Refused, waitVars
  <2>5. EntryCovers'
    BY <1>0, <2>1 DEF EntryCovers, Stop, waitVars
  <2> QED
    BY <2>3, <2>4, <2>5 DEF ArmedInv
<1>5. ASSUME NEW d \in FDs, Close(d) PROVE ArmedInv'
  <2>1. /\ \A f \in Fibers : at[f] # d
        /\ UNCHANGED <<entry, waitVars, current, node, phase>>
        /\ \A c \in FDs : /\ object'[c] = IF c = d THEN None ELSE object[c]
                          /\ interest'[c] = IF c = d THEN {} ELSE interest[c]
    BY <1>0, <1>5 DEF Close, handleVars, TypeOK
  <2>2. \A f \in Fibers : at[f] # None => object'[at[f]] = object[at[f]]
    BY <1>0, <2>1 DEF TypeOK
  <2>3. EntryTrue'
    BY <1>0, <2>1 DEF EntryTrue, Refused
  <2>4. WaitsTrue'
    BY <1>0, <2>1, <2>2 DEF WaitsTrue, Refused, waitVars
  <2>5. EntryCovers'
    BY <1>0, <2>1 DEF EntryCovers, Stop, waitVars
  <2> QED
    BY <2>3, <2>4, <2>5 DEF ArmedInv
<1>6. ASSUME NEW d \in FDs, Reopen(d) PROVE ArmedInv'
  BY <1>6 DEF Reopen
<1>7. CASE \E d \in FDs, c \in SUBSET Conditions : Change(d, c)
  BY <1>7, OtherArmed DEF Change, handleVars
<1>8. CASE \E p \in Pids : Exit(p)
  BY <1>8, OtherArmed DEF Exit, handleVars
<1>9. CASE Select
  BY <1>9, OtherArmed DEF Select, kernelVars
<1>10. CASE \E d \in FDs : HandleBegin(d)
  BY <1>10, HandleBeginArmed
<1>11. CASE HandleSkip
  BY <1>11, HandleSkipArmed
<1>12. CASE HandleResume
  BY <1>12, HandleResumeArmed
<1>13. CASE HandleEnd
  BY <1>13, HandleEndArmed
<1>14. CASE SelectEnd
  BY <1>14, OtherArmed DEF SelectEnd, kernelVars
<1>15. CASE Return
  BY <1>15, ReturnArmed
<1>16. CASE Escape
  BY <1>16 DEF Escape
<1>17. CASE UNCHANGED vars
  BY <1>17, OtherArmed DEF vars, kernelVars, handleVars
<1> QED
  BY <1>1, <1>2, <1>3, <1>4, <1>5, <1>6, <1>7, <1>8, <1>9, <1>10, <1>11, <1>12, <1>13,
     <1>14, <1>15, <1>16, <1>17 DEF Next, HandleStep

\* A program that does not escape from a resumed fiber, use IO#reopen, or close an IO that
\* is waited for, and whose processes are not waited for again after a cancelled wait,
\* finds every descriptor armed, in the entry and in the kernel, for the fibers that wait
\* for it (Descriptor_update, epoll.c), also when the numbers of closed descriptors are
\* reused while their events wait to be handled.
THEOREM ArmedWhenWaiting ==
    ASSUME ~MayRetry, ~MayEscape, ~MayReopen, ~MayAbandon
    PROVE  Spec => []Covered
<1>1. CInv /\ [Next]_vars => CInv'
  BY NextArmed
<1>2. CInv => Covered
  BY DEF CInv, LInv, TypeOK, ArmedInv, EntryTrue, WaitsTrue, EntryCovers, Covered, WaitingCovered,
         Armed, Refused
<1> QED
  BY <1>1, <1>2, InitArmed, PTL DEF Spec

=============================================================================
