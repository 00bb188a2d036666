---------------------------- MODULE SelectProofs ----------------------------
(***************************************************************************)
(* Proofs about Select, for any number of fibers, IOs and Waiters: what can *)
(* resume a fiber belongs to the call the fiber is in, chains are not       *)
(* shared and have no cycle, no waiter is lost unless an exception leaves   *)
(* dispatch, and io_wait keeps the promises of IOWait.                      *)
(***************************************************************************)
EXTENDS Select, SequenceTheorems, TLAPS

USE BoundsAssumption, SetsAssumption

-----------------------------------------------------------------------------
(***************************************************************************)
(* The invariant                                                            *)
(***************************************************************************)

\* A fiber that has control is in user code; select dispatches only in its last stage.
Control ==
    /\ run # Loop => place[run] = "idle"
    /\ \A f \in Fibers : place[f] = "waiting" <=> at[f] # None
    /\ cursor # None => current # None
    /\ current # None => stage = "dispatching" /\ batch[current] # {}

\* The Waiter of an io_wait names its fiber, and no other Waiter does.
Owned ==
    /\ \A f \in Fibers : at[f] # None => waiter[at[f]].fiber = f /\ waiter[at[f]].io \in IOs
    /\ \A w \in Waiters : waiter[w].fiber # None => at[waiter[w].fiber] = w

\* An Optional that still holds its fiber is that of the call the fiber is in.
OptionalsCurrent ==
    \A i \in DOMAIN ready :
        ready[i].optional /\ ready[i].fiber # None =>
            /\ place[ready[i].fiber] = "queued"
            /\ \A j \in DOMAIN ready : ready[j] = ready[i] => j = i

\* A Waiter is the tail of one other at most, and the first of a chain is the tail of
\* none; chains start with different Waiters.
Links ==
    /\ \A v, w \in Waiters : waiter[v].tail = waiter[w].tail /\ waiter[v].tail # None => v = w
    /\ \A w \in Waiters : /\ waiter[w].tail # None => waiter[w].tail # cursor
                          /\ \A io \in IOs : waiter[w].tail # None => waiter[w].tail # waiting[io]
    /\ \A io \in IOs : waiting[io] # None => waiting[io] # cursor
    /\ \A io, jo \in IOs : waiting[io] = waiting[jo] /\ waiting[io] # None => io = jo

\* Tails lead downwards: there is no cycle.
Ranked ==
    \E rank \in [Waiters -> Nat] :
        \A w \in Waiters : waiter[w].tail # None => rank[waiter[w].tail] < rank[w]

SInv == TypeOK /\ Control /\ Owned /\ OptionalsCurrent /\ Links /\ Ranked

-----------------------------------------------------------------------------
(***************************************************************************)
(* Chains                                                                   *)
(***************************************************************************)

TailMap == [Waiters -> Waiters \cup {None}]

LEMMA ReachLeast ==
    ASSUME NEW tail, NEW w, NEW S \in SUBSET Waiters, w \in S \cup {None},
           \A u \in S : tail[u] \in S \cup {None}
    PROVE  Reach(tail, w) \subseteq S
  BY DEF Reach

LEMMA ReachFacts ==
    ASSUME NEW tail \in TailMap, NEW w \in Waiters \cup {None}
    PROVE  /\ Reach(tail, w) \in SUBSET Waiters
           /\ w \in Reach(tail, w) \cup {None}
           /\ \A u \in Reach(tail, w) : tail[u] \in Reach(tail, w) \cup {None}
           /\ w = None => Reach(tail, w) = {}
<1>1. Reach(tail, w) \in SUBSET Waiters
  BY DEF Reach
<1>2. w \in Reach(tail, w) \cup {None}
  BY DEF Reach
<1>3. ASSUME NEW u \in Reach(tail, w) PROVE tail[u] \in Reach(tail, w) \cup {None}
  <2> SUFFICES ASSUME tail[u] # None, NEW S \in SUBSET Waiters, w \in S \cup {None},
                      \A v \in S : tail[v] \in S \cup {None}
               PROVE  tail[u] \in S
    BY <1>1 DEF Reach, TailMap
  <2>1. u \in S
    BY DEF Reach
  <2> QED
    BY <2>1
<1>4. ASSUME w = None PROVE Reach(tail, w) = {}
  <2> DEFINE S == {}
  <2>1. S \in SUBSET Waiters /\ w \in S \cup {None} /\ \A u \in S : tail[u] \in S \cup {None}
    BY <1>4
  <2> HIDE DEF S
  <2>2. Reach(tail, w) \subseteq S
    BY <2>1, ReachLeast
  <2> QED
    BY <2>2 DEF S
<1> QED
  BY <1>1, <1>2, <1>3, <1>4

\* A chain is its first Waiter and the chain of the rest.
LEMMA ReachStep ==
    ASSUME NEW tail \in TailMap, NEW w \in Waiters
    PROVE  Reach(tail, w) = {w} \cup Reach(tail, tail[w])
<1>1. tail[w] \in Waiters \cup {None}
  BY DEF TailMap
<1>2. /\ Reach(tail, w) \in SUBSET Waiters /\ w \in Reach(tail, w)
      /\ \A u \in Reach(tail, w) : tail[u] \in Reach(tail, w) \cup {None}
  BY ReachFacts
<1>3. /\ Reach(tail, tail[w]) \in SUBSET Waiters /\ tail[w] \in Reach(tail, tail[w]) \cup {None}
      /\ \A u \in Reach(tail, tail[w]) : tail[u] \in Reach(tail, tail[w]) \cup {None}
  BY <1>1, ReachFacts
<1>4. Reach(tail, w) \subseteq {w} \cup Reach(tail, tail[w])
  <2> DEFINE S == {w} \cup Reach(tail, tail[w])
  <2>1. S \in SUBSET Waiters /\ w \in S \cup {None} /\ \A u \in S : tail[u] \in S \cup {None}
    BY <1>3
  <2> HIDE DEF S
  <2>2. Reach(tail, w) \subseteq S
    BY <2>1, ReachLeast
  <2> QED
    BY <2>2 DEF S
<1>5. Reach(tail, tail[w]) \subseteq Reach(tail, w)
  BY <1>2, ReachLeast
<1> QED
  BY <1>2, <1>4, <1>5

\* A chain does not change with the tails of other Waiters.
LEMMA ReachFrame ==
    ASSUME NEW tail \in TailMap, NEW next \in TailMap, NEW w \in Waiters \cup {None},
           \A v \in Reach(tail, w) : next[v] = tail[v]
    PROVE  Reach(next, w) = Reach(tail, w)
<1>1. /\ Reach(tail, w) \in SUBSET Waiters /\ w \in Reach(tail, w) \cup {None}
      /\ \A u \in Reach(tail, w) : tail[u] \in Reach(tail, w) \cup {None}
  BY ReachFacts
<1>2. /\ Reach(next, w) \in SUBSET Waiters /\ w \in Reach(next, w) \cup {None}
      /\ \A u \in Reach(next, w) : next[u] \in Reach(next, w) \cup {None}
  BY ReachFacts
<1>3. Reach(next, w) \subseteq Reach(tail, w)
  <2>1. \A u \in Reach(tail, w) : next[u] \in Reach(tail, w) \cup {None}
    BY <1>1
  <2> QED
    BY <1>1, <2>1, ReachLeast
<1>4. Reach(tail, w) \subseteq Reach(next, w)
  <2> DEFINE S == Reach(tail, w) \cap Reach(next, w)
  <2>1. S \in SUBSET Waiters /\ w \in S \cup {None}
    BY <1>1, <1>2
  <2>2. \A u \in S : tail[u] \in S \cup {None}
    BY <1>1, <1>2
  <2> HIDE DEF S
  <2>3. Reach(tail, w) \subseteq S
    BY <2>1, <2>2, ReachLeast
  <2> QED
    BY <2>3 DEF S
<1> QED
  BY <1>3, <1>4

\* A chain does not hold what it does not start with and no other Waiter of it leads to.
LEMMA ReachAvoids ==
    ASSUME NEW tail \in TailMap, NEW w \in Waiters \cup {None}, NEW x \in Waiters, w # x,
           \A v \in Reach(tail, w) : v # x => tail[v] # x
    PROVE  x \notin Reach(tail, w)
<1>1. /\ Reach(tail, w) \in SUBSET Waiters /\ w \in Reach(tail, w) \cup {None}
      /\ \A u \in Reach(tail, w) : tail[u] \in Reach(tail, w) \cup {None}
  BY ReachFacts
<1> DEFINE S == Reach(tail, w) \ {x}
<1>2. S \in SUBSET Waiters /\ w \in S \cup {None} /\ \A u \in S : tail[u] \in S \cup {None}
  BY <1>1
<1> HIDE DEF S
<1>3. Reach(tail, w) \subseteq S
  BY <1>2, ReachLeast
<1> QED
  BY <1>3 DEF S

-----------------------------------------------------------------------------
(***************************************************************************)
(* The links between Waiters                                                *)
(***************************************************************************)

LEMMA TailFacts ==
    ASSUME TypeOK
    PROVE  /\ Tails \in TailMap /\ \A w \in Waiters : Tails[w] = waiter[w].tail
           /\ Tails' \in TailMap <=> \A w \in Waiters : waiter'[w].tail \in Waiters \cup {None}
           /\ \A w \in Waiters : Tails'[w] = waiter'[w].tail
  BY DEF TypeOK, Tails, TailMap

\* Tails may be cut and chains dropped.
LEMMA LinksFewer ==
    ASSUME TypeOK, Links, Ranked,
           \A w \in Waiters : waiter'[w].tail \in {waiter[w].tail, None},
           \A io \in IOs : waiting'[io] \in {waiting[io], None},
           cursor' \in {cursor, None}
    PROVE  Links' /\ Ranked'
<1>1. Links'
  <2>1. \A v, w \in Waiters : waiter'[v].tail = waiter'[w].tail /\ waiter'[v].tail # None => v = w
    BY DEF Links
  <2>2. \A w \in Waiters : /\ waiter'[w].tail # None => waiter'[w].tail # cursor'
                           /\ \A io \in IOs : waiter'[w].tail # None => waiter'[w].tail # waiting'[io]
    BY DEF Links
  <2>3. \A io \in IOs : waiting'[io] # None => waiting'[io] # cursor'
    BY DEF Links
  <2>4. \A io, jo \in IOs : waiting'[io] = waiting'[jo] /\ waiting'[io] # None => io = jo
    BY DEF Links
  <2> QED
    BY <2>1, <2>2, <2>3, <2>4 DEF Links
<1>2. Ranked'
  <2>1. PICK rank \in [Waiters -> Nat] :
             \A w \in Waiters : waiter[w].tail # None => rank[waiter[w].tail] < rank[w]
    BY DEF Ranked
  <2>2. \A w \in Waiters : waiter'[w].tail # None => rank[waiter'[w].tail] < rank[w]
    BY <2>1
  <2> QED
    BY <2>2 DEF Ranked
<1> QED
  BY <1>1, <1>2

\* A Waiter that nothing leads to becomes the first of an IO's chain; dispatch goes on
\* with what no other Waiter leads to.
LEMMA LinksMore ==
    ASSUME TypeOK, Links, Ranked, NEW w \in Waiters, NEW io \in IOs,
           \A v \in Waiters : v # w => waiter'[v].tail \in {waiter[v].tail, None} /\ waiter'[v].tail # w,
           waiter'[w].tail = waiting[io], waiting[io] # w,
           waiting' = [waiting EXCEPT ![io] = w], \A jo \in IOs : waiting[jo] # w,
           cursor' = None \/ /\ cursor' # w /\ \A jo \in IOs : cursor' # waiting[jo]
                             /\ \A v \in Waiters : v # w => waiter'[v].tail # cursor'
    PROVE  Links' /\ Ranked'
<1>0. /\ waiting \in [IOs -> Waiters \cup {None}]
      /\ \A jo \in IOs : waiting'[jo] = IF jo = io THEN w ELSE waiting[jo]
  BY DEF TypeOK
<1>1. Links'
  <2>1. \A v, x \in Waiters : waiter'[v].tail = waiter'[x].tail /\ waiter'[v].tail # None => v = x
    BY DEF Links
  <2>2. ASSUME NEW v \in Waiters, waiter'[v].tail # None
        PROVE  /\ waiter'[v].tail # cursor'
               /\ \A jo \in IOs : waiter'[v].tail # waiting'[jo]
    <3>1. CASE v = w
      BY <1>0, <2>2, <3>1 DEF Links
    <3>2. CASE v # w
      BY <1>0, <2>2, <3>2 DEF Links
    <3> QED
      BY <3>1, <3>2
  <2>3. \A jo \in IOs : waiting'[jo] # None => waiting'[jo] # cursor'
    BY <1>0 DEF Links
  <2>4. \A ko, jo \in IOs : waiting'[ko] = waiting'[jo] /\ waiting'[ko] # None => ko = jo
    BY <1>0 DEF Links
  <2> QED
    BY <2>1, <2>2, <2>3, <2>4 DEF Links
<1>2. Ranked'
  <2>1. PICK rank \in [Waiters -> Nat] :
             \A v \in Waiters : waiter[v].tail # None => rank[waiter[v].tail] < rank[v]
    BY DEF Ranked
  <2> DEFINE above == IF waiting[io] = None THEN 0 ELSE rank[waiting[io]] + 1
             next == [rank EXCEPT ![w] = above]
  <2>2. above \in Nat
    BY <1>0, <2>1
  <2>3. next \in [Waiters -> Nat] /\ next[w] = above /\ \A v \in Waiters : v # w => next[v] = rank[v]
    BY <2>1, <2>2
  <2>4. \A v \in Waiters : waiter[v].tail \in Waiters \cup {None}
    BY DEF TypeOK
  <2>5. ASSUME NEW v \in Waiters, waiter'[v].tail # None PROVE next[waiter'[v].tail] < next[v]
    <3>1. CASE v = w
      <4>1. waiter'[v].tail = waiting[io] /\ waiting[io] \in Waiters /\ waiting[io] # w
        BY <1>0, <2>5, <3>1
      <4>2. next[waiting[io]] = rank[waiting[io]] /\ above = rank[waiting[io]] + 1
        BY <2>3, <2>5, <3>1, <4>1
      <4> HIDE DEF next, above
      <4>3. rank[waiting[io]] \in Nat
        BY <2>1, <4>1
      <4> QED
        BY <2>3, <3>1, <4>1, <4>2, <4>3
    <3>2. CASE v # w
      <4>1. waiter'[v].tail = waiter[v].tail /\ waiter[v].tail \in Waiters /\ waiter[v].tail # w
        BY <2>4, <2>5, <3>2
      <4> HIDE DEF next, above
      <4> QED
        BY <2>1, <2>3, <2>5, <3>2, <4>1
    <3> QED
      BY <3>1, <3>2
  <2> HIDE DEF next, above
  <2> QED
    BY <2>3, <2>5 DEF Ranked
<1> QED
  BY <1>1, <1>2

\* No Waiter is in two chains or twice in one.
LEMMA LinksDisjoint ==
    ASSUME TypeOK, Links, Ranked
    PROVE  ChainsDisjoint
<1>1. Tails \in TailMap /\ \A w \in Waiters : Tails[w] = waiter[w].tail
  BY TailFacts
<1>2. /\ waiting \in [IOs -> Waiters \cup {None}] /\ cursor \in Waiters \cup {None}
      /\ at \in [Fibers -> Waiters \cup {None}]
      /\ \A w \in Waiters : waiter[w].tail \in Waiters \cup {None}
  BY DEF TypeOK
<1>3. ASSUME NEW r \in Waiters, NEW s \in Waiters \cup {None}, r # s,
             \A v \in Waiters : Tails[v] # r /\ (Tails[v] # None => Tails[v] # s)
      PROVE  Chain(r) \cap Chain(s) = {}
  <2>1. /\ Reach(Tails, s) \in SUBSET Waiters
        /\ \A u \in Reach(Tails, s) : Tails[u] \in Reach(Tails, s) \cup {None}
    BY <1>1, ReachFacts
  <2>2. /\ Reach(Tails, r) \in SUBSET Waiters
        /\ r \in Reach(Tails, r) /\ \A u \in Reach(Tails, r) : Tails[u] \in Reach(Tails, r) \cup {None}
    BY <1>1, ReachFacts
  <2>3. r \notin Reach(Tails, s)
    BY <1>1, <1>3, <2>1, ReachAvoids
  <2>4. ASSUME NEW u \in Reach(Tails, r) \ Reach(Tails, s), Tails[u] # None
        PROVE  Tails[u] \notin Reach(Tails, s)
    <3>1. u \in Waiters /\ Tails[u] \in Waiters /\ s # Tails[u]
      BY <1>3, <2>2, <2>4 DEF TailMap
    <3>2. \A v \in Reach(Tails, s) : Tails[v] # Tails[u]
      BY <1>1, <2>1, <2>4, <3>1 DEF Links
    <3> QED
      BY <1>1, <3>1, <3>2, ReachAvoids
  <2> DEFINE S == Reach(Tails, r) \ Reach(Tails, s)
  <2>5. S \in SUBSET Waiters /\ r \in S \cup {None} /\ \A u \in S : Tails[u] \in S \cup {None}
    BY <2>2, <2>3, <2>4
  <2> HIDE DEF S
  <2>6. Reach(Tails, r) \subseteq S
    BY <2>5, ReachLeast
  <2> QED
    BY <2>6 DEF S, Chain
<1>4. Chain(None) = {}
  BY <1>1, ReachFacts DEF Chain
<1>5. ASSUME NEW io \in IOs, NEW jo \in IOs, io # jo PROVE Chain(waiting[io]) \cap Chain(waiting[jo]) = {}
  <2>1. CASE waiting[io] = None
    BY <1>4, <2>1
  <2>2. CASE waiting[io] # None
    <3>1. waiting[io] \in Waiters /\ waiting[jo] \in Waiters \cup {None} /\ waiting[io] # waiting[jo]
      BY <1>2, <1>5, <2>2 DEF Links
    <3>2. \A v \in Waiters : Tails[v] # waiting[io] /\ (Tails[v] # None => Tails[v] # waiting[jo])
      BY <1>1, <2>2 DEF Links
    <3> QED
      BY <1>3, <3>1, <3>2
  <2> QED
    BY <2>1, <2>2
<1>6. ASSUME NEW io \in IOs PROVE Chain(waiting[io]) \cap Chain(cursor) = {}
  <2>1. CASE waiting[io] = None
    BY <1>4, <2>1
  <2>2. CASE waiting[io] # None
    <3>1. waiting[io] \in Waiters /\ cursor \in Waiters \cup {None} /\ waiting[io] # cursor
      BY <1>2, <2>2 DEF Links
    <3>2. \A v \in Waiters : Tails[v] # waiting[io] /\ (Tails[v] # None => Tails[v] # cursor)
      BY <1>1, <2>2 DEF Links
    <3> QED
      BY <1>3, <3>1, <3>2
  <2> QED
    BY <2>1, <2>2
<1>7. ASSUME NEW w \in Waiters, waiter[w].tail # None PROVE w \notin Chain(waiter[w].tail)
  <2>1. PICK rank \in [Waiters -> Nat] :
             \A v \in Waiters : waiter[v].tail # None => rank[waiter[v].tail] < rank[v]
    BY DEF Ranked
  <2> DEFINE S == {v \in Waiters : rank[v] < rank[w]}
  <2>2. S \in SUBSET Waiters /\ waiter[w].tail \in S \cup {None}
    BY <1>2, <1>7, <2>1
  <2>3. ASSUME NEW u \in S PROVE Tails[u] \in S \cup {None}
    <3>1. CASE Tails[u] # None
      <4>1. u \in Waiters /\ Tails[u] = waiter[u].tail /\ Tails[u] \in Waiters /\ rank[u] < rank[w]
        BY <1>1, <1>2, <3>1
      <4>2. rank[Tails[u]] < rank[u] /\ rank[Tails[u]] \in Nat /\ rank[u] \in Nat /\ rank[w] \in Nat
        BY <2>1, <3>1, <4>1
      <4> QED
        BY <4>1, <4>2
    <3> QED
      BY <3>1
  <2>4. w \notin S
    BY <2>1
  <2> HIDE DEF S
  <2>5. Reach(Tails, waiter[w].tail) \subseteq S
    BY <2>2, <2>3, ReachLeast
  <2> QED
    BY <2>4, <2>5 DEF Chain
<1>8. Referred \subseteq Waiters
  BY DEF Referred, Chain, Reach
<1> DEFINE roots == {<<io, waiting[io]>> : io \in IOs} \cup {<<None, cursor>>}
<1>9. ASSUME NEW r \in roots, NEW s \in roots, r # s PROVE Chain(r[2]) \cap Chain(s[2]) = {}
  <2>1. ASSUME NEW io \in IOs, NEW jo \in IOs, r = <<io, waiting[io]>>, s = <<jo, waiting[jo]>>
        PROVE  Chain(r[2]) \cap Chain(s[2]) = {}
    BY <1>5, <1>9, <2>1
  <2>2. ASSUME NEW io \in IOs, r = <<io, waiting[io]>>, s = <<None, cursor>>
        PROVE  Chain(r[2]) \cap Chain(s[2]) = {}
    BY <1>6, <2>2
  <2>3. ASSUME NEW io \in IOs, s = <<io, waiting[io]>>, r = <<None, cursor>>
        PROVE  Chain(r[2]) \cap Chain(s[2]) = {}
    BY <1>6, <2>3
  <2> QED
    BY <1>9, <2>1, <2>2, <2>3
<1> QED
  BY <1>7, <1>8, <1>9 DEF ChainsDisjoint

-----------------------------------------------------------------------------
(***************************************************************************)
(* The ready list                                                           *)
(***************************************************************************)

\* Optionals of the list q are those of the calls their fibers are in, except that of g.
QueueCurrent(q, places, g) ==
    \A i \in DOMAIN q :
        q[i].optional /\ q[i].fiber # None /\ q[i].fiber # g =>
            /\ places[q[i].fiber] = "queued"
            /\ \A j \in DOMAIN q : q[j] = q[i] => j = i

LEMMA NullifiedFacts ==
    ASSUME NEW q \in Seq(Entry), NEW places, NEW g \in Fibers, QueueCurrent(q, places, g)
    PROVE  /\ Nullified(q, g) \in Seq(Entry) /\ Len(Nullified(q, g)) = Len(q)
           /\ QueueCurrent(Nullified(q, g), places, None)
<1> DEFINE t == Nullified(q, g)
<1>1. Len(q) \in Nat /\ DOMAIN q = 1 .. Len(q) /\ \A i \in 1 .. Len(q) : q[i] \in Entry
  OBVIOUS
<1>2. /\ DOMAIN t = 1 .. Len(q)
      /\ \A i \in 1 .. Len(q) :
            /\ t[i] \in Entry
            /\ t[i] = q[i] \/ (q[i] = [optional |-> TRUE, fiber |-> g] /\ t[i].fiber = None)
            /\ t[i].optional /\ t[i].fiber # None => t[i] = q[i] /\ t[i].fiber # g
  <2>1. /\ DOMAIN t = 1 .. Len(q)
        /\ \A i \in 1 .. Len(q) :
              t[i] = IF q[i] = [optional |-> TRUE, fiber |-> g] THEN [q[i] EXCEPT !.fiber = None] ELSE q[i]
    BY <1>1 DEF Nullified
  <2> HIDE DEF t
  <2> SUFFICES ASSUME NEW i \in 1 .. Len(q)
               PROVE  /\ t[i] \in Entry
                      /\ t[i] = q[i] \/ (q[i] = [optional |-> TRUE, fiber |-> g] /\ t[i].fiber = None)
                      /\ t[i].optional /\ t[i].fiber # None => t[i] = q[i] /\ t[i].fiber # g
    BY <2>1
  <2>2. q[i] \in Entry
    BY <1>1
  <2>3. CASE q[i] = [optional |-> TRUE, fiber |-> g]
    <3>1. t[i] = [optional |-> TRUE, fiber |-> None]
      BY <2>1, <2>3
    <3> QED
      BY <2>3, <3>1 DEF Entry
  <2>4. CASE q[i] # [optional |-> TRUE, fiber |-> g]
    <3>1. t[i] = q[i]
      BY <2>1, <2>4
    <3> QED
      BY <2>2, <2>4, <3>1 DEF Entry
  <2> QED
    BY <2>3, <2>4
<1>3. t \in [1 .. Len(q) -> Entry]
  <2>1. t = [i \in 1 .. Len(q) |-> t[i]]
    BY <1>1 DEF Nullified
  <2> HIDE DEF t
  <2> QED
    BY <1>2, <2>1
<1> HIDE DEF t
<1>4. t \in Seq(Entry) /\ Len(t) = Len(q)
  BY <1>1, <1>2, <1>3, SeqDef, LenProperties
<1>5. QueueCurrent(t, places, None)
  <2> SUFFICES ASSUME NEW k \in 1 .. Len(q), t[k].optional, t[k].fiber # None
               PROVE  /\ places[t[k].fiber] = "queued"
                      /\ \A j \in 1 .. Len(q) : t[j] = t[k] => j = k
    BY <1>2 DEF QueueCurrent
  <2>1. t[k] = q[k] /\ q[k].fiber # g /\ q[k].optional /\ q[k].fiber # None
    BY <1>2
  <2>2. places[q[k].fiber] = "queued" /\ \A j \in 1 .. Len(q) : q[j] = q[k] => j = k
    BY <1>1, <2>1 DEF QueueCurrent
  <2>3. ASSUME NEW j \in 1 .. Len(q), t[j] = t[k] PROVE j = k
    BY <1>2, <2>1, <2>2, <2>3
  <2> QED
    BY <2>1, <2>2, <2>3
<1> QED
  BY <1>4, <1>5 DEF t

LEMMA AppendedFacts ==
    ASSUME NEW q \in Seq(Entry), NEW e \in Entry, NEW places, NEW g,
           QueueCurrent(q, places, g),
           e.optional /\ e.fiber # None /\ e.fiber # g =>
               /\ places[e.fiber] = "queued"
               /\ \A i \in DOMAIN q : q[i] # e
    PROVE  /\ Append(q, e) \in Seq(Entry) /\ Len(Append(q, e)) = Len(q) + 1
           /\ QueueCurrent(Append(q, e), places, g)
<1> DEFINE t == Append(q, e)
<1>1. /\ Len(q) \in Nat /\ DOMAIN q = 1 .. Len(q) /\ \A i \in 1 .. Len(q) : q[i] \in Entry
      /\ t \in Seq(Entry) /\ Len(t) = Len(q) + 1 /\ DOMAIN t = 1 .. Len(q) + 1
      /\ \A i \in 1 .. Len(q) : t[i] = q[i]
      /\ t[Len(q) + 1] = e
  OBVIOUS
<1> HIDE DEF t
<1>2. QueueCurrent(t, places, g)
  <2> SUFFICES ASSUME NEW k \in 1 .. Len(q) + 1, t[k].optional, t[k].fiber # None, t[k].fiber # g
               PROVE  /\ places[t[k].fiber] = "queued"
                      /\ \A j \in 1 .. Len(q) + 1 : t[j] = t[k] => j = k
    BY <1>1 DEF QueueCurrent
  <2>0. \A j \in 1 .. Len(q) + 1 : j \in 1 .. Len(q) \/ j = Len(q) + 1
    BY <1>1
  <2>1. CASE k = Len(q) + 1
    BY <1>1, <2>0, <2>1
  <2>2. CASE k \in 1 .. Len(q)
    <3>1. t[k] = q[k]
      BY <1>1, <2>2
    <3>2. places[q[k].fiber] = "queued" /\ \A j \in 1 .. Len(q) : q[j] = q[k] => j = k
      BY <1>1, <2>2, <3>1 DEF QueueCurrent
    <3>3. q[k] # e
      BY <1>1, <2>2, <3>1
    <3> QED
      BY <1>1, <2>0, <2>2, <3>1, <3>2, <3>3
  <2> QED
    BY <2>0, <2>1, <2>2
<1> QED
  BY <1>1, <1>2 DEF t

LEMMA PoppedFacts ==
    ASSUME NEW q \in Seq(Entry), Len(q) > 0, NEW places, NEW g, QueueCurrent(q, places, g)
    PROVE  /\ Head(q) \in Entry /\ Head(q) = q[1] /\ 1 \in DOMAIN q
           /\ Tail(q) \in Seq(Entry) /\ Len(Tail(q)) = Len(q) - 1
           /\ QueueCurrent(Tail(q), places, g)
<1> DEFINE t == Tail(q)
<1>0. q # <<>>
  OBVIOUS
<1>1. /\ Len(q) \in Nat /\ DOMAIN q = 1 .. Len(q) /\ \A i \in 1 .. Len(q) : q[i] \in Entry
      /\ 1 \in 1 .. Len(q) /\ Head(q) = q[1]
      /\ t \in Seq(Entry) /\ Len(t) = Len(q) - 1 /\ DOMAIN t = 1 .. Len(q) - 1
      /\ \A i \in 1 .. Len(q) - 1 : t[i] = q[i + 1] /\ i + 1 \in 1 .. Len(q)
  BY <1>0, HeadTailProperties
<1> HIDE DEF t
<1>2. QueueCurrent(t, places, g)
  <2> SUFFICES ASSUME NEW k \in 1 .. Len(q) - 1, t[k].optional, t[k].fiber # None, t[k].fiber # g
               PROVE  /\ places[t[k].fiber] = "queued"
                      /\ \A j \in 1 .. Len(q) - 1 : t[j] = t[k] => j = k
    BY <1>1 DEF QueueCurrent
  <2>1. t[k] = q[k + 1] /\ k + 1 \in 1 .. Len(q)
    BY <1>1
  <2>2. places[q[k + 1].fiber] = "queued" /\ \A j \in 1 .. Len(q) : q[j] = q[k + 1] => j = k + 1
    BY <1>1, <2>1 DEF QueueCurrent
  <2>3. ASSUME NEW j \in 1 .. Len(q) - 1, t[j] = t[k] PROVE j = k
    <3>1. j + 1 = k + 1
      BY <1>1, <2>1, <2>2, <2>3
    <3> QED
      BY <3>1
  <2> QED
    BY <2>1, <2>2, <2>3
<1> QED
  BY <1>1, <1>2 DEF t

-----------------------------------------------------------------------------
(***************************************************************************)
(* The steps of fibers                                                      *)
(***************************************************************************)

WaiterSet == [fiber : Fibers \cup {None}, io : IOs \cup {None}, events : SUBSET Events,
              tail : Waiters \cup {None}]

LEMMA QueueIs ==
    /\ OptionalsCurrent <=> QueueCurrent(ready, place, None)
    /\ OptionalsCurrent' <=> QueueCurrent(ready', place', None)
  BY DEF OptionalsCurrent, QueueCurrent

\* What the invariant says of the fiber in control, of a waiting one, and of the Waiters.
LEMMA SInvFacts ==
    ASSUME SInv
    PROVE  /\ waiter \in [Waiters -> WaiterSet] /\ at \in [Fibers -> Waiters \cup {None}]
           /\ ready \in Seq(Entry) /\ Len(ready) \in Nat /\ QueueCurrent(ready, place, None)
           /\ place \in [Fibers -> {"idle", "waiting", "queued"}]
           /\ \A f \in Fibers : at[f] # None => at[f] \in Waiters /\ waiter[at[f]].fiber = f
           /\ \A w \in Waiters : waiter[w].fiber # None => at[waiter[w].fiber] = w
           /\ run # Loop => run \in Fibers /\ place[run] = "idle" /\ at[run] = None
  BY QueueIs DEF SInv, TypeOK, WaiterSet, Control, Owned

\* Control passes to g with the ready list q.
LEMMA SwitchSound ==
    ASSUME SInv, NEW g \in Fibers, NEW q \in Seq(Entry), QueueCurrent(q, place', g),
           SwitchTo(g, q), place'[g] = "idle",
           \A f \in Fibers : f # g => (place'[f] = "waiting" <=> place[f] = "waiting"),
           UNCHANGED <<waiting, cursor, current, stage, batch>>
    PROVE  /\ waiter' \in [Waiters -> WaiterSet] /\ at' \in [Fibers -> Waiters \cup {None}]
           /\ run' \in Fibers \cup {Loop} /\ value' \in SUBSET Events
           /\ ready' \in Seq(Entry) /\ Len(ready') = Len(q)
           /\ Control' /\ Owned' /\ OptionalsCurrent' /\ Links' /\ Ranked'
<1>1. /\ waiter \in [Waiters -> WaiterSet] /\ at \in [Fibers -> Waiters \cup {None}]
      /\ \A f \in Fibers : at[f] # None => at[f] \in Waiters /\ waiter[at[f]].fiber = f
  BY SInvFacts
<1>2. /\ run' = g /\ at' = [at EXCEPT ![g] = None] /\ value' = {} /\ ready' = Nullified(q, g)
      /\ waiter' = IF at[g] = None THEN waiter
                   ELSE [waiter EXCEPT ![at[g]] = [Nobody EXCEPT !.tail = waiter[at[g]].tail]]
  BY DEF SwitchTo, Invalidate
<1>3. \A f \in Fibers : at'[f] = IF f = g THEN None ELSE at[f]
  BY <1>1, <1>2
<1>4. /\ waiter' \in [Waiters -> WaiterSet]
      /\ \A w \in Waiters : /\ waiter'[w].tail = waiter[w].tail
                            /\ w = at[g] => waiter'[w].fiber = None
                            /\ w # at[g] => waiter'[w] = waiter[w]
  <2>1. CASE at[g] = None
    BY <1>1, <1>2, <2>1
  <2>2. CASE at[g] # None
    <3>1. at[g] \in Waiters /\ waiter[at[g]].tail \in Waiters \cup {None}
      BY <1>1, <2>2 DEF WaiterSet
    <3> DEFINE x == [Nobody EXCEPT !.tail = waiter[at[g]].tail]
    <3>2. x \in WaiterSet /\ x.tail = waiter[at[g]].tail /\ x.fiber = None
      BY <3>1 DEF WaiterSet, Nobody
    <3>3. waiter' = [waiter EXCEPT ![at[g]] = x]
      BY <1>2, <2>2
    <3> HIDE DEF x
    <3> QED
      BY <1>1, <3>1, <3>2, <3>3
  <2> QED
    BY <2>1, <2>2
<1>5. ready' \in Seq(Entry) /\ Len(ready') = Len(q) /\ OptionalsCurrent'
  BY <1>2, NullifiedFacts, QueueIs
<1>6. Links' /\ Ranked'
  BY <1>4, LinksFewer DEF SInv
<1>7. Control'
  BY <1>2, <1>3 DEF SInv, Control
<1>8. Owned'
  <2>1. ASSUME NEW f \in Fibers, at'[f] # None PROVE waiter'[at'[f]].fiber = f /\ waiter'[at'[f]].io \in IOs
    <3>1. f # g /\ at'[f] = at[f] /\ at[f] \in Waiters /\ at[f] # at[g]
      BY <1>1, <1>3, <2>1
    <3> QED
      BY <1>4, <2>1, <3>1 DEF SInv, Owned
  <2>2. ASSUME NEW w \in Waiters, waiter'[w].fiber # None PROVE at'[waiter'[w].fiber] = w
    <3>1. w # at[g] /\ waiter'[w] = waiter[w]
      BY <1>4, <2>2
    <3>2. at[waiter[w].fiber] = w /\ waiter[w].fiber \in Fibers
      BY <1>1, <2>2, <3>1 DEF SInv, Owned, WaiterSet
    <3> QED
      BY <1>3, <3>1, <3>2
  <2> QED
    BY <2>1, <2>2 DEF Owned
<1>9. at' \in [Fibers -> Waiters \cup {None}]
  BY <1>1, <1>2
<1> QED
  BY <1>2, <1>4, <1>5, <1>6, <1>7, <1>8, <1>9

LEMMA ResumeSound ==
    ASSUME SInv, NEW g \in Fibers, Resume(g)
    PROVE  SInv'
<1> DEFINE e == [optional |-> TRUE, fiber |-> IF run = Loop THEN None ELSE run]
           q == Append(ready, e)
<1>1. /\ ready \in Seq(Entry) /\ Len(ready) \in Nat /\ QueueCurrent(ready, place, None)
      /\ place \in [Fibers -> {"idle", "waiting", "queued"}]
      /\ run # Loop => run \in Fibers /\ place[run] = "idle" /\ at[run] = None
      /\ DOMAIN ready = 1 .. Len(ready)
      /\ \A i \in DOMAIN ready : ready[i] \in Entry
  BY SInvFacts
<1>2. /\ run # g /\ Len(ready) < MaxReady /\ SwitchTo(g, q)
      /\ place' = [f \in Fibers |-> CASE f = g -> "idle" [] f = run -> "queued" [] OTHER -> place[f]]
      /\ UNCHANGED <<ioVars, waiting, selectVars>>
  BY DEF Resume
<1>3. /\ place'[g] = "idle"
      /\ \A f \in Fibers : f # g => place'[f] = IF f = run THEN "queued" ELSE place[f]
      /\ place' \in [Fibers -> {"idle", "waiting", "queued"}]
  BY <1>1, <1>2
<1>4. e \in Entry /\ e.optional /\ (e.fiber # None => e.fiber = run /\ run \in Fibers)
  BY <1>1 DEF Entry, SInv, TypeOK
<1> HIDE DEF e
<1>5. \A i \in DOMAIN ready : ready[i].optional /\ ready[i].fiber # None => ready[i].fiber # run
  BY <1>1 DEF QueueCurrent, Entry
<1>6. QueueCurrent(ready, place', g)
  <2> SUFFICES ASSUME NEW i \in DOMAIN ready, ready[i].optional, ready[i].fiber # None, ready[i].fiber # g
               PROVE  /\ place'[ready[i].fiber] = "queued"
                      /\ \A j \in DOMAIN ready : ready[j] = ready[i] => j = i
    BY DEF QueueCurrent
  <2>1. /\ place[ready[i].fiber] = "queued" /\ \A j \in DOMAIN ready : ready[j] = ready[i] => j = i
        /\ ready[i].fiber \in Fibers
    BY <1>1 DEF QueueCurrent, Entry
  <2> QED
    BY <1>3, <1>5, <2>1
<1>7. e.optional /\ e.fiber # None /\ e.fiber # g =>
          /\ place'[e.fiber] = "queued"
          /\ \A i \in DOMAIN ready : ready[i] # e
  BY <1>2, <1>3, <1>4, <1>5
<1>8. q \in Seq(Entry) /\ Len(q) = Len(ready) + 1 /\ QueueCurrent(q, place', g)
  BY <1>1, <1>4, <1>6, <1>7, AppendedFacts
<1> HIDE DEF q
<1>9. \A f \in Fibers : f # g => (place'[f] = "waiting" <=> place[f] = "waiting")
  BY <1>1, <1>3
<1>10. /\ waiter' \in [Waiters -> WaiterSet] /\ at' \in [Fibers -> Waiters \cup {None}]
       /\ run' \in Fibers \cup {Loop} /\ value' \in SUBSET Events
       /\ ready' \in Seq(Entry) /\ Len(ready') = Len(q)
       /\ Control' /\ Owned' /\ OptionalsCurrent' /\ Links' /\ Ranked'
  BY <1>2, <1>3, <1>8, <1>9, SwitchSound DEF selectVars
<1>11. Len(ready') = Len(ready) + 1 /\ Len(ready') <= MaxReady
  BY <1>1, <1>2, <1>8, <1>10
<1>12. TypeOK'
  <2>1. left' \in 0 .. Len(ready')
    BY <1>1, <1>2, <1>11 DEF SInv, TypeOK, selectVars
  <2> QED
    BY <1>2, <1>3, <1>10, <1>11, <2>1 DEF SInv, TypeOK, selectVars, ioVars, WaiterSet
<1> QED
  BY <1>10, <1>12 DEF SInv

LEMMA YieldSound ==
    ASSUME SInv, Yield
    PROVE  SInv'
<1> DEFINE e == [optional |-> TRUE, fiber |-> run]
<1>1. /\ ready \in Seq(Entry) /\ Len(ready) \in Nat /\ QueueCurrent(ready, place, None)
      /\ place \in [Fibers -> {"idle", "waiting", "queued"}]
      /\ run \in Fibers /\ place[run] = "idle" /\ at[run] = None
      /\ \A i \in DOMAIN ready : ready[i] \in Entry
  BY SInvFacts DEF Yield
<1>2. /\ Len(ready) < MaxReady /\ ready' = Append(ready, e)
      /\ place' = [place EXCEPT ![run] = "queued"] /\ run' = Loop /\ value' = {}
      /\ UNCHANGED <<ioVars, waiterVars, selectVars>>
  BY DEF Yield
<1>3. /\ \A f \in Fibers : place'[f] = IF f = run THEN "queued" ELSE place[f]
      /\ place' \in [Fibers -> {"idle", "waiting", "queued"}]
  BY <1>1, <1>2
<1>4. e \in Entry /\ e.optional /\ e.fiber = run
  BY <1>1 DEF Entry
<1> HIDE DEF e
<1>5. \A i \in DOMAIN ready : ready[i].optional /\ ready[i].fiber # None => ready[i].fiber # run
  BY <1>1 DEF QueueCurrent
<1>6. QueueCurrent(ready, place', None)
  <2> SUFFICES ASSUME NEW i \in DOMAIN ready, ready[i].optional, ready[i].fiber # None
               PROVE  /\ place'[ready[i].fiber] = "queued"
                      /\ \A j \in DOMAIN ready : ready[j] = ready[i] => j = i
    BY DEF QueueCurrent
  <2>1. /\ place[ready[i].fiber] = "queued" /\ \A j \in DOMAIN ready : ready[j] = ready[i] => j = i
        /\ ready[i].fiber \in Fibers
    BY <1>1 DEF QueueCurrent, Entry
  <2> QED
    BY <1>3, <1>5, <2>1
<1>7. place'[e.fiber] = "queued" /\ \A i \in DOMAIN ready : ready[i] # e
  BY <1>1, <1>3, <1>4, <1>5
<1>8. ready' \in Seq(Entry) /\ Len(ready') = Len(ready) + 1 /\ QueueCurrent(ready', place', None)
  BY <1>1, <1>2, <1>4, <1>6, <1>7, AppendedFacts
<1>9. TypeOK'
  <2>1. left' \in 0 .. Len(ready') /\ Len(ready') <= MaxReady
    BY <1>1, <1>2, <1>8 DEF SInv, TypeOK, selectVars
  <2> QED
    BY <1>2, <1>3, <1>8, <2>1 DEF SInv, TypeOK, selectVars, ioVars, waiterVars
<1>10. Control' /\ Owned'
  BY <1>1, <1>2, <1>3 DEF SInv, Control, Owned, waiterVars, selectVars
<1>11. Links' /\ Ranked'
  BY <1>2 DEF SInv, Links, Ranked, waiterVars, selectVars
<1> QED
  BY <1>8, <1>9, <1>10, <1>11, QueueIs DEF SInv

LEMMA PushSound ==
    ASSUME SInv, NEW g \in Fibers, Push(g)
    PROVE  SInv'
<1> DEFINE e == [optional |-> FALSE, fiber |-> g]
<1>1. ready \in Seq(Entry) /\ Len(ready) \in Nat /\ QueueCurrent(ready, place, None)
  BY SInvFacts
<1>2. /\ Len(ready) < MaxReady /\ ready' = Append(ready, e)
      /\ UNCHANGED <<ioVars, waiterVars, fiberVars, run, selectVars>>
  BY DEF Push
<1>3. e \in Entry /\ ~e.optional
  BY DEF Entry
<1> HIDE DEF e
<1>4. ready' \in Seq(Entry) /\ Len(ready') = Len(ready) + 1 /\ QueueCurrent(ready', place, None)
  BY <1>1, <1>2, <1>3, AppendedFacts
<1>5. TypeOK'
  <2>1. left' \in 0 .. Len(ready') /\ Len(ready') <= MaxReady
    BY <1>1, <1>2, <1>4 DEF SInv, TypeOK, selectVars
  <2> QED
    BY <1>2, <1>4, <2>1 DEF SInv, TypeOK, selectVars, ioVars, waiterVars, fiberVars
<1>6. Control' /\ Owned'
  BY <1>2 DEF SInv, Control, Owned, waiterVars, selectVars, fiberVars
<1>7. Links' /\ Ranked'
  BY <1>2 DEF SInv, Links, Ranked, waiterVars, selectVars
<1> QED
  BY <1>2, <1>4, <1>5, <1>6, <1>7, QueueIs DEF SInv, fiberVars

\* What is referred to, with the tails of what is.
LEMMA ReferredFacts ==
    ASSUME TypeOK
    PROVE  /\ Referred \subseteq Waiters
           /\ \A io \in IOs : waiting[io] \in Referred \cup {None}
           /\ cursor \in Referred \cup {None}
           /\ \A f \in Fibers : at[f] \in Referred \cup {None}
           /\ \A w \in Referred : waiter[w].tail \in Referred \cup {None}
<1>1. Tails \in TailMap /\ \A w \in Waiters : Tails[w] = waiter[w].tail
  BY TailFacts
<1>2. \A w \in Waiters \cup {None} :
          /\ Chain(w) \subseteq Waiters /\ w \in Chain(w) \cup {None}
          /\ \A u \in Chain(w) : waiter[u].tail \in Chain(w) \cup {None}
  BY <1>1, ReachFacts DEF Chain
<1>3. /\ waiting \in [IOs -> Waiters \cup {None}] /\ cursor \in Waiters \cup {None}
      /\ at \in [Fibers -> Waiters \cup {None}]
  BY DEF TypeOK
<1>4. \A w : w \in Referred <=> \/ \E io \in IOs : w \in Chain(waiting[io])
                                \/ w \in Chain(cursor)
                                \/ \E f \in Fibers : w \in Chain(at[f])
  BY DEF Referred
<1>5. ASSUME NEW w \in Referred
      PROVE  w \in Waiters /\ waiter[w].tail \in Referred \cup {None}
  <2>1. CASE \E io \in IOs : w \in Chain(waiting[io])
    BY <1>2, <1>3, <1>4, <2>1
  <2>2. CASE w \in Chain(cursor)
    BY <1>2, <1>3, <1>4, <2>2
  <2>3. CASE \E f \in Fibers : w \in Chain(at[f])
    BY <1>2, <1>3, <1>4, <2>3
  <2> QED
    BY <1>4, <2>1, <2>2, <2>3
<1>6. /\ \A io \in IOs : waiting[io] \in Referred \cup {None}
      /\ cursor \in Referred \cup {None}
      /\ \A f \in Fibers : at[f] \in Referred \cup {None}
  BY <1>2, <1>3, <1>4
<1> QED
  BY <1>5, <1>6

\* io_wait with the Waiter w.
IoWaitWith(io, events, w) ==
    /\ run # Loop
    /\ io \in open
    /\ w \in Waiters \ Referred
    /\ waiter' = [v \in Waiters |->
                     IF v = w THEN [fiber |-> run, io |-> io, events |-> events, tail |-> waiting[io]]
                     ELSE IF v \in Referred THEN waiter[v] ELSE Nobody]
    /\ waiting' = [waiting EXCEPT ![io] = w]
    /\ at' = [at EXCEPT ![run] = w]
    /\ place' = [place EXCEPT ![run] = "waiting"]
    /\ run' = Loop
    /\ value' = {}
    /\ UNCHANGED <<ioVars, ready, selectVars>>

LEMMA IoWaitFacts ==
    ASSUME SInv, NEW io \in IOs, NEW evs \in SUBSET Events, NEW w, IoWaitWith(io, evs, w)
    PROVE  /\ w \in Waiters /\ w \notin Referred /\ run \in Fibers /\ place[run] = "idle" /\ at[run] = None
           /\ waiter' \in [Waiters -> WaiterSet]
           /\ waiter'[w] = [fiber |-> run, io |-> io, events |-> evs, tail |-> waiting[io]]
           /\ \A v \in Referred : v # w /\ v \in Waiters /\ waiter'[v] = waiter[v]
           /\ \A v \in Waiters : v # w /\ v \notin Referred => waiter'[v] = Nobody
           /\ \A f \in Fibers : /\ at'[f] = IF f = run THEN w ELSE at[f]
                                /\ place'[f] = IF f = run THEN "waiting" ELSE place[f]
           /\ \A jo \in IOs : waiting'[jo] = IF jo = io THEN w ELSE waiting[jo]
           /\ at' \in [Fibers -> Waiters \cup {None}]
           /\ place' \in [Fibers -> {"idle", "waiting", "queued"}]
           /\ waiting' \in [IOs -> Waiters \cup {None}]
           /\ \A v \in Waiters : v # w => waiter'[v].tail \in {waiter[v].tail, None} /\ waiter'[v].tail # w
<1>1. /\ waiter \in [Waiters -> WaiterSet] /\ at \in [Fibers -> Waiters \cup {None}]
      /\ place \in [Fibers -> {"idle", "waiting", "queued"}]
      /\ run \in Fibers /\ place[run] = "idle" /\ at[run] = None
  BY SInvFacts DEF IoWaitWith
<1>2. /\ Referred \subseteq Waiters /\ \A v \in Referred : waiter[v].tail \in Referred \cup {None}
  BY ReferredFacts DEF SInv
<1>3. waiting \in [IOs -> Waiters \cup {None}]
  BY DEF SInv, TypeOK
<1> DEFINE new == [fiber |-> run, io |-> io, events |-> evs, tail |-> waiting[io]]
<1>4. /\ w \in Waiters /\ w \notin Referred
      /\ waiter' = [v \in Waiters |-> IF v = w THEN new ELSE IF v \in Referred THEN waiter[v] ELSE Nobody]
      /\ waiting' = [waiting EXCEPT ![io] = w]
      /\ at' = [at EXCEPT ![run] = w]
      /\ place' = [place EXCEPT ![run] = "waiting"]
  BY DEF IoWaitWith
<1>5. new \in WaiterSet /\ Nobody \in WaiterSet /\ Nobody.tail = None
  BY <1>1, <1>3 DEF WaiterSet, Nobody
<1> HIDE DEF new
<1>6. waiter' \in [Waiters -> WaiterSet]
  BY <1>1, <1>4, <1>5
<1>7. /\ waiter'[w] = new
      /\ \A v \in Referred : v # w /\ v \in Waiters /\ waiter'[v] = waiter[v]
      /\ \A v \in Waiters : v # w /\ v \notin Referred => waiter'[v] = Nobody
  BY <1>2, <1>4
<1>8. ASSUME NEW v \in Waiters, v # w
      PROVE  waiter'[v].tail \in {waiter[v].tail, None} /\ waiter'[v].tail # w
  <2>1. CASE v \in Referred
    BY <1>2, <1>4, <1>7, <2>1
  <2>2. CASE v \notin Referred
    BY <1>4, <1>5, <1>7, <1>8, <2>2
  <2> QED
    BY <2>1, <2>2
<1>9. /\ \A f \in Fibers : /\ at'[f] = IF f = run THEN w ELSE at[f]
                           /\ place'[f] = IF f = run THEN "waiting" ELSE place[f]
      /\ at' \in [Fibers -> Waiters \cup {None}]
      /\ place' \in [Fibers -> {"idle", "waiting", "queued"}]
  BY <1>1, <1>4
<1>10. /\ \A jo \in IOs : waiting'[jo] = IF jo = io THEN w ELSE waiting[jo]
       /\ waiting' \in [IOs -> Waiters \cup {None}]
  BY <1>3, <1>4
<1> QED
  BY <1>1, <1>4, <1>6, <1>7, <1>8, <1>9, <1>10 DEF new

LEMMA IoWaitSound ==
    ASSUME SInv, NEW io \in IOs, NEW evs \in SUBSET Events, NEW w, IoWaitWith(io, evs, w)
    PROVE  SInv'
<1>1. /\ w \in Waiters /\ w \notin Referred /\ run \in Fibers /\ place[run] = "idle" /\ at[run] = None
      /\ waiter' \in [Waiters -> WaiterSet]
      /\ waiter'[w] = [fiber |-> run, io |-> io, events |-> evs, tail |-> waiting[io]]
      /\ \A v \in Referred : v # w /\ v \in Waiters /\ waiter'[v] = waiter[v]
      /\ \A v \in Waiters : v # w /\ v \notin Referred => waiter'[v] = Nobody
      /\ \A f \in Fibers : /\ at'[f] = IF f = run THEN w ELSE at[f]
                           /\ place'[f] = IF f = run THEN "waiting" ELSE place[f]
      /\ at' \in [Fibers -> Waiters \cup {None}]
      /\ place' \in [Fibers -> {"idle", "waiting", "queued"}]
      /\ waiting' \in [IOs -> Waiters \cup {None}]
      /\ \A v \in Waiters : v # w => waiter'[v].tail \in {waiter[v].tail, None} /\ waiter'[v].tail # w
  BY IoWaitFacts
<1>2. /\ waiting' = [waiting EXCEPT ![io] = w] /\ run' = Loop /\ value' = {}
      /\ UNCHANGED <<ioVars, ready, selectVars>>
  BY DEF IoWaitWith
<1>3. /\ \A jo \in IOs : waiting[jo] \in Referred \cup {None}
      /\ cursor \in Referred \cup {None}
      /\ \A f \in Fibers : at[f] \in Referred \cup {None}
  BY ReferredFacts DEF SInv
<1>4. TypeOK'
  BY <1>1, <1>2 DEF SInv, TypeOK, ioVars, selectVars, WaiterSet
<1>5. Control'
  BY <1>1, <1>2 DEF SInv, Control, selectVars
<1>6. Owned'
  <2>1. ASSUME NEW f \in Fibers, at'[f] # None PROVE waiter'[at'[f]].fiber = f /\ waiter'[at'[f]].io \in IOs
    <3>1. CASE f = run
      BY <1>1, <3>1
    <3>2. CASE f # run
      <4>1. at'[f] = at[f] /\ at[f] \in Referred
        BY <1>1, <1>3, <2>1, <3>2
      <4> QED
        BY <1>1, <2>1, <4>1 DEF SInv, Owned
    <3> QED
      BY <3>1, <3>2
  <2>2. ASSUME NEW v \in Waiters, waiter'[v].fiber # None PROVE at'[waiter'[v].fiber] = v
    <3>1. CASE v = w
      BY <1>1, <3>1
    <3>2. CASE v # w
      <4>1. v \in Referred /\ waiter'[v] = waiter[v]
        BY <1>1, <2>2, <3>2 DEF Nobody
      <4>2. at[waiter[v].fiber] = v /\ waiter[v].fiber \in Fibers
        BY <2>2, <4>1, SInvFacts DEF WaiterSet
      <4> QED
        BY <1>1, <4>1, <4>2
    <3> QED
      BY <3>1, <3>2
  <2> QED
    BY <2>1, <2>2 DEF Owned
<1>7. OptionalsCurrent'
  <2>1. QueueCurrent(ready, place, None) /\ \A i \in DOMAIN ready : ready[i] \in Entry
    BY SInvFacts
  <2>2. QueueCurrent(ready, place', None)
    BY <1>1, <2>1 DEF QueueCurrent, Entry
  <2> QED
    BY <1>2, <2>2, QueueIs
<1>8. Links' /\ Ranked'
  <2>1. /\ waiter'[w].tail = waiting[io] /\ waiting[io] # w /\ \A jo \in IOs : waiting[jo] # w
    BY <1>1, <1>3
  <2>2. cursor' = None \/ /\ cursor' # w /\ \A jo \in IOs : cursor' # waiting[jo]
                          /\ \A v \in Waiters : v # w => waiter'[v].tail # cursor'
    BY <1>1, <1>2, <1>3 DEF SInv, Links, selectVars
  <2> QED
    BY <1>1, <1>2, <2>1, <2>2, LinksMore DEF SInv
<1> QED
  BY <1>4, <1>5, <1>6, <1>7, <1>8 DEF SInv

LEMMA IoWaitIs ==
    ASSUME NEW io \in IOs, NEW evs, IoWait(io, evs)
    PROVE  \E w : IoWaitWith(io, evs, w)
<1>1. PICK w \in Waiters \ Referred :
           /\ waiter' = [v \in Waiters |->
                            IF v = w THEN [fiber |-> run, io |-> io, events |-> evs, tail |-> waiting[io]]
                            ELSE IF v \in Referred THEN waiter[v] ELSE Nobody]
           /\ waiting' = [waiting EXCEPT ![io] = w]
           /\ at' = [at EXCEPT ![run] = w]
  BY Zenon DEF IoWait
<1>2. IoWaitWith(io, evs, w)
  BY <1>1, Zenon DEF IoWait, IoWaitWith
<1> QED
  BY <1>2

-----------------------------------------------------------------------------
(***************************************************************************)
(* The steps of select                                                      *)
(***************************************************************************)

\* Steps that leave the Waiters, the fibers and the ready list alone.
LEMMA OtherSound ==
    ASSUME SInv, TypeOK', UNCHANGED <<waiter, at, place, ready>>,
           run' \in {run, Loop}, \A io \in IOs : waiting'[io] \in {waiting[io], None},
           cursor' \in {cursor, None},
           cursor' # None => current' # None,
           current' # None => stage' = "dispatching" /\ batch'[current'] # {}
    PROVE  SInv'
<1>1. Links' /\ Ranked'
  BY LinksFewer DEF SInv
<1> QED
  BY <1>1 DEF SInv, Control, Owned, OptionalsCurrent

LEMMA PopSound ==
    ASSUME SInv, Pop
    PROVE  SInv'
<1> DEFINE g == Head(ready).fiber
           q == Tail(ready)
<1>1. /\ run = Loop /\ stage = "popping" /\ left > 0 /\ left' = left - 1
      /\ UNCHANGED <<ioVars, stage, batch, current, cursor, waiting>>
      /\ \/ /\ g = None /\ ready' = q /\ UNCHANGED <<waiter, at, fiberVars, run>>
         \/ /\ g # None /\ SwitchTo(g, q)
            /\ place' = [place EXCEPT ![g] = "idle"]
  BY DEF Pop, waiterVars
<1>2. /\ ready \in Seq(Entry) /\ Len(ready) \in Nat /\ QueueCurrent(ready, place, None)
      /\ place \in [Fibers -> {"idle", "waiting", "queued"}]
  BY SInvFacts
<1>3. Len(ready) > 0 /\ left - 1 \in 0 .. Len(ready) - 1 /\ Len(ready) <= MaxReady
  BY <1>1, <1>2 DEF SInv, TypeOK
<1>4. /\ Head(ready) \in Entry /\ q \in Seq(Entry) /\ Len(q) = Len(ready) - 1
      /\ QueueCurrent(q, place, None)
  BY <1>2, <1>3, PoppedFacts
<1>5. g \in Fibers \cup {None}
  BY <1>4 DEF Entry
<1> HIDE DEF g, q
<1>6. CASE g = None
  <2>1. ready' = q /\ UNCHANGED <<waiter, at, fiberVars, run>>
    BY <1>1, <1>6
  <2>2. TypeOK'
    BY <1>1, <1>2, <1>3, <1>4, <2>1 DEF SInv, TypeOK, ioVars, fiberVars
  <2>3. OptionalsCurrent'
    BY <1>4, <2>1, QueueIs DEF fiberVars
  <2>4. Control' /\ Owned'
    BY <1>1, <2>1 DEF SInv, Control, Owned, fiberVars
  <2>5. Links' /\ Ranked'
    BY <1>1, <2>1 DEF SInv, Links, Ranked
  <2> QED
    BY <2>2, <2>3, <2>4, <2>5 DEF SInv
<1>7. CASE g # None
  <2>1. SwitchTo(g, q) /\ place' = [place EXCEPT ![g] = "idle"] /\ g \in Fibers
    BY <1>1, <1>5, <1>7
  <2>2. /\ place'[g] = "idle" /\ \A f \in Fibers : f # g => place'[f] = place[f]
        /\ place' \in [Fibers -> {"idle", "waiting", "queued"}]
    BY <1>2, <2>1
  <2>3. QueueCurrent(q, place', g)
    <3>1. \A j \in DOMAIN q : q[j] \in Entry
      BY <1>4
    <3> QED
      BY <1>4, <2>2, <3>1 DEF QueueCurrent, Entry
  <2>4. \A f \in Fibers : f # g => (place'[f] = "waiting" <=> place[f] = "waiting")
    BY <2>2
  <2>5. /\ waiter' \in [Waiters -> WaiterSet] /\ at' \in [Fibers -> Waiters \cup {None}]
        /\ run' \in Fibers \cup {Loop} /\ value' \in SUBSET Events
        /\ ready' \in Seq(Entry) /\ Len(ready') = Len(q)
        /\ Control' /\ Owned' /\ OptionalsCurrent' /\ Links' /\ Ranked'
    BY <1>1, <1>4, <2>1, <2>2, <2>3, <2>4, SwitchSound
  <2>6. left' \in 0 .. Len(ready') /\ Len(ready') <= MaxReady
    BY <1>1, <1>2, <1>3, <1>4, <2>5
  <2>7. TypeOK'
    BY <1>1, <2>2, <2>5, <2>6 DEF SInv, TypeOK, ioVars, WaiterSet
  <2> QED
    BY <2>5, <2>7 DEF SInv
<1> QED
  BY <1>6, <1>7

\* The chain of an IO goes from @waiting to dispatch.
LEMMA DispatchBeginSound ==
    ASSUME SInv, NEW io \in IOs, DispatchBegin(io)
    PROVE  SInv'
<1>1. /\ current = None /\ batch[io] # {} /\ current' = io /\ cursor' = waiting[io]
      /\ stage = "dispatching" /\ stage' = stage
      /\ waiting' = [waiting EXCEPT ![io] = None]
      /\ UNCHANGED <<ioVars, waiter, at, fiberVars, ready, run, left, batch>>
  BY DEF DispatchBegin
<1>2. /\ waiting \in [IOs -> Waiters \cup {None}]
      /\ \A jo \in IOs : waiting'[jo] = IF jo = io THEN None ELSE waiting[jo]
      /\ waiting' \in [IOs -> Waiters \cup {None}]
  BY <1>1 DEF SInv, TypeOK
<1>3. TypeOK'
  BY <1>1, <1>2 DEF SInv, TypeOK, ioVars, fiberVars
<1>4. Links'
  BY <1>1, <1>2 DEF SInv, Links
<1>5. Ranked'
  BY <1>1 DEF SInv, Ranked
<1>6. Control' /\ Owned' /\ OptionalsCurrent'
  BY <1>1, <1>2 DEF SInv, Control, Owned, OptionalsCurrent, fiberVars
<1> QED
  BY <1>3, <1>4, <1>5, <1>6 DEF SInv

\* Dispatch passes the Waiter c and puts it back, or drops it.
PutBack(c) ==
    /\ waiter' = [waiter EXCEPT ![c].tail = waiting[current]]
    /\ waiting' = [waiting EXCEPT ![current] = c]
    /\ UNCHANGED <<at, fiberVars, run>>

Passed(c) ==
    /\ waiter[c].fiber = None
    /\ waiter' = [waiter EXCEPT ![c] = Nobody]
    /\ UNCHANGED <<waiting, at, fiberVars, run>>

Delivered(c) ==
    /\ waiter[c].fiber # None /\ Revents(c) # {}
    /\ waiter' = [waiter EXCEPT ![c] = Nobody]
    /\ run' = waiter[c].fiber
    /\ at' = [at EXCEPT ![waiter[c].fiber] = None]
    /\ place' = [place EXCEPT ![waiter[c].fiber] = "idle"]
    /\ value' = Revents(c)
    /\ UNCHANGED waiting

LEMMA DispatchCases ==
    ASSUME SInv, Dispatch
    PROVE  /\ cursor \in Waiters /\ current \in IOs /\ run = Loop
           /\ cursor' = waiter[cursor].tail /\ waiter[cursor].tail \in Waiters \cup {None}
           /\ UNCHANGED <<ioVars, ready, stage, left, batch, current>>
           /\ PutBack(cursor) \/ Passed(cursor) \/ Delivered(cursor)
<1>1. cursor \in Waiters /\ current \in IOs /\ waiter[cursor].tail \in Waiters \cup {None}
  BY DEF Dispatch, SInv, TypeOK, Control
<1>2. /\ run = Loop /\ cursor' = waiter[cursor].tail
      /\ UNCHANGED <<ioVars, ready, stage, left, batch, current>>
  BY DEF Dispatch, TailOf
<1>3. CASE waiter[cursor].fiber # None /\ Revents(cursor) = {}
  BY <1>1, <1>2, <1>3 DEF Dispatch, Reactivate, PutBack
<1>4. CASE waiter[cursor].fiber = None
  BY <1>1, <1>2, <1>4 DEF Dispatch, Passed
<1>5. CASE waiter[cursor].fiber # None /\ Revents(cursor) # {}
  BY <1>1, <1>2, <1>5 DEF Dispatch, Delivered
<1> QED
  BY <1>3, <1>4, <1>5

\* A Waiter is dropped from the chain that is being dispatched.
LEMMA LinksPass ==
    ASSUME SInv, cursor \in Waiters, cursor' = waiter[cursor].tail, UNCHANGED waiting,
           waiter' = [waiter EXCEPT ![cursor] = Nobody]
    PROVE  /\ Links' /\ Ranked' /\ waiter' \in [Waiters -> WaiterSet]
           /\ waiter'[cursor] = Nobody
           /\ \A v \in Waiters : v # cursor => waiter'[v] = waiter[v]
<1>1. waiter \in [Waiters -> WaiterSet]
  BY SInvFacts
<1>2. /\ \A v \in Waiters : v # cursor => waiter'[v] = waiter[v]
      /\ waiter'[cursor] = Nobody /\ Nobody.tail = None /\ Nobody \in WaiterSet
  BY <1>1 DEF Nobody, WaiterSet
<1>3. waiter' \in [Waiters -> WaiterSet]
  BY <1>1, <1>2
<1>4. Links'
  <2>0. Links
    BY DEF SInv
  <2>1. \A v, w \in Waiters : waiter'[v].tail = waiter'[w].tail /\ waiter'[v].tail # None => v = w
    BY <1>2, <2>0 DEF Links
  <2>2. \A w \in Waiters : /\ waiter'[w].tail # None => waiter'[w].tail # cursor'
                           /\ \A io \in IOs : waiter'[w].tail # None => waiter'[w].tail # waiting'[io]
    BY <1>2, <2>0 DEF Links
  <2>3. \A io \in IOs : waiting'[io] # None => waiting'[io] # cursor'
    BY <2>0 DEF Links
  <2>4. \A io, jo \in IOs : waiting'[io] = waiting'[jo] /\ waiting'[io] # None => io = jo
    BY <2>0 DEF Links
  <2> QED
    BY <2>1, <2>2, <2>3, <2>4 DEF Links
<1>5. Ranked'
  <2>1. PICK rank \in [Waiters -> Nat] :
             \A w \in Waiters : waiter[w].tail # None => rank[waiter[w].tail] < rank[w]
    BY DEF SInv, Ranked
  <2>2. \A w \in Waiters : waiter'[w].tail # None => rank[waiter'[w].tail] < rank[w]
    BY <1>2, <2>1
  <2> QED
    BY <2>2 DEF Ranked
<1> QED
  BY <1>2, <1>3, <1>4, <1>5

LEMMA PutBackFacts ==
    ASSUME SInv, cursor \in Waiters, current \in IOs, PutBack(cursor)
    PROVE  /\ waiter' \in [Waiters -> WaiterSet] /\ waiting' \in [IOs -> Waiters \cup {None}]
           /\ \A v \in Waiters : /\ waiter'[v].fiber = waiter[v].fiber /\ waiter'[v].io = waiter[v].io
                                 /\ waiter'[v].events = waiter[v].events
                                 /\ v # cursor => waiter'[v] = waiter[v]
           /\ waiter'[cursor].tail = waiting[current]
           /\ \A jo \in IOs : waiting'[jo] = IF jo = current THEN cursor ELSE waiting[jo]
<1>1. waiter \in [Waiters -> WaiterSet] /\ waiting \in [IOs -> Waiters \cup {None}]
  BY SInvFacts DEF SInv, TypeOK
<1>2. /\ waiter' = [waiter EXCEPT ![cursor].tail = waiting[current]]
      /\ waiting' = [waiting EXCEPT ![current] = cursor]
      /\ waiting[current] \in Waiters \cup {None}
  BY <1>1 DEF PutBack
<1>3. /\ waiter' \in [Waiters -> WaiterSet]
  BY <1>1, <1>2 DEF WaiterSet
<1>4. /\ \A v \in Waiters : /\ waiter'[v].fiber = waiter[v].fiber /\ waiter'[v].io = waiter[v].io
                            /\ waiter'[v].events = waiter[v].events
                            /\ v # cursor => waiter'[v] = waiter[v]
      /\ waiter'[cursor].tail = waiting[current]
  BY <1>1, <1>2 DEF WaiterSet
<1> QED
  BY <1>1, <1>2, <1>3, <1>4

LEMMA DispatchSound ==
    ASSUME SInv, Dispatch
    PROVE  SInv'
<1>1. /\ cursor \in Waiters /\ current \in IOs /\ run = Loop
      /\ cursor' = waiter[cursor].tail /\ waiter[cursor].tail \in Waiters \cup {None}
      /\ UNCHANGED <<ioVars, ready, stage, left, batch, current>>
      /\ PutBack(cursor) \/ Passed(cursor) \/ Delivered(cursor)
  BY DispatchCases
<1>2. TypeOK /\ Control /\ Owned /\ OptionalsCurrent /\ Links /\ Ranked
  BY DEF SInv
<1>3. CASE PutBack(cursor)
  <2>1. /\ waiter' \in [Waiters -> WaiterSet] /\ waiting' \in [IOs -> Waiters \cup {None}]
        /\ \A v \in Waiters : /\ waiter'[v].fiber = waiter[v].fiber /\ waiter'[v].io = waiter[v].io
                              /\ v # cursor => waiter'[v] = waiter[v]
        /\ waiter'[cursor].tail = waiting[current]
    BY <1>1, <1>3, PutBackFacts
  <2>2. waiting' = [waiting EXCEPT ![current] = cursor] /\ UNCHANGED <<at, fiberVars, run>>
    BY <1>3 DEF PutBack
  <2>3. TypeOK'
    BY <1>1, <1>2, <2>1, <2>2 DEF TypeOK, ioVars, fiberVars, WaiterSet
  <2>4. Links' /\ Ranked'
    <3>1. \A v \in Waiters : v # cursor => waiter'[v].tail \in {waiter[v].tail, None} /\ waiter'[v].tail # cursor
      BY <1>1, <1>2, <2>1 DEF Links
    <3>2. waiting[current] # cursor /\ \A jo \in IOs : waiting[jo] # cursor
      BY <1>1, <1>2 DEF Links
    <3>3. cursor' = None \/ /\ cursor' # cursor /\ \A jo \in IOs : cursor' # waiting[jo]
                            /\ \A v \in Waiters : v # cursor => waiter'[v].tail # cursor'
      BY <1>1, <1>2, <2>1 DEF Links
    <3> QED
      BY <1>1, <1>2, <2>1, <2>2, <3>1, <3>2, <3>3, LinksMore
  <2>5. Owned'
    BY <1>2, <2>1, <2>2, SInvFacts DEF Owned
  <2>6. Control' /\ OptionalsCurrent'
    BY <1>1, <1>2, <2>2 DEF Control, OptionalsCurrent, fiberVars
  <2> QED
    BY <2>3, <2>4, <2>5, <2>6 DEF SInv
<1>4. CASE Passed(cursor)
  <2>1. /\ waiter[cursor].fiber = None /\ waiter' = [waiter EXCEPT ![cursor] = Nobody]
        /\ UNCHANGED <<waiting, at, fiberVars, run>>
    BY <1>4 DEF Passed
  <2>2. /\ Links' /\ Ranked' /\ waiter' \in [Waiters -> WaiterSet]
        /\ waiter'[cursor] = Nobody
        /\ \A v \in Waiters : v # cursor => waiter'[v] = waiter[v]
    BY <1>1, <2>1, LinksPass
  <2>3. TypeOK'
    BY <1>1, <1>2, <2>1, <2>2 DEF TypeOK, ioVars, fiberVars, WaiterSet
  <2>4. Owned'
    <3>1. \A f \in Fibers : at[f] # None => at[f] \in Waiters /\ at[f] # cursor
      BY <1>2, <2>1, SInvFacts DEF Owned
    <3> QED
      BY <1>2, <2>1, <2>2, <3>1 DEF Owned, Nobody
  <2>5. Control' /\ OptionalsCurrent'
    BY <1>1, <1>2, <2>1 DEF Control, OptionalsCurrent, fiberVars
  <2> QED
    BY <2>2, <2>3, <2>4, <2>5 DEF SInv
<1>5. CASE Delivered(cursor)
  <2> DEFINE f == waiter[cursor].fiber
  <2>1. /\ f # None /\ waiter' = [waiter EXCEPT ![cursor] = Nobody]
        /\ run' = f /\ at' = [at EXCEPT ![f] = None] /\ place' = [place EXCEPT ![f] = "idle"]
        /\ value' = Revents(cursor) /\ UNCHANGED waiting
    BY <1>5 DEF Delivered
  <2>2. /\ Links' /\ Ranked' /\ waiter' \in [Waiters -> WaiterSet]
        /\ waiter'[cursor] = Nobody
        /\ \A v \in Waiters : v # cursor => waiter'[v] = waiter[v]
    BY <1>1, <2>1, LinksPass
  <2>3. /\ f \in Fibers /\ at[f] = cursor /\ place[f] = "waiting"
        /\ waiter \in [Waiters -> WaiterSet] /\ at \in [Fibers -> Waiters \cup {None}]
        /\ place \in [Fibers -> {"idle", "waiting", "queued"}]
    <3>1. /\ waiter \in [Waiters -> WaiterSet] /\ at \in [Fibers -> Waiters \cup {None}]
          /\ place \in [Fibers -> {"idle", "waiting", "queued"}] /\ at[f] = cursor
      BY <1>1, <2>1, SInvFacts
    <3>2. f \in Fibers
      BY <1>1, <2>1, <3>1 DEF WaiterSet
    <3> QED
      BY <1>1, <1>2, <3>1, <3>2 DEF Control
  <2> HIDE DEF f
  <2>4. /\ \A h \in Fibers : /\ at'[h] = IF h = f THEN None ELSE at[h]
                             /\ place'[h] = IF h = f THEN "idle" ELSE place[h]
        /\ at' \in [Fibers -> Waiters \cup {None}]
        /\ place' \in [Fibers -> {"idle", "waiting", "queued"}]
    BY <2>1, <2>3
  <2>5. value' \in SUBSET Events
    BY <1>1, <1>2, <2>1 DEF Revents, TypeOK
  <2>6. TypeOK'
    BY <1>1, <1>2, <2>1, <2>2, <2>3, <2>4, <2>5 DEF TypeOK, ioVars, WaiterSet
  <2>7. Owned'
    <3>1. \A h \in Fibers : h # f /\ at[h] # None => at[h] \in Waiters /\ at[h] # cursor
      BY <2>3, SInvFacts
    <3>2. \A v \in Waiters : v # cursor /\ waiter[v].fiber # None =>
              at[waiter[v].fiber] = v /\ waiter[v].fiber # f /\ waiter[v].fiber \in Fibers
      BY <2>3, SInvFacts DEF WaiterSet
    <3> QED
      BY <1>2, <2>2, <2>4, <3>1, <3>2 DEF Owned, Nobody
  <2>8. Control'
    BY <1>1, <1>2, <2>1, <2>4, <2>3 DEF Control
  <2>9. OptionalsCurrent'
    <3>1. QueueCurrent(ready, place, None) /\ \A i \in DOMAIN ready : ready[i] \in Entry
      BY SInvFacts
    <3>2. QueueCurrent(ready, place', None)
      BY <2>3, <2>4, <3>1 DEF QueueCurrent, Entry
    <3> QED
      BY <1>1, <3>2, QueueIs
  <2> QED
    BY <2>2, <2>6, <2>7, <2>8, <2>9 DEF SInv
<1> QED
  BY <1>1, <1>3, <1>4, <1>5

LEMMA InitSound == Init => SInv
<1> SUFFICES ASSUME Init PROVE SInv
  OBVIOUS
<1>1. TypeOK
  <2>1. ready \in Seq(Entry) /\ Len(ready) = 0
    BY DEF Init
  <2> QED
    BY <2>1 DEF Init, TypeOK, Nobody
<1>2. Control /\ Owned /\ Links
  BY DEF Init, Control, Owned, Links, Nobody
<1>3. OptionalsCurrent
  BY DEF Init, OptionalsCurrent
<1>4. Ranked
  <2> DEFINE rank == [w \in Waiters |-> 0]
  <2>1. rank \in [Waiters -> Nat] /\ \A w \in Waiters : waiter[w].tail # None => rank[waiter[w].tail] < rank[w]
    BY DEF Init, Nobody
  <2> HIDE DEF rank
  <2> QED
    BY <2>1 DEF Ranked
<1> QED
  BY <1>1, <1>2, <1>3, <1>4 DEF SInv

LEMMA NextSound == SInv /\ [Next]_vars => SInv'
<1> SUFFICES ASSUME SInv, [Next]_vars PROVE SInv'
  OBVIOUS
<1>0. TypeOK /\ Control
  BY DEF SInv
<1>1. ASSUME NEW g \in Fibers, Resume(g) \/ Push(g) PROVE SInv'
  BY <1>1, ResumeSound, PushSound
<1>2. CASE Yield
  BY <1>2, YieldSound
<1>3. ASSUME NEW io \in IOs, NEW e \in (SUBSET Events) \ {{}}, IoWait(io, e) PROVE SInv'
  <2>1. PICK w : IoWaitWith(io, e, w)
    BY <1>3, IoWaitIs
  <2>2. e \in SUBSET Events
    OBVIOUS
  <2> QED
    BY <2>1, <2>2, IoWaitSound
<1>4. CASE Pop
  BY <1>4, PopSound
<1>5. ASSUME NEW io \in IOs, DispatchBegin(io) PROVE SInv'
  BY <1>5, DispatchBeginSound
<1>6. CASE Dispatch
  BY <1>6, DispatchSound
<1>7. CASE GiveBack
  <2>1. TypeOK'
    BY <1>0, <1>7 DEF GiveBack, TypeOK, ioVars, waiterVars, selectVars
  <2> QED
    BY <1>0, <1>7, <2>1, OtherSound DEF GiveBack, Control, waiterVars, selectVars
<1>8. CASE Escape
  <2>1. TypeOK'
    BY <1>0, <1>8 DEF Escape, TypeOK, ioVars, waiterVars
  <2> QED
    BY <1>0, <1>8, <2>1, OtherSound DEF Escape, Control, waiterVars
<1>9. ASSUME NEW io \in IOs, Close(io) \/ Change(io) PROVE SInv'
  <2>1. /\ UNCHANGED <<waiterVars, fiberVars, ready, run, selectVars>>
        /\ open' \subseteq IOs /\ condition' \in [IOs -> SUBSET Events]
    BY <1>0, <1>9 DEF Close, Change, TypeOK
  <2>2. TypeOK'
    BY <1>0, <2>1 DEF TypeOK, waiterVars, fiberVars, selectVars
  <2> QED
    BY <1>0, <2>1, <2>2, OtherSound DEF Control, waiterVars, fiberVars, selectVars
<1>10. CASE PopBegin
  <2>1. left' \in 0 .. Len(ready)
    BY <1>0, <1>10 DEF PopBegin, TypeOK
  <2>2. TypeOK'
    BY <1>0, <1>10, <2>1 DEF PopBegin, TypeOK, ioVars, waiterVars, fiberVars
  <2> QED
    BY <1>0, <1>10, <2>2, OtherSound DEF PopBegin, Control, waiterVars, fiberVars
<1>11. CASE PopEnd
  <2>1. TypeOK'
    BY <1>0, <1>11 DEF PopEnd, TypeOK, ioVars, waiterVars, fiberVars
  <2> QED
    BY <1>0, <1>11, <2>1, OtherSound DEF PopEnd, Control, waiterVars, fiberVars
<1>12. CASE Collect
  <2>1. TypeOK'
    BY <1>0, <1>12 DEF Collect, TypeOK, ioVars, fiberVars
  <2>2. \A io \in IOs : waiting'[io] \in {waiting[io], None}
    BY <1>12 DEF Collect
  <2> QED
    BY <1>0, <1>12, <2>1, <2>2, OtherSound DEF Collect, Control, fiberVars
<1>13. CASE Poll
  <2>1. stage = "blocked" /\ UNCHANGED <<ioVars, waiterVars, fiberVars, ready, run, left, current, cursor>>
    BY <1>13 DEF Poll
  <2>2. stage' \in {"outside", "dispatching"} /\ batch' \in [IOs -> SUBSET Events]
    <3>1. \A io \in IOs : Wanted(io) \cap condition[io] \in SUBSET Events
      BY <1>0 DEF TypeOK
    <3> QED
      BY <1>0, <1>13, <3>1 DEF Poll, TypeOK
  <2>3. TypeOK'
    BY <1>0, <2>1, <2>2 DEF TypeOK, ioVars, waiterVars, fiberVars
  <2> QED
    BY <1>0, <2>1, <2>3, OtherSound DEF Control, waiterVars, fiberVars
<1>14. CASE DispatchEnd
  <2>1. TypeOK'
    BY <1>0, <1>14 DEF DispatchEnd, TypeOK, ioVars, waiterVars, fiberVars
  <2> QED
    BY <1>0, <1>14, <2>1, OtherSound DEF DispatchEnd, Control, waiterVars, fiberVars
<1>15. CASE SelectEnd
  <2>1. TypeOK'
    BY <1>0, <1>15 DEF SelectEnd, TypeOK, ioVars, waiterVars, fiberVars
  <2>2. current = None
    BY <1>0, <1>15 DEF SelectEnd, Control, TypeOK
  <2> QED
    BY <1>0, <1>15, <2>1, <2>2, OtherSound DEF SelectEnd, Control, waiterVars, fiberVars
<1>16. CASE UNCHANGED vars
  <2>1. TypeOK'
    BY <1>0, <1>16 DEF vars, TypeOK, ioVars, waiterVars, fiberVars, selectVars
  <2> QED
    BY <1>0, <1>16, <2>1, OtherSound DEF vars, Control, waiterVars, fiberVars, selectVars
<1> QED
  BY <1>1, <1>2, <1>3, <1>4, <1>5, <1>6, <1>7, <1>8, <1>9, <1>10, <1>11, <1>12, <1>13, <1>14,
     <1>15, <1>16 DEF Next, SelectStep

LEMMA StructureInvariant == Spec => []SInv
  BY InitSound, NextSound, PTL DEF Spec

\* Select's variables have their types; in particular pop_ready never pops an entry that
\* is not there.
THEOREM TypeCorrect == Spec => []TypeOK
<1>1. SInv => TypeOK
  BY DEF SInv
<1> QED
  BY <1>1, StructureInvariant, PTL

\* What can resume a fiber belongs to the call the fiber is in, exceptions that leave
\* select included (the ensure clauses of io_wait, resume, raise and yield).
THEOREM ReferencesSafe == Spec => []ReferencesCurrent
<1>1. SInv => ReferencesCurrent
  <2> SUFFICES ASSUME SInv PROVE ReferencesCurrent
    OBVIOUS
  <2>1. Referred \subseteq Waiters
    BY ReferredFacts DEF SInv
  <2> QED
    BY <2>1 DEF SInv, Owned, OptionalsCurrent, ReferencesCurrent
<1> QED
  BY <1>1, StructureInvariant, PTL

\* Chains of Waiters are not shared and have no cycle, whatever is put back, dropped or
\* begun while dispatch walks a chain.
THEOREM ChainsSafe == Spec => []ChainsDisjoint
<1>1. SInv => ChainsDisjoint
  BY LinksDisjoint DEF SInv
<1> QED
  BY <1>1, StructureInvariant, PTL

-----------------------------------------------------------------------------
(***************************************************************************)
(* No waiter is lost                                                        *)
(***************************************************************************)

\* The types of what chains are made of.
LEMMA ChainTypes ==
    ASSUME SInv
    PROVE  /\ Tails \in TailMap /\ \A w \in Waiters : Tails[w] = waiter[w].tail
           /\ waiting \in [IOs -> Waiters \cup {None}] /\ cursor \in Waiters \cup {None}
           /\ at \in [Fibers -> Waiters \cup {None}] /\ current \in IOs \cup {None}
           /\ \A f \in Fibers : place[f] = "waiting" => at[f] \in Waiters /\ waiter[at[f]].io \in IOs
<1>1. TypeOK /\ Control /\ Owned
  BY DEF SInv
<1>2. /\ waiting \in [IOs -> Waiters \cup {None}] /\ cursor \in Waiters \cup {None}
      /\ at \in [Fibers -> Waiters \cup {None}] /\ current \in IOs \cup {None}
  BY <1>1 DEF TypeOK
<1>3. \A f \in Fibers : place[f] = "waiting" => at[f] \in Waiters /\ waiter[at[f]].io \in IOs
  BY <1>1, <1>2 DEF Control, Owned
<1> QED
  BY <1>1, <1>2, <1>3, TailFacts

\* The same, after a step.
LEMMA ChainTypesNext ==
    ASSUME SInv, SInv'
    PROVE  Tails' \in TailMap /\ \A w \in Waiters : Tails'[w] = waiter'[w].tail
<1>1. \A w \in Waiters : waiter'[w].tail \in Waiters \cup {None}
  BY DEF SInv, TypeOK
<1> QED
  BY <1>1, TailFacts DEF SInv

\* A step that leaves the tails alone and drops no chain but those of closed IOs.
LEMMA KeptByOthers ==
    ASSUME SInv, SInv', NoLostWaiter, open' \subseteq open,
           \A w \in Waiters : waiter'[w].tail = waiter[w].tail,
           \A io \in open' : waiting'[io] = waiting[io],
           cursor' = cursor, current' = current \/ cursor = None,
           \A f \in Fibers : place'[f] = "waiting" =>
               place[f] = "waiting" /\ at'[f] = at[f] /\ waiter'[at[f]].io = waiter[at[f]].io
    PROVE  NoLostWaiter'
<1>1. /\ Tails \in TailMap /\ \A w \in Waiters : Tails[w] = waiter[w].tail
      /\ waiting \in [IOs -> Waiters \cup {None}] /\ cursor \in Waiters \cup {None}
  BY ChainTypes
<1>2. Tails' = Tails
  BY DEF Tails
<1>3. cursor = None => Reach(Tails, cursor) = {}
  BY <1>1, ReachFacts
<1> SUFFICES ASSUME NEW f \in Fibers, place'[f] = "waiting", waiter'[at'[f]].io \in open'
             PROVE  \/ at'[f] \in Reach(Tails', waiting'[waiter'[at'[f]].io])
                    \/ current' = waiter'[at'[f]].io /\ at'[f] \in Reach(Tails', cursor')
  BY DEF NoLostWaiter, Chain
<1> DEFINE io == waiter[at[f]].io
<1>4. /\ place[f] = "waiting" /\ at'[f] = at[f] /\ waiter'[at'[f]].io = io
      /\ io \in open /\ waiting'[io] = waiting[io]
  OBVIOUS
<1>5. at[f] \in Reach(Tails, waiting[io]) \/ (current = io /\ at[f] \in Reach(Tails, cursor))
  BY <1>4 DEF NoLostWaiter, Chain
<1> HIDE DEF io
<1> QED
  BY <1>2, <1>3, <1>4, <1>5

\* Control passes to g: the wait of g ends, no other is touched.
LEMMA SwitchKeeps ==
    ASSUME SInv, NEW g \in Fibers, NEW q, SwitchTo(g, q)
    PROVE  /\ \A w \in Waiters : waiter'[w].tail = waiter[w].tail
           /\ \A f \in Fibers : f # g /\ place[f] = "waiting" => at'[f] = at[f] /\ waiter'[at[f]] = waiter[at[f]]
<1>1. /\ waiter \in [Waiters -> WaiterSet] /\ at \in [Fibers -> Waiters \cup {None}]
      /\ \A f \in Fibers : at[f] # None => at[f] \in Waiters /\ waiter[at[f]].fiber = f
  BY SInvFacts
<1>2. /\ at' = [at EXCEPT ![g] = None]
      /\ waiter' = IF at[g] = None THEN waiter
                   ELSE [waiter EXCEPT ![at[g]] = [Nobody EXCEPT !.tail = waiter[at[g]].tail]]
  BY DEF SwitchTo, Invalidate
<1>3. ASSUME NEW f \in Fibers, f # g, place[f] = "waiting"
      PROVE  at'[f] = at[f] /\ at[f] \in Waiters /\ at[f] # at[g]
  BY <1>1, <1>2, <1>3 DEF SInv, Control
<1>4. CASE at[g] = None
  BY <1>2, <1>3, <1>4
<1>5. CASE at[g] # None
  <2> DEFINE x == [Nobody EXCEPT !.tail = waiter[at[g]].tail]
  <2>1. x.tail = waiter[at[g]].tail
    BY DEF Nobody
  <2>2. waiter' = [waiter EXCEPT ![at[g]] = x] /\ at[g] \in Waiters
    BY <1>1, <1>2, <1>5
  <2> HIDE DEF x
  <2> QED
    BY <1>1, <1>3, <2>1, <2>2
<1> QED
  BY <1>4, <1>5

\* A chain is moved from @waiting to dispatch, which has come to the end of the last.
LEMMA KeptByDispatchBegin ==
    ASSUME SInv, SInv', NoLostWaiter, NEW io \in IOs, DispatchBegin(io)
    PROVE  NoLostWaiter'
<1>1. /\ Tails \in TailMap /\ waiting \in [IOs -> Waiters \cup {None}]
      /\ \A f \in Fibers : place[f] = "waiting" => waiter[at[f]].io \in IOs
  BY ChainTypes
<1>2. /\ current = None /\ current' = io /\ cursor' = waiting[io]
      /\ waiting' = [waiting EXCEPT ![io] = None]
      /\ UNCHANGED <<open, waiter, at, place>>
  BY DEF DispatchBegin, ioVars, fiberVars
<1>3. Tails' = Tails
  BY <1>2 DEF Tails
<1> SUFFICES ASSUME NEW f \in Fibers, place[f] = "waiting", waiter[at[f]].io \in open
             PROVE  \/ at[f] \in Reach(Tails, waiting'[waiter[at[f]].io])
                    \/ current' = waiter[at[f]].io /\ at[f] \in Reach(Tails, cursor')
  BY <1>2, <1>3 DEF NoLostWaiter, Chain
<1>4. waiter[at[f]].io \in IOs /\ at[f] \in Reach(Tails, waiting[waiter[at[f]].io])
  BY <1>1, <1>2 DEF NoLostWaiter, Chain
<1> QED
  BY <1>1, <1>2, <1>4

\* What dispatch has come to is in no chain of @waiting and not in the rest.
LEMMA CursorApart ==
    ASSUME SInv, cursor \in Waiters
    PROVE  /\ \A io \in IOs : cursor \notin Reach(Tails, waiting[io])
           /\ cursor \notin Reach(Tails, waiter[cursor].tail)
           /\ Reach(Tails, cursor) = {cursor} \cup Reach(Tails, waiter[cursor].tail)
<1>1. /\ Tails \in TailMap /\ \A w \in Waiters : Tails[w] = waiter[w].tail
  BY ChainTypes
<1>2. ChainsDisjoint
  BY LinksDisjoint DEF SInv
<1>3. cursor \in Reach(Tails, cursor) /\ cursor \in Referred
  BY <1>1, ReachFacts DEF Referred, Chain
<1>4. ASSUME NEW io \in IOs PROVE cursor \notin Reach(Tails, waiting[io])
  <2> DEFINE r == <<io, waiting[io]>>
             s == <<None, cursor>>
  <2>1. r # s /\ r[2] = waiting[io] /\ s[2] = cursor
    OBVIOUS
  <2>2. Chain(r[2]) \cap Chain(s[2]) = {}
    BY <1>2, <2>1 DEF ChainsDisjoint
  <2> QED
    BY <1>3, <2>1, <2>2 DEF Chain
<1>5. cursor \notin Reach(Tails, waiter[cursor].tail)
  <2>1. CASE waiter[cursor].tail = None
    BY <1>1, <2>1, ReachFacts
  <2>2. CASE waiter[cursor].tail # None
    BY <1>2, <1>3, <2>2 DEF ChainsDisjoint, Chain
  <2> QED
    BY <2>1, <2>2
<1>6. Reach(Tails, cursor) = {cursor} \cup Reach(Tails, waiter[cursor].tail)
  BY <1>1, ReachStep
<1> QED
  BY <1>4, <1>5, <1>6

\* The chains of the IOs and the rest of that being dispatched do not depend on what
\* becomes of the Waiter dispatch has come to.
LEMMA CursorFrame ==
    ASSUME SInv, SInv', cursor \in Waiters,
           \A v \in Waiters : v # cursor => waiter'[v] = waiter[v]
    PROVE  /\ \A io \in IOs : Reach(Tails', waiting[io]) = Reach(Tails, waiting[io])
           /\ Reach(Tails', waiter[cursor].tail) = Reach(Tails, waiter[cursor].tail)
<1>1. /\ Tails \in TailMap /\ \A w \in Waiters : Tails[w] = waiter[w].tail
      /\ waiting \in [IOs -> Waiters \cup {None}]
  BY ChainTypes
<1>2. /\ Tails' \in TailMap /\ \A w \in Waiters : Tails'[w] = waiter'[w].tail
  BY ChainTypesNext
<1>3. /\ \A io \in IOs : cursor \notin Reach(Tails, waiting[io])
      /\ cursor \notin Reach(Tails, waiter[cursor].tail)
  BY CursorApart
<1>4. ASSUME NEW w \in Waiters \cup {None}, cursor \notin Reach(Tails, w)
      PROVE  Reach(Tails', w) = Reach(Tails, w)
  <2>1. Reach(Tails, w) \subseteq Waiters
    BY <1>1, ReachFacts
  <2>2. \A v \in Reach(Tails, w) : Tails'[v] = Tails[v]
    BY <1>1, <1>2, <1>4, <2>1
  <2> QED
    BY <1>1, <1>2, <2>2, ReachFrame
<1>5. waiter[cursor].tail \in Waiters \cup {None}
  BY <1>1 DEF TailMap
<1> QED
  BY <1>1, <1>3, <1>4, <1>5

LEMMA KeptByDispatch ==
    ASSUME SInv, SInv', NoLostWaiter, Dispatch
    PROVE  NoLostWaiter'
<1>1. /\ cursor \in Waiters /\ current \in IOs
      /\ cursor' = waiter[cursor].tail /\ current' = current /\ open' = open
      /\ PutBack(cursor) \/ Passed(cursor) \/ Delivered(cursor)
  BY DispatchCases DEF ioVars
<1>2. /\ Tails \in TailMap /\ waiting \in [IOs -> Waiters \cup {None}]
      /\ at \in [Fibers -> Waiters \cup {None}]
      /\ \A f \in Fibers : place[f] = "waiting" => at[f] \in Waiters /\ waiter[at[f]].io \in IOs
  BY ChainTypes
<1>3. Tails' \in TailMap /\ \A w \in Waiters : Tails'[w] = waiter'[w].tail
  BY ChainTypesNext
<1>4. Reach(Tails, cursor) = {cursor} \cup Reach(Tails, waiter[cursor].tail)
  BY <1>1, CursorApart
<1>5. ASSUME NEW f \in Fibers, place[f] = "waiting", waiter[at[f]].io \in open
      PROVE  \/ at[f] \in Reach(Tails, waiting[waiter[at[f]].io])
             \/ current = waiter[at[f]].io /\ at[f] \in {cursor} \cup Reach(Tails, waiter[cursor].tail)
  BY <1>4, <1>5 DEF NoLostWaiter, Chain
<1>6. CASE PutBack(cursor)
  <2>1. /\ \A v \in Waiters : waiter'[v].io = waiter[v].io /\ (v # cursor => waiter'[v] = waiter[v])
        /\ waiter'[cursor].tail = waiting[current]
        /\ \A jo \in IOs : waiting'[jo] = IF jo = current THEN cursor ELSE waiting[jo]
    BY <1>1, <1>6, PutBackFacts
  <2>2. UNCHANGED <<at, place>>
    BY <1>6 DEF PutBack, fiberVars
  <2>3. /\ \A io \in IOs : Reach(Tails', waiting[io]) = Reach(Tails, waiting[io])
        /\ Reach(Tails', waiter[cursor].tail) = Reach(Tails, waiter[cursor].tail)
    BY <1>1, <2>1, CursorFrame
  <2>4. Reach(Tails', cursor) = {cursor} \cup Reach(Tails, waiting[current])
    BY <1>1, <1>3, <2>1, <2>3, ReachStep
  <2> SUFFICES ASSUME NEW f \in Fibers, place[f] = "waiting", waiter'[at[f]].io \in open
               PROVE  \/ at[f] \in Reach(Tails', waiting'[waiter'[at[f]].io])
                      \/ current = waiter'[at[f]].io /\ at[f] \in Reach(Tails', cursor')
    BY <1>1, <2>2 DEF NoLostWaiter, Chain
  <2> DEFINE io == waiter[at[f]].io
  <2>5. io \in IOs /\ waiter'[at[f]].io = io
    BY <1>2, <2>1
  <2>6. \/ at[f] \in Reach(Tails, waiting[io])
        \/ current = io /\ at[f] \in {cursor} \cup Reach(Tails, waiter[cursor].tail)
    BY <1>5, <2>5
  <2> HIDE DEF io
  <2>7. CASE io = current
    BY <1>1, <2>1, <2>3, <2>4, <2>5, <2>6, <2>7
  <2>8. CASE io # current
    BY <2>1, <2>3, <2>5, <2>6, <2>8
  <2> QED
    BY <2>7, <2>8
<1>7. CASE Passed(cursor) \/ Delivered(cursor)
  <2>1. /\ waiter' = [waiter EXCEPT ![cursor] = Nobody] /\ UNCHANGED waiting
        /\ \/ waiter[cursor].fiber = None /\ UNCHANGED <<at, place>>
           \/ /\ waiter[cursor].fiber # None
              /\ at' = [at EXCEPT ![waiter[cursor].fiber] = None]
              /\ place' = [place EXCEPT ![waiter[cursor].fiber] = "idle"]
    BY <1>7 DEF Passed, Delivered, fiberVars
  <2>2. waiter \in [Waiters -> WaiterSet] /\ place \in [Fibers -> {"idle", "waiting", "queued"}]
    BY SInvFacts
  <2>3. \A v \in Waiters : v # cursor => waiter'[v] = waiter[v]
    BY <2>1, <2>2
  <2>4. ASSUME NEW f \in Fibers, place'[f] = "waiting"
        PROVE  place[f] = "waiting" /\ at'[f] = at[f] /\ at[f] \in Waiters /\ at[f] # cursor
    <3>1. place[f] = "waiting" /\ at'[f] = at[f] /\ waiter[cursor].fiber # f
      BY <1>2, <2>1, <2>2, <2>4
    <3> QED
      BY <1>2, <3>1, SInvFacts
  <2>5. /\ \A io \in IOs : Reach(Tails', waiting[io]) = Reach(Tails, waiting[io])
        /\ Reach(Tails', waiter[cursor].tail) = Reach(Tails, waiter[cursor].tail)
    BY <1>1, <2>3, CursorFrame
  <2> SUFFICES ASSUME NEW f \in Fibers, place'[f] = "waiting", waiter'[at'[f]].io \in open
               PROVE  \/ at'[f] \in Reach(Tails', waiting[waiter'[at'[f]].io])
                      \/ current = waiter'[at'[f]].io /\ at'[f] \in Reach(Tails', cursor')
    BY <1>1, <2>1 DEF NoLostWaiter, Chain
  <2>6. /\ place[f] = "waiting" /\ at'[f] = at[f] /\ at[f] # cursor
        /\ waiter'[at[f]] = waiter[at[f]] /\ waiter[at[f]].io \in IOs
    BY <1>2, <2>3, <2>4
  <2>7. \/ at[f] \in Reach(Tails, waiting[waiter[at[f]].io])
        \/ current = waiter[at[f]].io /\ at[f] \in Reach(Tails, waiter[cursor].tail)
    BY <1>5, <2>6
  <2> QED
    BY <1>1, <2>5, <2>6, <2>7
<1> QED
  BY <1>1, <1>6, <1>7

LEMMA KeptByIoWait ==
    ASSUME SInv, SInv', NoLostWaiter, NEW io \in IOs, NEW evs \in SUBSET Events, NEW w,
           IoWaitWith(io, evs, w)
    PROVE  NoLostWaiter'
<1>1. /\ Tails \in TailMap /\ \A v \in Waiters : Tails[v] = waiter[v].tail
      /\ waiting \in [IOs -> Waiters \cup {None}]
      /\ cursor \in Waiters \cup {None} /\ at \in [Fibers -> Waiters \cup {None}]
      /\ \A f \in Fibers : place[f] = "waiting" => at[f] \in Waiters /\ waiter[at[f]].io \in IOs
  BY ChainTypes
<1>2. Tails' \in TailMap /\ \A v \in Waiters : Tails'[v] = waiter'[v].tail
  BY ChainTypesNext
<1>3. /\ w \in Waiters /\ run \in Fibers
      /\ waiter'[w] = [fiber |-> run, io |-> io, events |-> evs, tail |-> waiting[io]]
      /\ \A v \in Referred : v # w /\ v \in Waiters /\ waiter'[v] = waiter[v]
      /\ \A f \in Fibers : /\ at'[f] = IF f = run THEN w ELSE at[f]
                           /\ place'[f] = IF f = run THEN "waiting" ELSE place[f]
      /\ \A jo \in IOs : waiting'[jo] = IF jo = io THEN w ELSE waiting[jo]
  BY IoWaitFacts
<1>4. UNCHANGED <<open, current, cursor>>
  BY DEF IoWaitWith, ioVars, selectVars
<1>5. \A f \in Fibers : at[f] \in Referred \cup {None}
  BY ReferredFacts DEF SInv
<1>6. ASSUME NEW v \in Waiters \cup {None}, Reach(Tails, v) \subseteq Referred
      PROVE  Reach(Tails', v) = Reach(Tails, v)
  <2>1. \A u \in Reach(Tails, v) : Tails'[u] = Tails[u]
    BY <1>1, <1>2, <1>3, <1>6
  <2> QED
    BY <1>1, <1>2, <2>1, ReachFrame
<1>7. /\ \A jo \in IOs : Reach(Tails', waiting[jo]) = Reach(Tails, waiting[jo])
      /\ Reach(Tails', cursor) = Reach(Tails, cursor)
  <2>1. \A jo \in IOs : Reach(Tails, waiting[jo]) \subseteq Referred
    BY DEF Referred, Chain
  <2>2. Reach(Tails, cursor) \subseteq Referred
    BY DEF Referred, Chain
  <2> QED
    BY <1>1, <1>6, <2>1, <2>2
<1>8. Reach(Tails', w) = {w} \cup Reach(Tails, waiting[io])
  <2>1. Tails'[w] = waiting[io]
    BY <1>2, <1>3
  <2> QED
    BY <1>2, <1>3, <1>7, <2>1, ReachStep
<1> SUFFICES ASSUME NEW f \in Fibers, place'[f] = "waiting", waiter'[at'[f]].io \in open
             PROVE  \/ at'[f] \in Reach(Tails', waiting'[waiter'[at'[f]].io])
                    \/ current = waiter'[at'[f]].io /\ at'[f] \in Reach(Tails', cursor)
  BY <1>4 DEF NoLostWaiter, Chain
<1>9. CASE f = run
  <2>1. at'[f] = w /\ waiter'[at'[f]].io = io /\ waiting'[io] = w
    BY <1>3, <1>9
  <2> QED
    BY <1>8, <2>1
<1>10. CASE f # run
  <2>1. place[f] = "waiting" /\ at'[f] = at[f] /\ at[f] \in Referred /\ waiter'[at[f]] = waiter[at[f]]
    BY <1>1, <1>3, <1>5, <1>10
  <2>2. waiter[at[f]].io \in IOs /\ waiter[at[f]].io \in open
    BY <1>1, <2>1
  <2>3. \/ at[f] \in Reach(Tails, waiting[waiter[at[f]].io])
        \/ current = waiter[at[f]].io /\ at[f] \in Reach(Tails, cursor)
    BY <2>1, <2>2 DEF NoLostWaiter, Chain
  <2> QED
    BY <1>3, <1>7, <1>8, <2>1, <2>2, <2>3
<1> QED
  BY <1>9, <1>10

LEMMA KeptByNext ==
    ASSUME ~MayEscape, SInv, SInv', NoLostWaiter, [Next]_vars
    PROVE  NoLostWaiter'
<1>0. TypeOK /\ Control
  BY DEF SInv
<1>1. ASSUME NEW g \in Fibers, Resume(g) PROVE NoLostWaiter'
  <2>1. /\ SwitchTo(g, Append(ready, [optional |-> TRUE, fiber |-> IF run = Loop THEN None ELSE run]))
        /\ place' = [f \in Fibers |-> CASE f = g -> "idle" [] f = run -> "queued" [] OTHER -> place[f]]
        /\ UNCHANGED <<open, waiting, cursor, current>>
    BY <1>1 DEF Resume, ioVars, selectVars
  <2>2. \A f \in Fibers : place'[f] = "waiting" => f # g /\ place[f] = "waiting"
    BY <2>1
  <2> QED
    BY <2>1, <2>2, SwitchKeeps, KeptByOthers
<1>2. ASSUME NEW g \in Fibers, Push(g) PROVE NoLostWaiter'
  BY <1>2, KeptByOthers DEF Push, ioVars, waiterVars, fiberVars, selectVars
<1>3. CASE Yield
  <2>1. \A f \in Fibers : place'[f] = "waiting" => place[f] = "waiting"
    BY <1>0, <1>3 DEF Yield, TypeOK
  <2> QED
    BY <1>3, <2>1, KeptByOthers DEF Yield, ioVars, waiterVars, selectVars
<1>4. ASSUME NEW io \in IOs, NEW e \in (SUBSET Events) \ {{}}, IoWait(io, e) PROVE NoLostWaiter'
  <2>1. PICK w : IoWaitWith(io, e, w)
    BY <1>4, IoWaitIs
  <2>2. e \in SUBSET Events
    OBVIOUS
  <2> QED
    BY <2>1, <2>2, KeptByIoWait
<1>5. CASE Pop
  <2>1. UNCHANGED <<open, waiting, cursor, current>>
    BY <1>5 DEF Pop, ioVars, waiterVars
  <2>2. CASE Head(ready).fiber = None
    BY <1>5, <2>1, <2>2, KeptByOthers DEF Pop, waiterVars, fiberVars
  <2>3. CASE Head(ready).fiber # None
    <3> DEFINE g == Head(ready).fiber
    <3>1. SwitchTo(g, Tail(ready)) /\ place' = [place EXCEPT ![g] = "idle"]
      BY <1>5, <2>3 DEF Pop
    <3>2. g \in Fibers
      <4>1. ready \in Seq(Entry) /\ ready # <<>>
        BY <1>0, <1>5 DEF TypeOK, Pop
      <4>2. Head(ready) \in Entry
        BY <4>1
      <4> QED
        BY <2>3, <4>2 DEF Entry
    <3> HIDE DEF g
    <3>3. \A f \in Fibers : place'[f] = "waiting" => f # g /\ place[f] = "waiting"
      BY <1>0, <3>1, <3>2 DEF TypeOK
    <3> QED
      BY <2>1, <3>1, <3>2, <3>3, SwitchKeeps, KeptByOthers
  <2> QED
    BY <2>2, <2>3
<1>6. ASSUME NEW io \in IOs, DispatchBegin(io) PROVE NoLostWaiter'
  BY <1>6, KeptByDispatchBegin
<1>7. CASE Dispatch
  BY <1>7, KeptByDispatch
<1>8. CASE GiveBack
  BY <1>8, KeptByOthers DEF GiveBack, ioVars, waiterVars, selectVars
<1>9. CASE Escape
  <2>1. current = None /\ cursor = None
    BY <1>0, <1>9 DEF Escape, Control
  <2> QED
    BY <1>9, <2>1, KeptByOthers DEF Escape, ioVars, waiterVars
<1>10. ASSUME NEW io \in IOs, Close(io) \/ Change(io) PROVE NoLostWaiter'
  <2>1. open' \subseteq open /\ UNCHANGED <<waiterVars, fiberVars, selectVars>>
    BY <1>10 DEF Close, Change
  <2> QED
    BY <2>1, KeptByOthers DEF waiterVars, fiberVars, selectVars
<1>11. CASE PopBegin \/ PopEnd \/ Poll \/ SelectEnd
  <2>1. UNCHANGED <<ioVars, waiterVars, fiberVars, cursor, current>>
    BY <1>11 DEF PopBegin, PopEnd, Poll, SelectEnd
  <2> QED
    BY <2>1, KeptByOthers DEF ioVars, waiterVars, fiberVars
<1>12. CASE Collect
  <2>1. \A io \in open' : waiting'[io] = waiting[io]
    BY <1>0, <1>12 DEF Collect, TypeOK, ioVars
  <2> QED
    BY <1>12, <2>1, KeptByOthers DEF Collect, ioVars, fiberVars
<1>13. CASE DispatchEnd
  BY <1>13, KeptByOthers DEF DispatchEnd, ioVars, waiterVars, fiberVars
<1>14. CASE UNCHANGED vars
  BY <1>14, KeptByOthers DEF vars, ioVars, waiterVars, fiberVars, selectVars
<1> QED
  BY <1>1, <1>2, <1>3, <1>4, <1>5, <1>6, <1>7, <1>8, <1>9, <1>10, <1>11, <1>12, <1>13, <1>14
     DEF Next, SelectStep

\* Unless an exception leaves a fiber that dispatch has resumed, a fiber in io_wait for an
\* open IO is in a chain that select still looks at: a dispatch that puts waiters back,
\* drops those that have gone and lets fibers wait anew meanwhile loses none of them.
THEOREM WaitersKept ==
    ASSUME ~MayEscape
    PROVE  Spec => []NoLostWaiter
<1>1. Init => NoLostWaiter
  BY DEF Init, NoLostWaiter
<1>2. SInv /\ SInv' /\ NoLostWaiter /\ [Next]_vars => NoLostWaiter'
  BY KeptByNext
<1> QED
  BY <1>1, <1>2, StructureInvariant, PTL DEF Spec

-----------------------------------------------------------------------------
(***************************************************************************)
(* io_wait keeps its promise                                                *)
(***************************************************************************)

\* A step that ends no wait and begins none: fibers go on or nothing changes for them.
LEMMA StepsOver ==
    ASSUME value' \in {value, {}},
           \A f \in Fibers : (place'[f] = "waiting") <=> (place[f] = "waiting"),
           \A f \in Fibers : place[f] = "waiting" =>
               /\ waiter'[at'[f]].io = waiter[at[f]].io
               /\ waiter'[at'[f]].events = waiter[at[f]].events
    PROVE  [WaitSpec!Next]_<<WaitMap, value>>
<1>1. WaitMap' = WaitMap
  BY DEF WaitMap
<1> QED
  BY <1>1 DEF WaitSpec!Next, WaitSpec!Continue

\* A step that ends the wait of f and touches no other.
LEMMA StepEnds ==
    ASSUME SInv, NEW f \in Fibers, place[f] = "waiting", place'[f] # "waiting",
           \A h \in Fibers : h # f => ((place'[h] = "waiting") <=> (place[h] = "waiting")),
           \A h \in Fibers : h # f /\ place[h] = "waiting" =>
               /\ waiter'[at'[h]].io = waiter[at[h]].io
               /\ waiter'[at'[h]].events = waiter[at[h]].events,
           value' \in SUBSET waiter[at[f]].events
    PROVE  [WaitSpec!Next]_<<WaitMap, value>>
<1>1. at[f] \in Waiters /\ waiter[at[f]].io \in IOs
  BY ChainTypes
<1>2. waiter[at[f]].events \in SUBSET Events
  BY <1>1 DEF SInv, TypeOK
<1>3. /\ WaitMap[f] = [io |-> waiter[at[f]].io, events |-> waiter[at[f]].events]
      /\ WaitMap[f].events = waiter[at[f]].events
  BY DEF WaitMap
<1>4. WaitMap[f] # None
  <2>1. WaitMap[f] \in [io : IOs, events : SUBSET Events]
    BY <1>1, <1>2, <1>3
  <2> QED
    BY <2>1
<1>5. WaitMap' = [WaitMap EXCEPT ![f] = None]
  BY DEF WaitMap
<1>6. CASE value' = {}
  BY <1>4, <1>5, <1>6 DEF WaitSpec!Next, WaitSpec!Cancel
<1>7. CASE value' # {}
  <2>1. value' \in (SUBSET WaitMap[f].events) \ {{}}
    BY <1>3, <1>7
  <2>2. WaitSpec!Deliver(f)
    BY <1>4, <1>5, <2>1 DEF WaitSpec!Deliver
  <2> QED
    BY <2>2 DEF WaitSpec!Next
<1> QED
  BY <1>6, <1>7

\* Control passes to g: false is what its wait ends with, if it is in one.
LEMMA StepSwitches ==
    ASSUME SInv, NEW g \in Fibers, NEW q, SwitchTo(g, q), place'[g] = "idle",
           \A f \in Fibers : f # g => ((place'[f] = "waiting") <=> (place[f] = "waiting"))
    PROVE  [WaitSpec!Next]_<<WaitMap, value>>
<1>1. value' = {}
  BY DEF SwitchTo
<1>2. \A f \in Fibers : f # g /\ place[f] = "waiting" => waiter'[at'[f]] = waiter[at[f]]
  BY SwitchKeeps
<1>3. CASE place[g] = "waiting"
  <2>1. value' \in SUBSET waiter[at[g]].events
    BY <1>1
  <2> QED
    BY <1>2, <1>3, <2>1, StepEnds
<1>4. CASE place[g] # "waiting"
  BY <1>1, <1>2, <1>4, StepsOver
<1> QED
  BY <1>3, <1>4

LEMMA StepWaits ==
    ASSUME SInv, NEW io \in IOs, NEW evs \in (SUBSET Events) \ {{}}, NEW w, IoWaitWith(io, evs, w)
    PROVE  [WaitSpec!Next]_<<WaitMap, value>>
<1>1. /\ w \in Waiters /\ run \in Fibers /\ place[run] = "idle"
      /\ waiter'[w] = [fiber |-> run, io |-> io, events |-> evs, tail |-> waiting[io]]
      /\ \A v \in Referred : v # w /\ v \in Waiters /\ waiter'[v] = waiter[v]
      /\ \A f \in Fibers : /\ at'[f] = IF f = run THEN w ELSE at[f]
                           /\ place'[f] = IF f = run THEN "waiting" ELSE place[f]
  BY IoWaitFacts
<1>2. /\ \A f \in Fibers : at[f] \in Referred \cup {None}
      /\ \A f \in Fibers : place[f] = "waiting" => at[f] \in Waiters
  BY ReferredFacts, ChainTypes DEF SInv
<1> DEFINE new == [io |-> io, events |-> evs]
<1>3. WaitMap' = [WaitMap EXCEPT ![run] = new]
  <2>1. \A f \in Fibers : f # run /\ place[f] = "waiting" => waiter'[at'[f]] = waiter[at[f]]
    BY <1>1, <1>2
  <2>2. place'[run] = "waiting" /\ waiter'[at'[run]].io = io /\ waiter'[at'[run]].events = evs
    BY <1>1
  <2>3. \A f \in Fibers : f # run => place'[f] = place[f]
    BY <1>1
  <2> QED
    BY <2>1, <2>2, <2>3 DEF WaitMap
<1>4. WaitMap[run] = None /\ value' = {}
  BY <1>1 DEF WaitMap, IoWaitWith
<1>5. new \in WaitSpec!Waits
  BY DEF WaitSpec!Waits
<1> HIDE DEF new
<1>6. WaitSpec!Wait(run)
  BY <1>3, <1>4, <1>5 DEF WaitSpec!Wait
<1> QED
  BY <1>1, <1>6 DEF WaitSpec!Next

LEMMA StepDispatches ==
    ASSUME SInv, Dispatch
    PROVE  [WaitSpec!Next]_<<WaitMap, value>>
<1>1. /\ cursor \in Waiters /\ current \in IOs
      /\ PutBack(cursor) \/ Passed(cursor) \/ Delivered(cursor)
  BY DispatchCases
<1>2. /\ waiter \in [Waiters -> WaiterSet] /\ at \in [Fibers -> Waiters \cup {None}]
      /\ place \in [Fibers -> {"idle", "waiting", "queued"}]
      /\ \A f \in Fibers : place[f] = "waiting" => at[f] \in Waiters /\ waiter[at[f]].fiber = f
  BY SInvFacts, ChainTypes
<1>3. CASE PutBack(cursor)
  <2>1. \A v \in Waiters : waiter'[v].io = waiter[v].io /\ waiter'[v].events = waiter[v].events
    BY <1>1, <1>3, PutBackFacts
  <2>2. UNCHANGED <<at, place, value>>
    BY <1>3 DEF PutBack, fiberVars
  <2> QED
    BY <1>2, <2>1, <2>2, StepsOver
<1>4. CASE Passed(cursor)
  <2>1. /\ waiter[cursor].fiber = None /\ waiter' = [waiter EXCEPT ![cursor] = Nobody]
        /\ UNCHANGED <<at, place, value>>
    BY <1>4 DEF Passed, fiberVars
  <2>2. \A f \in Fibers : place[f] = "waiting" => waiter'[at'[f]] = waiter[at[f]]
    BY <1>2, <2>1
  <2> QED
    BY <2>1, <2>2, StepsOver
<1>5. CASE Delivered(cursor)
  <2> DEFINE f == waiter[cursor].fiber
  <2>1. /\ f # None /\ waiter' = [waiter EXCEPT ![cursor] = Nobody]
        /\ at' = [at EXCEPT ![f] = None] /\ place' = [place EXCEPT ![f] = "idle"]
        /\ value' = batch[current] \cap waiter[cursor].events
    BY <1>5 DEF Delivered, Revents
  <2>2. f \in Fibers
    BY <1>1, <1>2, <2>1 DEF WaiterSet
  <2>3. at[f] = cursor /\ place[f] = "waiting"
    BY <1>1, <2>1, <2>2 DEF SInv, Owned, Control
  <2> HIDE DEF f
  <2>4. /\ place'[f] = "idle" /\ \A h \in Fibers : h # f => place'[h] = place[h] /\ at'[h] = at[h]
    BY <1>2, <2>1, <2>2
  <2>5. \A h \in Fibers : h # f /\ place[h] = "waiting" => waiter'[at'[h]] = waiter[at[h]]
    BY <1>2, <2>1, <2>3, <2>4
  <2>6. value' \in SUBSET waiter[at[f]].events
    BY <2>1, <2>3
  <2> QED
    BY <2>2, <2>3, <2>4, <2>5, <2>6, StepEnds
<1> QED
  BY <1>1, <1>3, <1>4, <1>5

LEMMA StepRefines ==
    ASSUME SInv, [Next]_vars
    PROVE  [WaitSpec!Next]_<<WaitMap, value>>
<1>0. TypeOK /\ Control
  BY DEF SInv
<1>1. ASSUME NEW g \in Fibers, Resume(g) PROVE [WaitSpec!Next]_<<WaitMap, value>>
  <2>1. /\ run # g
        /\ SwitchTo(g, Append(ready, [optional |-> TRUE, fiber |-> IF run = Loop THEN None ELSE run]))
        /\ place' = [f \in Fibers |-> CASE f = g -> "idle" [] f = run -> "queued" [] OTHER -> place[f]]
    BY <1>1 DEF Resume
  <2>2. /\ place'[g] = "idle"
        /\ \A f \in Fibers : f # g => place'[f] = IF f = run THEN "queued" ELSE place[f]
    BY <1>0, <2>1 DEF TypeOK
  <2>3. \A f \in Fibers : f # g => ((place'[f] = "waiting") <=> (place[f] = "waiting"))
    BY <1>0, <2>2 DEF Control
  <2> QED
    BY <2>1, <2>2, <2>3, StepSwitches
<1>2. CASE Pop
  <2>1. CASE Head(ready).fiber = None
    BY <1>2, <2>1, StepsOver DEF Pop, waiterVars, fiberVars
  <2>2. CASE Head(ready).fiber # None
    <3> DEFINE g == Head(ready).fiber
    <3>1. SwitchTo(g, Tail(ready)) /\ place' = [place EXCEPT ![g] = "idle"]
      BY <1>2, <2>2 DEF Pop
    <3>2. g \in Fibers
      <4>1. ready \in Seq(Entry) /\ ready # <<>>
        BY <1>0, <1>2 DEF TypeOK, Pop
      <4>2. Head(ready) \in Entry
        BY <4>1
      <4> QED
        BY <2>2, <4>2 DEF Entry
    <3> HIDE DEF g
    <3>3. place'[g] = "idle" /\ \A f \in Fibers : f # g => place'[f] = place[f]
      BY <1>0, <3>1, <3>2 DEF TypeOK
    <3> QED
      BY <3>1, <3>2, <3>3, StepSwitches
  <2> QED
    BY <2>1, <2>2
<1>3. ASSUME NEW io \in IOs, NEW e \in (SUBSET Events) \ {{}}, IoWait(io, e)
      PROVE  [WaitSpec!Next]_<<WaitMap, value>>
  <2>1. PICK w : IoWaitWith(io, e, w)
    BY <1>3, IoWaitIs
  <2> QED
    BY <2>1, StepWaits
<1>4. CASE Dispatch
  BY <1>4, StepDispatches
<1>5. CASE Yield
  <2>1. \A f \in Fibers : (place'[f] = "waiting") <=> (place[f] = "waiting")
    BY <1>0, <1>5 DEF Yield, TypeOK, Control
  <2> QED
    BY <1>5, <2>1, StepsOver DEF Yield, waiterVars
<1>6. CASE GiveBack \/ Escape
  <2>1. value' = {} /\ UNCHANGED <<waiterVars, place>>
    BY <1>6 DEF GiveBack, Escape
  <2> QED
    BY <2>1, StepsOver DEF waiterVars
<1>7. ASSUME NEW io \in IOs, Close(io) \/ Change(io) \/ DispatchBegin(io)
      PROVE  [WaitSpec!Next]_<<WaitMap, value>>
  <2>1. UNCHANGED <<waiter, at, fiberVars>>
    BY <1>7 DEF Close, Change, DispatchBegin, waiterVars
  <2> QED
    BY <2>1, StepsOver DEF fiberVars
<1>8. ASSUME NEW g \in Fibers, Push(g) PROVE [WaitSpec!Next]_<<WaitMap, value>>
  BY <1>8, StepsOver DEF Push, waiterVars, fiberVars
<1>9. CASE PopBegin \/ PopEnd \/ Collect \/ Poll \/ DispatchEnd \/ SelectEnd \/ UNCHANGED vars
  <2>1. UNCHANGED <<waiter, at, fiberVars>>
    BY <1>9 DEF PopBegin, PopEnd, Collect, Poll, DispatchEnd, SelectEnd, vars, waiterVars
  <2> QED
    BY <2>1, StepsOver DEF fiberVars
<1> QED
  BY <1>1, <1>2, <1>3, <1>4, <1>5, <1>6, <1>7, <1>8, <1>9 DEF Next, SelectStep

\* Select implements IOWait: io_wait returns some of the events that were asked for, or
\* false when its fiber was resumed by something else, and the wait of a fiber is ended by
\* nothing that happens to another (Waiter#dispatch, Waiter#invalidate).
THEOREM WaitRefined == Spec => ImplementsIOWait
<1>1. Init => WaitSpec!Init
  BY DEF Init, WaitSpec!Init, WaitMap
<1>2. SInv /\ [Next]_vars => [WaitSpec!Next]_<<WaitMap, value>>
  BY StepRefines
<1> QED
  BY <1>1, <1>2, StructureInvariant, PTL DEF Spec, ImplementsIOWait, WaitSpec!Spec

=============================================================================
