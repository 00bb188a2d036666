------------------------ MODULE SelectorQueueProofs ------------------------
(***************************************************************************)
(* queue_push and queue_pop keep the links of the ready queue consistent,   *)
(* for queues of any length.                                                *)
(***************************************************************************)
EXTENDS SelectorQueue, TLAPS

IInv == TypeOK /\ Linked /\ Unlinked

LEMMA InitLinked == Init => IInv
  BY DEF Init, IInv, TypeOK, Linked, Unlinked, At

\* queue_push makes its node the last one.
LEMMA PushLinked == ASSUME IInv, NEW n \in Nodes, Push(n) PROVE IInv'
<1>. DEFINE N == Len(queue)
<1>type. /\ queue \in Seq(Nodes) /\ N \in Nat
         /\ \A i \in 1..N : queue[i] \in Nodes
         /\ head \in [Nodes -> Nodes \cup {None}] /\ tail \in [Nodes -> Nodes \cup {None}]
  BY DEF IInv, TypeOK
<1>1. /\ queue' \in Seq(Nodes) /\ Len(queue') = N + 1
      /\ queue'[N + 1] = n /\ \A i \in 1..N : queue'[i] = queue[i]
  BY <1>type DEF Push
<1>2. waiting' = n /\ \A i \in 1..N : queue[i] # n
  BY DEF Push
<1>3. head[n] = None /\ tail[n] = None
  BY <1>2 DEF IInv, Unlinked
<1>. HIDE DEF N
<1>4. CASE N = 0
  <2>1. waiting = None
    BY <1>4 DEF IInv, Linked, At, N
  <2>2. ready' = n /\ UNCHANGED <<head, tail>>
    BY <2>1 DEF Push
  <2>3. TypeOK'
    BY <1>1, <1>2, <2>2 DEF IInv, TypeOK
  <2>4. Linked'
    BY <1>1, <1>2, <1>3, <1>4, <2>2 DEF Linked, At
  <2>5. Unlinked'
    BY <1>1, <1>4, <2>2 DEF IInv, Unlinked, N
  <2>. QED
    BY <2>3, <2>4, <2>5 DEF IInv
<1>5. CASE N # 0
  <2>1. N \in 1..N /\ waiting = queue[N] /\ waiting \in Nodes /\ waiting # n
    BY <1>type, <1>2, <1>5 DEF IInv, Linked, At, N
  <2>2. /\ head' = [head EXCEPT ![waiting] = n]
        /\ tail' = [tail EXCEPT ![n] = waiting]
        /\ ready' = ready
    BY <2>1, NoneAssumption DEF Push
  <2>3. TypeOK'
    BY <1>1, <1>2, <2>1, <2>2 DEF IInv, TypeOK
  <2>4. /\ head'[queue[N]] = n /\ head'[n] = None
        /\ tail'[n] = queue[N]
        /\ \A i \in 1..N : i # N => head'[queue[i]] = head[queue[i]]
        /\ \A i \in 1..N : tail'[queue[i]] = tail[queue[i]]
    BY <1>type, <1>2, <1>3, <2>1, <2>2 DEF IInv, Linked, N
  <2>5. /\ \A i \in 1..N : i # N => head[queue[i]] = queue[i + 1]
        /\ \A i \in 1..N : i # 1 => tail[queue[i]] = queue[i - 1]
        /\ tail[queue[1]] = None
        /\ ready = queue[1]
        /\ \A i, j \in 1..N : queue[i] = queue[j] => i = j
    BY <1>type, <2>1 DEF IInv, Linked, At, N
  <2>6. \A i \in 1..(N + 1) : head'[queue'[i]] = At(i + 1)'
    BY <1>type, <1>1, <2>1, <2>4, <2>5 DEF At
  <2>7. ASSUME NEW i \in 1..(N + 1) PROVE tail'[queue'[i]] = At(i - 1)'
    <3>1. CASE i = N + 1
      BY <1>type, <1>1, <2>1, <2>4, <3>1 DEF At
    <3>2. CASE i = 1
      BY <1>type, <1>1, <2>1, <2>4, <2>5, <3>2 DEF At
    <3>3. CASE i \in 2..N
      <4>1. i \in 1..N /\ i # 1 /\ i - 1 \in 1..N /\ i - 1 \in 1..(N + 1)
        BY <1>type, <3>3
      <4>2. tail'[queue'[i]] = queue[i - 1] /\ queue'[i - 1] = queue[i - 1]
        BY <1>1, <2>4, <2>5, <4>1
      <4>. QED
        BY <1>1, <4>1, <4>2 DEF At
    <3>. QED
      BY <1>type, <3>1, <3>2, <3>3
  <2>8. ASSUME NEW i \in 1..(N + 1), NEW j \in 1..(N + 1), queue'[i] = queue'[j] PROVE i = j
    <3>0. (i \in 1..N \/ i = N + 1) /\ (j \in 1..N \/ j = N + 1)
      BY <1>type
    <3>1. CASE i \in 1..N /\ j \in 1..N
      <4>1. queue[i] = queue[j]
        BY <1>1, <2>8, <3>1
      <4>. QED
        BY <2>5, <3>1, <4>1
    <3>2. CASE i = N + 1 /\ j \in 1..N
      BY <1>1, <1>2, <2>8, <3>2
    <3>3. CASE i \in 1..N /\ j = N + 1
      BY <1>1, <1>2, <2>8, <3>3
    <3>. QED
      BY <3>0, <3>1, <3>2, <3>3
  <2>9. ready' = At(1)' /\ waiting' = At(Len(queue))'
    BY <1>type, <1>1, <1>2, <2>1, <2>2, <2>5 DEF At
  <2>10. Linked'
    BY <1>1, <2>6, <2>7, <2>8, <2>9 DEF Linked
  <2>11. Unlinked'
    <3>1. SUFFICES ASSUME NEW m \in Nodes, \A i \in 1..(N + 1) : queue'[i] # m
                   PROVE  head'[m] = None /\ tail'[m] = None
      BY <1>1 DEF Unlinked
    <3>2. m # n /\ m # waiting /\ \A i \in 1..N : queue[i] # m
      BY <1>type, <1>1, <2>1, <3>1
    <3>. QED
      BY <1>type, <2>2, <3>2 DEF IInv, Unlinked, N
  <2>. QED
    BY <2>3, <2>10, <2>11 DEF IInv
<1>. QED
  BY <1>4, <1>5

\* queue_pop joins the neighbours of its node, wherever it is.
LEMMA PopLinked == ASSUME IInv, NEW k \in 1..Len(queue), Pop(k) PROVE IInv'
<1>. DEFINE N == Len(queue)
            n == queue[k]
<1>type. /\ queue \in Seq(Nodes) /\ N \in Nat
         /\ \A i \in 1..N : queue[i] \in Nodes
         /\ head \in [Nodes -> Nodes \cup {None}] /\ tail \in [Nodes -> Nodes \cup {None}]
         /\ k \in 1..N /\ n \in Nodes
  BY DEF IInv, TypeOK
<1>old. /\ \A i \in 1..N : head[queue[i]] = IF i = N THEN None ELSE queue[i + 1]
        /\ \A i \in 1..N : tail[queue[i]] = IF i = 1 THEN None ELSE queue[i - 1]
        /\ \A i, j \in 1..N : queue[i] = queue[j] => i = j
        /\ ready = queue[1] /\ waiting = queue[N]
  BY <1>type DEF IInv, Linked, At
<1>1. queue' = [j \in 1..(N - 1) |-> IF j < k THEN queue[j] ELSE queue[j + 1]]
  BY DEF Pop
<1>2. /\ queue' \in Seq(Nodes) /\ Len(queue') = N - 1
      /\ \A j \in 1..(N - 1) : queue'[j] = IF j < k THEN queue[j] ELSE queue[j + 1]
  BY <1>1, <1>type
<1>3. /\ head' = [m \in Nodes |-> IF m = n THEN None
                                  ELSE IF m = tail[n] THEN head[n] ELSE head[m]]
      /\ tail' = [m \in Nodes |-> IF m = n THEN None
                                  ELSE IF m = head[n] THEN tail[n] ELSE tail[m]]
      /\ waiting' = IF head[n] = None THEN tail[n] ELSE waiting
      /\ ready' = IF tail[n] = None THEN head[n] ELSE ready
  BY DEF Pop
<1>. HIDE DEF N
<1>4. TypeOK'
  BY <1>type, <1>2, <1>3 DEF IInv, TypeOK
<1>5. ASSUME NEW i \in 1..N, i # k
      PROVE  /\ head'[queue[i]] = IF i = k - 1 THEN head[n] ELSE head[queue[i]]
             /\ tail'[queue[i]] = IF i = k + 1 THEN tail[n] ELSE tail[queue[i]]
  <2>1. queue[i] \in Nodes /\ queue[i] # n
    BY <1>type, <1>old, <1>5
  <2>2. queue[i] = tail[n] <=> i = k - 1
    <3>1. CASE k = 1
      BY <1>type, <1>old, <2>1, <3>1, NoneAssumption
    <3>2. CASE k # 1
      <4>1. tail[n] = queue[k - 1] /\ k - 1 \in 1..N
        BY <1>type, <1>old, <3>2
      <4>. QED
        BY <1>old, <4>1
    <3>. QED
      BY <3>1, <3>2
  <2>3. queue[i] = head[n] <=> i = k + 1
    <3>1. CASE k = N
      BY <1>type, <1>old, <2>1, <3>1, NoneAssumption
    <3>2. CASE k # N
      <4>1. head[n] = queue[k + 1] /\ k + 1 \in 1..N
        BY <1>type, <1>old, <3>2
      <4>. QED
        BY <1>old, <4>1
    <3>. QED
      BY <3>1, <3>2
  <2>. QED
    BY <1>3, <2>1, <2>2, <2>3
<1>. HIDE DEF n
<1>n. /\ head[n] = IF k = N THEN None ELSE queue[k + 1]
      /\ tail[n] = IF k = 1 THEN None ELSE queue[k - 1]
  BY <1>type, <1>old DEF n
<1>6. ASSUME NEW j \in 1..(N - 1)
      PROVE  head'[queue'[j]] = IF j = N - 1 THEN None ELSE queue'[j + 1]
  <2>1. CASE j < k
    <3>1. j \in 1..N /\ j # k /\ queue'[j] = queue[j]
      BY <1>type, <1>2, <2>1
    <3>2. CASE j = k - 1
      <4>1. head'[queue'[j]] = head[n]
        BY <1>5, <3>1, <3>2
      <4>2. j # N - 1 => queue'[j + 1] = queue[k + 1]
        BY <1>type, <1>2, <3>2
      <4>. QED
        BY <1>type, <1>n, <3>2, <4>1, <4>2
    <3>3. CASE j # k - 1
      <4>1. head'[queue'[j]] = head[queue[j]]
        BY <1>5, <3>1, <3>3
      <4>2. j # N /\ j # N - 1 /\ queue'[j + 1] = queue[j + 1]
        BY <1>type, <1>2, <2>1, <3>3
      <4>. QED
        BY <1>old, <3>1, <4>1, <4>2
    <3>. QED
      BY <3>2, <3>3
  <2>2. CASE ~(j < k)
    <3>1. j + 1 \in 1..N /\ j + 1 # k /\ j + 1 # k - 1 /\ queue'[j] = queue[j + 1]
      BY <1>type, <1>2, <2>2
    <3>2. head'[queue'[j]] = head[queue[j + 1]]
      BY <1>5, <3>1
    <3>3. j # N - 1 => queue'[j + 1] = queue[(j + 1) + 1]
      BY <1>type, <1>2, <2>2
    <3>4. j + 1 = N <=> j = N - 1
      BY <1>type
    <3>. QED
      BY <1>old, <3>1, <3>2, <3>3, <3>4
  <2>. QED
    BY <2>1, <2>2
<1>7. ASSUME NEW j \in 1..(N - 1)
      PROVE  tail'[queue'[j]] = IF j = 1 THEN None ELSE queue'[j - 1]
  <2>1. CASE j < k
    <3>1. j \in 1..N /\ j # k /\ j # k + 1 /\ queue'[j] = queue[j]
      BY <1>type, <1>2, <2>1
    <3>2. tail'[queue'[j]] = tail[queue[j]]
      BY <1>5, <3>1
    <3>3. j # 1 => queue'[j - 1] = queue[j - 1]
      BY <1>type, <1>2, <2>1
    <3>. QED
      BY <1>old, <3>1, <3>2, <3>3
  <2>2. CASE ~(j < k)
    <3>1. j + 1 \in 1..N /\ j + 1 # k /\ j + 1 # 1 /\ queue'[j] = queue[j + 1]
      BY <1>type, <1>2, <2>2
    <3>2. CASE j = k
      <4>1. tail'[queue'[j]] = tail[n]
        BY <1>5, <3>1, <3>2
      <4>2. j # 1 => queue'[j - 1] = queue[k - 1]
        BY <1>type, <1>2, <3>2
      <4>. QED
        BY <1>n, <3>2, <4>1, <4>2
    <3>3. CASE j # k
      <4>1. tail'[queue'[j]] = tail[queue[j + 1]]
        BY <1>type, <1>5, <3>1, <3>3
      <4>2. tail[queue[j + 1]] = queue[j]
        BY <1>type, <1>old, <3>1
      <4>3. j # 1 /\ queue'[j - 1] = queue[j]
        BY <1>type, <1>2, <2>2, <3>3
      <4>. QED
        BY <4>1, <4>2, <4>3
    <3>. QED
      BY <3>2, <3>3
  <2>. QED
    BY <2>1, <2>2
<1>8. ASSUME NEW i \in 1..(N - 1), NEW j \in 1..(N - 1), queue'[i] = queue'[j] PROVE i = j
  <2>. DEFINE at(x) == IF x < k THEN x ELSE x + 1
  <2>0. ASSUME NEW x \in 1..(N - 1) PROVE at(x) \in 1..N /\ queue'[x] = queue[at(x)]
    <3>1. CASE x < k
      BY <1>type, <1>2, <3>1
    <3>2. CASE ~(x < k)
      BY <1>type, <1>2, <3>2
    <3>. QED
      BY <3>1, <3>2
  <2>1. /\ at(i) \in 1..N /\ queue'[i] = queue[at(i)]
        /\ at(j) \in 1..N /\ queue'[j] = queue[at(j)]
    BY <2>0
  <2>2. at(i) = at(j)
    BY <1>8, <1>old, <2>1
  <2>. QED
    BY <1>type, <2>2
<1>9. ready' = At(1)' /\ waiting' = At(Len(queue))'
  <2>1. ready' = At(1)'
    <3>1. CASE k = 1
      BY <1>type, <1>2, <1>3, <1>n, <3>1 DEF At
    <3>2. CASE k # 1
      <4>1. ready' = queue[1]
        BY <1>type, <1>old, <1>3, <1>n, <3>2, NoneAssumption
      <4>2. 1 \in 1..(N - 1) /\ queue'[1] = queue[1]
        BY <1>type, <1>2, <3>2
      <4>. QED
        BY <1>2, <4>1, <4>2 DEF At
    <3>. QED
      BY <3>1, <3>2
  <2>2. waiting' = At(Len(queue))'
    <3>1. CASE k = N /\ N = 1
      BY <1>type, <1>2, <1>3, <1>n, <3>1 DEF At
    <3>2. CASE k = N /\ N # 1
      <4>1. waiting' = queue[N - 1]
        BY <1>type, <1>3, <1>n, <3>2
      <4>2. N - 1 \in 1..(N - 1) /\ queue'[N - 1] = queue[N - 1]
        BY <1>type, <1>2, <3>2
      <4>. QED
        BY <1>2, <4>1, <4>2 DEF At
    <3>3. CASE k # N
      <4>1. k + 1 \in 1..N /\ waiting' = queue[N]
        BY <1>type, <1>old, <1>3, <1>n, <3>3, NoneAssumption
      <4>2. N - 1 \in 1..(N - 1) /\ queue'[N - 1] = queue[N]
        BY <1>type, <1>2, <3>3
      <4>. QED
        BY <1>2, <4>1, <4>2 DEF At
    <3>. QED
      BY <3>1, <3>2, <3>3
  <2>. QED
    BY <2>1, <2>2
<1>10. Linked'
  <2>1. \A j \in 1..(N - 1) : head'[queue'[j]] = At(j + 1)'
    BY <1>type, <1>2, <1>6 DEF At
  <2>2. \A j \in 1..(N - 1) : tail'[queue'[j]] = At(j - 1)'
    BY <1>type, <1>2, <1>7 DEF At
  <2>. QED
    BY <1>2, <1>8, <1>9, <2>1, <2>2 DEF Linked
<1>11. Unlinked'
  <2>1. SUFFICES ASSUME NEW m \in Nodes, \A i \in 1..(N - 1) : queue'[i] # m
                 PROVE  head'[m] = None /\ tail'[m] = None
    BY <1>2 DEF Unlinked
  <2>2. CASE m = n
    BY <1>3, <2>2
  <2>3. CASE m # n
    <3>1. \A i \in 1..N : queue[i] # m
      <4>1. ASSUME NEW i \in 1..N, queue[i] = m PROVE FALSE
        <5>1. i # k
          BY <4>1, <2>3 DEF n
        <5>2. CASE i < k
          BY <1>type, <1>2, <2>1, <4>1, <5>2
        <5>3. CASE i > k
          <6>1. i - 1 \in 1..(N - 1) /\ queue'[i - 1] = queue[i]
            BY <1>type, <1>2, <5>3
          <6>. QED
            BY <2>1, <4>1, <6>1
        <5>. QED
          BY <1>type, <5>1, <5>2, <5>3
      <4>. QED
        BY <4>1
    <3>2. head[m] = None /\ tail[m] = None
      BY <3>1 DEF IInv, Unlinked, N
    <3>3. m # tail[n] /\ m # head[n]
      BY <1>type, <1>n, <3>1, NoneAssumption
    <3>. QED
      BY <1>3, <2>3, <3>2, <3>3
  <2>. QED
    BY <2>2, <2>3
<1>. QED
  BY <1>4, <1>10, <1>11 DEF IInv

\* The links and end pointers always represent the sequence of nodes, and a node that was
\* removed keeps none.
THEOREM LinksCorrect == Spec => []LinksExact
<1>1. IInv /\ [Next]_vars => IInv'
  <2>. SUFFICES ASSUME IInv, [Next]_vars PROVE IInv'
    OBVIOUS
  <2>1. CASE UNCHANGED vars
    BY <2>1 DEF vars, IInv, TypeOK, Linked, Unlinked, At
  <2>. QED
    BY <2>1, PushLinked, PopLinked DEF Next
<1>. QED
  BY InitLinked, <1>1, PTL DEF Spec, IInv, LinksExact

=============================================================================
