-------------------------- MODULE ReadyQueueProofs --------------------------
(***************************************************************************)
(* Proofs about ReadyQueue, for any number of fibers, frame addresses and   *)
(* heap nodes: the queue reaches only live nodes, and a flush that ends     *)
(* normally has processed all that was queued when it began.                *)
(***************************************************************************)
EXTENDS ReadyQueue, TLAPS

USE FibersAssumption, NodesAssumption

-----------------------------------------------------------------------------
(***************************************************************************)
(* Sequences without repetitions                                            *)
(***************************************************************************)

Elems(s) == {s[i] : i \in 1..Len(s)}

Distinct(s) == \A i, j \in 1..Len(s) : s[i] = s[j] => i = j

\* The elements of o come first in s, and none of them after m.
First(s, o, m) == \A i, j \in 1..Len(s) : i < j /\ s[j] \in o => s[i] \in o /\ s[i] # m

\* queue_push of a node that is not queued.
LEMMA AppendNode ==
    ASSUME NEW s \in Seq(Nodes), Distinct(s), NEW n \in Nodes, n \notin Elems(s)
    PROVE  /\ Append(s, n) \in Seq(Nodes) /\ Distinct(Append(s, n))
           /\ Elems(Append(s, n)) = Elems(s) \cup {n}
           /\ \A o, m : First(s, o, m) /\ n \notin o => First(Append(s, n), o, m)
<1> DEFINE t == Append(s, n)
<1>1. /\ t \in Seq(Nodes) /\ Len(t) = Len(s) + 1 /\ Len(s) \in Nat
      /\ t[Len(s) + 1] = n /\ \A i \in 1..Len(s) : t[i] = s[i]
  OBVIOUS
<1>2. \A i \in 1..Len(t) : i \in 1..Len(s) \/ i = Len(s) + 1
  BY <1>1
<1> HIDE DEF t
<1>3. Elems(t) = Elems(s) \cup {n}
  BY <1>1, <1>2 DEF Elems
<1>4. Distinct(t)
  BY <1>1, <1>2 DEF Elems, Distinct
<1>5. \A o, m : First(s, o, m) /\ n \notin o => First(t, o, m)
  BY <1>1, <1>2 DEF First
<1> QED
  BY <1>1, <1>3, <1>4, <1>5 DEF t

\* queue_pop of the k-th node.
LEMMA WithoutNode ==
    ASSUME NEW s \in Seq(Nodes), Distinct(s), NEW k \in 1..Len(s)
    PROVE  LET t == Without(s, s[k])
           IN  /\ t \in Seq(Nodes) /\ Distinct(t)
               /\ Elems(t) = Elems(s) \ {s[k]}
               /\ \A o, m : First(s, o, m) => First(t, o, m)
<1> DEFINE t == Without(s, s[k])
<1>0. Len(s) \in Nat /\ Len(s) - 1 \in Nat /\ \A i \in 1..Len(s) : s[i] \in Nodes
  OBVIOUS
<1>1. t = [j \in 1..(Len(s) - 1) |-> IF j < k THEN s[j] ELSE s[j + 1]]
  <2>1. (CHOOSE i \in 1..Len(s) : s[i] = s[k]) = k
    BY DEF Distinct
  <2> QED
    BY <2>1 DEF Without
<1>2. \A j \in 1..(Len(s) - 1) : j + 1 \in 1..Len(s) /\ j \in 1..Len(s)
  BY <1>0
<1>3. t \in [1..(Len(s) - 1) -> Nodes]
  BY <1>0, <1>1, <1>2
<1>4. t \in Seq(Nodes) /\ Len(t) = Len(s) - 1
  BY <1>0, <1>3
<1>5. \A j \in 1..Len(t) : t[j] = IF j < k THEN s[j] ELSE s[j + 1]
  BY <1>1, <1>4
<1> HIDE DEF t
<1>6. \A i, j \in 1..Len(t) :
          \E c, d \in 1..Len(s) : /\ t[i] = s[c] /\ t[j] = s[d] /\ c # k
                                  /\ i < j => c < d
                                  /\ i # j => c # d
  <2> TAKE i, j \in 1..Len(t)
  <2> DEFINE up(x) == IF x < k THEN x ELSE x + 1
  <2>1. up(i) \in 1..Len(s) /\ up(j) \in 1..Len(s) /\ up(i) # k
    BY <1>0, <1>4
  <2>2. t[i] = s[up(i)] /\ t[j] = s[up(j)]
    BY <1>5
  <2>3. (i < j => up(i) < up(j)) /\ (i # j => up(i) # up(j))
    BY <1>0, <1>4
  <2> QED
    BY <2>1, <2>2, <2>3
<1>7. \A c \in 1..Len(s) : c # k => \E j \in 1..Len(t) : t[j] = s[c]
  <2> SUFFICES ASSUME NEW c \in 1..Len(s), c # k
               PROVE  \E j \in 1..Len(t) : t[j] = s[c]
    OBVIOUS
  <2>1. CASE c < k
    <3>1. c \in 1..Len(t) /\ t[c] = s[c]
      BY <1>0, <1>4, <1>5, <2>1
    <3> QED
      BY <3>1
  <2>2. CASE c > k
    <3>1. c - 1 \in 1..Len(t) /\ ~(c - 1 < k) /\ (c - 1) + 1 = c
      BY <1>0, <1>4, <2>2
    <3>2. t[c - 1] = s[c]
      BY <1>5, <3>1
    <3> QED
      BY <3>1, <3>2
  <2> QED
    BY <2>1, <2>2
<1>8. Distinct(t)
  BY <1>6 DEF Distinct
<1>9. Elems(t) = Elems(s) \ {s[k]}
  <2>1. ASSUME NEW e \in Elems(t) PROVE e \in Elems(s) \ {s[k]}
    <3>1. PICK i \in 1..Len(t) : e = t[i]
      BY DEF Elems
    <3>2. PICK c \in 1..Len(s) : t[i] = s[c] /\ c # k
      BY <1>6
    <3> QED
      BY <3>1, <3>2 DEF Elems, Distinct
  <2>2. ASSUME NEW e \in Elems(s), e # s[k] PROVE e \in Elems(t)
    <3>1. PICK c \in 1..Len(s) : e = s[c]
      BY DEF Elems
    <3>2. \E j \in 1..Len(t) : t[j] = s[c]
      BY <1>7, <2>2, <3>1
    <3> QED
      BY <3>1, <3>2 DEF Elems
  <2> QED
    BY <2>1, <2>2
<1>10. ASSUME NEW o, NEW m, First(s, o, m) PROVE First(t, o, m)
  <2> SUFFICES ASSUME NEW i \in 1..Len(t), NEW j \in 1..Len(t), i < j, t[j] \in o
               PROVE  t[i] \in o /\ t[i] # m
    BY DEF First
  <2>1. PICK c \in 1..Len(s), d \in 1..Len(s) : t[i] = s[c] /\ t[j] = s[d] /\ c < d
    BY <1>6
  <2> QED
    BY <1>10, <2>1 DEF First
<1> QED
  BY <1>4, <1>8, <1>9, <1>10 DEF t

\* The flush removes a heap node from the front.
LEMMA TailNode ==
    ASSUME NEW s \in Seq(Nodes), Distinct(s), s # <<>>
    PROVE  /\ Tail(s) \in Seq(Nodes) /\ Distinct(Tail(s))
           /\ Head(s) \in Elems(s) /\ Head(s) \in Nodes
           /\ Elems(Tail(s)) = Elems(s) \ {Head(s)}
           /\ \A o, m : First(s, o, m) => First(Tail(s), o, m)
<1>1. /\ Len(s) \in Nat /\ Len(s) > 0 /\ 1 \in 1..Len(s) /\ Head(s) = s[1] /\ s[1] \in Nodes
      /\ Tail(s) \in Seq(Nodes) /\ Len(Tail(s)) = Len(s) - 1
      /\ \A i \in 1..(Len(s) - 1) : Tail(s)[i] = s[i + 1]
  OBVIOUS
<1> DEFINE t == Tail(s)
<1> HIDE DEF t
<1>2. \A i \in 1..Len(t) : i + 1 \in 1..Len(s) /\ t[i] = s[i + 1]
  BY <1>1 DEF t
<1>3. \A c \in 1..Len(s) : c = 1 \/ (c - 1 \in 1..Len(t) /\ t[c - 1] = s[c])
  <2> TAKE c \in 1..Len(s)
  <2>1. CASE c # 1
    <3>1. c - 1 \in 1..Len(t) /\ (c - 1) + 1 = c
      BY <1>1, <2>1 DEF t
    <3> QED
      BY <1>2, <3>1
  <2> QED
    BY <2>1
<1>4. Distinct(t)
  BY <1>1, <1>2 DEF Distinct, t
<1>5. Elems(t) = Elems(s) \ {s[1]}
  <2>1. ASSUME NEW i \in 1..Len(t) PROVE t[i] \in Elems(s) \ {s[1]}
    BY <1>1, <1>2, <2>1 DEF Elems, Distinct, t
  <2>2. ASSUME NEW c \in 1..Len(s), s[c] # s[1] PROVE s[c] \in Elems(t)
    BY <1>3, <2>2 DEF Elems
  <2> QED
    BY <2>1, <2>2 DEF Elems
<1>6. \A o, m : First(s, o, m) => First(t, o, m)
  BY <1>1, <1>2 DEF First, t
<1> QED
  BY <1>1, <1>4, <1>5, <1>6 DEF t, Elems

-----------------------------------------------------------------------------
(***************************************************************************)
(* The inductive invariant                                                  *)
(***************************************************************************)

\* The nodes of queue q are the frames of the fibers that are queued according to w, and
\* the allocated heap nodes.
Shape(q, frames, w, h) ==
    /\ q \in Seq(Nodes) /\ Distinct(q)
    /\ frames \in [AllFibers -> Frames \cup {None}]
    /\ w \in [AllFibers -> {"new", "running", "queued", "away", "ended"}]
    /\ h \in [HeapNodes -> Fibers \cup {None}]
    /\ \A x \in AllFibers :
          w[x] = "queued" => frames[x] \in Elems(q) /\ frames[x] \in Frames /\ frames[x][1] = x
    /\ \A n \in Elems(q) \cap Frames : w[n[1]] = "queued" /\ frames[n[1]] = n
    /\ \A n \in HeapNodes : n \in Elems(q) <=> h[n] # None

\* The fiber that runs is not queued, nor is the loop while it flushes.
Control ==
    /\ current \in AllFibers
    /\ where[current] = "running"
    /\ flushing \in BOOLEAN
    /\ flushing => where[Loop] # "queued"

\* What was queued before the flush comes first and ends with the mark, so that nothing
\* of it is left when the mark has been processed, though addresses are used again.
Marked ==
    /\ mark \in Nodes \cup {None} /\ ready \in Nodes \cup {None} /\ old \in SUBSET Nodes
    /\ flushing => /\ mark \in Nodes
                   /\ old \subseteq Elems(queue)
                   /\ First(queue, old, mark)
                   /\ ready = mark => old = {}

IInv == Shape(queue, frame, where, fiberOf) /\ Control /\ Marked

\* A node is a frame or is on the heap.
LEMMA NodeKinds ==
    /\ Nodes = Frames \cup HeapNodes
    /\ \A n \in Frames : n \notin HeapNodes /\ n[1] \in AllFibers /\ n # None
    /\ \A n \in HeapNodes : n # None
    /\ \A x \in AllFibers, s \in Slots : <<x, s>> \in Frames /\ <<x, s>>[1] = x
    /\ Fibers \subseteq AllFibers /\ Loop \in AllFibers
    /\ \A x \in AllFibers : x # None
  BY DEF Nodes, Frames, AllFibers

\* A caller queues its frame: resume, raise, yield.
LEMMA QueueFrame ==
    ASSUME NEW q, NEW frames, NEW w, NEW h, Shape(q, frames, w, h),
           NEW x \in AllFibers, w[x] # "queued", NEW s \in Slots
    PROVE  /\ Shape(Append(q, <<x, s>>), [frames EXCEPT ![x] = <<x, s>>],
                    [w EXCEPT ![x] = "queued"], h)
           /\ Elems(Append(q, <<x, s>>)) = Elems(q) \cup {<<x, s>>}
           /\ \A o, m : First(q, o, m) /\ o \subseteq Elems(q) => First(Append(q, <<x, s>>), o, m)
<1> DEFINE n == <<x, s>>
<1>1. n \in Frames /\ n[1] = x /\ n \in Nodes /\ n \notin HeapNodes
  BY NodeKinds
<1> HIDE DEF n
<1>2. n \notin Elems(q)
  BY <1>1 DEF Shape
<1>3. /\ Append(q, n) \in Seq(Nodes) /\ Distinct(Append(q, n))
      /\ Elems(Append(q, n)) = Elems(q) \cup {n}
      /\ \A o, m : First(q, o, m) /\ n \notin o => First(Append(q, n), o, m)
  BY <1>1, <1>2, AppendNode DEF Shape
<1>4. \A m \in Elems(q) \cap Frames : m[1] # x /\ m[1] \in AllFibers
  BY NodeKinds DEF Shape
<1>5. Shape(Append(q, n), [frames EXCEPT ![x] = n], [w EXCEPT ![x] = "queued"], h)
  BY <1>1, <1>3, <1>4 DEF Shape
<1> QED
  BY <1>2, <1>3, <1>5 DEF n

\* Control passes to x: its ensure clause removes its frame, and the rest keeps its order.
LEMMA SwitchShape ==
    ASSUME NEW q, NEW frames, NEW w, NEW h, Shape(q, frames, w, h),
           NEW x \in AllFibers, SwitchTo(x, q, frames, w)
    PROVE  /\ Shape(queue', frame', where', h)
           /\ current' = x /\ where' = [w EXCEPT ![x] = "running"]
           /\ Elems(queue') \subseteq Elems(q)
           /\ old' = old \cap Elems(queue')
           /\ w[x] = "queued" => frames[x] \notin Elems(queue')
           /\ \A o, m : First(q, o, m) => First(queue', o, m)
<1>0. /\ current' = x /\ where' = [w EXCEPT ![x] = "running"] /\ frame' = [frames EXCEPT ![x] = None]
      /\ old' = old \cap Elems(queue')
  BY DEF SwitchTo, Queued, Elems
<1>1. CASE w[x] # "queued"
  <2>1. queue' = q
    BY <1>1 DEF SwitchTo
  <2>2. \A n \in Elems(q) \cap Frames : n[1] # x /\ n[1] \in AllFibers
    BY <1>1, NodeKinds DEF Shape
  <2>3. Shape(queue', frame', where', h)
    BY <1>0, <1>1, <2>1, <2>2 DEF Shape
  <2> QED
    BY <1>0, <1>1, <2>1, <2>3
<1>2. CASE w[x] = "queued"
  <2>1. frames[x] \in Elems(q) /\ frames[x] \in Frames /\ frames[x][1] = x /\ frames[x] \notin HeapNodes
    BY <1>2, NodeKinds DEF Shape
  <2>2. PICK k \in 1..Len(q) : q[k] = frames[x]
    BY <2>1 DEF Elems
  <2>3. queue' = Without(q, q[k])
    BY <1>2, <2>2 DEF SwitchTo
  <2>4. /\ queue' \in Seq(Nodes) /\ Distinct(queue')
        /\ Elems(queue') = Elems(q) \ {frames[x]}
        /\ \A o, m : First(q, o, m) => First(queue', o, m)
    BY <2>2, <2>3, WithoutNode DEF Shape
  <2>5. \A n \in Elems(queue') \cap Frames : n[1] # x /\ n[1] \in AllFibers
    BY <2>1, <2>4, NodeKinds DEF Shape
  <2>6. \A y \in AllFibers : y # x /\ w[y] = "queued" => frames[y] # frames[x]
    BY <2>1 DEF Shape
  <2>7. Shape(queue', frame', where', h)
    BY <1>0, <2>1, <2>4, <2>5, <2>6 DEF Shape
  <2> QED
    BY <1>0, <2>4, <2>7
<1> QED
  BY <1>1, <1>2

\* Control passes to x by a step of a fiber or of the flush that leaves the mark alone.
LEMMA SwitchMarked ==
    ASSUME NEW q, NEW frames, NEW w, NEW h, Shape(q, frames, w, h),
           NEW x \in AllFibers, SwitchTo(x, q, frames, w),
           NEW m, First(q, old, m), old \in SUBSET Nodes
    PROVE  old' \in SUBSET Nodes /\ old' \subseteq Elems(queue') /\ First(queue', old', m)
<1>1. old' = old \cap Elems(queue') /\ First(queue', old, m)
  BY SwitchShape
<1> QED
  BY <1>1 DEF First, Elems

-----------------------------------------------------------------------------
(***************************************************************************)
(* Every step keeps it                                                      *)
(***************************************************************************)

LEMMA InitSound == Init => IInv
<1> SUFFICES ASSUME Init PROVE IInv
  OBVIOUS
<1>1. queue = <<>> /\ Len(queue) = 0 /\ queue \in Seq(Nodes) /\ Elems(queue) = {} /\ Distinct(queue)
  BY DEF Init, Elems, Distinct
<1>2. Shape(queue, frame, where, fiberOf)
  BY <1>1 DEF Init, Shape
<1>3. Control /\ Marked
  BY NodeKinds DEF Init, Control, Marked
<1> QED
  BY <1>2, <1>3 DEF IInv

LEMMA PushSound == ASSUME IInv, NEW f \in Fibers, Push(f) PROVE IInv'
<1>1. PICK n \in HeapNodes : /\ fiberOf[n] = None
                             /\ fiberOf' = [fiberOf EXCEPT ![n] = f]
                             /\ queue' = Append(queue, n)
  BY DEF Push
<1>2. UNCHANGED <<frame, where, current, flushVars, old>>
  BY DEF Push
<1>3. n \in Nodes /\ n \notin Frames /\ n \notin Elems(queue) /\ f # None
  BY <1>1, NodeKinds DEF IInv, Shape
<1>4. /\ queue' \in Seq(Nodes) /\ Distinct(queue')
      /\ Elems(queue') = Elems(queue) \cup {n}
      /\ \A o, m : First(queue, o, m) /\ n \notin o => First(queue', o, m)
  BY <1>1, <1>3, AppendNode DEF IInv, Shape
<1>5. Shape(queue', frame', where', fiberOf')
  BY <1>1, <1>2, <1>3, <1>4 DEF IInv, Shape
<1>6. Control'
  BY <1>2 DEF IInv, Control, flushVars
<1>7. Marked'
  BY <1>2, <1>3, <1>4 DEF IInv, Marked, flushVars
<1> QED
  BY <1>5, <1>6, <1>7 DEF IInv

LEMMA ResumeSound ==
    ASSUME IInv, NEW x \in AllFibers, NEW y \in Fibers, Resume(x, y) PROVE IInv'
<1>1. /\ current = x /\ (x = Loop => ~flushing) /\ y # x /\ y # Loop
      /\ UNCHANGED <<fiberOf, flushing, mark, ready>>
  BY DEF Resume, flushVars
<1> DEFINE q(s) == Append(queue, <<x, s>>)
           fr(s) == [frame EXCEPT ![x] = <<x, s>>]
           w == [where EXCEPT ![x] = "queued"]
<1>2. PICK s \in Slots : SwitchTo(y, q(s), fr(s), w)
  BY DEF Resume
<1>3. /\ Shape(q(s), fr(s), w, fiberOf)
      /\ \A o, m : First(queue, o, m) /\ o \subseteq Elems(queue) => First(q(s), o, m)
  BY <1>1, QueueFrame DEF IInv, Control
<1>4. y \in AllFibers /\ Loop \in AllFibers
  BY NodeKinds
<1> HIDE DEF q, fr, w
<1>5. /\ Shape(queue', frame', where', fiberOf')
      /\ current' = y /\ where' = [w EXCEPT ![y] = "running"]
  BY <1>1, <1>2, <1>3, <1>4, SwitchShape
<1>6. where \in [AllFibers -> {"new", "running", "queued", "away", "ended"}]
  BY DEF IInv, Shape
<1>7. Control'
  BY <1>1, <1>4, <1>5, <1>6 DEF IInv, Control, w
<1>8. old' \subseteq old
  BY <1>2 DEF SwitchTo
<1>9. flushing => old' \subseteq Elems(queue') /\ First(queue', old', mark)
  BY <1>2, <1>3, <1>4, SwitchMarked DEF IInv, Marked
<1>10. Marked'
  BY <1>1, <1>8, <1>9 DEF IInv, Marked
<1> QED
  BY <1>5, <1>7, <1>10 DEF IInv

\* A fiber gives control to the loop: by yield, which queues its frame, by waiting, or at
\* its end.
LEMMA BackToLoopSound == ASSUME IInv, NEW f \in Fibers, BackToLoop(f) PROVE IInv'
<1>0. f \in AllFibers /\ Loop \in AllFibers /\ f # Loop
  BY NodeKinds
<1>1. current = f /\ where[f] = "running" /\ fiberOf' = fiberOf
  BY DEF BackToLoop, Yield, LoopYield, End, Fail, IInv, Control
<1>2. \/ flushing' = flushing /\ mark' = mark /\ ready' = ready
      \/ flushing' = FALSE /\ mark' = None /\ ready' = None
  BY DEF BackToLoop, Yield, LoopYield, End, Fail, flushVars
<1> DEFINE Left(q, frames, w) ==
               /\ SwitchTo(Loop, q, frames, w)
               /\ Shape(q, frames, w, fiberOf)
               /\ First(queue, old, mark) /\ old \subseteq Elems(queue) => First(q, old, mark)
<1>3. \E q, frames, w : Left(q, frames, w)
  <2>1. CASE Yield(f)
    <3>1. PICK s \in Slots : SwitchTo(Loop, Append(queue, <<f, s>>), [frame EXCEPT ![f] = <<f, s>>],
                                      [where EXCEPT ![f] = "queued"])
      BY <2>1 DEF Yield
    <3>2. /\ Shape(Append(queue, <<f, s>>), [frame EXCEPT ![f] = <<f, s>>],
                   [where EXCEPT ![f] = "queued"], fiberOf)
          /\ \A o, m : First(queue, o, m) /\ o \subseteq Elems(queue)
                          => First(Append(queue, <<f, s>>), o, m)
      BY <1>0, <1>1, QueueFrame DEF IInv
    <3> QED
      BY <3>1, <3>2
  <2>2. ASSUME NEW v \in {"away", "ended"}, SwitchTo(Loop, queue, frame, [where EXCEPT ![f] = v])
        PROVE  Left(queue, frame, [where EXCEPT ![f] = v])
    <3>1. Shape(queue, frame, [where EXCEPT ![f] = v], fiberOf)
      BY <1>0, <1>1, NodeKinds DEF IInv, Shape
    <3> QED
      BY <2>2, <3>1
  <2>3. CASE LoopYield(f)
    BY <2>2, <2>3 DEF LoopYield
  <2>4. CASE End(f) \/ Fail(f)
    BY <2>2, <2>4 DEF End, Fail
  <2> QED
    BY <2>1, <2>3, <2>4 DEF BackToLoop
<1>4. PICK q, frames, w : Left(q, frames, w)
  BY <1>3
<1>5. /\ Shape(queue', frame', where', fiberOf')
      /\ current' = Loop /\ where' = [w EXCEPT ![Loop] = "running"]
  BY <1>0, <1>1, <1>4, SwitchShape
<1>6. w \in [AllFibers -> {"new", "running", "queued", "away", "ended"}]
  BY <1>4 DEF Shape
<1>7. Control'
  BY <1>0, <1>2, <1>5, <1>6 DEF IInv, Control
<1>8. old' \subseteq old
  BY <1>4 DEF SwitchTo
<1>9. flushing => old' \subseteq Elems(queue') /\ First(queue', old', mark)
  BY <1>0, <1>4, SwitchMarked DEF IInv, Marked
<1>10. Marked'
  BY <1>2, <1>8, <1>9 DEF IInv, Marked
<1> QED
  BY <1>5, <1>7, <1>10 DEF IInv

LEMMA FlushBeginSound == ASSUME IInv, FlushBegin PROVE IInv'
<1>1. /\ current = Loop /\ flushing' = TRUE /\ mark' = queue[Len(queue)] /\ ready' = None
      /\ old' = Elems(queue) /\ queue # <<>>
      /\ UNCHANGED <<queue, fiberOf, frame, where, current>>
  BY DEF FlushBegin, Queued, Elems
<1>2. queue \in Seq(Nodes) /\ Distinct(queue) /\ Len(queue) \in Nat /\ Len(queue) > 0
  BY <1>1 DEF IInv, Shape
<1>3. mark' \in Nodes /\ Elems(queue) \subseteq Nodes
  BY <1>1, <1>2 DEF Elems
<1>4. First(queue', old', mark')
  BY <1>1, <1>2 DEF First, Elems, Distinct
<1>5. Marked'
  BY <1>1, <1>3, <1>4, NodeKinds DEF Marked
<1>6. Control'
  BY <1>1 DEF IInv, Control
<1>7. Shape(queue', frame', where', fiberOf')
  BY <1>1 DEF IInv
<1> QED
  BY <1>5, <1>6, <1>7 DEF IInv

LEMMA FlushStepSound == ASSUME IInv, FlushStep PROVE IInv'
<1> DEFINE n == Head(queue)
           x == IF n \in HeapNodes THEN fiberOf[n] ELSE n[1]
           q == IF n \in HeapNodes THEN Tail(queue) ELSE queue
           away == [where EXCEPT ![Loop] = "away"]
<1>1. /\ current = Loop /\ flushing /\ queue # <<>>
      /\ ready' = n /\ fiberOf' = Freed(n) /\ flushing' = flushing /\ mark' = mark
  BY DEF FlushStep, FlushDone
<1>2. \/ /\ where[x] = "ended" /\ queue' = q /\ old' = old \cap Queued'
         /\ UNCHANGED <<frame, where, current>>
      \/ where[x] # "ended" /\ SwitchTo(x, q, frame, away)
  BY DEF FlushStep
<1> HIDE DEF n, x, q, away
<1>3. /\ Tail(queue) \in Seq(Nodes) /\ Distinct(Tail(queue))
      /\ n \in Elems(queue) /\ n \in Nodes
      /\ Elems(Tail(queue)) = Elems(queue) \ {n}
      /\ \A o, m : First(queue, o, m) => First(Tail(queue), o, m)
  BY <1>1, TailNode DEF IInv, Shape, n
<1>4. where[Loop] = "running" /\ Loop \in AllFibers
  BY <1>1, NodeKinds DEF IInv, Control
<1>5. /\ x \in AllFibers /\ Shape(q, frame, where, fiberOf') /\ First(q, old, mark)
      /\ n \in HeapNodes => n \notin Elems(q)
      /\ n \notin HeapNodes => where[x] = "queued" /\ frame[x] = n /\ x # Loop
  <2>1. CASE n \in HeapNodes
    <3>1. x \in AllFibers /\ q = Tail(queue)
      BY <1>3, <2>1, NodeKinds DEF IInv, Shape, x, q
    <3>2. fiberOf' = [m \in HeapNodes |-> IF m = n THEN None ELSE fiberOf[m]]
      BY <1>1 DEF Freed
    <3>3. \A m \in Frames : m # n
      BY <2>1, NodeKinds
    <3>4. Shape(q, frame, where, fiberOf')
      BY <1>3, <3>1, <3>2, <3>3 DEF IInv, Shape
    <3>5. First(q, old, mark)
      BY <1>1, <1>3, <3>1 DEF IInv, Marked
    <3> QED
      BY <1>3, <2>1, <3>1, <3>4, <3>5
  <2>2. CASE n \notin HeapNodes
    <3>1. n \in Frames /\ x = n[1] /\ q = queue
      BY <1>3, <2>2, NodeKinds DEF x, q
    <3>2. x \in AllFibers /\ where[x] = "queued" /\ frame[x] = n
      BY <1>3, <3>1, NodeKinds DEF IInv, Shape
    <3>3. fiberOf' = fiberOf
      BY <1>1, <2>2 DEF Freed, IInv, Shape
    <3> QED
      BY <1>1, <1>4, <2>2, <3>1, <3>2, <3>3 DEF IInv, Marked
  <2> QED
    BY <2>1, <2>2
<1>6. Shape(q, frame, away, fiberOf')
  BY <1>4, <1>5, NodeKinds DEF Shape, away
<1>7. old \in SUBSET Nodes /\ old \subseteq Elems(queue) /\ First(queue, old, mark)
  BY <1>1 DEF IInv, Marked
<1>8. n = mark => old \subseteq {n}
  <2>1. queue \in Seq(Nodes) /\ n = queue[1] /\ 1 \in 1..Len(queue)
    BY <1>1 DEF IInv, Shape, n
  <2>2. SUFFICES ASSUME n = mark, NEW e \in old PROVE e = n
    OBVIOUS
  <2>3. PICK j \in 1..Len(queue) : e = queue[j]
    BY <1>7 DEF Elems
  <2>4. CASE j # 1
    <3>1. 1 < j
      BY <2>1, <2>4
    <3> QED
      BY <1>7, <2>1, <2>2, <2>3, <3>1 DEF First
  <2> QED
    BY <2>1, <2>3, <2>4
<1>9. /\ Shape(queue', frame', where', fiberOf') /\ Control'
      /\ old' \subseteq old /\ old' \subseteq Elems(queue') /\ First(queue', old', mark)
      /\ n \notin Elems(queue')
  <2>1. CASE where[x] = "ended" /\ queue' = q /\ old' = old \cap Queued' /\ UNCHANGED <<frame, where, current>>
    <3>1. n \in HeapNodes
      BY <1>5, <2>1
    <3>2. old' = old \cap Elems(queue')
      BY <2>1 DEF Queued, Elems
    <3>3. First(queue', old', mark)
      BY <1>5, <2>1, <3>2 DEF First, Elems
    <3>4. Control'
      BY <1>1, <2>1 DEF IInv, Control
    <3> QED
      BY <1>5, <2>1, <3>1, <3>2, <3>3, <3>4
  <2>2. CASE where[x] # "ended" /\ SwitchTo(x, q, frame, away)
    <3>1. /\ Shape(queue', frame', where', fiberOf')
          /\ current' = x /\ where' = [away EXCEPT ![x] = "running"]
          /\ Elems(queue') \subseteq Elems(q)
          /\ away[x] = "queued" => frame[x] \notin Elems(queue')
          /\ old' = old \cap Elems(queue')
      BY <1>5, <1>6, <2>2, SwitchShape
    <3>2. First(queue', old', mark)
      BY <1>5, <1>6, <1>7, <2>2, SwitchMarked
    <3>3. where \in [AllFibers -> {"new", "running", "queued", "away", "ended"}]
      BY DEF IInv, Shape
    <3>4. n \notin Elems(queue')
      BY <1>5, <3>1, <3>3 DEF away
    <3>5. Control'
      BY <1>1, <1>4, <1>5, <3>1, <3>3 DEF Control, away
    <3> QED
      BY <3>1, <3>2, <3>4, <3>5
  <2> QED
    BY <1>2, <2>1, <2>2
<1>10. Marked'
  BY <1>1, <1>3, <1>7, <1>8, <1>9 DEF IInv, Marked
<1> QED
  BY <1>9, <1>10 DEF IInv

LEMMA NextSound == ASSUME IInv, [Next]_vars PROVE IInv'
<1>1. CASE FlushBegin
  BY <1>1, FlushBeginSound
<1>2. CASE FlushStep
  BY <1>2, FlushStepSound
<1>3. CASE FlushEnd
  <2>1. /\ flushing' = FALSE /\ mark' = None /\ ready' = None
        /\ UNCHANGED <<queue, fiberOf, frame, where, current, old>>
    BY <1>3 DEF FlushEnd
  <2> QED
    BY <2>1 DEF IInv, Control, Marked
<1>4. ASSUME NEW f \in Fibers, Push(f) \/ BackToLoop(f) PROVE IInv'
  BY <1>4, PushSound, BackToLoopSound
<1>5. ASSUME NEW x \in AllFibers, NEW y \in Fibers, Resume(x, y) PROVE IInv'
  BY <1>5, ResumeSound
<1>6. CASE UNCHANGED vars
  <2>1. UNCHANGED <<queue, fiberOf, frame, where, current, flushing, mark, ready, old>>
    BY <1>6 DEF vars
  <2> QED
    BY <2>1 DEF IInv, Control, Marked
<1> QED
  BY <1>1, <1>2, <1>3, <1>4, <1>5, <1>6 DEF Next, Flush

LEMMA InvSound == Spec => []IInv
  BY InitSound, NextSound, PTL DEF Spec

-----------------------------------------------------------------------------

\* The variables keep their types: in particular queue_pop, resume and the flush find
\* the nodes they take for granted.
THEOREM TypeCorrect == Spec => []TypeOK
<1>1. IInv => TypeOK
  BY NodeKinds DEF IInv, Shape, Control, Marked, TypeOK
<1> QED
  BY <1>1, InvSound, PTL

\* The ready queue reaches no frame that is gone and no freed node: whichever fibers
\* resume, raise in, queue and end each other during a flush, its nodes are the frames of
\* the fibers suspended in resume, raise or yield and the allocated heap nodes, each
\* once, and never the flushing loop's own.
THEOREM QueueSafe == Spec => []NodesLive
<1>1. ASSUME IInv PROVE NodesLive
  <2>1. Queued = Elems(queue)
    BY DEF Queued, Elems
  <2>2. FramesLive
    BY <1>1, <2>1, NodeKinds DEF IInv, Shape, FramesLive
  <2>3. HeapLive
    BY <1>1, <2>1 DEF IInv, Shape, HeapLive
  <2>4. NoDuplicates
    BY <1>1 DEF IInv, Shape, Distinct, NoDuplicates
  <2>5. LoopNotQueued
    BY <1>1, <2>1, NodeKinds DEF IInv, Shape, Control, LoopNotQueued
  <2> QED
    BY <2>2, <2>3, <2>4, <2>5 DEF NodesLive
<1> QED
  BY <1>1, InvSound, PTL

\* A flush that ends normally has processed every node that was queued when it began,
\* although fibers it runs remove nodes, the mark included, and queue others at the same
\* addresses.
THEOREM FlushProcessesAll == Spec => FlushComplete
<1>1. ASSUME IInv, FlushEnd PROVE old = {}
  <2>1. flushing /\ (queue = <<>> \/ ready = mark)
    BY <1>1 DEF FlushEnd, FlushDone
  <2>2. CASE queue = <<>>
    BY <1>1, <2>1, <2>2 DEF IInv, Marked, Elems
  <2>3. CASE ready = mark
    BY <1>1, <2>1, <2>3 DEF IInv, Marked
  <2> QED
    BY <2>1, <2>2, <2>3
<1>2. IInv => [FlushEnd => old = {}]_vars
  BY <1>1
<1> QED
  BY <1>2, InvSound, PTL DEF FlushComplete

=============================================================================
