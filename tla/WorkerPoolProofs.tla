-------------------------- MODULE WorkerPoolProofs --------------------------
(***************************************************************************)
(* Proofs of the safety properties of WorkerPool for any number of workers, *)
(* fibers, calls and interrupts.                                            *)
(***************************************************************************)
EXTENDS WorkerPool, FiniteSetTheorems, TLAPS

(***************************************************************************)
(* The queue                                                                *)
(***************************************************************************)

\* The frames of a sequence of frames.
Elements(s) == {s[i] : i \in 1..Len(s)}

Injective(s) == \A i, j \in 1..Len(s) : s[i] = s[j] => i = j

\* enqueue_work adds one frame, and keeps frames distinct if it was not queued.
LEMMA EnqueueElements ==
    ASSUME NEW S, NEW s \in Seq(S), NEW f \in S
    PROVE  /\ Elements(Append(s, f)) = Elements(s) \cup {f}
           /\ Injective(s) /\ f \notin Elements(s) => Injective(Append(s, f))
<1>. DEFINE t == Append(s, f)
<1>1. /\ t \in Seq(S) /\ Len(t) = Len(s) + 1 /\ Len(s) \in Nat
      /\ \A i \in 1..Len(s) : t[i] = s[i]
      /\ t[Len(s) + 1] = f
  OBVIOUS
<1>. HIDE DEF t
<1>2. Elements(t) = Elements(s) \cup {f}
  BY <1>1 DEF Elements
<1>3. ASSUME Injective(s), f \notin Elements(s)
      PROVE  Injective(t)
  BY <1>1, <1>3 DEF Elements, Injective
<1>. QED
  BY <1>2, <1>3 DEF t

\* dequeue_work removes the frame at the head, once.
LEMMA DequeueElements ==
    ASSUME NEW S, NEW s \in Seq(S), s # <<>>
    PROVE  /\ Head(s) \in S /\ Head(s) \in Elements(s)
           /\ Tail(s) \in Seq(S) /\ Len(Tail(s)) = Len(s) - 1
           /\ Elements(Tail(s)) \subseteq Elements(s)
           /\ Injective(s) => Injective(Tail(s)) /\ Head(s) \notin Elements(Tail(s))
<1>. DEFINE t == Tail(s)
<1>1. /\ Len(s) \in Nat /\ Len(s) > 0
      /\ t \in Seq(S) /\ Len(t) = Len(s) - 1
      /\ \A i \in 1..Len(t) : t[i] = s[i + 1]
      /\ Head(s) = s[1] /\ s[1] \in S
  OBVIOUS
<1>. HIDE DEF t
<1>2. Head(s) \in Elements(s)
  BY <1>1 DEF Elements
<1>3. Elements(t) \subseteq Elements(s)
  BY <1>1 DEF Elements
<1>4. ASSUME Injective(s)
      PROVE  Injective(t) /\ Head(s) \notin Elements(t)
  BY <1>1, <1>4 DEF Elements, Injective
<1>. QED
  BY <1>1, <1>2, <1>3, <1>4 DEF t

(***************************************************************************)
(* Types                                                                    *)
(***************************************************************************)

\* Updating a function at one argument keeps its type.
LEMMA UpdateType ==
    ASSUME NEW S, NEW T, NEW g \in [S -> T], NEW x, NEW v, x \in S => v \in T
    PROVE  [g EXCEPT ![x] = v] \in [S -> T]
  OBVIOUS

LEMMA BroadcastType ==
    ASSUME TypeOK
    PROVE  Broadcast \in [Workers -> WorkerStates]
  BY DEF Broadcast, TypeOK, WorkerStates

LEMMA SignalType ==
    ASSUME TypeOK, Signal
    PROVE  wpc' \in [Workers -> WorkerStates]
  BY DEF Signal, Waiting, TypeOK, WorkerStates

LEMMA TypeInit == Init => TypeOK
<1>. SUFFICES ASSUME Init PROVE TypeOK
  OBVIOUS
<1>1. queue \in Seq(Fibers) /\ callCount \in Nat /\ completedCount \in Nat
      /\ sentRaises \in Nat /\ sentInterrupts \in Nat
  BY DEF Init
<1>2. wpc \in [Workers -> WorkerStates] /\ work \in [Workers -> Fibers \cup {None}]
      /\ target \in [Workers -> Fibers \cup {None}]
  BY DEF Init, WorkerStates
<1>3. interrupted \in [Workers -> BOOLEAN] /\ ubf \in [Workers -> BOOLEAN]
      /\ killed \in [Workers -> BOOLEAN]
  BY DEF Init
<1>4. /\ fpc \in [Fibers -> {"idle", "blocked"}]
      /\ result \in [Fibers -> {"none", "true", "raised"}]
      /\ op \in [Fibers -> OpStates]
  BY DEF Init, OpStates
<1>5. completed \in [Fibers -> BOOLEAN] /\ state \in [Fibers -> BOOLEAN]
  BY DEF Init
<1>6. wakes \in [Fibers -> Nat] /\ raises \in [Fibers -> Nat]
  BY DEF Init
<1>7. phase \in Phases /\ mutex \in {"live", "destroyed"} /\ misused \in BOOLEAN
      /\ shutdown \in BOOLEAN
  BY DEF Init, Phases
<1>. QED
  BY <1>1, <1>2, <1>3, <1>4, <1>5, <1>6, <1>7 DEF TypeOK

LEMMA TypeNext == TypeOK /\ [Next]_vars => TypeOK'
<1>. SUFFICES ASSUME TypeOK, [Next]_vars PROVE TypeOK'
  OBVIOUS
<1>. USE FibersAssumption DEF TypeOK, poolVars, countVars, workerVars, fiberVars, readyVars, sentVars
<1>1. CASE Initialize
  BY <1>1 DEF Initialize, Phases, WorkerStates
<1>2. CASE CloseBegin
  BY <1>2, BroadcastType DEF CloseBegin, Phases
<1>3. CASE CloseEnd
  BY <1>3 DEF CloseEnd, Phases
<1>4. CASE CloseAborted
  BY <1>4 DEF CloseAborted, Phases
<1>5. CASE Free
  BY <1>5, BroadcastType DEF Free, Phases
<1>6. CASE Statistics
  BY <1>6 DEF Statistics
<1>7. ASSUME NEW f \in Fibers, Call(f) PROVE TypeOK'
  <2>1. queue' \in Seq(Fibers)
    BY <1>7 DEF Call, Enqueue
  <2>2. wpc' \in [Workers -> WorkerStates]
    BY <1>7, SignalType DEF Call, Enqueue
  <2>. QED
    BY <1>7, <2>1, <2>2 DEF Call, Enqueue, OpStates
<1>8. ASSUME NEW f \in Fibers, CallRejected(f) PROVE TypeOK'
  BY <1>8 DEF CallRejected
<1>9. ASSUME NEW f \in Fibers, NEW raised \in BOOLEAN, AfterBlock(f, raised),
             wakes' \in [Fibers -> Nat], raises' \in [Fibers -> Nat]
      PROVE  TypeOK'
  <2>1. op' \in [Fibers -> OpStates]
    BY <1>9 DEF AfterBlock, Cancelled, OpStates
  <2>2. /\ state' \in [Fibers -> BOOLEAN]
        /\ fpc' \in [Fibers -> {"idle", "blocked"}]
        /\ result' \in [Fibers -> {"none", "true", "raised"}]
    BY <1>9 DEF AfterBlock
  <2>. QED
    BY <1>9, <2>1, <2>2 DEF AfterBlock
<1>10. ASSUME NEW f \in Fibers, Resume(f) PROVE TypeOK'
  <2>1. wakes' \in [Fibers -> Nat] /\ raises' \in [Fibers -> Nat]
    BY <1>10 DEF Resume
  <2>. QED
    BY <1>9, <1>10, <2>1 DEF Resume
<1>11. ASSUME NEW f \in Fibers, Raise(f) PROVE TypeOK'
  <2>1. wakes' \in [Fibers -> Nat] /\ raises' \in [Fibers -> Nat]
    BY <1>11 DEF Raise
  <2>. QED
    BY <1>9, <1>11, <2>1 DEF Raise
<1>12. ASSUME NEW f \in Fibers, ResumeElsewhere(f) PROVE TypeOK'
  <2>1. CASE wakes[f] > 0 /\ wakes' = [wakes EXCEPT ![f] = @ - 1] /\ UNCHANGED raises
    BY <1>12, <2>1 DEF ResumeElsewhere
  <2>2. CASE raises[f] > 0 /\ raises' = [raises EXCEPT ![f] = @ - 1] /\ UNCHANGED wakes
    BY <1>12, <2>2 DEF ResumeElsewhere
  <2>. QED
    BY <1>12, <2>1, <2>2 DEF ResumeElsewhere
<1>13. ASSUME NEW f \in Fibers, Interrupt(f) PROVE TypeOK'
  BY <1>13 DEF Interrupt
<1>14. ASSUME NEW w \in Workers, EnterRegion(w) PROVE TypeOK'
  BY <1>14 DEF EnterRegion, WorkerStates
<1>15. ASSUME NEW w \in Workers, Acquire(w) PROVE TypeOK'
  <2>1. CASE queue = <<>> \/ shutdown \/ interrupted[w]
    BY <1>15, <2>1 DEF Acquire, Dequeue, WorkerStates
  <2>2. CASE queue # <<>> /\ ~shutdown /\ ~interrupted[w]
    <3>1. Head(queue) \in Fibers /\ Tail(queue) \in Seq(Fibers)
      BY <2>2, DequeueElements
    <3>. QED
      BY <1>15, <2>2, <3>1 DEF Acquire, Dequeue, WorkerStates
  <2>. QED
    BY <2>1, <2>2
<1>16. ASSUME NEW w \in Workers, SetCurrent(w) PROVE TypeOK'
  BY <1>16 DEF SetCurrent, WorkerStates
<1>17. ASSUME NEW w \in Workers, Start(w) PROVE TypeOK'
  BY <1>17 DEF Start, WorkerStates, OpStates
<1>18. ASSUME NEW w \in Workers, Finish(w) PROVE TypeOK'
  BY <1>18 DEF Finish, WorkerStates, OpStates
<1>19. ASSUME NEW w \in Workers, LeaveRegion(w) PROVE TypeOK'
  <2>1. wpc' \in [Workers -> WorkerStates]
    BY <1>19 DEF LeaveRegion, WorkerStates
  <2>2. work' \in [Workers -> Fibers \cup {None}] /\ target' \in [Workers -> Fibers \cup {None}]
    BY <1>19 DEF LeaveRegion
  <2>3. completed' \in [Fibers -> BOOLEAN]
    BY <1>19 DEF LeaveRegion
  <2>4. completedCount' \in Nat
    BY <1>19 DEF LeaveRegion
  <2>. QED
    BY <1>19, <2>1, <2>2, <2>3, <2>4 DEF LeaveRegion
<1>20. ASSUME NEW w \in Workers, Unblock(w) PROVE TypeOK'
  <2>1. wpc' \in [Workers -> WorkerStates]
    BY <1>20 DEF Unblock, WorkerStates
  <2>2. target' \in [Workers -> Fibers \cup {None}]
    BY <1>20 DEF Unblock
  <2>3. wakes' \in [Fibers -> Nat]
    <3>1. CASE wakes' = wakes
      BY <3>1
    <3>2. CASE wakes' = [wakes EXCEPT ![target[w]] = @ + 1]
      <4>. DEFINE n == wakes[target[w]] + 1
      <4>1. target[w] \in Fibers => n \in Nat
        OBVIOUS
      <4>2. wakes \in [Fibers -> Nat] /\ wakes' = [wakes EXCEPT ![target[w]] = n]
        BY <3>2
      <4>. HIDE DEF n
      <4>. QED
        BY <4>1, <4>2, UpdateType
    <3>. QED
      BY <1>20, <3>1, <3>2 DEF Unblock
  <2>. QED
    BY <1>20, <2>1, <2>2, <2>3 DEF Unblock
<1>21. ASSUME NEW w \in Workers, CancelCurrent(w) PROVE TypeOK'
  <2>1. op' \in [Fibers -> OpStates]
    <3>1. work[w] \in Fibers => Cancelled(op[work[w]]) \in OpStates
      BY DEF Cancelled, OpStates
    <3>. QED
      BY <1>21, <3>1, UpdateType DEF CancelCurrent
  <2>2. ubf' \in [Workers -> BOOLEAN]
    BY <1>21 DEF CancelCurrent
  <2>. QED
    BY <1>21, <2>1, <2>2 DEF CancelCurrent
<1>22. ASSUME NEW w \in Workers, SpuriousWakeup(w) PROVE TypeOK'
  BY <1>22 DEF SpuriousWakeup, WorkerStates
<1>23. ASSUME NEW w \in Workers, NEW kill \in BOOLEAN, InterruptInRegion(w, kill) PROVE TypeOK'
  BY <1>23, BroadcastType DEF InterruptInRegion
<1>24. ASSUME NEW w \in Workers, KillOutsideRegion(w) PROVE TypeOK'
  BY <1>24 DEF KillOutsideRegion
<1>25. CASE UNCHANGED vars
  BY <1>25 DEF vars
<1>. QED
  BY <1>1, <1>2, <1>3, <1>4, <1>5, <1>6, <1>7, <1>8, <1>10, <1>11, <1>12, <1>13, <1>14, <1>15,
     <1>16, <1>17, <1>18, <1>19, <1>20, <1>21, <1>22, <1>23, <1>24, <1>25
     DEF Next, Pool, Fiber, Worker, Run

\* Every variable of the pool keeps its type.
THEOREM TypeCorrect == Spec => []TypeOK
  BY TypeInit, TypeNext, PTL DEF Spec

(***************************************************************************)
(* Ownership of the frames                                                  *)
(***************************************************************************)

\* No worker thread exists before worker_pool_initialize.
Fresh == phase = "allocated" => \A w \in Workers : wpc[w] = "none"

LEMMA FreshInit == Init => Fresh
  BY DEF Init, Fresh

LEMMA FreshNext == TypeOK /\ Fresh /\ [Next]_vars => Fresh'
<1>. SUFFICES ASSUME TypeOK, Fresh, [Next]_vars, phase' = "allocated"
              PROVE  \A w \in Workers : wpc'[w] = "none"
  BY DEF Fresh
<1>. USE DEF poolVars, countVars, workerVars, fiberVars, readyVars, sentVars
<1>1. CASE Pool
  BY <1>1 DEF Pool, Initialize, CloseBegin, CloseEnd, CloseAborted, Free, Statistics, Fresh
<1>2. ASSUME NEW f \in Fibers, Call(f) PROVE FALSE
  BY <1>2 DEF Call, Enqueue
<1>3. ASSUME NEW f \in Fibers, Fiber(f), ~Call(f) PROVE UNCHANGED <<phase, wpc>>
  BY <1>3 DEF Fiber, CallRejected, Resume, Raise, AfterBlock, ResumeElsewhere, Interrupt
<1>4. ASSUME NEW w \in Workers, Worker(w) PROVE phase' = phase /\ (wpc[w] # "none" \/ wpc' = wpc)
  BY <1>4 DEF Worker, Run, EnterRegion, Acquire, Dequeue, SetCurrent, Start, Finish, LeaveRegion, Unblock,
              CancelCurrent, SpuriousWakeup, InterruptInRegion, InRegion, KillOutsideRegion
<1>5. CASE UNCHANGED vars
  BY <1>5 DEF vars, Fresh
<1>. QED
  BY <1>1, <1>2, <1>3, <1>4, <1>5 DEF Next, Fresh

Holding == {"got", "start", "run", "leave"}

\* The inductive form of NoDanglingWork and SingleOwner: a frame is live from
\* enqueue to completion, and the worker states in which it is held are exactly
\* those between dequeue_work and work->completed = true.
Owned ==
    /\ \A w \in Workers : wpc[w] \in {"got", "start", "run"} => work[w] \in Fibers
    /\ \A w \in Workers : work[w] # None => wpc[w] \in Holding
    /\ \A w \in Workers : work[w] # None => fpc[work[w]] = "blocked" /\ ~completed[work[w]]
    /\ \A v, w \in Workers : work[v] # None /\ work[v] = work[w] => v = w
    /\ \A f \in Elements(queue) : fpc[f] = "blocked" /\ ~completed[f]
    /\ \A w \in Workers : work[w] \notin Elements(queue)
    /\ Injective(queue)

LEMMA OwnedInit == Init => Owned
  BY FibersAssumption DEF Init, Owned, Elements, Injective

LEMMA OwnedNext == TypeOK /\ Fresh /\ Owned /\ [Next]_vars => Owned'
<1>. SUFFICES ASSUME TypeOK, Fresh, Owned, [Next]_vars PROVE Owned'
  OBVIOUS
<1>. USE FibersAssumption DEF poolVars, countVars, workerVars, fiberVars, readyVars, sentVars
<1>type. /\ queue \in Seq(Fibers)
         /\ wpc \in [Workers -> WorkerStates]
         /\ work \in [Workers -> Fibers \cup {None}]
         /\ fpc \in [Fibers -> {"idle", "blocked"}]
         /\ completed \in [Fibers -> BOOLEAN]
  BY DEF TypeOK
<1>el. Elements(queue) \subseteq Fibers
  BY <1>type DEF Elements
<1>same. ASSUME UNCHANGED <<queue, work, fpc, completed>>,
                \A w \in Workers : work[w] # None => wpc'[w] \in Holding,
                \A w \in Workers : wpc'[w] \in {"got", "start", "run"} => work[w] \in Fibers
         PROVE  Owned'
  BY <1>same DEF Owned, Elements, Injective
<1>broadcast. ASSUME UNCHANGED <<queue, work, fpc, completed>>, wpc' = Broadcast
              PROVE  Owned'
  BY <1>broadcast, <1>same, <1>type DEF Owned, Broadcast, Holding
<1>step. ASSUME NEW w \in Workers, NEW pc, wpc' = [wpc EXCEPT ![w] = pc],
                work[w] # None => pc \in Holding,
                pc \in {"got", "start", "run"} => work[w] \in Fibers,
                UNCHANGED <<queue, work, fpc, completed>>
         PROVE  Owned'
  BY <1>step, <1>same, <1>type DEF Owned
<1>1. CASE Initialize
  <2>1. \A w \in Workers : wpc'[w] \in {"gvl", "none"}
    BY <1>1 DEF Initialize
  <2>2. \A w \in Workers : work[w] = None
    BY <1>1 DEF Initialize, Fresh, Owned, Holding
  <2>. QED
    BY <1>1, <1>same, <2>1, <2>2 DEF Initialize
<1>2. CASE CloseBegin
  BY <1>2, <1>broadcast DEF CloseBegin
<1>3. CASE CloseEnd
  BY <1>3, <1>same DEF CloseEnd, Owned
<1>4. CASE CloseAborted
  BY <1>4, <1>same DEF CloseAborted, Owned
<1>5. CASE Free
  BY <1>5, <1>broadcast DEF Free
<1>6. CASE Statistics
  BY <1>6, <1>same DEF Statistics, Owned
<1>7. ASSUME NEW f \in Fibers, Call(f) PROVE Owned'
  <2>1. fpc[f] = "idle" /\ fpc' = [fpc EXCEPT ![f] = "blocked"]
        /\ completed' = [completed EXCEPT ![f] = FALSE]
        /\ queue' = Append(queue, f) /\ Signal /\ work' = work
    BY <1>7 DEF Call, Enqueue
  <2>2. f \notin Elements(queue)
    BY <2>1 DEF Owned
  <2>3. Elements(queue') = Elements(queue) \cup {f} /\ Injective(queue')
    BY <2>1, <2>2, <1>type, EnqueueElements DEF Owned
  <2>4. \A w \in Workers : work[w] # f
    BY <2>1, <1>type DEF Owned
  <2>5. \A w \in Workers : wpc'[w] # wpc[w] => wpc[w] = "wait" /\ wpc'[w] = "lock"
    BY <2>1, <1>type DEF Signal, Waiting
  <2>6. /\ \A w \in Workers : wpc'[w] \in {"got", "start", "run"} => work'[w] \in Fibers
        /\ \A w \in Workers : work'[w] # None => wpc'[w] \in Holding
    BY <2>1, <2>5 DEF Owned, Holding
  <2>7. \A w \in Workers : work'[w] # None => fpc'[work'[w]] = "blocked" /\ ~completed'[work'[w]]
    BY <2>1, <2>4, <1>type DEF Owned
  <2>8. \A g \in Elements(queue') : fpc'[g] = "blocked" /\ ~completed'[g]
    BY <2>1, <2>3, <1>type, <1>el DEF Owned
  <2>9. \A w \in Workers : work'[w] \notin Elements(queue')
    BY <2>1, <2>3, <2>4 DEF Owned
  <2>. QED
    BY <2>1, <2>3, <2>6, <2>7, <2>8, <2>9 DEF Owned
<1>8. ASSUME NEW f \in Fibers, CallRejected(f) PROVE Owned'
  BY <1>8, <1>same DEF CallRejected, Owned
<1>9. ASSUME NEW f \in Fibers, NEW raised \in BOOLEAN, AfterBlock(f, raised) PROVE Owned'
  <2>1. CASE ~completed[f]
    BY <1>9, <2>1, <1>same DEF AfterBlock, Owned
  <2>2. CASE completed[f]
    <3>1. /\ fpc' = [fpc EXCEPT ![f] = "idle"]
          /\ UNCHANGED <<queue, work, wpc, completed>>
      BY <1>9, <2>2 DEF AfterBlock
    <3>2. f \notin Elements(queue) /\ \A w \in Workers : work[w] # f
      BY <2>2, <1>type DEF Owned
    <3>3. \A g \in Fibers : g # f => fpc'[g] = fpc[g]
      BY <3>1, <1>type
    <3>4. \A w \in Workers : work[w] # None => fpc'[work[w]] = "blocked"
      BY <3>2, <3>3, <1>type DEF Owned
    <3>5. \A g \in Elements(queue) : fpc'[g] = "blocked"
      BY <3>2, <3>3, <1>el DEF Owned
    <3>. QED
      BY <3>1, <3>4, <3>5 DEF Owned
  <2>. QED
    BY <2>1, <2>2
<1>10. ASSUME NEW f \in Fibers, Resume(f) \/ Raise(f) PROVE Owned'
  BY <1>9, <1>10 DEF Resume, Raise
<1>11. ASSUME NEW f \in Fibers, ResumeElsewhere(f) \/ Interrupt(f) PROVE Owned'
  BY <1>11, <1>same DEF ResumeElsewhere, Interrupt, Owned
<1>12. ASSUME NEW w \in Workers, EnterRegion(w) PROVE Owned'
  BY <1>12, <1>step DEF EnterRegion, Owned, Holding
<1>13. ASSUME NEW w \in Workers, Acquire(w) PROVE Owned'
  <2>0. work[w] = None
    BY <1>13 DEF Acquire, Dequeue, Owned, Holding
  <2>1. CASE queue = <<>> \/ shutdown \/ interrupted[w]
    BY <1>13, <2>0, <2>1, <1>step DEF Acquire, Dequeue
  <2>2. CASE queue # <<>> /\ ~shutdown /\ ~interrupted[w]
    <3>. DEFINE h == Head(queue)
    <3>1. /\ wpc' = [wpc EXCEPT ![w] = "got"] /\ work' = [work EXCEPT ![w] = h]
          /\ queue' = Tail(queue) /\ UNCHANGED <<fpc, completed>>
      BY <1>13, <2>2 DEF Acquire, Dequeue
    <3>2. /\ h \in Fibers /\ h \in Elements(queue)
          /\ Elements(queue') \subseteq Elements(queue)
          /\ Injective(queue') /\ h \notin Elements(queue')
      BY <3>1, <2>2, <1>type, DequeueElements DEF Owned
    <3>. HIDE DEF h
    <3>3. \A v \in Workers : work[v] # h
      BY <3>2 DEF Owned
    <3>4. work'[w] = h /\ \A v \in Workers : v # w => work'[v] = work[v] /\ wpc'[v] = wpc[v]
      BY <3>1, <1>type
    <3>5. wpc'[w] = "got"
      BY <3>1, <1>type
    <3>6. \A v \in Workers : wpc'[v] \in {"got", "start", "run"} => work'[v] \in Fibers
      BY <3>2, <3>4 DEF Owned
    <3>7. \A v \in Workers : work'[v] # None => wpc'[v] \in Holding
      BY <3>4, <3>5 DEF Owned, Holding
    <3>8. \A v \in Workers : work'[v] # None => fpc'[work'[v]] = "blocked" /\ ~completed'[work'[v]]
      BY <3>1, <3>2, <3>4 DEF Owned
    <3>9. \A u, v \in Workers : work'[u] # None /\ work'[u] = work'[v] => u = v
      BY <3>3, <3>4 DEF Owned
    <3>10. \A v \in Workers : work'[v] \notin Elements(queue')
      BY <3>2, <3>4 DEF Owned
    <3>11. \A g \in Elements(queue') : fpc'[g] = "blocked" /\ ~completed'[g]
      BY <3>1, <3>2 DEF Owned
    <3>. QED
      BY <3>2, <3>6, <3>7, <3>8, <3>9, <3>10, <3>11 DEF Owned
  <2>. QED
    BY <2>1, <2>2
<1>14. ASSUME NEW w \in Workers, SetCurrent(w) PROVE Owned'
  BY <1>14, <1>step DEF SetCurrent, Owned, Holding
<1>15. ASSUME NEW w \in Workers, Start(w) PROVE Owned'
  BY <1>15, <1>step DEF Start, Owned, Holding
<1>16. ASSUME NEW w \in Workers, Finish(w) PROVE Owned'
  BY <1>16, <1>step DEF Finish, Owned, Holding
<1>17. ASSUME NEW w \in Workers, LeaveRegion(w) PROVE Owned'
  <2>1. /\ wpc[w] = "leave" /\ work' = [work EXCEPT ![w] = None] /\ UNCHANGED <<queue, fpc>>
        /\ \E pc \in {"dead", "unblock"} : wpc' = [wpc EXCEPT ![w] = pc]
    BY <1>17 DEF LeaveRegion
  <2>2. work'[w] = None /\ \A v \in Workers : v # w => work'[v] = work[v] /\ wpc'[v] = wpc[v]
    BY <2>1, <1>type
  <2>3. wpc'[w] \in {"dead", "unblock"}
    BY <2>1, <1>type
  <2>4. \A g \in Fibers : g # work[w] => completed'[g] = completed[g]
    BY <1>17, <1>type DEF LeaveRegion
  <2>5. \A g \in Elements(queue) : ~completed'[g]
    BY <2>4, <1>el DEF Owned
  <2>6. \A v \in Workers : work'[v] # None => ~completed'[work'[v]]
    BY <2>2, <2>4, <1>type DEF Owned
  <2>7. \A v \in Workers : wpc'[v] \in {"got", "start", "run"} => work'[v] \in Fibers
    BY <2>2, <2>3 DEF Owned
  <2>8. \A v \in Workers : work'[v] # None => wpc'[v] \in Holding /\ fpc'[work'[v]] = "blocked"
    BY <2>1, <2>2 DEF Owned
  <2>9. \A u, v \in Workers : work'[u] # None /\ work'[u] = work'[v] => u = v
    BY <2>2 DEF Owned
  <2>10. \A v \in Workers : work'[v] \notin Elements(queue')
    BY <2>1, <2>2, <1>el DEF Owned
  <2>. QED
    BY <2>1, <2>5, <2>6, <2>7, <2>8, <2>9, <2>10 DEF Owned
<1>18. ASSUME NEW w \in Workers, Unblock(w) PROVE Owned'
  BY <1>18, <1>step DEF Unblock, Owned, Holding
<1>19. ASSUME NEW w \in Workers, CancelCurrent(w) \/ KillOutsideRegion(w) PROVE Owned'
  BY <1>19, <1>same DEF CancelCurrent, KillOutsideRegion, Owned
<1>20. ASSUME NEW w \in Workers, SpuriousWakeup(w) PROVE Owned'
  BY <1>20, <1>step DEF SpuriousWakeup, Owned, Holding
<1>21. ASSUME NEW w \in Workers, NEW kill \in BOOLEAN, InterruptInRegion(w, kill) PROVE Owned'
  BY <1>21, <1>broadcast DEF InterruptInRegion
<1>22. CASE UNCHANGED vars
  BY <1>22, <1>same DEF vars, Owned
<1>. QED
  BY <1>1, <1>2, <1>3, <1>4, <1>5, <1>6, <1>7, <1>8, <1>10, <1>11, <1>12, <1>13, <1>14, <1>15,
     <1>16, <1>17, <1>18, <1>19, <1>20, <1>21, <1>22 DEF Next, Pool, Fiber, Worker, Run

LEMMA OwnedCorrect == Spec => [](TypeOK /\ Fresh /\ Owned)
<1>1. Init => TypeOK /\ Fresh /\ Owned
  BY TypeInit, FreshInit, OwnedInit
<1>2. (TypeOK /\ Fresh /\ Owned) /\ [Next]_vars => (TypeOK /\ Fresh /\ Owned)'
  BY TypeNext, FreshNext, OwnedNext
<1>. QED
  BY <1>1, <1>2, PTL DEF Spec

\* No pointer to the frame of a worker_pool_call outlives the call.
THEOREM DanglingFree == Spec => []NoDanglingWork
<1>1. TypeOK /\ Owned => NoDanglingWork
  BY FibersAssumption DEF TypeOK, Owned, NoDanglingWork, Queued, Held, Elements
<1>. QED
  BY <1>1, OwnedCorrect, PTL

\* A work item is in the queue once, or held by one worker, never both.
THEOREM OwnerUnique == Spec => []SingleOwner
<1>1. TypeOK /\ Owned => SingleOwner
  BY DEF TypeOK, Owned, SingleOwner, Queued, Held, Elements, Injective
<1>. QED
  BY <1>1, OwnedCorrect, PTL

(***************************************************************************)
(* Settled operations                                                       *)
(***************************************************************************)

Pending == {"queued", "executing"}

\* The inductive form of SettledOnReturn: an operation executes only between
\* Start and Finish of the worker that holds its frame.
Settled ==
    /\ \A f \in Fibers : fpc[f] = "idle" \/ completed[f] => op[f] \notin Pending
    /\ \A w \in Workers : wpc[w] = "leave" /\ work[w] # None => op[work[w]] \notin Pending
    /\ \A w \in Workers : wpc[w] \in {"got", "start"} => op[work[w]] # "executing"
    /\ \A w \in Workers : wpc[w] = "run" => op[work[w]] # "queued"
    /\ \A f \in Elements(queue) : op[f] # "executing"

LEMMA SettledInit == Init => Settled
  BY DEF Init, Settled, Elements, Pending

LEMMA SettledNext == TypeOK /\ Fresh /\ Owned /\ Settled /\ [Next]_vars => Settled'
<1>. SUFFICES ASSUME TypeOK, Fresh, Owned, Settled, [Next]_vars PROVE Settled'
  OBVIOUS
<1>. USE FibersAssumption DEF poolVars, countVars, workerVars, fiberVars, readyVars, sentVars
<1>type. /\ queue \in Seq(Fibers)
         /\ wpc \in [Workers -> WorkerStates]
         /\ work \in [Workers -> Fibers \cup {None}]
         /\ fpc \in [Fibers -> {"idle", "blocked"}]
         /\ completed \in [Fibers -> BOOLEAN]
         /\ op \in [Fibers -> OpStates]
  BY DEF TypeOK
<1>el. Elements(queue) \subseteq Fibers
  BY <1>type DEF Elements
<1>same. ASSUME UNCHANGED <<queue, work, fpc, completed, op>>,
                \A w \in Workers : wpc'[w] # wpc[w] => wpc'[w] \notin {"leave", "got", "start", "run"}
         PROVE  Settled'
  BY <1>same DEF Settled, Elements
<1>broadcast. ASSUME UNCHANGED <<queue, work, fpc, completed, op>>, wpc' = Broadcast
              PROVE  Settled'
  BY <1>broadcast, <1>same, <1>type DEF Broadcast
<1>step. ASSUME NEW w \in Workers, NEW pc \in {"gvl", "lock", "wait", "dead"},
                wpc' = [wpc EXCEPT ![w] = pc], UNCHANGED <<queue, work, fpc, completed, op>>
         PROVE  Settled'
  BY <1>step, <1>same, <1>type
<1>1. CASE Initialize
  BY <1>1, <1>same DEF Initialize
<1>2. CASE CloseBegin \/ Free
  BY <1>2, <1>broadcast DEF CloseBegin, Free
<1>3. CASE CloseEnd \/ CloseAborted \/ Statistics
  BY <1>3, <1>same DEF CloseEnd, CloseAborted, Statistics
<1>4. ASSUME NEW f \in Fibers, Call(f) PROVE Settled'
  <2>1. /\ fpc[f] = "idle" /\ fpc' = [fpc EXCEPT ![f] = "blocked"]
        /\ completed' = [completed EXCEPT ![f] = FALSE]
        /\ op' = [op EXCEPT ![f] = "queued"]
        /\ queue' = Append(queue, f) /\ Signal /\ work' = work
    BY <1>4 DEF Call, Enqueue
  <2>2. Elements(queue') = Elements(queue) \cup {f}
    BY <2>1, <1>type, EnqueueElements
  <2>3. \A w \in Workers : wpc'[w] # wpc[w] => wpc'[w] = "lock"
    BY <2>1, <1>type DEF Signal, Waiting
  <2>4. \A w \in Workers : work[w] # f
    BY <2>1, <1>type DEF Owned
  <2>5. \A g \in Fibers : fpc'[g] = "idle" \/ completed'[g] => op'[g] \notin Pending
    BY <2>1, <1>type DEF Settled
  <2>6. \A w \in Workers : wpc'[w] = "leave" /\ work'[w] # None => op'[work'[w]] \notin Pending
    BY <2>1, <2>3, <2>4, <1>type DEF Settled
  <2>7. /\ \A w \in Workers : wpc'[w] \in {"got", "start"} => op'[work'[w]] # "executing"
        /\ \A w \in Workers : wpc'[w] = "run" => op'[work'[w]] # "queued"
    BY <2>1, <2>3, <2>4, <1>type DEF Settled, Owned
  <2>8. \A g \in Elements(queue') : op'[g] # "executing"
    BY <2>1, <2>2, <1>type, <1>el DEF Settled
  <2>. QED
    BY <2>5, <2>6, <2>7, <2>8 DEF Settled
<1>5. ASSUME NEW f \in Fibers, CallRejected(f) \/ ResumeElsewhere(f) \/ Interrupt(f) PROVE Settled'
  BY <1>5, <1>same DEF CallRejected, ResumeElsewhere, Interrupt
<1>cancel. ASSUME UNCHANGED <<queue, work, wpc, fpc, completed>>,
                  \A g \in Fibers : op'[g] = op[g] \/ op'[g] = Cancelled(op[g])
           PROVE  Settled'
  <2>1. \A g \in Fibers : op'[g] \in Pending => op'[g] = op[g]
    BY <1>cancel DEF Cancelled, Pending
  <2>2. \A g \in Fibers : op'[g] = "executing" => op[g] = "executing"
    BY <2>1 DEF Pending
  <2>3. \A w \in Workers : wpc'[w] = "leave" /\ work'[w] # None => op'[work'[w]] \notin Pending
    BY <1>cancel, <2>1, <1>type DEF Settled
  <2>4. /\ \A w \in Workers : wpc'[w] \in {"got", "start"} => op'[work'[w]] # "executing"
        /\ \A w \in Workers : wpc'[w] = "run" => op'[work'[w]] # "queued"
    BY <1>cancel, <2>1, <2>2, <1>type DEF Settled, Owned, Pending
  <2>5. \A g \in Elements(queue') : op'[g] # "executing"
    BY <1>cancel, <2>2, <1>el DEF Settled
  <2>6. \A g \in Fibers : fpc'[g] = "idle" \/ completed'[g] => op'[g] \notin Pending
    BY <1>cancel, <2>1 DEF Settled
  <2>. QED
    BY <2>3, <2>4, <2>5, <2>6 DEF Settled
<1>6. ASSUME NEW f \in Fibers, NEW raised \in BOOLEAN, AfterBlock(f, raised) PROVE Settled'
  <2>1. CASE ~completed[f]
    <3>1. UNCHANGED <<queue, work, wpc, fpc, completed>>
      BY <1>6, <2>1 DEF AfterBlock
    <3>2. op' = [op EXCEPT ![f] = Cancelled(@)]
      BY <1>6, <2>1 DEF AfterBlock
    <3>3. \A g \in Fibers : op'[g] = op[g] \/ op'[g] = Cancelled(op[g])
      BY <3>2, <1>type
    <3>. QED
      BY <3>1, <3>3, <1>cancel
  <2>2. CASE completed[f]
    <3>1. /\ fpc' = [fpc EXCEPT ![f] = "idle"]
          /\ UNCHANGED <<queue, work, wpc, completed, op>>
      BY <1>6, <2>2 DEF AfterBlock
    <3>2. \A g \in Fibers : fpc'[g] = "idle" \/ completed'[g] => op'[g] \notin Pending
      BY <2>2, <3>1, <1>type DEF Settled
    <3>. QED
      BY <3>1, <3>2 DEF Settled
  <2>. QED
    BY <2>1, <2>2
<1>7. ASSUME NEW f \in Fibers, Resume(f) \/ Raise(f) PROVE Settled'
  BY <1>6, <1>7 DEF Resume, Raise
<1>8. ASSUME NEW w \in Workers, EnterRegion(w) PROVE Settled'
  BY <1>8, <1>step DEF EnterRegion
<1>9. ASSUME NEW w \in Workers, Acquire(w) PROVE Settled'
  <2>0. work[w] = None
    BY <1>9 DEF Acquire, Dequeue, Owned, Holding
  <2>1. CASE queue = <<>> /\ ~shutdown /\ ~interrupted[w]
    BY <1>9, <2>1, <1>step DEF Acquire, Dequeue
  <2>2. CASE shutdown \/ interrupted[w]
    <3>1. wpc' = [wpc EXCEPT ![w] = "leave"] /\ UNCHANGED <<queue, work, fpc, completed, op>>
      BY <1>9, <2>2 DEF Acquire, Dequeue
    <3>. QED
      BY <2>0, <3>1, <1>type DEF Settled, Elements
  <2>3. CASE queue # <<>> /\ ~shutdown /\ ~interrupted[w]
    <3>1. /\ wpc' = [wpc EXCEPT ![w] = "got"] /\ work' = [work EXCEPT ![w] = Head(queue)]
          /\ queue' = Tail(queue) /\ UNCHANGED <<fpc, completed, op>>
      BY <1>9, <2>3 DEF Acquire, Dequeue
    <3>2. /\ Head(queue) \in Elements(queue)
          /\ Elements(queue') \subseteq Elements(queue)
      BY <3>1, <2>3, <1>type, DequeueElements
    <3>3. /\ wpc'[w] = "got" /\ work'[w] = Head(queue)
          /\ \A v \in Workers : v # w => work'[v] = work[v] /\ wpc'[v] = wpc[v]
      BY <3>1, <1>type
    <3>. QED
      BY <3>1, <3>2, <3>3 DEF Settled
  <2>. QED
    BY <2>1, <2>2, <2>3
<1>10. ASSUME NEW w \in Workers, SetCurrent(w) PROVE Settled'
  BY <1>10, <1>type DEF SetCurrent, Settled, Elements
<1>11. ASSUME NEW w \in Workers, Start(w) PROVE Settled'
  <2>. DEFINE f == work[w]
  <2>1. wpc[w] = "start" /\ f \in Fibers /\ UNCHANGED <<queue, work, fpc, completed>>
    BY <1>11 DEF Start, Owned
  <2>2. CASE op[f] = "queued"
    <3>1. op' = [op EXCEPT ![f] = "executing"] /\ wpc' = [wpc EXCEPT ![w] = "run"]
      BY <1>11, <2>2 DEF Start
    <3>2. f \notin Elements(queue) /\ fpc[f] = "blocked" /\ ~completed[f]
      BY <2>1 DEF Owned
    <3>3. \A v \in Workers : v # w => work[v] # f
      BY <2>1 DEF Owned
    <3>4. op'[work'[w]] = "executing" /\ \A g \in Fibers : g # f => op'[g] = op[g]
      BY <3>1, <2>1, <1>type
    <3>5. wpc'[w] = "run" /\ \A v \in Workers : v # w => wpc'[v] = wpc[v]
      BY <3>1, <1>type
    <3>. HIDE DEF f
    <3>6. \A v \in Workers : wpc'[v] = "leave" /\ work'[v] # None => op'[work'[v]] \notin Pending
      BY <2>1, <3>3, <3>4, <3>5, <1>type DEF Settled
    <3>7. /\ \A v \in Workers : wpc'[v] \in {"got", "start"} => op'[work'[v]] # "executing"
          /\ \A v \in Workers : v # w /\ wpc'[v] = "run" => op'[work'[v]] # "queued"
      BY <2>1, <3>3, <3>4, <3>5, <1>type DEF Settled, Owned
    <3>8. \A g \in Elements(queue') : op'[g] # "executing"
      BY <2>1, <3>2, <3>4, <1>el DEF Settled
    <3>9. \A g \in Fibers : fpc'[g] = "idle" \/ completed'[g] => op'[g] \notin Pending
      BY <2>1, <3>2, <3>4 DEF Settled
    <3>. QED
      BY <3>4, <3>6, <3>7, <3>8, <3>9 DEF Settled
  <2>3. CASE op[f] # "queued"
    <3>1. op' = op /\ wpc' = [wpc EXCEPT ![w] = "leave"]
      BY <1>11, <2>3 DEF Start
    <3>2. op[f] \notin Pending
      BY <2>1, <2>3 DEF Settled, Pending
    <3>. QED
      BY <2>1, <3>1, <3>2, <1>type DEF Settled, Elements
  <2>. QED
    BY <2>2, <2>3
<1>12. ASSUME NEW w \in Workers, Finish(w) PROVE Settled'
  <2>. DEFINE f == work[w]
  <2>1. /\ wpc[w] = "run" /\ f \in Fibers /\ UNCHANGED <<queue, work, fpc, completed>>
        /\ op' = [op EXCEPT ![f] = IF @ = "executing" THEN "completed" ELSE @]
        /\ wpc' = [wpc EXCEPT ![w] = "leave"]
    BY <1>12 DEF Finish, Owned
  <2>2. op'[f] \notin Pending /\ \A g \in Fibers : g # f => op'[g] = op[g]
    BY <2>1, <1>type DEF Settled, Pending
  <2>3. wpc'[w] = "leave" /\ \A v \in Workers : v # w => wpc'[v] = wpc[v] /\ work[v] # f
    BY <2>1, <1>type DEF Owned
  <2>. HIDE DEF f
  <2>4. \A v \in Workers : wpc'[v] = "leave" /\ work'[v] # None => op'[work'[v]] \notin Pending
    BY <2>1, <2>2, <2>3, <1>type DEF Settled, f
  <2>5. /\ \A v \in Workers : wpc'[v] \in {"got", "start"} => op'[work'[v]] # "executing"
        /\ \A v \in Workers : wpc'[v] = "run" => op'[work'[v]] # "queued"
    BY <2>1, <2>2, <2>3, <1>type DEF Settled, Owned
  <2>6. \A g \in Elements(queue') : op'[g] # "executing"
    BY <2>1, <2>2, <1>el DEF Settled, Pending
  <2>7. \A g \in Fibers : fpc'[g] = "idle" \/ completed'[g] => op'[g] \notin Pending
    BY <2>1, <2>2 DEF Settled
  <2>. QED
    BY <2>4, <2>5, <2>6, <2>7 DEF Settled
<1>13. ASSUME NEW w \in Workers, LeaveRegion(w) PROVE Settled'
  <2>1. /\ wpc[w] = "leave" /\ work' = [work EXCEPT ![w] = None] /\ UNCHANGED <<queue, fpc, op>>
        /\ \E pc \in {"dead", "unblock"} : wpc' = [wpc EXCEPT ![w] = pc]
    BY <1>13 DEF LeaveRegion
  <2>2. work'[w] = None /\ \A v \in Workers : v # w => work'[v] = work[v] /\ wpc'[v] = wpc[v]
    BY <2>1, <1>type
  <2>3. wpc'[w] \in {"dead", "unblock"}
    BY <2>1, <1>type
  <2>4. \A g \in Fibers : completed'[g] # completed[g] => g = work[w]
    BY <1>13, <1>type DEF LeaveRegion
  <2>5. \A g \in Fibers : fpc'[g] = "idle" \/ completed'[g] => op'[g] \notin Pending
    BY <2>1, <2>4, <1>type DEF Settled
  <2>. QED
    BY <2>1, <2>2, <2>3, <2>5 DEF Settled
<1>14. ASSUME NEW w \in Workers, Unblock(w) PROVE Settled'
  BY <1>14, <1>step DEF Unblock
<1>15. ASSUME NEW w \in Workers, CancelCurrent(w) PROVE Settled'
  <2>1. CASE wpc[w] \in {"start", "run"}
    <3>1. work[w] \in Fibers /\ op' = [op EXCEPT ![work[w]] = Cancelled(@)]
      BY <1>15, <2>1 DEF CancelCurrent, Owned
    <3>2. \A g \in Fibers : op'[g] = op[g] \/ op'[g] = Cancelled(op[g])
      BY <3>1, <1>type
    <3>. QED
      BY <1>15, <3>2, <1>cancel DEF CancelCurrent
  <2>2. CASE wpc[w] \notin {"start", "run"}
    BY <1>15, <2>2, <1>same DEF CancelCurrent
  <2>. QED
    BY <2>1, <2>2
<1>16. ASSUME NEW w \in Workers, SpuriousWakeup(w) PROVE Settled'
  BY <1>16, <1>step DEF SpuriousWakeup
<1>17. ASSUME NEW w \in Workers, NEW kill \in BOOLEAN, InterruptInRegion(w, kill) PROVE Settled'
  BY <1>17, <1>broadcast DEF InterruptInRegion
<1>18. ASSUME NEW w \in Workers, KillOutsideRegion(w) PROVE Settled'
  BY <1>18, <1>same DEF KillOutsideRegion
<1>19. CASE UNCHANGED vars
  BY <1>19, <1>same DEF vars
<1>. QED
  BY <1>1, <1>2, <1>3, <1>4, <1>5, <1>7, <1>8, <1>9, <1>10, <1>11, <1>12, <1>13, <1>14, <1>15,
     <1>16, <1>17, <1>18, <1>19 DEF Next, Pool, Fiber, Worker, Run

\* When worker_pool_call returns, its blocking operation has been completed or
\* cancelled, and is neither queued nor in the hands of a worker that executes it or
\* is about to: a call that cancels its operation waits for the worker.
THEOREM ReturnSettled == Spec => []SettledOnReturn
<1>. DEFINE IInv == TypeOK /\ Fresh /\ Owned /\ Settled
<1>1. Init => IInv
  BY TypeInit, FreshInit, OwnedInit, SettledInit
<1>2. IInv /\ [Next]_vars => IInv'
  BY TypeNext, FreshNext, OwnedNext, SettledNext
<1>3. IInv => SettledOnReturn
  <2>. SUFFICES ASSUME TypeOK, Owned, Settled PROVE SettledOnReturn
    OBVIOUS
  <2>1. \A f \in Fibers : fpc[f] = "idle" => op[f] \notin {"queued", "executing"}
    BY DEF Settled, Pending
  <2>2. \A f \in Fibers : fpc[f] = "idle" => f \notin Queued
    BY DEF Owned, Queued, Elements
  <2>3. \A f \in Fibers, w \in Workers : fpc[f] = "idle" => work[w] # f
    BY FibersAssumption DEF Owned
  <2>. QED
    BY <2>1, <2>2, <2>3 DEF SettledOnReturn
<1>. QED
  BY <1>1, <1>2, <1>3, PTL DEF Spec

(***************************************************************************)
(* Signals                                                                  *)
(***************************************************************************)

\* The inductive form of NoIdleWorker: the broadcasts of worker_unblock_func and
\* of worker_pool_close leave no sleeper that a leaving worker could have starved.
Roused ==
    /\ \A w \in Workers : wpc[w] = "wait" => ~interrupted[w]
    /\ shutdown => Waiting = {}
    /\ NoIdleWorker

LEMMA TakersFinite == IsFiniteSet(Takers) /\ Cardinality(Takers) \in Nat
<1>1. Takers \subseteq Workers
  BY DEF Takers
<1>. QED
  BY <1>1, WorkersAssumption, FS_Subset, FS_CardinalityType

LEMMA RousedInit == Init => Roused
  BY DEF Init, Roused, Waiting, NoIdleWorker

LEMMA RousedNext == TypeOK /\ Roused /\ [Next]_vars => Roused'
<1>. SUFFICES ASSUME TypeOK, Roused, [Next]_vars PROVE Roused'
  OBVIOUS
<1>. USE DEF poolVars, countVars, workerVars, fiberVars, readyVars, sentVars
<1>type. /\ queue \in Seq(Fibers)
         /\ wpc \in [Workers -> WorkerStates]
         /\ interrupted \in [Workers -> BOOLEAN]
         /\ Len(queue) \in Nat
  BY DEF TypeOK
<1>card. /\ IsFiniteSet(Takers) /\ Cardinality(Takers) \in Nat
         /\ IsFiniteSet(Takers') /\ Cardinality(Takers') \in Nat
  <2>1. Takers' \subseteq Workers
    BY DEF Takers
  <2>. QED
    BY <2>1, TakersFinite, WorkersAssumption, FS_Subset, FS_CardinalityType
<1>none. ASSUME \A w \in Workers : wpc'[w] # "wait" PROVE Roused'
  BY <1>none DEF Roused, Waiting, NoIdleWorker
<1>more. ASSUME UNCHANGED <<queue, shutdown>>,
                \A w \in Workers : wpc'[w] = "wait" => wpc[w] = "wait" /\ interrupted'[w] = interrupted[w],
                Takers \subseteq Takers'
         PROVE  Roused'
  <2>1. Cardinality(Takers) <= Cardinality(Takers')
    BY <1>more, <1>card, FS_Subset
  <2>2. Waiting' \subseteq Waiting
    BY <1>more DEF Waiting
  <2>. QED
    BY <1>more, <1>card, <1>type, <2>1, <2>2 DEF Roused, NoIdleWorker
<1>same. ASSUME UNCHANGED <<queue, shutdown, wpc, interrupted>> PROVE Roused'
  BY <1>same, <1>more DEF Takers
<1>step. ASSUME NEW w \in Workers, NEW pc, pc # "wait", wpc[w] # "lock", wpc' = [wpc EXCEPT ![w] = pc],
                UNCHANGED <<queue, shutdown, interrupted>>
         PROVE  Roused'
  <2>1. Takers \subseteq Takers'
    BY <1>step, <1>type DEF Takers
  <2>2. \A v \in Workers : wpc'[v] = "wait" => wpc[v] = "wait"
    BY <1>step, <1>type
  <2>. QED
    BY <1>step, <1>more, <2>1, <2>2
<1>broadcast. ASSUME wpc' = Broadcast PROVE Roused'
  BY <1>broadcast, <1>none DEF Broadcast
<1>1. CASE Initialize
  BY <1>1, <1>none DEF Initialize
<1>2. CASE CloseBegin \/ Free
  BY <1>2, <1>broadcast DEF CloseBegin, Free
<1>3. CASE CloseEnd \/ CloseAborted \/ Statistics
  BY <1>3, <1>same DEF CloseEnd, CloseAborted, Statistics
<1>4. ASSUME NEW f \in Fibers, Call(f) PROVE Roused'
  <2>1. queue' = Append(queue, f) /\ Signal /\ UNCHANGED <<shutdown, interrupted>>
    BY <1>4 DEF Call, Enqueue
  <2>2. CASE Waiting = {}
    BY <2>1, <2>2, <1>none DEF Signal, Waiting
  <2>3. CASE Waiting # {}
    <3>1. PICK w \in Waiting : wpc' = [wpc EXCEPT ![w] = "lock"]
      BY <2>1, <2>3 DEF Signal
    <3>2. w \in Workers /\ w \notin Takers /\ Takers' = Takers \cup {w}
      BY <3>1, <2>1, <1>type DEF Waiting, Takers, Roused
    <3>3. Cardinality(Takers') = Cardinality(Takers) + 1
      BY <3>2, <1>card, FS_AddElement
    <3>4. Len(queue') = Len(queue) + 1
      BY <2>1, <1>type
    <3>5. NoIdleWorker'
      BY <2>3, <3>3, <3>4, <1>card, <1>type DEF Roused, NoIdleWorker
    <3>6. \A v \in Workers : wpc'[v] = "wait" => ~interrupted'[v]
      BY <2>1, <3>1, <1>type DEF Roused
    <3>7. shutdown' => Waiting' = {}
      BY <2>1, <2>3 DEF Roused
    <3>. QED
      BY <3>5, <3>6, <3>7 DEF Roused
  <2>. QED
    BY <2>2, <2>3
<1>5. ASSUME NEW f \in Fibers,
             CallRejected(f) \/ Resume(f) \/ Raise(f) \/ ResumeElsewhere(f) \/ Interrupt(f)
      PROVE  Roused'
  BY <1>5, <1>same DEF CallRejected, Resume, Raise, AfterBlock, ResumeElsewhere, Interrupt
<1>6. ASSUME NEW w \in Workers, Acquire(w) PROVE Roused'
  <2>1. CASE queue = <<>> /\ ~shutdown /\ ~interrupted[w]
    <3>1. wpc' = [wpc EXCEPT ![w] = "wait"] /\ UNCHANGED <<queue, shutdown, interrupted>>
      BY <1>6, <2>1 DEF Acquire, Dequeue
    <3>2. NoIdleWorker'
      BY <2>1, <3>1, <1>card DEF NoIdleWorker
    <3>3. \A v \in Workers : wpc'[v] = "wait" => ~interrupted'[v]
      BY <2>1, <3>1, <1>type DEF Roused
    <3>. QED
      BY <2>1, <3>1, <3>2, <3>3 DEF Roused
  <2>2. CASE shutdown
    <3>1. wpc' = [wpc EXCEPT ![w] = "leave"]
      BY <1>6, <2>2 DEF Acquire, Dequeue
    <3>. QED
      BY <2>2, <3>1, <1>none, <1>type DEF Roused, Waiting
  <2>3. CASE interrupted[w]
    <3>1. wpc' = [wpc EXCEPT ![w] = "leave"] /\ UNCHANGED <<queue, shutdown, interrupted>>
      BY <1>6, <2>3 DEF Acquire, Dequeue
    <3>2. Takers \subseteq Takers'
      BY <2>3, <3>1, <1>type DEF Takers
    <3>3. \A v \in Workers : wpc'[v] = "wait" => wpc[v] = "wait"
      BY <3>1, <1>type
    <3>. QED
      BY <3>1, <3>2, <3>3, <1>more
  <2>4. CASE queue # <<>> /\ ~shutdown /\ ~interrupted[w]
    <3>1. /\ wpc[w] = "lock" /\ wpc' = [wpc EXCEPT ![w] = "got"] /\ queue' = Tail(queue)
          /\ UNCHANGED <<shutdown, interrupted>>
      BY <1>6, <2>4 DEF Acquire, Dequeue
    <3>2. w \in Takers /\ Takers' = Takers \ {w}
      BY <2>4, <3>1, <1>type DEF Takers
    <3>3. Cardinality(Takers') = Cardinality(Takers) - 1
      BY <3>2, <1>card, FS_RemoveElement
    <3>4. Len(queue') = Len(queue) - 1
      BY <2>4, <3>1, <1>type, DequeueElements
    <3>5. Waiting' = Waiting
      BY <3>1, <1>type DEF Waiting
    <3>6. NoIdleWorker'
      BY <3>3, <3>4, <3>5, <1>card, <1>type DEF Roused, NoIdleWorker
    <3>7. \A v \in Workers : wpc'[v] = "wait" => ~interrupted'[v]
      BY <3>1, <1>type DEF Roused
    <3>. QED
      BY <3>1, <3>5, <3>6, <3>7 DEF Roused
  <2>. QED
    BY <2>1, <2>2, <2>3, <2>4
<1>7. ASSUME NEW w \in Workers,
             EnterRegion(w) \/ SetCurrent(w) \/ Start(w) \/ Finish(w) \/ LeaveRegion(w)
                            \/ Unblock(w) \/ SpuriousWakeup(w)
      PROVE  Roused'
  BY <1>7, <1>step DEF EnterRegion, SetCurrent, Start, Finish, LeaveRegion, Unblock, SpuriousWakeup
<1>8. ASSUME NEW w \in Workers, CancelCurrent(w) \/ KillOutsideRegion(w) PROVE Roused'
  BY <1>8, <1>same DEF CancelCurrent, KillOutsideRegion
<1>9. ASSUME NEW w \in Workers, NEW kill \in BOOLEAN, InterruptInRegion(w, kill) PROVE Roused'
  BY <1>9, <1>broadcast DEF InterruptInRegion
<1>10. CASE UNCHANGED vars
  BY <1>10, <1>same DEF vars
<1>. QED
  BY <1>1, <1>2, <1>3, <1>4, <1>5, <1>6, <1>7, <1>8, <1>9, <1>10 DEF Next, Pool, Fiber, Worker, Run

\* pthread_cond_signal is enough: no queued work waits for a sleeping worker,
\* however interrupts, spurious wakeups and completions interleave.
THEOREM NoStarvation == Spec => []NoIdleWorker
<1>1. Init => TypeOK /\ Roused
  BY TypeInit, RousedInit
<1>2. (TypeOK /\ Roused) /\ [Next]_vars => (TypeOK /\ Roused)'
  BY TypeNext, RousedNext
<1>3. Roused => NoIdleWorker
  BY DEF Roused
<1>. QED
  BY <1>1, <1>2, <1>3, PTL DEF Spec

(***************************************************************************)
(* Close and the mutex                                                      *)
(***************************************************************************)

Stopped == {"none", "dead"}

\* The inductive form of ClosedMeansStopped: the mutex is destroyed by the end of
\* close alone, when every thread has ended, and worker_unblock_func runs only for a
\* thread in its blocking region.
Joined ==
    /\ mutex = "destroyed" => phase = "closed" /\ \A w \in Workers : wpc[w] \in Stopped
    /\ \A w \in Workers : ubf[w] => wpc[w] \in InRegion

LEMMA JoinedInit == Init => Joined
  BY Zenon DEF Init, Joined

LEMMA JoinedNext == TypeOK /\ Fresh /\ Joined /\ [Next]_vars => Joined'
<1>. SUFFICES ASSUME TypeOK, Fresh, Joined, [Next]_vars
              PROVE  Joined'
  OBVIOUS
<1>. USE DEF poolVars, countVars, workerVars, fiberVars, readyVars, sentVars
<1>same. ASSUME UNCHANGED <<phase, mutex, wpc, ubf>> PROVE Joined'
  BY <1>same DEF Joined
<1>cast. /\ \A w \in Workers : wpc[w] \in Stopped => Broadcast[w] = wpc[w]
         /\ \A w \in Workers : wpc[w] \in InRegion => Broadcast[w] \in InRegion
  BY DEF Broadcast, Stopped, InRegion
<1>1. CASE Initialize
  <2>1. mutex' # "destroyed"
    BY <1>1 DEF Initialize, Joined
  <2>2. \A w \in Workers : ~ubf'[w]
    BY <1>1 DEF Initialize, Joined, Fresh, InRegion
  <2>. QED
    BY <2>1, <2>2 DEF Joined
<1>2. CASE CloseBegin \/ Free
  <2>1. UNCHANGED <<mutex, ubf>> /\ wpc' = Broadcast /\ mutex # "destroyed"
    BY <1>2 DEF CloseBegin, Free, Joined
  <2>. QED
    BY <1>cast, <2>1 DEF Joined
<1>3. CASE CloseEnd
  BY <1>3 DEF CloseEnd, Joined, Stopped
<1>4. CASE CloseAborted
  BY <1>4 DEF CloseAborted, Joined
<1>5. CASE Statistics
  BY <1>5, <1>same DEF Statistics
<1>6. ASSUME NEW f \in Fibers, Call(f) PROVE Joined'
  <2>1. /\ UNCHANGED <<phase, mutex, ubf>>
        /\ \/ wpc' = wpc
           \/ \E w \in Workers : wpc[w] = "wait" /\ wpc' = [wpc EXCEPT ![w] = "lock"]
    BY <1>6 DEF Call, Signal, Waiting
  <2>. QED
    BY <2>1 DEF Joined, TypeOK, Stopped, InRegion
<1>7. ASSUME NEW f \in Fibers, Fiber(f), ~Call(f) PROVE Joined'
  BY <1>7, <1>same DEF Fiber, CallRejected, Resume, Raise, AfterBlock, ResumeElsewhere, Interrupt
<1>8. ASSUME NEW w \in Workers, Worker(w) PROVE Joined'
  <2>1. CASE \E kill \in BOOLEAN : InterruptInRegion(w, kill)
    <3>1. /\ UNCHANGED <<phase, mutex>> /\ wpc' = Broadcast
          /\ wpc[w] \in InRegion /\ ubf' = [ubf EXCEPT ![w] = TRUE]
      BY <2>1 DEF InterruptInRegion
    <3>. QED
      BY <1>cast, <3>1 DEF Joined, TypeOK
  <2>2. CASE CancelCurrent(w)
    BY <2>2 DEF CancelCurrent, Joined, TypeOK
  <2>3. CASE LeaveRegion(w) \/ Unblock(w) \/ EnterRegion(w)
    <3>1. /\ UNCHANGED <<phase, mutex, ubf>> /\ wpc[w] \notin Stopped /\ ~ubf[w]
          /\ \E s : wpc' = [wpc EXCEPT ![w] = s]
      BY <2>3 DEF LeaveRegion, Unblock, EnterRegion, Joined, Stopped, InRegion
    <3>. QED
      BY <3>1 DEF Joined, TypeOK
  <2>4. CASE Acquire(w) \/ SetCurrent(w) \/ Start(w) \/ Finish(w) \/ SpuriousWakeup(w)
    <3>1. /\ UNCHANGED <<phase, mutex, ubf>> /\ wpc[w] \notin Stopped
          /\ \E s \in InRegion : wpc' = [wpc EXCEPT ![w] = s]
      BY <2>4 DEF Acquire, Dequeue, SetCurrent, Start, Finish, SpuriousWakeup, Stopped, InRegion
    <3>. QED
      BY <3>1 DEF Joined, TypeOK
  <2>5. CASE KillOutsideRegion(w)
    BY <2>5, <1>same DEF KillOutsideRegion
  <2>. QED
    BY <1>8, <2>1, <2>2, <2>3, <2>4, <2>5 DEF Worker, Run
<1>9. CASE UNCHANGED vars
  BY <1>9, <1>same DEF vars
<1>. QED
  BY <1>1, <1>2, <1>3, <1>4, <1>5, <1>6, <1>7, <1>8, <1>9 DEF Next, Pool

\* worker_pool_close destroys the mutex only when no worker thread and no unblock
\* function can use it again, whatever interrupts and kills the threads meet.
THEOREM MutexSafe == Spec => []ClosedMeansStopped
<1>1. Init => TypeOK /\ Fresh /\ Joined
  BY TypeInit, FreshInit, JoinedInit
<1>2. (TypeOK /\ Fresh /\ Joined) /\ [Next]_vars => (TypeOK /\ Fresh /\ Joined)'
  BY TypeNext, FreshNext, JoinedNext
<1>3. TypeOK /\ Fresh /\ Joined => ClosedMeansStopped
  BY DEF Joined, Stopped, InRegion, ClosedMeansStopped
<1>. QED
  BY <1>1, <1>2, <1>3, PTL DEF Spec

=============================================================================
