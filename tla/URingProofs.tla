---------------------------- MODULE URingProofs ----------------------------
(***************************************************************************)
(* Proofs of the safety properties of URing for any number of fibers and    *)
(* completions and any size of the submission queue, as long as no          *)
(* exception is raised in a fiber that yields where the code has no ensure  *)
(* function (MayUnwind).                                                    *)
(***************************************************************************)
EXTENDS URing, FiniteSetTheorems, TLAPS

(***************************************************************************)
(* The inductive invariant                                                  *)
(***************************************************************************)

\* What Completion_acquire hands out, from the free list or new, belongs to nobody,
\* and nothing in the ring refers to a completion that is still to be added.
Unowned ==
    /\ \A c \in free : c <= limit /\ owner[c] = None
    /\ \A c \in Completions :
          c > limit => owner[c] = None /\ ring.op[c] = "none" /\ Queued(c) = {}

\* A fiber that is in no operation, or in io_close, has no completion.
Unslotted ==
    \A f \in Fibers : pc[f] = "idle" \/ kind[f] = "io_close" => slot[f] = None

\* An operation that is still to be queued has one.
Slotted ==
    \A f \in Fibers : pc[f] \in {"prepare", "drain"} /\ kind[f] # "io_close" => slot[f] # None

Posting == \A f \in Fibers : pc[f] = "post" => kind[f] \in {"io_read", "io_close"}

\* A cancellation in the queue is that of the fiber whose completion it names, or, if
\* the completion was released and acquired again, in front of the new operation.
CancelsLate ==
    \A c \in Completions : \A i \in DOMAIN ring.sq :
        ring.sq[i] = CancelOf(c) =>
            \/ owner[c] = None
            \/ pc[owner[c]] = "cancelPost"
            \/ ring.op[c] = "none" /\ \A j \in Queued(c) : i < j

PoolInv ==
    /\ LinksLive /\ Unowned /\ Unslotted /\ Slotted /\ Posting
    /\ Exclusive /\ CancelsLate /\ CancelsOwn /\ NoMissedCompletion

\* Nothing is submitted while select sleeps.
LoopSleeps == stage = "blocked" => run = Loop

(***************************************************************************)
(* The ring                                                                 *)
(***************************************************************************)

SQE == [op : {"start", "cancel", "close"}, data : Completions \cup {None}]

LEMMA EntriesDiffer ==
    \A c, d : /\ StartOf(c) # CancelOf(d) /\ StartOf(c) # Close /\ CancelOf(c) # Close
              /\ StartOf(c) = StartOf(d) => c = d
              /\ CancelOf(c) = CancelOf(d) => c = d
  BY DEF StartOf, CancelOf, Close

\* What the kernel leaves of a queue.
LEMMA RestOfQueue ==
    ASSUME NEW S, NEW s \in Seq(S), NEW n \in 0 .. Len(s)
    PROVE  /\ SubSeq(s, 1, n) \in Seq(S) /\ Len(SubSeq(s, 1, n)) = n
           /\ \A i \in 1 .. n : SubSeq(s, 1, n)[i] = s[i]
           /\ SubSeq(s, n + 1, Len(s)) \in Seq(S)
           /\ Len(SubSeq(s, n + 1, Len(s))) = Len(s) - n
           /\ \A i \in 1 .. Len(s) - n : SubSeq(s, n + 1, Len(s))[i] = s[n + i]
  OBVIOUS

\* q and o are the queue and the operations when the kernel has taken n entries.
Taken(q, o, n) ==
    /\ Len(q) = Len(ring.sq) - n
    /\ \A i \in 1 .. Len(q) : q[i] = ring.sq[n + i]
    /\ \A c \in Completions :
          o[c] = "none" <=> ring.op[c] = "none" /\ \A i \in 1 .. n : ring.sq[i] # StartOf(c)
    /\ \A c \in Completions :
          o[c] \in {"cancelling", "cancelled"} =>
              \/ ring.op[c] \in {"cancelling", "cancelled"}
              \/ \E i \in 1 .. n : /\ ring.sq[i] = CancelOf(c)
                                   /\ \/ ring.op[c] = "running"
                                      \/ \E j \in 1 .. i - 1 : ring.sq[j] = StartOf(c)

LEMMA AcceptedTaken ==
    ASSUME TypeOK, NEW n \in 0 .. Len(ring.sq)
    PROVE  /\ Accepted(ring, n) \in Ring
           /\ Accepted(ring, n).reads = ring.reads
           /\ Accepted(ring, n).interrupts = ring.interrupts
           /\ Accepted(ring, n).signals = ring.signals
           /\ Len(Accepted(ring, n).sq) = Len(ring.sq) - n
           /\ Taken(Accepted(ring, n).sq, Accepted(ring, n).op, n)
<1>. DEFINE s == SubSeq(ring.sq, 1, n)
            q == SubSeq(ring.sq, n + 1, Len(ring.sq))
            o == [c \in Completions |-> Outcome(ring, s, c)]
            a == Accepted(ring, n)
<1>1. /\ ring.sq \in Seq(SQE)
      /\ ring.op \in [Completions -> {"none", "running", "cancelling", "done", "cancelled"}]
      /\ ring.reads \in Nat /\ ring.interrupts \in Nat /\ ring.signals \in Nat
  BY DEF TypeOK, Ring, SQE
<1>2. a.sq = q /\ a.op = o /\ a = [ring EXCEPT !.op = o, !.sq = q]
  BY DEF Accepted, TypeOK, Ring
<1>3. /\ Len(s) = n /\ s \in Seq(SQE)
      /\ \A i \in 1 .. n : s[i] = ring.sq[i]
      /\ q \in Seq(SQE) /\ Len(q) = Len(ring.sq) - n
      /\ \A i \in 1 .. Len(ring.sq) - n : q[i] = ring.sq[n + i]
  BY <1>1, RestOfQueue
<1>4. DOMAIN s = 1 .. n
  BY <1>3
<1>. HIDE DEF s, q
<1>5. ASSUME NEW c \in Completions
      PROVE  /\ o[c] \in {"none", "running", "cancelling", "done", "cancelled"}
             /\ o[c] = "none" <=> ring.op[c] = "none" /\ \A i \in 1 .. n : ring.sq[i] # StartOf(c)
             /\ o[c] \in {"cancelling", "cancelled"} =>
                    \/ ring.op[c] \in {"cancelling", "cancelled"}
                    \/ \E i \in 1 .. n : /\ ring.sq[i] = CancelOf(c)
                                         /\ \/ ring.op[c] = "running"
                                            \/ \E j \in 1 .. i - 1 : ring.sq[j] = StartOf(c)
  <2>. DEFINE started == \E i \in 1 .. n : ring.sq[i] = StartOf(c)
              ended == \E i \in 1 .. n :
                          /\ ring.sq[i] = CancelOf(c)
                          /\ ring.op[c] = "running" \/ \E j \in 1 .. n : j < i /\ ring.sq[j] = StartOf(c)
  <2>1. o[c] = IF ended THEN "cancelling" ELSE IF started THEN "running" ELSE ring.op[c]
    BY <1>3, <1>4 DEF Outcome
  <2>2. ended => ring.op[c] = "running" \/ started
    OBVIOUS
  <2>3. ended => \E i \in 1 .. n : /\ ring.sq[i] = CancelOf(c)
                                    /\ \/ ring.op[c] = "running"
                                       \/ \E j \in 1 .. i - 1 : ring.sq[j] = StartOf(c)
    OBVIOUS
  <2>4. started <=> ~ \A i \in 1 .. n : ring.sq[i] # StartOf(c)
    OBVIOUS
  <2>5. ring.op[c] \in {"none", "running", "cancelling", "done", "cancelled"}
    BY <1>1
  <2>. HIDE DEF started, ended, o
  <2>. QED
    BY <2>1, <2>2, <2>3, <2>4, <2>5
<1>6. o \in [Completions -> {"none", "running", "cancelling", "done", "cancelled"}]
  BY <1>5
<1>. HIDE DEF o
<1>7. /\ a \in Ring /\ a.reads = ring.reads /\ a.interrupts = ring.interrupts
      /\ a.signals = ring.signals
  BY <1>2, <1>3, <1>6 DEF TypeOK, Ring, SQE
<1>8. Taken(a.sq, a.op, n)
  BY <1>2, <1>3, <1>5 DEF Taken
<1>. QED
  BY <1>2, <1>3, <1>7, <1>8

LEMMA NothingTaken ==
    ASSUME TypeOK
    PROVE  Taken(ring.sq, ring.op, 0)
  BY DEF TypeOK, Ring, Taken

(***************************************************************************)
(* Types                                                                    *)
(***************************************************************************)

LEMMA TypeInit == Init => TypeOK
<1>. SUFFICES ASSUME Init PROVE TypeOK
  OBVIOUS
<1>1. ring \in Ring /\ Len(ring.sq) = 0
  BY DEF Init, Ring
<1>2. limit \in 0 .. Limit /\ Len(ring.sq) <= Entries
  BY <1>1, BoundsAssumption DEF Init
<1>3. /\ pc \in [Fibers -> Places]
      /\ kind \in [Fibers -> Kinds \cup {None}]
      /\ slot \in [Fibers -> Completions \cup {None}]
      /\ owner \in [Completions -> Fibers \cup {None}]
  BY DEF Init, Places
<1>. QED
  BY <1>1, <1>2, <1>3 DEF Init, TypeOK

\* The type invariant in parts, as an action changes some of the variables.
FiberType ==
    /\ pc \in [Fibers -> Places]
    /\ kind \in [Fibers -> Kinds \cup {None}]

PoolType ==
    /\ slot \in [Fibers -> Completions \cup {None}]
    /\ owner \in [Completions -> Fibers \cup {None}]
    /\ free \in SUBSET Completions
    /\ limit \in 0 .. Limit

RingType == ring \in Ring /\ Len(ring.sq) <= Entries

LoopType ==
    /\ run \in Fibers \cup {Loop, User}
    /\ ready \in SUBSET Fibers /\ pending \in SUBSET ready
    /\ stage \in {"outside", "ready", "completions", "blocked", "after"}
    /\ progress \in BOOLEAN

LEMMA TypeParts ==
    TypeOK <=> FiberType /\ PoolType /\ RingType /\ LoopType /\ registered \in BOOLEAN
  BY DEF TypeOK, FiberType, PoolType, RingType, LoopType

LEMMA TypePartsNext ==
    FiberType' /\ PoolType' /\ RingType' /\ LoopType' /\ registered' \in BOOLEAN => TypeOK'
  BY DEF TypeOK, FiberType, PoolType, RingType, LoopType

LEMMA AcquireType ==
    ASSUME PoolType, NEW f \in Fibers, Acquire(f)
    PROVE  PoolType'
<1>. DEFINE c == IF Cardinality(free) > 1 THEN CHOOSE d \in free : TRUE ELSE limit + 1
<1>1. /\ c \in Completions
      /\ free' = free \ {c}
      /\ limit' = IF Cardinality(free) > 1 THEN limit ELSE c
      /\ slot' = [slot EXCEPT ![f] = c]
      /\ owner' = [owner EXCEPT ![c] = f]
  BY DEF Acquire
<1>. HIDE DEF c
<1>. QED
  BY <1>1, BoundsAssumption DEF PoolType, Completions

LEMMA ReleaseType ==
    ASSUME PoolType, NEW c \in Completions, Release(c)
    PROVE  PoolType'
  BY DEF PoolType, Release

LEMMA WaitingCancelType ==
    ASSUME PoolType, NEW f \in Fibers, WaitingCancel(f)
    PROVE  PoolType'
  BY DEF PoolType, WaitingCancel

LEMMA AcceptedType ==
    ASSUME TypeOK, NEW n \in 0 .. Len(ring.sq), ring' = Accepted(ring, n)
    PROVE  RingType'
<1>1. /\ Accepted(ring, n) \in Ring
      /\ Len(Accepted(ring, n).sq) = Len(ring.sq) - n
  BY AcceptedTaken
<1>2. Len(ring.sq) \in Nat /\ Len(ring.sq) <= Entries
  BY DEF TypeOK, Ring
<1>. QED
  BY <1>1, <1>2, BoundsAssumption DEF RingType

LEMMA RingFields ==
    ASSUME NEW r \in Ring
    PROVE  /\ r.sq \in Seq(SQE) /\ Len(r.sq) \in Nat
           /\ r.op \in [Completions -> {"none", "running", "cancelling", "done", "cancelled"}]
           /\ r.reads \in Nat /\ r.interrupts \in Nat /\ r.signals \in Nat
  BY DEF Ring, SQE

LEMMA PrepareType ==
    ASSUME TypeOK, NEW f \in Fibers, Prepare(f)
    PROVE  RingType'
<1>1. Entry(f) \in SQE
  BY DEF Entry, SQE, StartOf, CancelOf, Close, TypeOK
<1>2. ring.sq \in Seq(SQE) /\ Len(ring.sq) \in Nat /\ Len(ring.sq) <= Entries
  BY RingFields DEF TypeOK
<1>3. Len(ring.sq) # Entries /\ ring' = [ring EXCEPT !.sq = Append(ring.sq, Entry(f))]
  BY DEF Prepare, Full
<1>4. Append(ring.sq, Entry(f)) \in Seq(SQE) /\ Len(Append(ring.sq, Entry(f))) = Len(ring.sq) + 1
  BY <1>1, <1>2
<1>5. ring' \in Ring /\ ring'.sq = Append(ring.sq, Entry(f))
  BY <1>3, <1>4 DEF TypeOK, Ring, SQE
<1>. QED
  BY <1>2, <1>3, <1>4, <1>5, BoundsAssumption DEF RingType

\* The reads of the interrupt descriptor that the kernel has or has completed.
LEMMA RegisterType ==
    ASSUME NEW r \in Ring
    PROVE  /\ Register(r) \in Ring /\ Register(r).sq = r.sq /\ Register(r).op = r.op
           /\ Register(r).reads + Register(r).interrupts = r.reads + r.interrupts + 1
<1>1. r.reads \in Nat /\ r.interrupts \in Nat /\ r.signals \in Nat
  BY RingFields
<1>2. CASE r.signals > 0
  <2>1. Register(r) = [r EXCEPT !.signals = 0, !.interrupts = r.interrupts + 1]
    BY <1>2 DEF Register
  <2>2. Register(r) \in Ring
    <3>. DEFINE t == [r EXCEPT !.signals = 0]
    <3>1. t \in Ring /\ t.interrupts \in Nat
      BY DEF Ring
    <3>2. Register(r) = [t EXCEPT !.interrupts = t.interrupts + 1]
      BY <2>1 DEF Ring
    <3>. HIDE DEF t
    <3>3. PICK x \in Nat : x = t.interrupts + 1
      BY <3>1
    <3>4. Register(r) = [t EXCEPT !.interrupts = x]
      BY <3>2, <3>3
    <3>. QED
      BY <3>1, <3>4 DEF Ring
  <2>3. /\ Register(r).sq = r.sq /\ Register(r).op = r.op
        /\ Register(r).reads = r.reads /\ Register(r).interrupts = r.interrupts + 1
    BY <2>1 DEF Ring
  <2>. QED
    BY <1>1, <2>2, <2>3
<1>3. CASE ~ r.signals > 0
  <2>1. Register(r) = [r EXCEPT !.reads = r.reads + 1]
    BY <1>3 DEF Register
  <2>2. Register(r) \in Ring
    BY <1>1, <2>1 DEF Ring
  <2>3. /\ Register(r).sq = r.sq /\ Register(r).op = r.op
        /\ Register(r).reads = r.reads + 1 /\ Register(r).interrupts = r.interrupts
    BY <2>1 DEF Ring
  <2>. QED
    BY <1>1, <2>2, <2>3
<1>. QED
  BY <1>2, <1>3

LEMMA WakeupCounters ==
    ASSUME ring \in Ring, Wakeup
    PROVE  /\ ring' \in Ring /\ ring'.sq = ring.sq /\ ring'.op = ring.op
           /\ ring'.reads + ring'.interrupts = ring.reads + ring.interrupts
<1>1. ring.reads \in Nat /\ ring.interrupts \in Nat /\ ring.signals \in Nat
  BY RingFields
<1>2. CASE ring.reads > 0
  <2>1. ring' = [ring EXCEPT !.reads = ring.reads - 1, !.interrupts = ring.interrupts + 1]
    BY <1>2 DEF Wakeup
  <2>2. ring' \in Ring
    <3>. DEFINE t == [ring EXCEPT !.reads = ring.reads - 1]
    <3>1. t \in Ring /\ t.interrupts \in Nat
      BY <1>1, <1>2 DEF Ring
    <3>2. ring' = [t EXCEPT !.interrupts = t.interrupts + 1]
      BY <2>1 DEF Ring
    <3>. HIDE DEF t
    <3>3. PICK x \in Nat : x = t.interrupts + 1
      BY <3>1
    <3>4. ring' = [t EXCEPT !.interrupts = x]
      BY <3>2, <3>3
    <3>. QED
      BY <3>1, <3>4 DEF Ring
  <2>3. /\ ring'.sq = ring.sq /\ ring'.op = ring.op
        /\ ring'.reads = ring.reads - 1 /\ ring'.interrupts = ring.interrupts + 1
    BY <2>1 DEF Ring
  <2>. QED
    BY <1>1, <2>2, <2>3
<1>3. CASE ~ ring.reads > 0
  <2>1. ring' = [ring EXCEPT !.signals = 1]
    BY <1>3 DEF Wakeup
  <2>2. ring' \in Ring
    BY <2>1 DEF Ring
  <2>3. /\ ring'.sq = ring.sq /\ ring'.op = ring.op
        /\ ring'.reads = ring.reads /\ ring'.interrupts = ring.interrupts
    BY <2>1 DEF Ring
  <2>. QED
    BY <2>2, <2>3
<1>. QED
  BY <1>2, <1>3

LEMMA TypeNext == TypeOK /\ [Next]_vars => TypeOK'
<1>. SUFFICES ASSUME TypeOK, [Next]_vars PROVE TypeOK'
  OBVIOUS
<1>0. FiberType /\ PoolType /\ RingType /\ LoopType /\ registered \in BOOLEAN
  BY TypeParts
<1>q. Len(ring.sq) \in Nat
  BY <1>0, RingFields DEF RingType
<1>. USE DEF fiberVars, poolVars, loopVars
<1>1. ASSUME Select \/ FlushEnd \/ SelectReturn \/ Unblock \/ Expire \/ GiveBack \/ FlushUser \/ Escape
      PROVE  TypeOK'
  <2>1. RingType'
    <3>1. CASE Select
      BY <3>1, <1>q, AcceptedType DEF Select
    <3>. QED
      BY <3>1, <1>0, <1>1 DEF RingType, FlushEnd, SelectReturn, Unblock, Expire, GiveBack, FlushUser, Escape
  <2>2. FiberType' /\ PoolType' /\ LoopType' /\ registered' \in BOOLEAN
    BY <1>0, <1>1 DEF FiberType, PoolType, LoopType,
       Select, FlushEnd, SelectReturn, Unblock, Expire, GiveBack, FlushUser, Escape
  <2>. QED
    BY <2>1, <2>2, TypePartsNext
<1>2. ASSUME ProcessInterrupt \/ Wakeup
      PROVE  TypeOK'
  <2>1. RingType'
    <3>1. CASE ProcessInterrupt
      BY <1>0, <3>1 DEF RingType, Ring, ProcessInterrupt
    <3>2. CASE Wakeup
      BY <1>0, <3>2, WakeupCounters DEF RingType
    <3>. QED
      BY <1>2, <3>1, <3>2
  <2>2. FiberType' /\ PoolType' /\ LoopType' /\ registered' \in BOOLEAN
    BY <1>0, <1>2 DEF FiberType, PoolType, LoopType, ProcessInterrupt, Wakeup
  <2>. QED
    BY <2>1, <2>2, TypePartsNext
<1>3. ASSUME NEW c \in Completions, ProcessCompletion(c)
      PROVE  TypeOK'
  <2>1. RingType'
    BY <1>0, <1>3 DEF RingType, Ring, ProcessCompletion
  <2>2. PoolType'
    BY <1>0, <1>3, ReleaseType DEF ProcessCompletion
  <2>3. FiberType' /\ LoopType' /\ registered' \in BOOLEAN
    BY <1>0, <1>3, SetsAssumption
    DEF ProcessCompletion, Goto, Processing, FiberType, LoopType, PoolType, Places
  <2>. QED
    BY <2>1, <2>2, <2>3, TypePartsNext
<1>4. ASSUME Block
      PROVE  TypeOK'
  <2>. DEFINE a == Accepted(ring, Len(ring.sq))
  <2>1. a \in Ring /\ Len(a.sq) = 0
    BY <1>q, AcceptedTaken
  <2>2. ring' = IF registered THEN a ELSE Register(a)
    BY <1>4 DEF Block
  <2>. HIDE DEF a
  <2>3. RingType'
    BY <2>1, <2>2, RegisterType, BoundsAssumption DEF RingType
  <2>4. FiberType' /\ PoolType' /\ LoopType' /\ registered' \in BOOLEAN
    BY <1>0, <1>4 DEF FiberType, PoolType, LoopType, Block
  <2>. QED
    BY <2>3, <2>4, TypePartsNext
<1>5. ASSUME NEW f \in Fibers, FlushStep(f) \/ Resume(f) \/ Raise(f)
      PROVE  TypeOK'
  <2>1. RingType' /\ PoolType' /\ registered' \in BOOLEAN
    BY <1>0, <1>5 DEF RingType, PoolType, FlushStep, Resume, Raise, SwitchTo
  <2>2. FiberType' /\ LoopType'
    BY <1>0, <1>5 DEF FiberType, LoopType, FlushStep, Resume, Raise, SwitchTo, Goto, Places
  <2>. QED
    BY <2>1, <2>2, TypePartsNext
<1>6. ASSUME NEW f \in Fibers, NEW k \in Kinds, Begin(f, k)
      PROVE  TypeOK'
  <2>1. PoolType'
    BY <1>0, <1>6, AcquireType DEF Begin, PoolType
  <2>2. RingType' /\ registered' \in BOOLEAN
    BY <1>0, <1>6 DEF RingType, Begin
  <2>3. FiberType' /\ LoopType'
    BY <1>0, <1>6 DEF FiberType, LoopType, Begin, Goto, Places
  <2>. QED
    BY <2>1, <2>2, <2>3, TypePartsNext
<1>7. ASSUME NEW f \in Fibers, Prepare(f)
      PROVE  TypeOK'
  <2>1. RingType'
    BY <1>7, PrepareType
  <2>2. FiberType' /\ PoolType' /\ LoopType' /\ registered' \in BOOLEAN
    BY <1>0, <1>7 DEF FiberType, PoolType, LoopType, Prepare, WaitInLoop, Goto, Places
  <2>. QED
    BY <2>1, <2>2, TypePartsNext
<1>8. ASSUME NEW f \in Fibers, Refused(f)
      PROVE  TypeOK'
  <2>1. PICK n \in 0 .. Len(ring.sq) - 1 : ring' = Accepted(ring, n)
    BY <1>8 DEF Refused
  <2>2. RingType'
    BY <2>1, <1>q, AcceptedType
  <2>3. FiberType' /\ PoolType' /\ LoopType' /\ registered' \in BOOLEAN
    BY <1>0, <1>8 DEF FiberType, PoolType, LoopType, Refused, Yield, Goto, Places
  <2>. QED
    BY <2>2, <2>3, TypePartsNext
<1>9. ASSUME NEW f \in Fibers, Submitted(f)
      PROVE  TypeOK'
  <2>1. RingType'
    BY <1>9, <1>q, AcceptedType DEF Submitted
  <2>2. PoolType'
    BY <1>0, <1>9, WaitingCancelType DEF Submitted, PoolType
  <2>3. FiberType' /\ LoopType' /\ registered' \in BOOLEAN
    BY <1>0, <1>9 DEF FiberType, LoopType, Submitted, Goto, WaitInLoop, Return, Places
  <2>. QED
    BY <2>1, <2>2, <2>3, TypePartsNext
<1>10. ASSUME NEW f \in Fibers, Leave(f)
       PROVE  TypeOK'
  <2>1. PoolType'
    BY <1>0, <1>10, WaitingCancelType DEF Leave, PoolType
  <2>2. RingType' /\ FiberType' /\ LoopType' /\ registered' \in BOOLEAN
    BY <1>0, <1>10 DEF RingType, FiberType, LoopType, Leave, Goto, Return, Places
  <2>. QED
    BY <2>1, <2>2, TypePartsNext
<1>11. ASSUME NEW c \in Completions, Complete(c)
       PROVE  TypeOK'
  <2>1. RingType'
    BY <1>0, <1>11 DEF RingType, Ring, Complete
  <2>2. FiberType' /\ PoolType' /\ LoopType' /\ registered' \in BOOLEAN
    BY <1>0, <1>11 DEF FiberType, PoolType, LoopType, Complete
  <2>. QED
    BY <2>1, <2>2, TypePartsNext
<1>12. ASSUME UNCHANGED vars
       PROVE  TypeOK'
  BY <1>12 DEF vars, TypeOK
<1>. QED
  BY <1>1, <1>2, <1>3, <1>4, <1>5, <1>6, <1>7, <1>8, <1>9, <1>10, <1>11, <1>12
  DEF Next, SelectStep, FiberStep

\* The fibers, completions, ring and loop keep their types: the submission queue never
\* holds more than its entries, whatever is refused.
THEOREM TypeCorrect == Spec => []TypeOK
  BY TypeInit, TypeNext, PTL DEF Spec

(***************************************************************************)
(* The links and the operations in flight                                   *)
(***************************************************************************)

LEMMA QueueDomain ==
    ASSUME NEW r \in Ring
    PROVE  Len(r.sq) \in Nat /\ DOMAIN r.sq = 1 .. Len(r.sq)
  BY RingFields

LEMMA PoolInit == Init => PoolInv
<1>. SUFFICES ASSUME Init PROVE PoolInv
  OBVIOUS
<1>1. DOMAIN ring.sq = {} /\ \A c : Queued(c) = {}
  BY DEF Init, Queued
<1>2. /\ \A c \in Completions : owner[c] = None /\ ring.op[c] = "none"
      /\ \A f \in Fibers : slot[f] = None /\ pc[f] = "idle"
      /\ free = {} /\ limit = 0
  BY DEF Init
<1>. QED
  BY <1>1, <1>2 DEF PoolInv, LinksLive, Unowned, Unslotted, Slotted, Posting, Exclusive,
     CancelsLate, CancelsOwn, NoMissedCompletion

\* Completions stay with their fibers, which go on within their operations, or lose a
\* fiber that has queued its operation.
KeepsOwners ==
    /\ free' = free /\ limit' = limit
    /\ \A c \in Completions :
          \/ /\ owner'[c] = None
             /\ owner[c] # None => pc[owner[c]] \notin {"prepare", "drain"}
          \/ /\ owner'[c] = owner[c]
             /\ owner[c] # None =>
                   /\ pc'[owner[c]] \in {"prepare", "drain"} <=> pc[owner[c]] \in {"prepare", "drain"}
                   /\ pc'[owner[c]] = "cancelPost" <=> pc[owner[c]] = "cancelPost"

\* The kernel takes entries and completes operations meanwhile.
LEMMA SubmitRing ==
    ASSUME TypeOK, TypeOK', PoolInv, KeepsOwners,
           NEW n \in 0 .. Len(ring.sq), Taken(ring'.sq, ring'.op, n)
    PROVE  Unowned' /\ Exclusive' /\ CancelsLate' /\ CancelsOwn'
<1>1. /\ Len(ring.sq) \in Nat /\ DOMAIN ring.sq = 1 .. Len(ring.sq)
      /\ Len(ring'.sq) = Len(ring.sq) - n /\ DOMAIN ring'.sq = 1 .. Len(ring'.sq)
  BY QueueDomain DEF TypeOK, Taken
<1>2. ASSUME NEW c
      PROVE  /\ Queued(c) \subseteq 1 .. Len(ring.sq)
             /\ Queued(c)' = {i \in 1 .. Len(ring'.sq) : n + i \in Queued(c)}
  BY <1>1 DEF Queued, Taken
<1>3. \A c \in Completions :
         ring'.op[c] = "none" <=> ring.op[c] = "none" /\ \A i \in Queued(c) : n < i
  BY <1>1 DEF Queued, Taken
<1>4. 1 .. limit \subseteq Completions /\ limit' = limit /\ free' = free
  BY BoundsAssumption DEF TypeOK, Completions, KeepsOwners
<1>5. Unowned'
  BY <1>2, <1>3, <1>4 DEF PoolInv, Unowned, KeepsOwners, TypeOK
<1>6. Exclusive'
  <2>. SUFFICES ASSUME NEW c \in 1 .. limit
                PROVE  IF c \in free \/ (owner[c] # None /\ pc[owner[c]] \in {"prepare", "drain"})
                       THEN Queued(c)' = {} /\ ring'.op[c] = "none"
                       ELSE \/ Queued(c)' = {} /\ ring'.op[c] # "none"
                            \/ (\E i \in DOMAIN ring'.sq : Queued(c)' = {i}) /\ ring'.op[c] = "none"
    BY <1>4 DEF Exclusive, KeepsOwners
  <2>1. CASE Queued(c) = {}
    BY <2>1, <1>2, <1>3, <1>4 DEF PoolInv, Exclusive
  <2>2. ASSUME NEW i \in DOMAIN ring.sq, Queued(c) = {i}
        PROVE  /\ ~(c \in free \/ (owner[c] # None /\ pc[owner[c]] \in {"prepare", "drain"}))
               /\ ring.op[c] = "none"
               /\ i <= n => Queued(c)' = {} /\ ring'.op[c] # "none"
               /\ i > n => Queued(c)' = {i - n} /\ i - n \in DOMAIN ring'.sq /\ ring'.op[c] = "none"
    <3>1. /\ ~(c \in free \/ (owner[c] # None /\ pc[owner[c]] \in {"prepare", "drain"}))
          /\ ring.op[c] = "none"
      BY <2>2 DEF PoolInv, Exclusive
    <3>2. ASSUME i <= n
          PROVE  Queued(c)' = {} /\ ring'.op[c] # "none"
      <4>1. \A k \in 1 .. Len(ring'.sq) : n + k # i
        BY <3>2, <1>1
      <4>2. Queued(c)' = {}
        BY <4>1, <2>2, <1>2
      <4>3. i \in Queued(c) /\ ~ n < i
        BY <3>2, <2>2, <1>1
      <4>. QED
        BY <4>2, <4>3, <1>3, <1>4
    <3>3. ASSUME i > n
          PROVE  Queued(c)' = {i - n} /\ i - n \in DOMAIN ring'.sq /\ ring'.op[c] = "none"
      BY <3>3, <3>1, <2>2, <1>1, <1>2, <1>3, <1>4
    <3>. QED
      BY <3>1, <3>2, <3>3
  <2>. QED
    BY <2>1, <2>2, <1>1 DEF PoolInv, Exclusive
<1>7. CancelsLate'
  <2>. SUFFICES ASSUME NEW c \in Completions, NEW i \in 1 .. Len(ring'.sq), ring'.sq[i] = CancelOf(c)
                PROVE  \/ owner'[c] = None
                       \/ pc'[owner'[c]] = "cancelPost"
                       \/ ring'.op[c] = "none" /\ \A j \in Queued(c)' : i < j
    BY <1>1 DEF CancelsLate
  <2>1. n + i \in DOMAIN ring.sq /\ ring.sq[n + i] = CancelOf(c)
    BY <1>1 DEF Taken
  <2>2. \/ owner[c] = None
        \/ pc[owner[c]] = "cancelPost"
        \/ ring.op[c] = "none" /\ \A j \in Queued(c) : n + i < j
    BY <2>1 DEF PoolInv, CancelsLate
  <2>3. ASSUME ring.op[c] = "none", \A j \in Queued(c) : n + i < j
        PROVE  ring'.op[c] = "none" /\ \A j \in Queued(c)' : i < j
    <3>1. \A j \in Queued(c) : n < j
      BY <2>3, <1>1, <1>2
    <3>2. \A j \in Queued(c)' : n + i < n + j /\ j \in Nat
      BY <2>3, <1>1, <1>2
    <3>. QED
      BY <3>1, <3>2, <2>3, <1>3
  <2>. QED
    BY <2>2, <2>3 DEF KeepsOwners
<1>8. CancelsOwn'
  <2>. SUFFICES ASSUME NEW c \in Completions, owner[c] # None, pc[owner[c]] # "cancelPost",
                       ring'.op[c] \in {"cancelling", "cancelled"}
                PROVE  FALSE
    BY DEF CancelsOwn, KeepsOwners
  <2>1. ring.op[c] \notin {"cancelling", "cancelled"}
    BY DEF PoolInv, CancelsOwn
  <2>2. PICK i \in 1 .. n : /\ ring.sq[i] = CancelOf(c)
                            /\ \/ ring.op[c] = "running"
                               \/ \E j \in 1 .. i - 1 : ring.sq[j] = StartOf(c)
    BY <2>1 DEF Taken
  <2>3. ring.op[c] = "none" /\ \A j \in Queued(c) : i < j
    BY <2>2, <1>1 DEF PoolInv, CancelsLate
  <2>. QED
    BY <2>2, <2>3, <1>1 DEF Queued
<1>. QED
  BY <1>5, <1>6, <1>7, <1>8

\* Fibers go on within their operations, without touching completions.
KeepsPlaces ==
    /\ UNCHANGED <<kind, poolVars>>
    /\ \A f \in Fibers :
          /\ pc'[f] = "idle" <=> pc[f] = "idle"
          /\ pc'[f] \in {"prepare", "drain"} <=> pc[f] \in {"prepare", "drain"}
          /\ pc'[f] = "cancelPost" <=> pc[f] = "cancelPost"
          /\ pc'[f] = "post" => pc[f] = "post"
          /\ pc'[f] = "wait" => pc[f] = "wait" \/ kind[f] = "io_read"

LEMMA SubmitPool ==
    ASSUME TypeOK, TypeOK', PoolInv, KeepsPlaces,
           NEW n \in 0 .. Len(ring.sq), Taken(ring'.sq, ring'.op, n)
    PROVE  PoolInv'
<1>1. /\ slot' = slot /\ owner' = owner /\ free' = free /\ limit' = limit /\ kind' = kind
  BY DEF KeepsPlaces, poolVars
<1>2. \A c \in Completions : owner[c] # None => owner[c] \in Fibers
  BY DEF TypeOK
<1>3. LinksLive' /\ Unslotted' /\ Slotted' /\ Posting' /\ NoMissedCompletion'
  BY <1>1, <1>2 DEF PoolInv, LinksLive, Unslotted, Slotted, Posting, NoMissedCompletion, KeepsPlaces
<1>4. KeepsOwners
  BY <1>1, <1>2 DEF KeepsOwners, KeepsPlaces
<1>. QED
  BY <1>3, <1>4, SubmitRing DEF PoolInv

\* An operation ends that has been queued, or needs no completion.
LEMMA ReturnPool ==
    ASSUME TypeOK, TypeOK', PoolInv, NEW f \in Fibers, WaitingCancel(f), Return(f),
           pc[f] \in {"post", "leave", "cancelPost"},
           NEW n \in 0 .. Len(ring.sq), Taken(ring'.sq, ring'.op, n)
    PROVE  PoolInv'
<1>1. /\ owner' = IF slot[f] # None THEN [owner EXCEPT ![slot[f]] = None] ELSE owner
      /\ slot' = [slot EXCEPT ![f] = None]
      /\ free' = free /\ limit' = limit
      /\ pc' = [pc EXCEPT ![f] = "idle"]
      /\ kind' = [kind EXCEPT ![f] = None]
  BY DEF WaitingCancel, Return, Goto
<1>2. /\ \A c \in Completions : owner[c] # None => owner[c] \in Fibers /\ slot[owner[c]] = c
      /\ slot[f] # None => slot[f] \in Completions /\ owner[slot[f]] = f
      /\ \A g \in Fibers : slot[g] # None => owner[slot[g]] = g
  BY DEF TypeOK, PoolInv, LinksLive
<1>3. \A c \in Completions : owner[c] = f => owner'[c] = None
  BY <1>1, <1>2, SetsAssumption DEF TypeOK
<1>4. \A c \in Completions : owner[c] # f => owner'[c] = owner[c]
  BY <1>1, <1>2 DEF TypeOK
<1>5. \A g \in Fibers : g # f => slot'[g] = slot[g] /\ pc'[g] = pc[g] /\ kind'[g] = kind[g]
  BY <1>1 DEF TypeOK
<1>6. slot'[f] = None /\ pc'[f] = "idle"
  BY <1>1 DEF TypeOK
<1>7. LinksLive'
  <2>1. ASSUME NEW c \in Completions, owner'[c] # None
        PROVE  slot'[owner'[c]] = c /\ pc'[owner'[c]] # "idle"
    BY <2>1, <1>2, <1>3, <1>4, <1>5 DEF PoolInv, LinksLive
  <2>2. ASSUME NEW g \in Fibers, slot'[g] # None
        PROVE  owner'[slot'[g]] = g
    <3>1. g # f /\ slot'[g] = slot[g] /\ slot[g] \in Completions
      BY <2>2, <1>5, <1>6 DEF TypeOK
    <3>. QED
      BY <3>1, <2>2, <1>2, <1>4
  <2>. QED
    BY <2>1, <2>2 DEF LinksLive
<1>8. Unslotted' /\ Slotted' /\ Posting' /\ NoMissedCompletion'
  BY <1>5, <1>6 DEF PoolInv, Unslotted, Slotted, Posting, NoMissedCompletion
<1>9. KeepsOwners
  BY <1>1, <1>2, <1>3, <1>4, <1>5 DEF KeepsOwners
<1>. QED
  BY <1>7, <1>8, <1>9, SubmitRing DEF PoolInv

\* select finds the result of an operation, releases its completion and resumes its
\* fiber, if there is one.
LEMMA ProcessPool ==
    ASSUME TypeOK, TypeOK', PoolInv, NEW c \in Completions, ProcessCompletion(c)
    PROVE  PoolInv'
<1>1. /\ ring' = [ring EXCEPT !.op[c] = "none"]
      /\ owner' = [owner EXCEPT ![c] = None]
      /\ slot' = IF owner[c] # None THEN [slot EXCEPT ![owner[c]] = None] ELSE slot
      /\ free' = free \cup {c}
      /\ limit' = limit /\ kind' = kind
      /\ pc' = IF owner[c] # None /\ pc[owner[c]] = "wait" THEN [pc EXCEPT ![owner[c]] = "leave"] ELSE pc
      /\ ring.op[c] # "none"
  BY DEF ProcessCompletion, Release, Goto
<1>2. /\ \A d : Queued(d)' = Queued(d)
      /\ ring'.sq = ring.sq /\ ring'.op[c] = "none"
      /\ \A d \in Completions : d # c => ring'.op[d] = ring.op[d]
  BY <1>1 DEF Queued, TypeOK, Ring
<1>3. /\ c \in 1 .. limit /\ c \notin free /\ Queued(c) = {}
      /\ owner[c] # None => pc[owner[c]] \notin {"prepare", "drain"}
  BY <1>1, BoundsAssumption DEF PoolInv, Unowned, Exclusive, Completions, TypeOK
<1>4. /\ \A d \in Completions : owner[d] # None => owner[d] \in Fibers /\ slot[owner[d]] = d
      /\ \A g \in Fibers : slot[g] # None => slot[g] \in Completions /\ owner[slot[g]] = g
  BY DEF TypeOK, PoolInv, LinksLive
<1>5. /\ owner'[c] = None
      /\ \A d \in Completions : d # c => owner'[d] = owner[d]
  BY <1>1 DEF TypeOK
<1>6. \A g \in Fibers : /\ slot[g] = c => slot'[g] = None /\ pc'[g] # "wait"
                        /\ slot[g] # c => slot'[g] = slot[g] /\ pc'[g] = pc[g]
                        /\ pc'[g] = pc[g] \/ (pc[g] = "wait" /\ pc'[g] = "leave")
  BY <1>1, <1>4, SetsAssumption DEF TypeOK
<1>7. LinksLive'
  <2>1. ASSUME NEW d \in Completions, owner'[d] # None
        PROVE  slot'[owner'[d]] = d /\ pc'[owner'[d]] # "idle"
    BY <2>1, <1>4, <1>5, <1>6 DEF PoolInv, LinksLive
  <2>2. ASSUME NEW g \in Fibers, slot'[g] # None
        PROVE  owner'[slot'[g]] = g
    BY <2>2, <1>4, <1>5, <1>6
  <2>. QED
    BY <2>1, <2>2 DEF LinksLive
<1>8. Unslotted' /\ Slotted' /\ Posting' /\ NoMissedCompletion'
  <2>1. Slotted'
    BY <1>1, <1>3, <1>4, <1>6 DEF PoolInv, Slotted
  <2>2. Unslotted' /\ Posting' /\ NoMissedCompletion'
    BY <1>1, <1>6 DEF PoolInv, Unslotted, Posting, NoMissedCompletion
  <2>. QED
    BY <2>1, <2>2
<1>9. Unowned'
  <2>1. \A d \in free' : d <= limit' /\ owner'[d] = None
    BY <1>1, <1>3, <1>5 DEF PoolInv, Unowned, TypeOK
  <2>2. \A d \in Completions :
           d > limit' => owner'[d] = None /\ ring'.op[d] = "none" /\ Queued(d)' = {}
    BY <1>1, <1>2, <1>5 DEF PoolInv, Unowned
  <2>. QED
    BY <2>1, <2>2 DEF Unowned
<1>10. ASSUME NEW d \in Completions, d # c, owner[d] # None
       PROVE  pc'[owner[d]] = pc[owner[d]]
  BY <1>10, <1>4, <1>6
<1>11. Exclusive'
  <2>1. \A d \in 1 .. limit : d \in Completions
    BY BoundsAssumption DEF TypeOK, Completions
  <2>. QED
    BY <1>1, <1>2, <1>3, <1>5, <1>10, <2>1 DEF PoolInv, Exclusive
<1>12. CancelsLate' /\ CancelsOwn'
  BY <1>2, <1>5, <1>10 DEF PoolInv, CancelsLate, CancelsOwn
<1>. QED
  BY <1>7, <1>8, <1>9, <1>11, <1>12 DEF PoolInv

\* A fiber starts an operation, which gets a completion that is not in use.
LEMMA BeginPool ==
    ASSUME TypeOK, TypeOK', PoolInv, NEW f \in Fibers, NEW k \in Kinds, Begin(f, k)
    PROVE  PoolInv'
<1>1. /\ pc[f] = "idle" /\ ring' = ring
      /\ pc' = [pc EXCEPT ![f] = "prepare"]
      /\ kind' = [kind EXCEPT ![f] = k]
  BY DEF Begin, Goto
<1>2. /\ pc'[f] = "prepare" /\ kind'[f] = k
      /\ \A g \in Fibers : g # f => pc'[g] = pc[g] /\ kind'[g] = kind[g]
  BY <1>1 DEF TypeOK
<1>3. /\ slot[f] = None
      /\ \A d \in Completions : owner[d] # f
      /\ \A d \in Completions : owner[d] # None => owner[d] \in Fibers
      /\ 1 .. limit \subseteq Completions
  BY <1>1, BoundsAssumption, SetsAssumption DEF PoolInv, Unslotted, LinksLive, TypeOK, Completions
<1>4. \A d : Queued(d)' = Queued(d)
  BY <1>1 DEF Queued
<1>5. CASE k = "io_close"
  <2>1. slot' = slot /\ owner' = owner /\ free' = free /\ limit' = limit
    BY <1>5 DEF Begin, poolVars
  <2>2. LinksLive' /\ Unslotted' /\ Slotted' /\ Posting' /\ NoMissedCompletion'
    BY <1>2, <1>3, <1>5, <2>1
    DEF PoolInv, LinksLive, Unslotted, Slotted, Posting, NoMissedCompletion
  <2>3. Unowned' /\ Exclusive' /\ CancelsLate' /\ CancelsOwn'
    BY <1>1, <1>2, <1>3, <1>4, <2>1 DEF PoolInv, Unowned, Exclusive, CancelsLate, CancelsOwn
  <2>. QED
    BY <2>2, <2>3 DEF PoolInv
<1>6. CASE k # "io_close"
  <2>. DEFINE reuse == Cardinality(free) > 1
              c == IF reuse THEN CHOOSE d \in free : TRUE ELSE limit + 1
  <2>1. reuse => c \in free
    <3>1. reuse => free # {}
      BY FS_EmptySet
    <3>. QED
      BY <3>1
  <2>2. /\ c \in Completions
        /\ free' = free \ {c}
        /\ limit' = IF reuse THEN limit ELSE c
        /\ slot' = [slot EXCEPT ![f] = c]
        /\ owner' = [owner EXCEPT ![c] = f]
    BY <1>6 DEF Begin, Acquire
  <2>3. ~ reuse => c = limit + 1
    OBVIOUS
  <2>. HIDE DEF reuse, c
  <2>4. /\ c \in 1 .. limit' /\ c \notin free'
        /\ \A d \in Completions : d # c => (d \in free' <=> d \in free) /\ (d > limit' <=> d > limit)
        /\ limit \in 0 .. Limit
    BY <2>1, <2>2, <2>3, BoundsAssumption DEF TypeOK, Completions, PoolInv, Unowned
  <2>5. owner[c] = None /\ ring.op[c] = "none" /\ Queued(c) = {}
    <3>1. CASE reuse
      BY <3>1, <2>1, <2>2, BoundsAssumption DEF PoolInv, Unowned, Exclusive, Completions, TypeOK
    <3>2. CASE ~ reuse
      BY <3>2, <2>2, <2>3, <2>4 DEF PoolInv, Unowned
    <3>. QED
      BY <3>1, <3>2
  <2>6. /\ owner'[c] = f /\ slot'[f] = c
        /\ \A d \in Completions : d # c => owner'[d] = owner[d]
        /\ \A g \in Fibers : g # f => slot'[g] = slot[g]
    BY <2>2 DEF TypeOK
  <2>7. LinksLive'
    <3>1. ASSUME NEW d \in Completions, owner'[d] # None
          PROVE  slot'[owner'[d]] = d /\ pc'[owner'[d]] # "idle"
      BY <3>1, <1>2, <1>3, <2>6 DEF PoolInv, LinksLive
    <3>2. ASSUME NEW g \in Fibers, slot'[g] # None
          PROVE  owner'[slot'[g]] = g
      <4>1. CASE g = f
        BY <4>1, <2>6
      <4>2. CASE g # f
        <5>1. slot'[g] = slot[g] /\ slot[g] \in Completions /\ owner[slot[g]] = g
          BY <4>2, <3>2, <2>6 DEF PoolInv, LinksLive, TypeOK
        <5>2. slot[g] # c
          BY <5>1, <2>5, SetsAssumption
        <5>. QED
          BY <5>1, <5>2, <2>6
      <4>. QED
        BY <4>1, <4>2
    <3>. QED
      BY <3>1, <3>2 DEF LinksLive
  <2>8. Unslotted' /\ Slotted' /\ Posting' /\ NoMissedCompletion'
    BY <1>2, <1>6, <2>2, <2>6, SetsAssumption DEF PoolInv, Unslotted, Slotted, Posting, NoMissedCompletion
  <2>9. Unowned'
    <3>1. \A d \in free' : d \in free /\ d # c /\ d \in Completions
      BY <2>2 DEF TypeOK
    <3>2. \A d \in free' : d <= limit'
      BY <3>1, <2>4 DEF PoolInv, Unowned, Completions, TypeOK
    <3>3. \A d \in free' : owner'[d] = None
      BY <3>1, <2>6 DEF PoolInv, Unowned
    <3>4. \A d \in Completions :
             d > limit' => owner'[d] = None /\ ring'.op[d] = "none" /\ Queued(d)' = {}
      <4>1. ~ c > limit'
        BY <2>4 DEF TypeOK
      <4>. QED
        BY <4>1, <1>1, <1>4, <2>4, <2>6 DEF PoolInv, Unowned
    <3>. QED
      BY <3>2, <3>3, <3>4 DEF Unowned
  <2>10. ASSUME NEW d \in Completions, d # c, owner[d] # None
         PROVE  pc'[owner[d]] = pc[owner[d]]
    BY <2>10, <1>2, <1>3
  <2>11. Exclusive'
    <3>1. \A d \in 1 .. limit' : d = c \/ (d \in 1 .. limit /\ d \in Completions)
      BY <2>2, <2>3, <2>4, <1>3
    <3>. QED
      BY <1>1, <1>2, <1>4, <2>4, <2>5, <2>6, <2>10, <3>1, SetsAssumption DEF PoolInv, Exclusive
  <2>12. CancelsLate' /\ CancelsOwn'
    BY <1>1, <1>4, <2>5, <2>6, <2>10 DEF PoolInv, CancelsLate, CancelsOwn
  <2>. QED
    BY <2>7, <2>8, <2>9, <2>11, <2>12 DEF PoolInv
<1>. QED
  BY <1>5, <1>6

\* A fiber queues its operation or its cancellation.
LEMMA PreparePool ==
    ASSUME TypeOK, TypeOK', PoolInv, NEW f \in Fibers, Prepare(f)
    PROVE  PoolInv'
<1>. DEFINE e == Entry(f)
            last == Len(ring.sq) + 1
<1>1. /\ pc[f] \in {"prepare", "cancelPrepare"}
      /\ ring' = [ring EXCEPT !.sq = Append(ring.sq, e)]
      /\ slot' = slot /\ owner' = owner /\ free' = free /\ limit' = limit /\ kind' = kind
      /\ pc' = [pc EXCEPT ![f] = IF pc[f] = "cancelPrepare" THEN "cancelPost"
                                 ELSE IF kind[f] \in {"io_read", "io_close"} THEN "post" ELSE "wait"]
  BY DEF Prepare, WaitInLoop, Goto, poolVars
<1>2. /\ e = IF pc[f] = "cancelPrepare" THEN CancelOf(slot[f])
             ELSE IF kind[f] = "io_close" THEN Close ELSE StartOf(slot[f])
  BY <1>1 DEF Entry
<1>. HIDE DEF e
<1>3. /\ Len(ring.sq) \in Nat /\ DOMAIN ring.sq = 1 .. Len(ring.sq)
      /\ DOMAIN ring'.sq = 1 .. last
      /\ \A i \in 1 .. Len(ring.sq) : ring'.sq[i] = ring.sq[i]
      /\ ring'.sq[last] = e
      /\ ring'.op = ring.op
  <2>1. ring.sq \in Seq(SQE) /\ Len(ring.sq) \in Nat
    BY RingFields DEF TypeOK
  <2>2. ring'.sq = Append(ring.sq, e) /\ ring'.op = ring.op
    BY <1>1 DEF TypeOK, Ring
  <2>. QED
    BY <2>1, <2>2
<1>4. /\ \A d : e = StartOf(d) => Queued(d)' = Queued(d) \cup {last}
      /\ \A d : e # StartOf(d) => Queued(d)' = Queued(d)
  BY <1>3 DEF Queued
<1>5. /\ \A g \in Fibers : g # f => pc'[g] = pc[g]
      /\ pc'[f] = IF pc[f] = "cancelPrepare" THEN "cancelPost"
                  ELSE IF kind[f] \in {"io_read", "io_close"} THEN "post" ELSE "wait"
  BY <1>1 DEF TypeOK
<1>6. \A d \in Completions : owner[d] # None => owner[d] \in Fibers /\ slot[owner[d]] = d
  BY DEF PoolInv, LinksLive, TypeOK
<1>7. LinksLive' /\ Unslotted' /\ Slotted' /\ Posting' /\ NoMissedCompletion'
  <2>1. LinksLive' /\ Unslotted'
    BY <1>1, <1>5, <1>6 DEF PoolInv, LinksLive, Unslotted
  <2>2. Slotted' /\ Posting' /\ NoMissedCompletion'
    BY <1>1, <1>5 DEF PoolInv, Slotted, Posting, NoMissedCompletion
  <2>. QED
    BY <2>1, <2>2
<1>8. CASE pc[f] = "prepare" /\ kind[f] # "io_close"
  <2>0. PICK c \in Completions : c = slot[f]
    BY <1>8 DEF PoolInv, Slotted, TypeOK
  <2>1. owner[c] = f /\ e = StartOf(c) /\ pc'[f] \in {"post", "wait"}
    BY <1>2, <1>5, <1>8, <2>0, SetsAssumption DEF PoolInv, LinksLive
  <2>2. c \in 1 .. limit /\ c \notin free
    BY <2>1, BoundsAssumption, SetsAssumption DEF PoolInv, Unowned, Completions, TypeOK
  <2>3. Queued(c) = {} /\ ring.op[c] = "none" /\ Queued(c)' = {last}
    <3>1. owner[c] # None /\ pc[owner[c]] \in {"prepare", "drain"}
      BY <1>8, <2>1, SetsAssumption
    <3>2. Queued(c) = {} /\ ring.op[c] = "none"
      BY <3>1, <2>2 DEF PoolInv, Exclusive
    <3>. QED
      BY <3>2, <1>4, <2>1
  <2>4. \A d : d # c => Queued(d)' = Queued(d)
    BY <1>4, <2>1, EntriesDiffer
  <2>5. ASSUME NEW d \in Completions, d # c, owner[d] # None
        PROVE  pc'[owner[d]] = pc[owner[d]]
    <3>1. owner[d] # f
      BY <2>0, <2>5, <1>6
    <3>. QED
      BY <3>1, <1>5, <1>6, <2>5
  <2>6. Unowned'
    <3>1. ~ c > limit
      BY <2>2 DEF TypeOK
    <3>. QED
      BY <3>1, <1>1, <1>3, <2>4 DEF PoolInv, Unowned
  <2>7. Exclusive'
    <3>1. \A d \in 1 .. limit : d \in Completions
      BY BoundsAssumption DEF TypeOK, Completions
    <3>2. last \in DOMAIN ring'.sq
      BY <1>3
    <3>3. ASSUME NEW d \in 1 .. limit, d # c
          PROVE  IF d \in free \/ (owner[d] # None /\ pc'[owner[d]] \in {"prepare", "drain"})
                 THEN Queued(d)' = {} /\ ring'.op[d] = "none"
                 ELSE \/ Queued(d)' = {} /\ ring'.op[d] # "none"
                      \/ (\E i \in DOMAIN ring'.sq : Queued(d)' = {i}) /\ ring'.op[d] = "none"
      <4>1. DOMAIN ring.sq \subseteq DOMAIN ring'.sq
        BY <1>3
      <4>. QED
        BY <4>1, <3>1, <3>3, <1>3, <2>4, <2>5 DEF PoolInv, Exclusive
    <3>. QED
      BY <3>2, <3>3, <1>1, <1>3, <2>1, <2>2, <2>3, SetsAssumption DEF Exclusive
  <2>8. CancelsLate'
    <3>. SUFFICES ASSUME NEW d \in Completions, NEW i \in 1 .. last, ring'.sq[i] = CancelOf(d)
                  PROVE  \/ owner[d] = None
                         \/ pc'[owner[d]] = "cancelPost"
                         \/ ring.op[d] = "none" /\ \A j \in Queued(d)' : i < j
      BY <1>1, <1>3 DEF CancelsLate
    <3>1. i \in 1 .. Len(ring.sq) /\ ring.sq[i] = CancelOf(d) /\ i < last
      <4>1. i # last
        BY <1>3, <2>1, EntriesDiffer
      <4>. QED
        BY <4>1, <1>3
    <3>2. CASE d = c
      BY <3>1, <3>2, <2>3
    <3>3. CASE d # c
      BY <3>1, <3>3, <1>3, <2>4, <2>5 DEF PoolInv, CancelsLate
    <3>. QED
      BY <3>2, <3>3
  <2>9. CancelsOwn'
    BY <1>1, <1>3, <2>3, <2>5 DEF PoolInv, CancelsOwn
  <2>. QED
    BY <1>7, <2>6, <2>7, <2>8, <2>9 DEF PoolInv
<1>9. CASE ~ (pc[f] = "prepare" /\ kind[f] # "io_close")
  <2>1. \A d : e # StartOf(d)
    BY <1>1, <1>2, <1>9, EntriesDiffer
  <2>2. \A d : Queued(d)' = Queued(d)
    BY <1>4, <2>1
  <2>3. ASSUME NEW d \in Completions, owner[d] # None
        PROVE  /\ pc'[owner[d]] \in {"prepare", "drain"} <=> pc[owner[d]] \in {"prepare", "drain"}
               /\ pc[owner[d]] = "cancelPost" => pc'[owner[d]] = "cancelPost"
               /\ pc'[owner[d]] = pc[owner[d]] \/ pc'[owner[d]] = "cancelPost"
    <3>1. CASE pc[f] = "cancelPrepare"
      BY <3>1, <1>5, <1>6, <2>3
    <3>2. CASE pc[f] = "prepare"
      <4>1. slot[f] = None
        BY <3>2, <1>9 DEF PoolInv, Unslotted
      <4>2. owner[d] # f
        BY <4>1, <1>6, <2>3, SetsAssumption
      <4>. QED
        BY <4>2, <1>5, <1>6, <2>3
    <3>. QED
      BY <3>1, <3>2, <1>1
  <2>4. Unowned'
    BY <1>1, <1>3, <2>2 DEF PoolInv, Unowned
  <2>5. Exclusive'
    <3>1. \A d \in 1 .. limit : d \in Completions
      BY BoundsAssumption DEF TypeOK, Completions
    <3>2. DOMAIN ring.sq \subseteq DOMAIN ring'.sq
      BY <1>3
    <3>. QED
      BY <1>1, <1>3, <2>2, <2>3, <3>1, <3>2 DEF PoolInv, Exclusive
  <2>6. CancelsLate'
    <3>. SUFFICES ASSUME NEW d \in Completions, NEW i \in 1 .. last, ring'.sq[i] = CancelOf(d),
                         owner[d] # None
                  PROVE  \/ pc'[owner[d]] = "cancelPost"
                         \/ ring.op[d] = "none" /\ \A j \in Queued(d) : i < j
      BY <1>1, <1>3, <2>2 DEF CancelsLate
    <3>1. CASE i = last
      <4>1. pc[f] = "cancelPrepare" /\ slot[f] = d
        BY <3>1, <1>1, <1>2, <1>3, <1>9, EntriesDiffer
      <4>2. owner[d] = f
        BY <4>1, SetsAssumption DEF PoolInv, LinksLive
      <4>. QED
        BY <4>1, <4>2, <1>5
    <3>2. CASE i # last
      <4>1. i \in DOMAIN ring.sq /\ ring.sq[i] = CancelOf(d)
        BY <3>2, <1>3
      <4>. QED
        BY <4>1, <2>3 DEF PoolInv, CancelsLate
    <3>. QED
      BY <3>1, <3>2
  <2>7. CancelsOwn'
    BY <1>1, <1>3, <2>3 DEF PoolInv, CancelsOwn
  <2>. QED
    BY <1>7, <2>4, <2>5, <2>6, <2>7 DEF PoolInv
<1>. QED
  BY <1>8, <1>9

\* A step that leaves the operations alone.
LEMMA QuietPool ==
    ASSUME TypeOK, TypeOK', PoolInv, KeepsPlaces, ring'.sq = ring.sq, ring'.op = ring.op
    PROVE  PoolInv'
<1>1. Taken(ring'.sq, ring'.op, 0)
  BY NothingTaken
<1>2. 0 \in 0 .. Len(ring.sq)
  BY QueueDomain DEF TypeOK
<1>. QED
  BY <1>1, <1>2, SubmitPool

LEMMA PoolNext ==
    ASSUME MayUnwind = FALSE, TypeOK, TypeOK', PoolInv, [Next]_vars
    PROVE  PoolInv'
<1>0. /\ Len(ring.sq) \in Nat /\ Len(ring.sq) \in 0 .. Len(ring.sq) /\ 0 \in 0 .. Len(ring.sq)
      /\ pc \in [Fibers -> Places]
  BY QueueDomain DEF TypeOK
<1>. USE DEF fiberVars, poolVars, loopVars
<1>1. ASSUME FlushEnd \/ SelectReturn \/ Unblock \/ Expire \/ GiveBack \/ FlushUser \/ Escape \/ UNCHANGED vars
      PROVE  PoolInv'
  BY <1>1, QuietPool
  DEF KeepsPlaces, vars, FlushEnd, SelectReturn, Unblock, Expire, GiveBack, FlushUser, Escape
<1>2. ASSUME ProcessInterrupt \/ Wakeup
      PROVE  PoolInv'
  <2>1. ring'.sq = ring.sq /\ ring'.op = ring.op
    BY <1>2, WakeupCounters DEF ProcessInterrupt, TypeOK, Ring
  <2>2. KeepsPlaces
    BY <1>2 DEF KeepsPlaces, ProcessInterrupt, Wakeup
  <2>. QED
    BY <2>1, <2>2, QuietPool
<1>3. ASSUME Select
      PROVE  PoolInv'
  <2>1. Taken(ring'.sq, ring'.op, Len(ring.sq)) /\ KeepsPlaces
    BY <1>0, <1>3, AcceptedTaken DEF Select, KeepsPlaces
  <2>. QED
    BY <2>1, <1>0, SubmitPool
<1>4. ASSUME Block
      PROVE  PoolInv'
  <2>. DEFINE a == Accepted(ring, Len(ring.sq))
  <2>1. a \in Ring /\ Taken(a.sq, a.op, Len(ring.sq))
    BY <1>0, AcceptedTaken
  <2>2. ring' = IF registered THEN a ELSE Register(a)
    BY <1>4 DEF Block
  <2>. HIDE DEF a
  <2>3. ring'.sq = a.sq /\ ring'.op = a.op
    BY <2>1, <2>2, RegisterType
  <2>4. KeepsPlaces
    BY <1>4 DEF Block, KeepsPlaces
  <2>. QED
    BY <2>1, <2>3, <2>4, <1>0, SubmitPool
<1>5. ASSUME NEW c \in Completions, Complete(c)
      PROVE  PoolInv'
  <2>1. ring'.sq = ring.sq /\ \A d \in Completions : d # c => ring'.op[d] = ring.op[d]
    BY <1>5 DEF Complete, TypeOK, Ring
  <2>2. /\ ring.op[c] # "none" /\ ring'.op[c] # "none"
        /\ ring'.op[c] \in {"cancelling", "cancelled"} => ring.op[c] = "cancelling"
    BY <1>5 DEF Complete, TypeOK, Ring
  <2>3. Taken(ring'.sq, ring'.op, 0)
    BY <2>1, <2>2, <1>0 DEF Taken
  <2>4. KeepsPlaces
    BY <1>5 DEF Complete, KeepsPlaces
  <2>. QED
    BY <2>3, <2>4, <1>0, SubmitPool
<1>6. ASSUME NEW c \in Completions, ProcessCompletion(c)
      PROVE  PoolInv'
  BY <1>6, ProcessPool
<1>7. ASSUME NEW f \in Fibers, FlushStep(f) \/ Resume(f) \/ Raise(f)
      PROVE  PoolInv'
  <2>1. KeepsPlaces
    <3>1. CASE FlushStep(f)
      BY <3>1 DEF FlushStep, KeepsPlaces
    <3>2. CASE Resume(f)
      BY <3>2, <1>0 DEF Resume, SwitchTo, Goto, KeepsPlaces
    <3>3. CASE Raise(f)
      <4>1. pc[f] = "post" /\ kind[f] = "io_read"
        BY <3>3 DEF Raise
      <4>. QED
        BY <3>3, <4>1, <1>0 DEF Raise, SwitchTo, Goto, KeepsPlaces
    <3>. QED
      BY <3>1, <3>2, <3>3, <1>7
  <2>2. ring' = ring
    BY <1>7 DEF FlushStep, Resume, Raise
  <2>. QED
    BY <2>1, <2>2, QuietPool
<1>8. ASSUME NEW f \in Fibers, NEW k \in Kinds, Begin(f, k)
      PROVE  PoolInv'
  BY <1>8, BeginPool
<1>9. ASSUME NEW f \in Fibers, Prepare(f)
      PROVE  PoolInv'
  BY <1>9, PreparePool
<1>10. ASSUME NEW f \in Fibers, Refused(f)
       PROVE  PoolInv'
  <2>1. PICK n \in 0 .. Len(ring.sq) - 1 : ring' = Accepted(ring, n)
    BY <1>10 DEF Refused
  <2>2. n \in 0 .. Len(ring.sq)
    BY <1>0
  <2>3. Taken(ring'.sq, ring'.op, n)
    BY <2>1, <2>2, AcceptedTaken
  <2>4. KeepsPlaces
    BY <1>0, <1>10 DEF Refused, Submitting, Draining, CancelDraining, Goto, KeepsPlaces
  <2>. QED
    BY <2>2, <2>3, <2>4, SubmitPool
<1>11. ASSUME NEW f \in Fibers, Submitted(f)
       PROVE  PoolInv'
  <2>1. Taken(ring'.sq, ring'.op, Len(ring.sq))
    BY <1>0, <1>11, AcceptedTaken DEF Submitted
  <2>2. CASE Draining(f) \/ CancelDraining(f)
    <3>1. KeepsPlaces
      BY <1>0, <1>11, <2>2 DEF Submitted, Draining, CancelDraining, Goto, KeepsPlaces
    <3>. QED
      BY <3>1, <2>1, <1>0, SubmitPool
  <2>3. CASE pc[f] = "post" /\ kind[f] # "io_close"
    <3>1. kind[f] = "io_read"
      BY <2>3 DEF PoolInv, Posting
    <3>2. KeepsPlaces
      BY <1>0, <1>11, <2>3, <3>1
      DEF Submitted, Draining, CancelDraining, WaitInLoop, Goto, KeepsPlaces
    <3>. QED
      BY <3>2, <2>1, <1>0, SubmitPool
  <2>4. CASE pc[f] = "post" /\ kind[f] = "io_close"
    <3>1. Return(f) /\ UNCHANGED poolVars
      BY <1>11, <2>4 DEF Submitted, Draining, CancelDraining
    <3>2. slot[f] = None
      BY <2>4 DEF PoolInv, Unslotted
    <3>3. WaitingCancel(f)
      BY <3>1, <3>2 DEF WaitingCancel, TypeOK
    <3>. QED
      BY <3>1, <3>3, <2>1, <2>4, <1>0, ReturnPool
  <2>5. CASE pc[f] = "cancelPost"
    <3>1. Return(f) /\ WaitingCancel(f)
      BY <1>11, <2>5 DEF Submitted, Draining, CancelDraining
    <3>. QED
      BY <3>1, <2>1, <2>5, <1>0, ReturnPool
  <2>. QED
    BY <1>11, <2>2, <2>3, <2>4, <2>5 DEF Submitted
<1>12. ASSUME NEW f \in Fibers, Leave(f)
       PROVE  PoolInv'
  <2>1. pc[f] = "leave" /\ ring' = ring
    BY <1>12 DEF Leave
  <2>2. CASE slot[f] # None /\ kind[f] # "process_wait"
    <3>1. KeepsPlaces
      BY <1>0, <1>12, <2>1, <2>2 DEF Leave, Goto, KeepsPlaces
    <3>. QED
      BY <3>1, <2>1, QuietPool
  <2>3. CASE ~ (slot[f] # None /\ kind[f] # "process_wait")
    <3>1. WaitingCancel(f) /\ Return(f)
      BY <1>12, <2>3 DEF Leave
    <3>2. Taken(ring'.sq, ring'.op, 0)
      BY <2>1, NothingTaken
    <3>. QED
      BY <3>1, <3>2, <2>1, <1>0, ReturnPool
  <2>. QED
    BY <2>2, <2>3
<1>. QED
  BY <1>1, <1>2, <1>3, <1>4, <1>5, <1>6, <1>7, <1>8, <1>9, <1>10, <1>11, <1>12
  DEF Next, SelectStep, FiberStep

LEMMA PoolCorrect ==
    ASSUME MayUnwind = FALSE
    PROVE  Spec => []PoolInv
<1>1. Init => TypeOK /\ PoolInv
  BY TypeInit, PoolInit
<1>2. TypeOK /\ PoolInv /\ [Next]_vars => TypeOK' /\ PoolInv'
  BY TypeNext, PoolNext
<1>. QED
  BY <1>1, <1>2, PTL DEF Spec

\* completion->waiting and waiting->completion agree, and point to a frame only while
\* its fiber is in the operation.
THEOREM LinksSafe ==
    ASSUME MayUnwind = FALSE
    PROVE  Spec => []LinksLive
<1>1. PoolInv => LinksLive
  BY DEF PoolInv
<1>. QED
  BY <1>1, PoolCorrect, PTL

\* A completion is neither reused while the kernel may still report it nor lost.
THEOREM CompletionsExclusive ==
    ASSUME MayUnwind = FALSE
    PROVE  Spec => []Exclusive
<1>1. PoolInv => Exclusive
  BY DEF PoolInv
<1>. QED
  BY <1>1, PoolCorrect, PTL

\* A cancellation never ends the operation of another fiber that has been given the
\* completion meanwhile.
THEOREM CancellationsOwn ==
    ASSUME MayUnwind = FALSE
    PROVE  Spec => []CancelsOwn
<1>1. PoolInv => CancelsOwn
  BY DEF PoolInv
<1>. QED
  BY <1>1, PoolCorrect, PTL

\* A fiber that waits in the loop, except in io_read, waits for a completion that is
\* still to come.
THEOREM CompletionsAwaited ==
    ASSUME MayUnwind = FALSE
    PROVE  Spec => []NoMissedCompletion
<1>1. PoolInv => NoMissedCompletion
  BY DEF PoolInv
<1>. QED
  BY <1>1, PoolCorrect, PTL

(***************************************************************************)
(* The read of the interrupt descriptor                                     *)
(***************************************************************************)

WakeInv == WakeupRead /\ LoopSleeps

LEMMA WakeNext == TypeOK /\ WakeInv /\ [Next]_vars => WakeInv'
<1>. SUFFICES ASSUME TypeOK, WakeInv, [Next]_vars PROVE WakeInv'
  OBVIOUS
<1>0. /\ Len(ring.sq) \in Nat /\ Len(ring.sq) \in 0 .. Len(ring.sq)
      /\ ring.reads \in Nat /\ ring.interrupts \in Nat
  BY QueueDomain, RingFields DEF TypeOK
<1>. USE DEF fiberVars, poolVars, loopVars
<1>. DEFINE Same == ring'.reads = ring.reads /\ ring'.interrupts = ring.interrupts
<1>1. ASSUME NEW n \in 0 .. Len(ring.sq), ring' = Accepted(ring, n)
      PROVE  Same
  BY <1>1, AcceptedTaken
<1>2. ASSUME FlushEnd \/ SelectReturn \/ Unblock \/ Expire \/ GiveBack \/ FlushUser \/ Escape \/ UNCHANGED vars
      PROVE  WakeInv'
  BY <1>2 DEF WakeInv, WakeupRead, LoopSleeps, vars,
     FlushEnd, SelectReturn, Unblock, Expire, GiveBack, FlushUser, Escape
<1>3. ASSUME ProcessInterrupt
      PROVE  WakeInv'
  <2>1. /\ ring'.interrupts = ring.interrupts - 1 /\ ring'.reads = ring.reads
        /\ ring.interrupts > 0 /\ registered' = FALSE /\ stage' # "blocked"
    BY <1>3 DEF ProcessInterrupt, Processing, TypeOK, Ring
  <2>2. ring.reads + ring.interrupts = 1
    BY <1>0, <2>1 DEF WakeInv, WakeupRead
  <2>3. ring'.reads + ring'.interrupts = 0
    BY <1>0, <2>1, <2>2
  <2>. QED
    BY <2>1, <2>3 DEF WakeInv, WakeupRead, LoopSleeps
<1>4. ASSUME Wakeup
      PROVE  WakeInv'
  <2>1. ring'.sq = ring.sq /\ ring'.reads + ring'.interrupts = ring.reads + ring.interrupts
    BY <1>4, WakeupCounters DEF TypeOK
  <2>. QED
    BY <1>4, <2>1 DEF Wakeup, WakeInv, WakeupRead, LoopSleeps
<1>5. ASSUME Select
      PROVE  WakeInv'
  <2>1. Same
    BY <1>0, <1>1, <1>5 DEF Select
  <2>. QED
    BY <1>5, <2>1 DEF Select, WakeInv, WakeupRead, LoopSleeps
<1>6. ASSUME Block
      PROVE  WakeInv'
  <2>. DEFINE a == Accepted(ring, Len(ring.sq))
  <2>1. /\ a \in Ring /\ Len(a.sq) = 0
        /\ a.reads = ring.reads /\ a.interrupts = ring.interrupts
    BY <1>0, AcceptedTaken
  <2>2. ring' = IF registered THEN a ELSE Register(a)
    BY <1>6 DEF Block
  <2>. HIDE DEF a
  <2>3. a.sq = <<>>
    BY <2>1, RingFields
  <2>4. ring'.sq = <<>> /\ ring'.reads + ring'.interrupts = 1
    <3>1. CASE registered
      BY <3>1, <2>1, <2>2, <2>3 DEF WakeInv, WakeupRead
    <3>2. CASE ~ registered
      BY <3>2, <1>0, <2>1, <2>2, <2>3, RegisterType DEF WakeInv, WakeupRead
    <3>. QED
      BY <3>1, <3>2
  <2>5. registered' = TRUE /\ run' = Loop
    BY <1>6 DEF Block, Processing
  <2>. QED
    BY <2>4, <2>5 DEF WakeInv, WakeupRead, LoopSleeps
<1>7. ASSUME NEW c \in Completions, Complete(c) \/ ProcessCompletion(c)
      PROVE  WakeInv'
  <2>1. Same /\ ring'.sq = ring.sq
    BY <1>7 DEF Complete, ProcessCompletion, TypeOK, Ring
  <2>. QED
    BY <1>7, <2>1 DEF Complete, ProcessCompletion, Processing, WakeInv, WakeupRead, LoopSleeps
<1>8. ASSUME NEW f \in Fibers, FlushStep(f) \/ Resume(f) \/ Raise(f)
      PROVE  WakeInv'
  BY <1>8, SetsAssumption
  DEF FlushStep, Resume, Raise, SwitchTo, UserRuns, WakeInv, WakeupRead, LoopSleeps
<1>9. ASSUME NEW f \in Fibers, run = f
      PROVE  stage # "blocked"
  BY <1>9, SetsAssumption DEF WakeInv, LoopSleeps
<1>10. ASSUME NEW f \in Fibers, NEW k \in Kinds, Begin(f, k)
       PROVE  WakeInv'
  BY <1>10, SetsAssumption DEF Begin, UserRuns, WakeInv, WakeupRead, LoopSleeps
<1>11. ASSUME NEW f \in Fibers, Prepare(f) \/ Leave(f)
       PROVE  WakeInv'
  <2>1. Same
    BY <1>11 DEF Prepare, Leave, TypeOK, Ring
  <2>2. registered' = registered /\ stage' = stage /\ stage # "blocked"
    BY <1>9, <1>11 DEF Prepare, Leave, WaitInLoop, Return
  <2>. QED
    BY <2>1, <2>2 DEF WakeInv, WakeupRead, LoopSleeps
<1>12. ASSUME NEW f \in Fibers, Refused(f) \/ Submitted(f)
       PROVE  WakeInv'
  <2>1. PICK n \in 0 .. Len(ring.sq) : ring' = Accepted(ring, n)
    BY <1>0, <1>12 DEF Refused, Submitted
  <2>2. Same
    BY <1>1, <2>1
  <2>3. registered' = registered /\ stage' = stage /\ stage # "blocked"
    BY <1>9, <1>12 DEF Refused, Submitted, Yield, WaitInLoop, Return
  <2>. QED
    BY <2>2, <2>3 DEF WakeInv, WakeupRead, LoopSleeps
<1>. QED
  BY <1>2, <1>3, <1>4, <1>5, <1>6, <1>7, <1>8, <1>10, <1>11, <1>12
  DEF Next, SelectStep, FiberStep

\* While wakeup_registered, and only then, one read of the interrupt descriptor is in
\* flight, and select sleeps only when there is one and everything is submitted.
THEOREM WakeupReadSafe == Spec => []WakeupRead
<1>1. Init => TypeOK /\ WakeInv
  BY TypeInit DEF Init, WakeInv, WakeupRead, LoopSleeps
<1>2. TypeOK /\ WakeInv /\ [Next]_vars => TypeOK' /\ WakeInv'
  BY TypeNext, WakeNext
<1>3. WakeInv => WakeupRead
  BY DEF WakeInv
<1>. QED
  BY <1>1, <1>2, <1>3, PTL DEF Spec

=============================================================================
