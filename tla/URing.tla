------------------------------- MODULE URing -------------------------------
(***************************************************************************)
(* The URing selector (ext/io/event/selector/uring.c): fibers put           *)
(* operations into the submission queue of an io_uring, each with a         *)
(* completion as its user data, and are resumed when the loop finds the     *)
(* result in the completion queue.                                          *)
(*                                                                          *)
(* `run` is who has control: the loop, a fiber in an operation, or User,    *)
(* user code in some fiber that select resumed.  A fiber's `pc` is "idle"   *)
(* in user code, otherwise its place in an operation:                       *)
(*   prepare, drain      io_get_sqe, drain while it empties a full queue    *)
(*   post                io_uring_submit_now of the operation               *)
(*   wait                IO_Event_Selector_loop_yield                       *)
(*   leave               the ensure function                                *)
(*   cancelPrepare, cancelDrain, cancelPost   the same for the cancellation *)
(* Submission yields to the loop where the kernel refuses it, so other      *)
(* fibers and the loop run in the middle of an operation.                   *)
(***************************************************************************)
EXTENDS Naturals, Sequences, FiniteSets

CONSTANTS
    Fibers,
    Limit,         \* bounds the array of completions
    Entries,       \* size of the submission queue (URING_ENTRIES)
    Kinds,         \* operations the fibers use
    Loop, User, None,
    MayRefuse,     \* io_uring_submit may fail with EBUSY or EAGAIN
    MayUnwind,     \* an exception may be raised in a fiber that yields in io_get_sqe, or
                   \* in the submission of a cancellation or a close
    MayEscape      \* an exception may leave a fiber that select resumed

Completions == 1 .. Limit

ASSUME BoundsAssumption == Entries \in Nat \ {0} /\ Limit \in Nat
ASSUME SetsAssumption ==
    /\ Kinds \subseteq {"io_wait", "process_wait", "io_read", "io_write", "io_close"}
    /\ Loop # User /\ {Loop, User} \cap Fibers = {}
    /\ None \notin Fibers \cup Completions
ASSUME FlagsAssumption ==
    MayRefuse \in BOOLEAN /\ MayUnwind \in BOOLEAN /\ MayEscape \in BOOLEAN

VARIABLES
    pc,          \* the place of each fiber
    kind,        \* the operation it is in
    slot,        \* waiting->completion
    owner,       \* completion->waiting, the fiber whose frame that is
    free,        \* free_list
    limit,       \* completions.limit: how many there are
    ring,        \* submission queue, operations in the kernel, completion queue
    registered,  \* wakeup_registered
    run,         \* who has control
    ready,       \* fibers in the ready queue that yield in an operation
    pending,     \* those of them the current flush will run
    stage,       \* where select is
    progress     \* select has run a fiber or seen a completion

fiberVars == <<pc, kind>>
poolVars == <<slot, owner, free, limit>>
loopVars == <<run, ready, pending, stage, progress>>
vars == <<fiberVars, poolVars, ring, registered, loopVars>>

Places == {"idle", "prepare", "drain", "post", "wait", "leave",
           "cancelPrepare", "cancelDrain", "cancelPost"}

\* Submission queue entries.
StartOf(c) == [op |-> "start", data |-> c]
CancelOf(c) == [op |-> "cancel", data |-> c]
Close == [op |-> "close", data |-> None]

\* The ring: `sq` is the submission queue; `op` the state of the operation with each
\* completion as user data, "done" or "cancelled" in the completion queue.  The order
\* of the completion queue does not matter, as operations end in any order.
\* Completions without user data, of a close or a cancellation, are left out: they
\* only make select return.  `reads` counts the reads of the interrupt descriptor in
\* the kernel, `interrupts` those in the completion queue, and `signals` is not zero
\* when no read has consumed a signal: a read takes what there is.
Ring ==
    [sq : Seq([op : {"start", "cancel", "close"}, data : Completions \cup {None}]),
     op : [Completions -> {"none", "running", "cancelling", "done", "cancelled"}],
     reads : Nat, interrupts : Nat, signals : Nat]

TypeOK ==
    /\ pc \in [Fibers -> Places]
    /\ kind \in [Fibers -> Kinds \cup {None}]
    /\ slot \in [Fibers -> Completions \cup {None}]
    /\ owner \in [Completions -> Fibers \cup {None}]
    /\ free \in SUBSET Completions
    /\ limit \in 0 .. Limit
    /\ ring \in Ring /\ Len(ring.sq) <= Entries
    /\ registered \in BOOLEAN
    /\ run \in Fibers \cup {Loop, User}
    /\ ready \in SUBSET Fibers /\ pending \in SUBSET ready
    /\ stage \in {"outside", "ready", "completions", "blocked", "after"}
    /\ progress \in BOOLEAN

\* IO_Event_Selector_URing_allocate and initialize.
Init ==
    /\ pc = [f \in Fibers |-> "idle"]
    /\ kind = [f \in Fibers |-> None]
    /\ slot = [f \in Fibers |-> None]
    /\ owner = [c \in Completions |-> None]
    /\ free = {}
    /\ limit = 0
    /\ ring = [sq |-> <<>>, op |-> [c \in Completions |-> "none"],
               reads |-> 0, interrupts |-> 0, signals |-> 0]
    /\ registered = FALSE
    /\ run = Loop
    /\ ready = {}
    /\ pending = {}
    /\ stage = "outside"
    /\ progress = FALSE

-----------------------------------------------------------------------------
(***************************************************************************)
(* The kernel                                                               *)
(***************************************************************************)

\* What becomes of the operation with user data c when the kernel takes the entries of
\* s.  A cancellation ends an operation that was taken before it, if it finds it.
Outcome(r, s, c) ==
    IF \E i \in DOMAIN s :
          /\ s[i] = CancelOf(c)
          /\ r.op[c] = "running" \/ \E j \in DOMAIN s : j < i /\ s[j] = StartOf(c)
    THEN "cancelling"
    ELSE IF \E i \in DOMAIN s : s[i] = StartOf(c) THEN "running" ELSE r.op[c]

\* The kernel takes the first n entries of the submission queue.
Accepted(r, n) ==
    [r EXCEPT !.op = [c \in Completions |-> Outcome(r, SubSeq(r.sq, 1, n), c)],
              !.sq = SubSeq(r.sq, n + 1, Len(r.sq))]

\* Completions are looked at by the loop only: whether one arrives while a fiber
\* runs or when the loop looks cannot be told apart, so they arrive then.
Looking == run = Loop /\ stage \in {"completions", "blocked", "after"}

\* An operation ends; one that is being cancelled may still end by itself.
Complete(c) ==
    /\ Looking
    /\ \/ /\ ring.op[c] \in {"running", "cancelling"}
          /\ ring' = [ring EXCEPT !.op[c] = "done"]
       \/ /\ ring.op[c] = "cancelling"
          /\ ring' = [ring EXCEPT !.op[c] = "cancelled"]
    /\ UNCHANGED <<fiberVars, poolVars, registered, loopVars>>

\* IO_Event_Selector_URing_wakeup by another thread, which has seen `blocked`.
Wakeup ==
    /\ stage = "blocked"
    /\ ring' = IF ring.reads > 0
               THEN [ring EXCEPT !.reads = @ - 1, !.interrupts = @ + 1]
               ELSE [ring EXCEPT !.signals = 1]
    /\ UNCHANGED <<fiberVars, poolVars, registered, loopVars>>

-----------------------------------------------------------------------------
(***************************************************************************)
(* Completions and the submission queue                                     *)
(***************************************************************************)

\* IO_Event_Selector_URing_Completion_acquire.  Free completions are all alike: which
\* one is taken does not matter.  IO_Event_List_empty also says so of a list of one,
\* which is then not used; IO_Event_Array_push adds a completion.
Acquire(f) ==
    LET reuse == Cardinality(free) > 1
        c == IF reuse THEN CHOOSE d \in free : TRUE ELSE limit + 1
    IN  /\ c \in Completions
        /\ free' = free \ {c}
        /\ limit' = IF reuse THEN limit ELSE c
        /\ slot' = [slot EXCEPT ![f] = c]
        /\ owner' = [owner EXCEPT ![c] = f]

\* Mutant: the waiting structure keeps the completion.
ReleaseKeepsWaiting(c) ==
    /\ owner' = [owner EXCEPT ![c] = None]
    /\ free' = free \cup {c}
    /\ UNCHANGED <<slot, limit>>

\* IO_Event_Selector_URing_Completion_release.
Release(c) ==
    /\ owner' = [owner EXCEPT ![c] = None]
    /\ slot' = IF owner[c] # None THEN [slot EXCEPT ![owner[c]] = None] ELSE slot
    /\ free' = free \cup {c}
    /\ UNCHANGED limit

\* Mutant: the completion is free as soon as nobody waits for it.
WaitingCancelReleases(f) ==
    IF slot[f] = None THEN UNCHANGED poolVars ELSE Release(slot[f])

\* IO_Event_Selector_URing_Waiting_cancel: the operation of the completion may still
\* be in the kernel, so the completion is not released.
WaitingCancel(f) ==
    /\ owner' = IF slot[f] # None THEN [owner EXCEPT ![slot[f]] = None] ELSE owner
    /\ slot' = [slot EXCEPT ![f] = None]
    /\ UNCHANGED <<free, limit>>

\* f transfers to the loop through the ready queue.
Yield(f) ==
    /\ ready' = ready \cup {f}
    /\ run' = Loop
    /\ UNCHANGED <<pending, stage, progress>>

Goto(f, place) == pc' = [pc EXCEPT ![f] = place]

\* f transfers to the loop and waits there (IO_Event_Selector_loop_yield).
WaitInLoop(f) ==
    /\ Goto(f, "wait")
    /\ run' = Loop
    /\ UNCHANGED <<kind, ready, pending, stage, progress>>

\* The operation returns to user code, which between two calls of select may be
\* that of the loop.
Return(f) ==
    /\ Goto(f, "idle")
    /\ kind' = [kind EXCEPT ![f] = None]
    /\ run' = IF stage = "outside" THEN Loop ELSE User
    /\ UNCHANGED <<ready, pending, stage, progress>>

\* User code runs in a fiber, or in the loop between two calls of select.
UserRuns == run = User \/ (run = Loop /\ stage = "outside")

\* The fiber calls an operation, up to io_get_sqe.
Begin(f, k) ==
    /\ UserRuns
    /\ pc[f] = "idle"
    /\ run' = f
    /\ kind' = [kind EXCEPT ![f] = k]
    /\ Goto(f, "prepare")
    /\ IF k = "io_close" THEN UNCHANGED poolVars ELSE Acquire(f)
    /\ UNCHANGED <<ring, registered, ready, pending, stage, progress>>

\* Mutant: the queue is taken to have room.
NeverFull == FALSE

\* io_uring_get_sqe returns NULL.
Full == Len(ring.sq) = Entries

\* The entry the fiber puts into the submission queue.
Entry(f) ==
    CASE pc[f] = "cancelPrepare" -> CancelOf(slot[f])
      [] pc[f] = "prepare" /\ kind[f] = "io_close" -> Close
      [] OTHER -> StartOf(slot[f])

\* Mutant: every operation is submitted at once.
PrepareNow(f) ==
    /\ run = f
    /\ pc[f] \in {"prepare", "cancelPrepare"}
    /\ ~Full
    /\ ring' = [ring EXCEPT !.sq = Append(@, Entry(f))]
    /\ Goto(f, IF pc[f] = "prepare" THEN "post" ELSE "cancelPost")
    /\ UNCHANGED <<kind, poolVars, registered, loopVars>>

\* io_uring_prep_* of the operation, submitted at once (io_read and io_close) or
\* left for select to submit, or of its cancellation.
Prepare(f) ==
    /\ run = f
    /\ pc[f] \in {"prepare", "cancelPrepare"}
    /\ ~Full
    /\ ring' = [ring EXCEPT !.sq = Append(@, Entry(f))]
    /\ IF pc[f] # "cancelPrepare" /\ kind[f] \notin {"io_read", "io_close"}
       THEN WaitInLoop(f)
       ELSE /\ Goto(f, IF pc[f] = "prepare" THEN "post" ELSE "cancelPost")
            /\ UNCHANGED <<kind, loopVars>>
    /\ UNCHANGED <<poolVars, registered>>

\* The fiber is in io_uring_submit_all, for io_get_sqe if the queue was full.
Draining(f) == pc[f] = "drain" \/ (pc[f] = "prepare" /\ Full)
CancelDraining(f) == pc[f] = "cancelDrain" \/ (pc[f] = "cancelPrepare" /\ Full)
Submitting(f) == Draining(f) \/ CancelDraining(f) \/ pc[f] \in {"post", "cancelPost"}

\* io_uring_submit_all(yield): the kernel takes n entries, then refuses.
Refused(f) ==
    /\ run = f
    /\ Submitting(f)
    /\ MayRefuse
    /\ \E n \in 0 .. Len(ring.sq) - 1 : ring' = Accepted(ring, n)
    /\ Goto(f, IF Draining(f) THEN "drain" ELSE IF CancelDraining(f) THEN "cancelDrain" ELSE pc[f])
    /\ Yield(f)
    /\ UNCHANGED <<kind, poolVars, registered>>

\* io_uring_submit_all has emptied the queue, and the fiber goes on.
Submitted(f) ==
    /\ run = f
    /\ ring' = Accepted(ring, Len(ring.sq))
    /\ \/ /\ Draining(f)
          /\ Goto(f, "prepare")
          /\ UNCHANGED <<kind, poolVars, loopVars>>
       \/ /\ CancelDraining(f)
          /\ Goto(f, "cancelPrepare")
          /\ UNCHANGED <<kind, poolVars, loopVars>>
       \/ /\ pc[f] = "post"
          /\ IF kind[f] = "io_close" THEN Return(f) ELSE WaitInLoop(f)
          /\ UNCHANGED poolVars
       \/ /\ pc[f] = "cancelPost"
          /\ WaitingCancel(f)
          /\ Return(f)
    /\ UNCHANGED registered

\* The ensure function: an operation that is still in progress is cancelled, except
\* that process_wait only forgets it.
Leave(f) ==
    /\ run = f
    /\ pc[f] = "leave"
    /\ IF slot[f] # None /\ kind[f] # "process_wait"
       THEN Goto(f, "cancelPrepare") /\ UNCHANGED <<kind, poolVars, loopVars>>
       ELSE WaitingCancel(f) /\ Return(f)
    /\ UNCHANGED <<ring, registered>>

-----------------------------------------------------------------------------
(***************************************************************************)
(* User code                                                                *)
(***************************************************************************)

\* User code passes control to fiber g.
SwitchTo(g) ==
    /\ UserRuns
    /\ run' = g
    /\ ready' = ready \ {g}
    /\ pending' = pending \ {g}
    /\ UNCHANGED <<stage, progress>>

\* IO_Event_Selector_resume of g: if it waits, the wait ends without a result.
Resume(g) ==
    /\ pc[g] # "idle"
    /\ SwitchTo(g)
    /\ IF pc[g] = "wait" THEN Goto(g, "leave") ELSE UNCHANGED pc
    /\ UNCHANGED <<kind, poolVars, ring, registered>>

\* IO_Event_Selector_raise in g while it yields in a submission.  io_read and
\* io_write prepare and submit inside rb_ensure; the others, and the ensure function
\* itself, are left where they are.
Raise(g) ==
    /\ pc[g] \notin {"idle", "wait", "leave"}
    /\ MayUnwind \/ (pc[g] = "post" /\ kind[g] = "io_read")
    /\ IF pc[g] \in {"prepare", "drain", "post"} /\ kind[g] \in {"io_read", "io_write"}
       THEN SwitchTo(g) /\ Goto(g, "leave") /\ UNCHANGED <<kind, slot>>
       ELSE /\ UserRuns
            /\ Goto(g, "idle")
            /\ kind' = [kind EXCEPT ![g] = None]
            /\ slot' = [slot EXCEPT ![g] = None]
            /\ ready' = ready \ {g}
            /\ pending' = pending \ {g}
            /\ UNCHANGED <<run, stage, progress>>
    /\ UNCHANGED <<owner, free, limit, ring, registered>>

\* User code gives control back to the loop.
GiveBack ==
    /\ run = User
    /\ run' = Loop
    /\ UNCHANGED <<fiberVars, poolVars, ring, registered, ready, pending, stage, progress>>

\* An exception ends the fiber and is raised in select.
Escape ==
    /\ MayEscape
    /\ run = User
    /\ run' = Loop
    /\ stage' = "outside"
    /\ pending' = {}
    /\ progress' = FALSE
    /\ UNCHANGED <<fiberVars, poolVars, ring, registered, ready>>

-----------------------------------------------------------------------------
(***************************************************************************)
(* IO_Event_Selector_URing_select                                           *)
(***************************************************************************)

\* io_uring_submit_flush tries until the kernel has taken everything.
Select ==
    /\ run = Loop
    /\ stage = "outside"
    /\ ring' = Accepted(ring, Len(ring.sq))
    /\ stage' = "ready"
    /\ pending' = ready
    /\ UNCHANGED <<fiberVars, poolVars, registered, run, ready, progress>>

\* IO_Event_Selector_ready_flush resumes a fiber.
FlushStep(f) ==
    /\ run = Loop
    /\ stage = "ready"
    /\ f \in pending
    /\ run' = f
    /\ ready' = ready \ {f}
    /\ pending' = pending \ {f}
    /\ progress' = TRUE
    /\ UNCHANGED <<fiberVars, poolVars, ring, registered, stage>>

\* The same for a fiber in user code, which push, or its own resume, put into the queue.
FlushUser ==
    /\ run = Loop
    /\ stage = "ready"
    /\ run' = User
    /\ progress' = TRUE
    /\ UNCHANGED <<fiberVars, poolVars, ring, registered, ready, pending, stage>>

FlushEnd ==
    /\ run = Loop
    /\ stage = "ready"
    /\ pending = {}
    /\ stage' = "completions"
    /\ UNCHANGED <<fiberVars, poolVars, ring, registered, run, ready, pending, progress>>

Processing == run = Loop /\ stage \in {"completions", "after"}

ProcessInterrupt ==
    /\ Processing
    /\ ring.interrupts > 0
    /\ ring' = [ring EXCEPT !.interrupts = @ - 1]
    /\ registered' = FALSE
    /\ progress' = TRUE
    /\ UNCHANGED <<fiberVars, poolVars, run, ready, pending, stage>>

\* A completion is released before its fiber is resumed; nobody may wait for it.
ProcessCompletion(c) ==
    /\ Processing
    /\ ring.op[c] \in {"done", "cancelled"}
    /\ ring' = [ring EXCEPT !.op[c] = "none"]
    /\ Release(c)
    /\ LET f == owner[c]
       IN  IF f = None
           THEN UNCHANGED <<pc, run, ready, pending>>
           ELSE /\ IF pc[f] = "wait" THEN Goto(f, "leave") ELSE UNCHANGED pc
                /\ run' = f
                /\ ready' = ready \ {f}
                /\ pending' = pending \ {f}
    /\ progress' = TRUE
    /\ UNCHANGED <<kind, registered, stage>>

Processed ==
    /\ \A c \in Completions : ring.op[c] \notin {"done", "cancelled"}
    /\ ring.interrupts = 0

\* select returns, because something happened or the duration is zero.
SelectReturn ==
    /\ Processing
    /\ Processed
    /\ stage' = "outside"
    /\ progress' = FALSE
    /\ UNCHANGED <<fiberVars, poolVars, ring, registered, run, ready, pending>>

\* The read of the interrupt descriptor is submitted; it ends at once if there was a
\* signal already.
Register(r) ==
    IF r.signals > 0 THEN [r EXCEPT !.signals = 0, !.interrupts = @ + 1]
                     ELSE [r EXCEPT !.reads = @ + 1]

\* Mutant: the read is submitted although one is in the kernel.
BlockRegisters ==
    /\ Processing
    /\ Processed
    /\ stage = "completions"
    /\ ~progress /\ ready = {}
    /\ ring' = Register(Accepted(ring, Len(ring.sq)))
    /\ registered' = TRUE
    /\ stage' = "blocked"
    /\ UNCHANGED <<fiberVars, poolVars, run, ready, pending, progress>>

\* select_internal_without_gvl: the read of the interrupt descriptor is submitted
\* unless one is in the kernel, then select waits.
Block ==
    /\ Processing
    /\ Processed
    /\ stage = "completions"
    /\ ~progress /\ ready = {}
    /\ LET r == Accepted(ring, Len(ring.sq))
       IN  ring' = IF registered THEN r ELSE Register(r)
    /\ registered' = TRUE
    /\ stage' = "blocked"
    /\ UNCHANGED <<fiberVars, poolVars, run, ready, pending, progress>>

\* There is a completion; or the time is up, or the thread was interrupted.
Unblock ==
    /\ stage = "blocked"
    /\ ~Processed
    /\ stage' = "after"
    /\ UNCHANGED <<fiberVars, poolVars, ring, registered, run, ready, pending, progress>>

Expire ==
    /\ stage = "blocked"
    /\ stage' = "outside"
    /\ progress' = FALSE
    /\ UNCHANGED <<fiberVars, poolVars, ring, registered, run, ready, pending>>

SelectStep ==
    \/ Select \/ FlushEnd \/ ProcessInterrupt
    \/ \E c \in Completions : ProcessCompletion(c)
    \/ SelectReturn \/ Block \/ Unblock
    \/ \E f \in Fibers : FlushStep(f)

FiberStep(f) == Prepare(f) \/ Submitted(f) \/ Leave(f)

Next ==
    \/ SelectStep \/ FlushUser \/ Expire \/ GiveBack \/ Escape
    \/ Wakeup
    \/ \E c \in Completions : Complete(c)
    \/ \E f \in Fibers :
          \/ FiberStep(f) \/ Refused(f)
          \/ Resume(f) \/ Raise(f)
          \/ \E k \in Kinds : Begin(f, k)

\* select is called again and again, a flush ends, the kernel completes what it was
\* given by some time when the loop looks, and user code gives control back to the loop.
Fairness ==
    /\ WF_vars(SelectStep) /\ SF_vars(Select)
    /\ SF_vars(FlushEnd \/ \E f \in Fibers : FlushStep(f))
    /\ WF_vars(\E f \in Fibers : FiberStep(f))
    /\ SF_vars(GiveBack)
    /\ \A c \in Completions : SF_vars(Complete(c))

Spec == Init /\ [][Next]_vars /\ Fairness

-----------------------------------------------------------------------------
(***************************************************************************)
(* Properties                                                               *)
(***************************************************************************)

\* The places in the submission queue of operations with user data c.
Queued(c) == {i \in DOMAIN ring.sq : ring.sq[i] = StartOf(c)}

\* A completion is free, or belongs to a fiber that has not queued its operation yet,
\* or to exactly one operation that is queued, in the kernel or completed: it is
\* neither reused while the kernel may still report it nor lost
\* (Completion_acquire, Completion_release, Waiting_cancel).
Exclusive ==
    \A c \in 1 .. limit :
        LET unqueued == owner[c] # None /\ pc[owner[c]] \in {"prepare", "drain"}
        IN  IF c \in free \/ unqueued
            THEN Queued(c) = {} /\ ring.op[c] = "none"
            ELSE \/ Queued(c) = {} /\ ring.op[c] # "none"
                 \/ (\E i \in DOMAIN ring.sq : Queued(c) = {i}) /\ ring.op[c] = "none"

\* completion->waiting and waiting->completion agree, and point to a frame only while
\* its fiber is in the operation: what select_process_completions and the garbage
\* collector follow is never a frame that is gone.
LinksLive ==
    /\ \A c \in Completions : owner[c] # None => slot[owner[c]] = c /\ pc[owner[c]] # "idle"
    /\ \A f \in Fibers : slot[f] # None => owner[slot[f]] = f

\* A cancellation ends only the operation it was made for: one that is cancelled has
\* no fiber waiting for it, although its completion may have been released and
\* acquired again between io_get_sqe and the submission (io_wait_ensure).
CancelsOwn ==
    \A c \in Completions :
        \/ owner[c] = None
        \/ pc[owner[c]] = "cancelPost"
        \/ ring.op[c] \notin {"cancelling", "cancelled"}

\* While wakeup_registered, and only then, one read of the interrupt descriptor is in
\* flight: wakeup_value has one writer; and select sleeps only when there is one, for
\* a signal to complete, and every operation has been submitted
\* (select_internal_without_gvl, select_process_completions, io_uring_submit_flush).
WakeupRead ==
    /\ ring.reads + ring.interrupts = IF registered THEN 1 ELSE 0
    /\ stage = "blocked" => registered /\ ring.sq = <<>>

\* A fiber waits in the loop only for a completion that is still to come.  (io_read
\* submits before it yields, and may be resumed by its completion in between: see
\* NoMissedRead.)
NoMissedCompletion ==
    \A f \in Fibers : pc[f] = "wait" /\ kind[f] # "io_read" => slot[f] # None

\* The same for io_read.
NoMissedRead ==
    \A f \in Fibers : pc[f] = "wait" => slot[f] # None

\* The assertion of select_process_completions: a fiber is not resumed with the result
\* of an operation that was cancelled.
NotCancelled ==
    \A c \in Completions : Processing /\ ring.op[c] = "cancelled" => owner[c] = None

\* No operation writes into the frame of a process_wait that is over (with waitid).
SiginfoLive ==
    \A c \in 1 .. limit : ring.op[c] = "running" => owner[c] # None

\* A fiber that waits for a completion is resumed, however submissions are refused and
\* other fibers come and go.
WaitReturns == \A f \in Fibers : pc[f] = "wait" /\ slot[f] # None ~> pc[f] # "wait"

=============================================================================
