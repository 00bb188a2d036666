------------------------------- MODULE Wakeup -------------------------------
(***************************************************************************)
(* How other threads wake the event loop: a scheduler pushes a fiber to the *)
(* ready list of a selector and then calls wakeup, which signals the        *)
(* selector's interrupt descriptor when the selector is blocked.            *)
(*                                                                          *)
(* There are two kinds of select.  The native one is that of the EPoll      *)
(* selector (epoll.c), in which the GVL is held from the end of the flush   *)
(* to the wait; the other is that of the Ruby selector                      *)
(* (lib/io/event/selector/select.rb), in which threads may be switched      *)
(* between any two lines.                                                   *)
(***************************************************************************)
EXTENDS Naturals

CONSTANTS
    Kinds,       \* which selects there may be: TRUE for the native one, FALSE for the other
    Threads,     \* threads that unblock fibers of the loop
    MaxReady,    \* bound: fibers in the ready list
    Capacity     \* signals the descriptor holds; more are dropped (EAGAIN)

ASSUME WakeupAssumption ==
    /\ Kinds \subseteq BOOLEAN
    /\ MaxReady \in Nat \ {0}
    /\ Capacity \in Nat \ {0}

VARIABLES
    native,     \* the kind of this select
    loop,       \* where select is
    flushed,    \* `ready` of select: the flush ran some fiber
    lasting,    \* select.rb: duration has not been set to 0
    reported,   \* the wait returned the interrupt descriptor
    blocked,    \* backend->blocked
    ready,      \* length of the ready list
    signals,    \* signals in the interrupt descriptor
    unblock     \* where each thread is

vars == <<native, loop, flushed, lasting, reported, blocked, ready, signals, unblock>>

Flags ==
    /\ native \in BOOLEAN /\ flushed \in BOOLEAN /\ lasting \in BOOLEAN
    /\ reported \in BOOLEAN /\ blocked \in BOOLEAN

TypeOK ==
    /\ Flags
    /\ loop \in {"flush", "check", "enter", "wait", "leave"}
    /\ ready \in 0..MaxReady
    /\ signals \in 0..Capacity
    /\ unblock \in [Threads -> {"idle", "pushed"}]

Init ==
    /\ native \in Kinds
    /\ loop = "flush"
    /\ flushed = FALSE
    /\ lasting = FALSE
    /\ reported = FALSE
    /\ blocked = FALSE
    /\ ready = 0
    /\ signals = 0
    /\ unblock = [t \in Threads |-> "idle"]

-----------------------------------------------------------------------------
(***************************************************************************)
(* Other threads                                                            *)
(***************************************************************************)

\* IO_Event_Selector_ready_push
Push(t) ==
    /\ unblock[t] = "idle"
    /\ ready < MaxReady
    /\ ready' = ready + 1
    /\ unblock' = [unblock EXCEPT ![t] = "pushed"]
    /\ UNCHANGED <<native, loop, flushed, lasting, reported, blocked, signals>>

\* Mutant: a full descriptor is not expected.
SignalledAlways == signals + 1

\* IO_Event_Interrupt_signal
Signalled == IF signals < Capacity THEN signals + 1 ELSE signals

\* IO_Event_Selector_EPoll_wakeup
WakeupCall(t) ==
    /\ unblock[t] = "pushed"
    /\ unblock' = [unblock EXCEPT ![t] = "idle"]
    /\ signals' = IF blocked THEN Signalled ELSE signals
    /\ UNCHANGED <<native, loop, flushed, lasting, reported, blocked, ready>>

-----------------------------------------------------------------------------
(***************************************************************************)
(* The loop                                                                 *)
(***************************************************************************)

\* The ready list is flushed; a fiber that ran may have queued one again.
Flush ==
    /\ loop = "flush"
    /\ loop' = "check"
    /\ flushed' = (ready > 0)
    /\ \/ ready' = 0
       \/ ready > 0 /\ ready' = 1
    /\ UNCHANGED <<native, lasting, reported, blocked, signals, unblock>>

\* IO_Event_Interrupt_clear reads the whole counter, the Ruby Interrupt one byte.
Cleared == IF native \/ signals = 0 THEN 0 ELSE signals - 1

\* epoll.c: events found without blocking are handled.
CheckPending ==
    /\ native
    /\ loop = "check"
    /\ signals > 0
    /\ signals' = Cleared
    /\ loop' = "flush"
    /\ UNCHANGED <<native, flushed, lasting, reported, blocked, ready, unblock>>

\* epoll.c: select returns without waiting: it ran something, something is ready
\* or the duration is 0.
CheckReturns ==
    /\ native
    /\ loop = "check"
    /\ signals = 0
    /\ loop' = "flush"
    /\ UNCHANGED <<native, flushed, lasting, reported, blocked, ready, signals, unblock>>

\* Mutant: the ready list is not looked at again.
CheckBlocksUnchecked ==
    /\ native
    /\ loop = "check"
    /\ signals = 0 /\ ~flushed
    /\ blocked' = TRUE
    /\ loop' = "wait"
    /\ UNCHANGED <<native, flushed, lasting, reported, ready, signals, unblock>>

\* Mutant: wakeup is not told that the selector blocks.
CheckBlocksUnmarked ==
    /\ native
    /\ loop = "check"
    /\ signals = 0 /\ ~flushed /\ ready = 0
    /\ loop' = "wait"
    /\ UNCHANGED <<native, flushed, lasting, reported, blocked, ready, signals, unblock>>

\* epoll.c: nothing to do; blocked is set before the GVL is released.
CheckBlocks ==
    /\ native
    /\ loop = "check"
    /\ signals = 0 /\ ~flushed /\ ready = 0
    /\ blocked' = TRUE
    /\ loop' = "wait"
    /\ UNCHANGED <<native, flushed, lasting, reported, ready, signals, unblock>>

\* select.rb: the duration becomes 0 when something ran or is ready.
CheckDuration ==
    /\ ~native
    /\ loop = "check"
    /\ lasting' = (~flushed /\ ready = 0)
    /\ loop' = "enter"
    /\ UNCHANGED <<native, flushed, reported, blocked, ready, signals, unblock>>

\* select.rb: @blocked = true, and IO.select is called.
Enter ==
    /\ ~native
    /\ loop = "enter"
    /\ blocked' = TRUE
    /\ \/ lasting /\ loop' = "wait" /\ UNCHANGED reported
       \/ ~lasting /\ loop' = "leave" /\ reported' = (signals > 0)
    /\ UNCHANGED <<native, flushed, lasting, ready, signals, unblock>>

\* The wait returns because the interrupt descriptor is readable.
Wake ==
    /\ loop = "wait"
    /\ signals > 0
    /\ reported' = TRUE
    /\ loop' = "leave"
    /\ UNCHANGED <<native, flushed, lasting, blocked, ready, signals, unblock>>

\* It returns for another reason: the duration is over, another descriptor is
\* ready, or the thread is interrupted, and nothing is reported.
Expire ==
    /\ loop = "wait"
    /\ reported' \in {FALSE, signals > 0}
    /\ loop' = "leave"
    /\ UNCHANGED <<native, flushed, lasting, blocked, ready, signals, unblock>>

\* With the GVL again: blocked is reset and the reported signal is cleared.
Leave ==
    /\ loop = "leave"
    /\ blocked' = FALSE
    /\ signals' = IF reported THEN Cleared ELSE signals
    /\ reported' = FALSE
    /\ lasting' = FALSE
    /\ loop' = "flush"
    /\ UNCHANGED <<native, flushed, ready, unblock>>

-----------------------------------------------------------------------------

Select == Flush \/ CheckPending \/ CheckReturns \/ CheckBlocks \/ CheckDuration \/ Enter \/ Wake \/ Leave

Next == Select \/ Expire \/ \E t \in Threads : Push(t) \/ WakeupCall(t)

Spec == Init /\ [][Next]_vars

\* The event loop calls select again and again, and a thread that has pushed a fiber goes
\* on to call wakeup.  Of the native select no duration is assumed to be over: it may be
\* nil.  Of the Ruby selector it is: its waits end.
Fairness ==
    /\ WF_vars(Select)
    /\ WF_vars(~native /\ Expire)
    /\ \A t \in Threads : WF_vars(WakeupCall(t))

FairSpec == Spec /\ Fairness

-----------------------------------------------------------------------------

\* The loop does not sleep on work: whenever it waits with a fiber in the ready list, a
\* signal is in the descriptor or the thread that pushed a fiber has still to call wakeup,
\* which will find blocked set.
NoLostWakeup ==
    loop = "wait" /\ ready > 0 =>
        \/ signals > 0
        \/ blocked /\ \E t \in Threads : unblock[t] = "pushed"

\* The native select loses no wakeup: blocked is set before the GVL is released, in the
\* same step as the ready list is looked at (select_internal_without_gvl).
NativeWakeup == native => NoLostWakeup

\* A fiber pushed by any thread at any point of select is run: select comes to a flush.
PushedRuns == ready > 0 ~> loop = "flush"

=============================================================================
