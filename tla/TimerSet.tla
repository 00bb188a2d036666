------------------------------ MODULE TimerSet ------------------------------
(***************************************************************************)
(* What Timers promises: "An efficient sorted set of timers"                *)
(* (lib/io/event/timers.rb).  A timer waits until it is cancelled, or is    *)
(* fired: not before its time, and not while fire knows of an earlier one.  *)
(* What is done to a timer is seen, so that none goes away unseen and what  *)
(* is fired is one that waits.                                              *)
(***************************************************************************)
EXTENDS Naturals

CONSTANT Times

VARIABLES
    fresh,     \* how many timers of each time are scheduled since fire last looked
    pending,   \* how many fire knows of
    event      \* what has just been done to a timer

Nothing == [what |-> "nothing"]

Init ==
    /\ fresh = [t \in Times |-> 0]
    /\ pending = [t \in Times |-> 0]
    /\ event = Nothing

Schedule(t) ==
    /\ event' = [what |-> "schedule", time |-> t]
    /\ fresh' = [fresh EXCEPT ![t] = @ + 1]
    /\ UNCHANGED pending

Cancel(t) ==
    /\ event' = [what |-> "cancel", time |-> t]
    /\ \/ fresh[t] > 0 /\ fresh' = [fresh EXCEPT ![t] = @ - 1] /\ UNCHANGED pending
       \/ pending[t] > 0 /\ pending' = [pending EXCEPT ![t] = @ - 1] /\ UNCHANGED fresh

Look ==
    /\ event' = Nothing
    /\ pending' = [t \in Times |-> pending[t] + fresh[t]]
    /\ fresh' = [t \in Times |-> 0]

\* The block of a timer is called, by a fire that was told the time `now`.
Fire(t, now) ==
    /\ event' = [what |-> "fire", time |-> t, now |-> now]
    /\ t <= now
    /\ pending[t] > 0
    /\ \A u \in Times : u < t => pending[u] = 0
    /\ pending' = [pending EXCEPT ![t] = @ - 1]
    /\ UNCHANGED fresh

\* Nothing is done to a timer.
Rest == event' = Nothing /\ UNCHANGED <<fresh, pending>>

Next ==
    \/ Rest \/ Look
    \/ \E t \in Times : Schedule(t) \/ Cancel(t) \/ \E now \in Times : Fire(t, now)

Spec == Init /\ [][Next]_<<fresh, pending, event>>

=============================================================================
