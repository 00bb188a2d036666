------------------------------- MODULE IOWait -------------------------------
(***************************************************************************)
(* What io_wait of a selector promises to fibers: a wait ends with some of  *)
(* the events that were asked for, or with false when somebody else resumes *)
(* the fiber; nothing else touches a wait.                                  *)
(***************************************************************************)
CONSTANTS Fibers, IOs, Events, None

VARIABLES
    wait,       \* the wait each fiber is in
    value       \* the events a wait has just ended with, {} if none has

Waits == [io : IOs, events : (SUBSET Events) \ {{}}]

Init ==
    /\ wait = [f \in Fibers |-> None]
    /\ value = {}

Wait(f) ==
    /\ wait[f] = None
    /\ \E w \in Waits : wait' = [wait EXCEPT ![f] = w]
    /\ value' = {}

Deliver(f) ==
    /\ wait[f] # None
    /\ wait' = [wait EXCEPT ![f] = None]
    /\ value' \in (SUBSET wait[f].events) \ {{}}

Cancel(f) ==
    /\ wait[f] # None
    /\ wait' = [wait EXCEPT ![f] = None]
    /\ value' = {}

\* The fiber goes on.
Continue ==
    /\ value' = {}
    /\ UNCHANGED wait

Next == Continue \/ \E f \in Fibers : Wait(f) \/ Deliver(f) \/ Cancel(f)

Spec == Init /\ [][Next]_<<wait, value>>

=============================================================================
