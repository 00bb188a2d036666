------------------------------- MODULE EPoll -------------------------------
(***************************************************************************)
(* The EPoll selector (ext/io/event/selector/epoll.c): fibers wait for      *)
(* events of descriptors or for the exit of a process; the loop collects    *)
(* events and resumes the fibers that match.                                *)
(*                                                                          *)
(* Control is with user fibers (phase "user", and "resumed" inside a call   *)
(* of handle) or with the loop inside select ("handling").  User fibers     *)
(* may do anything whenever they have control, in any order: wait, open and *)
(* close descriptors, resume or raise a waiting fiber.                      *)
(*                                                                          *)
(* The kernel is level triggered: `interest` is its interest set and        *)
(* `condition` what holds of the open file behind each descriptor.          *)
(***************************************************************************)
EXTENDS Naturals, Sequences, FiniteSets, SequencesExt

CONSTANTS
    FDs,           \* descriptor numbers
    Fibers,
    IOs,           \* IO objects
    Files,         \* those of them epoll refuses with EPERM
    Pids,          \* child processes
    Conditions,    \* what may hold of an IO: the events, and "hangup" (EPOLLHUP, EPOLLERR)
    None,
    Saved,         \* the list node handle keeps its place with
    MayRetry,      \* process_wait may get the descriptor of a cancelled wait for the same process
    MayEscape,     \* an exception may leave a fiber that handle resumed
    MayReopen,     \* IO#reopen may be used between waits
    MayAbandon,    \* an IO may be closed while fibers wait for it
    MayReuse       \* a descriptor may be closed while its events wait to be handled

Events == {"readable", "writable"}

ASSUME SetsAssumption ==
    /\ Conditions \subseteq Events \cup {"hangup"}
    /\ Files \subseteq IOs
    /\ IOs \cap Pids = {}
    /\ None \notin FDs \cup Fibers \cup IOs \cup Pids
    /\ Saved \notin Fibers \cup {None}
ASSUME FlagsAssumption ==
    /\ MayRetry \in BOOLEAN /\ MayEscape \in BOOLEAN /\ MayReopen \in BOOLEAN
    /\ MayAbandon \in BOOLEAN /\ MayReuse \in BOOLEAN


VARIABLES
    object,      \* the IO or process each descriptor is open on
    condition,   \* what holds of it
    process,     \* the state of each child process
    interest,    \* the kernel's interest set; {} when the descriptor is not in it
    entry,       \* IO_Event_Selector_EPoll_Descriptor, without its list
    list,        \* its list of waiting fibers, newest first, with the saved node
    at,          \* the descriptor each fiber waits on
    target,      \* the IO or process it waits for
    events,      \* the events it waits for
    phase,
    batch,       \* events returned by epoll_wait and not yet handled
    current,     \* the descriptor handle works on
    happened,    \* its ready_events
    node         \* the waiting fiber it looks at; None at the end of the list

kernelVars == <<object, condition, process, interest>>
waitVars == <<list, at, target, events>>
handleVars == <<phase, batch, current, happened, node>>
vars == <<kernelVars, entry, waitVars, handleVars>>

TypeOK ==
    /\ object \in [FDs -> IOs \cup Pids \cup {None}]
    /\ condition \in [FDs -> SUBSET (Events \cup Conditions)]
    /\ process \in [Pids -> {"running", "exited", "reaped"}]
    /\ interest \in [FDs -> SUBSET Events]
    /\ entry \in [FDs -> [io : IOs \cup Pids \cup {None}, waiting : SUBSET Events,
                          registered : SUBSET Events]]
    /\ list \in [FDs -> Seq(Fibers \cup {Saved})]
    /\ at \in [Fibers -> FDs \cup {None}]
    /\ target \in [Fibers -> IOs \cup Pids \cup {None}]
    /\ events \in [Fibers -> SUBSET Events]
    /\ phase \in {"user", "handling", "resumed"}
    /\ batch \in [FDs -> SUBSET Events]
    /\ current \in FDs \cup {None}
    /\ happened \in SUBSET Events
    /\ node \in Fibers \cup {None}

\* IO_Event_Selector_EPoll_Descriptor_initialize, for every descriptor.
Init ==
    /\ object = [d \in FDs |-> None]
    /\ condition = [d \in FDs |-> {}]
    /\ process = [p \in Pids |-> "running"]
    /\ interest = [d \in FDs |-> {}]
    /\ entry = [d \in FDs |-> [io |-> None, waiting |-> {}, registered |-> {}]]
    /\ list = [d \in FDs |-> <<>>]
    /\ at = [f \in Fibers |-> None]
    /\ target = [f \in Fibers |-> None]
    /\ events = [f \in Fibers |-> {}]
    /\ phase = "user"
    /\ batch = [d \in FDs |-> {}]
    /\ current = None
    /\ happened = {}
    /\ node = None

UserRuns == phase \in {"user", "resumed"}

\* Where node n is in the list s.
Place(s, n) == CHOOSE k \in 1 .. Len(s) : s[k] = n

\* IO_Event_List_pop of a node.
Drop(s, n) == RemoveAt(s, Place(s, n))

\* IO_Event_List_append(m, n): n comes right before m.
PutBefore(s, n, m) == InsertAt(s, Place(s, m), n)

\* node->tail, None when that is the list itself.
Following(s, n) == IF Place(s, n) = Len(s) THEN None ELSE s[Place(s, n) + 1]

-----------------------------------------------------------------------------
(***************************************************************************)
(* Registration                                                             *)
(***************************************************************************)

\* epoll_ctl fails for files that cannot be polled (EPERM) and for a descriptor that
\* is closed (EBADF).
Refused(o) == o \in Files \cup {None}

\* Mutant: the entry is trusted whoever it was made for.
SameDescriptor(e, io) == TRUE

\* The entry was made for this IO or process.
SameIO(e, io) == e.io = io

\* IO_Event_Selector_EPoll_Descriptor_update of the entry e for io, the descriptor d
\* being open on o: the new entry, and the kernel's interest set.  (ENOENT and EEXIST
\* are retried, so both MOD and ADD end with the interest set the waiting events.)
Update(e, io, d, o) ==
    LET same == SameIO(e, io)
        registered == IF same THEN e.registered ELSE {}
    IN  IF same /\ e.registered = e.waiting
        THEN [entry |-> e, interest |-> interest[d], failed |-> FALSE]
        ELSE IF e.waiting = {}
        THEN [entry    |-> [io |-> None, waiting |-> {}, registered |-> {}],
              interest |-> IF registered # {} THEN {} ELSE interest[d], failed |-> FALSE]
        ELSE IF Refused(o)
        THEN [entry    |-> [e EXCEPT !.io = io, !.registered = registered],
              interest |-> interest[d], failed |-> TRUE]
        ELSE [entry    |-> [e EXCEPT !.io = io, !.registered = e.waiting],
              interest |-> e.waiting, failed |-> FALSE]

\* IO_Event_Selector_EPoll_Waiting_register, and the fiber's transfer to the loop.
Register(f, io, d, evs) ==
    LET u == Update([entry[d] EXCEPT !.waiting = @ \cup evs], io, d, io)
    IN  /\ entry' = [entry EXCEPT ![d] = u.entry]
        /\ interest' = [interest EXCEPT ![d] = u.interest]
        /\ IF u.failed
           THEN UNCHANGED waitVars
           ELSE /\ list' = [list EXCEPT ![d] = <<f>> \o @]
                /\ at' = [at EXCEPT ![f] = d]
                /\ target' = [target EXCEPT ![f] = io]
                /\ events' = [events EXCEPT ![f] = evs]

\* IO_Event_Selector_EPoll_io_wait.  A file that cannot be polled is ready: the
\* fiber goes through the ready queue and returns its events.
IoWait(f, d, evs) ==
    /\ UserRuns
    /\ at[f] = None
    /\ object[d] \in IOs
    /\ Register(f, object[d], d, evs)
    /\ UNCHANGED <<object, condition, process, handleVars>>

\* IO_Event_Selector_EPoll_process_wait of a process that pidfd_open finds.  The
\* process is looked at after pidfd_open, so that an exit before it is not missed.
\* (An exit between the look and the registration is that of Exit after this action: epoll
\* reports what is readable already.)
ProcessWait(f, p, d) ==
    /\ UserRuns
    /\ at[f] = None
    /\ object[d] = None
    /\ process[p] # "reaped"
    /\ MayRetry \/ entry[d].io # p
    /\ IF process[p] = "exited"
       THEN /\ process' = [process EXCEPT ![p] = "reaped"]
            /\ UNCHANGED <<object, condition, interest, entry, waitVars>>
       ELSE /\ object' = [object EXCEPT ![d] = p]
            /\ condition' = [condition EXCEPT ![d] = {}]
            /\ Register(f, p, d, {"readable"})
            /\ UNCHANGED process
    /\ UNCHANGED handleVars

\* The fiber leaves its wait, s being the list it is in (io_wait_ensure and
\* process_wait_ensure): a process descriptor is closed, which takes it out of
\* the interest set.
Leave(f, s) ==
    LET d == at[f]
    IN  /\ at' = [at EXCEPT ![f] = None]
        /\ list' = [list EXCEPT ![d] = Drop(s, f)]
        /\ target' = [target EXCEPT ![f] = None]
        /\ events' = [events EXCEPT ![f] = {}]
        /\ IF target[f] \in Pids
           THEN /\ object' = [object EXCEPT ![d] = None]
                /\ interest' = [interest EXCEPT ![d] = {}]
                /\ condition' = [condition EXCEPT ![d] = {}]
           ELSE UNCHANGED <<object, interest, condition>>

\* A waiting fiber is resumed or raised by somebody else, a timeout for example:
\* no event is ready and the wait returns false.
Cancel(f) ==
    /\ UserRuns
    /\ at[f] # None
    /\ MayReuse \/ batch[at[f]] = {} \/ target[f] \in IOs
    /\ Leave(f, list[at[f]])
    /\ UNCHANGED <<process, entry, handleVars>>

-----------------------------------------------------------------------------
(***************************************************************************)
(* User code and the outside world                                          *)
(***************************************************************************)

\* A new IO object.  The entries keep theirs alive, so its identity is new to them.
Open(d, io) ==
    /\ UserRuns
    /\ object[d] = None
    /\ \A e \in FDs : object[e] # io /\ entry[e].io # io
    /\ object' = [object EXCEPT ![d] = io]
    /\ condition' = [condition EXCEPT ![d] = {}]
    /\ UNCHANGED <<process, interest, entry, waitVars, handleVars>>

\* IO#close of an IO.
Close(d) ==
    /\ UserRuns
    /\ object[d] \in IOs
    /\ MayAbandon \/ \A f \in Fibers : at[f] # d
    /\ MayReuse \/ batch[d] = {}
    /\ object' = [object EXCEPT ![d] = None]
    /\ condition' = [condition EXCEPT ![d] = {}]
    /\ interest' = [interest EXCEPT ![d] = {}]
    /\ UNCHANGED <<process, entry, waitVars, handleVars>>

\* IO#reopen of an IO nobody waits for: the same object and number, another file.
Reopen(d) ==
    /\ MayReopen
    /\ UserRuns
    /\ object[d] \in IOs
    /\ \A f \in Fibers : at[f] # d
    /\ condition' = [condition EXCEPT ![d] = {}]
    /\ interest' = [interest EXCEPT ![d] = {}]
    /\ UNCHANGED <<object, process, entry, waitVars, handleVars>>

\* The other end of a pipe or socket: data or space comes and goes, it hangs up.
Change(d, c) ==
    /\ object[d] \in IOs
    /\ condition' = [condition EXCEPT ![d] = c]
    /\ UNCHANGED <<object, process, interest, entry, waitVars, handleVars>>

Exit(p) ==
    /\ process[p] = "running"
    /\ process' = [process EXCEPT ![p] = "exited"]
    /\ condition' = [d \in FDs |-> IF object[d] = p THEN {"readable"} ELSE condition[d]]
    /\ UNCHANGED <<object, interest, entry, waitVars, handleVars>>

-----------------------------------------------------------------------------
(***************************************************************************)
(* select                                                                   *)
(***************************************************************************)

\* Mutant: a hang up is passed on as it is.
ReportedRaw(c, asked) == c \cap (asked \cup {"hangup"})

\* What epoll reports of a descriptor in the interest set: the events asked for,
\* EPOLLHUP and EPOLLERR always; a hang up reads as readable
\* (epoll_flags_from_events, events_from_epoll_flags).
Reported(c, asked) ==
    (c \cap asked) \cup (IF "hangup" \in c THEN {"readable"} ELSE {})

ReadyEvents(d) == IF interest[d] = {} THEN {} ELSE Reported(condition[d], interest[d])

\* IO_Event_Selector_EPoll_select up to the return of epoll_wait, with events.
Select ==
    /\ phase = "user"
    /\ \E d \in FDs : ReadyEvents(d) # {}
    /\ batch' = [d \in FDs |-> ReadyEvents(d)]
    /\ phase' = "handling"
    /\ UNCHANGED <<kernelVars, entry, waitVars, current, happened, node>>

\* IO_Event_Selector_EPoll_handle, until its loop: waiting_events is reset.
HandleBegin(d) ==
    /\ phase = "handling"
    /\ current = None
    /\ batch[d] # {}
    /\ current' = d
    /\ happened' = batch[d]
    /\ batch' = [batch EXCEPT ![d] = {}]
    /\ entry' = [entry EXCEPT ![d].waiting = {}]
    /\ node' = IF list[d] = <<>> THEN None ELSE Head(list[d])
    /\ UNCHANGED <<kernelVars, waitVars, phase>>

\* No event of this fiber has happened: it is still waiting.
HandleSkip ==
    /\ phase = "handling"
    /\ node # None
    /\ events[node] \cap happened = {}
    /\ entry' = [entry EXCEPT ![current].waiting = @ \cup events[node]]
    /\ node' = Following(list[current], node)
    /\ UNCHANGED <<kernelVars, waitVars, phase, batch, current, happened>>

\* The fiber is resumed and its wait returns: io_wait with the events, process_wait
\* with what process_status_reap finds.
HandleResume ==
    /\ phase = "handling"
    /\ node # None
    /\ events[node] \cap happened # {}
    /\ Leave(node, PutBefore(list[current], Saved, node))
    /\ process' = [p \in Pids |-> IF p = target[node] /\ process[p] = "exited"
                                  THEN "reaped" ELSE process[p]]
    /\ node' = None
    /\ phase' = "resumed"
    /\ UNCHANGED <<entry, batch, current, happened>>

\* Mutant: handle looks at no other fiber when one was resumed.
ReturnStops ==
    /\ phase = "resumed"
    /\ phase' = "handling"
    /\ list' = [list EXCEPT ![current] = Drop(@, Saved)]
    /\ UNCHANGED <<kernelVars, entry, at, target, events, batch, current, happened, node>>

\* The resumed fiber comes back to the loop, which goes on after the saved node.
Return ==
    /\ phase = "resumed"
    /\ phase' = "handling"
    /\ node' = Following(list[current], Saved)
    /\ list' = [list EXCEPT ![current] = Drop(@, Saved)]
    /\ UNCHANGED <<kernelVars, entry, at, target, events, batch, current, happened>>

\* Mutant: select has no ensure clause.
EscapeKeepsSaved ==
    /\ MayEscape
    /\ phase = "resumed"
    /\ phase' = "user"
    /\ batch' = [d \in FDs |-> {}]
    /\ current' = None
    /\ happened' = {}
    /\ UNCHANGED <<kernelVars, entry, waitVars, node>>

\* An exception comes back instead: select ends (select_handle_events_ensure).
Escape ==
    /\ MayEscape
    /\ phase = "resumed"
    /\ phase' = "user"
    /\ list' = [list EXCEPT ![current] = Drop(@, Saved)]
    /\ batch' = [d \in FDs |-> {}]
    /\ current' = None
    /\ happened' = {}
    /\ UNCHANGED <<kernelVars, entry, at, target, events, node>>

\* The end of handle: the descriptor is armed for the fibers still waiting.
HandleEnd ==
    /\ phase = "handling"
    /\ current # None
    /\ node = None
    /\ LET u == Update(entry[current], entry[current].io, current, object[current])
       IN  /\ entry' = [entry EXCEPT ![current] = u.entry]
           /\ interest' = [interest EXCEPT ![current] = u.interest]
    /\ current' = None
    /\ happened' = {}
    /\ UNCHANGED <<object, condition, process, waitVars, phase, batch, node>>

\* select returns when select_handle_events has handled every event.
SelectEnd ==
    /\ phase = "handling"
    /\ current = None
    /\ \A d \in FDs : batch[d] = {}
    /\ phase' = "user"
    /\ UNCHANGED <<kernelVars, entry, waitVars, batch, current, happened, node>>

-----------------------------------------------------------------------------

HandleStep == (\E d \in FDs : HandleBegin(d)) \/ HandleSkip \/ HandleResume \/ HandleEnd \/ SelectEnd

Next ==
    \/ \E f \in Fibers, d \in FDs, evs \in (SUBSET Events) \ {{}} : IoWait(f, d, evs)
    \/ \E f \in Fibers, p \in Pids, d \in FDs : ProcessWait(f, p, d)
    \/ \E f \in Fibers : Cancel(f)
    \/ \E d \in FDs, io \in IOs : Open(d, io)
    \/ \E d \in FDs : Close(d) \/ Reopen(d)
    \/ \E d \in FDs, c \in SUBSET Conditions : Change(d, c)
    \/ \E p \in Pids : Exit(p)
    \/ Select \/ HandleStep \/ Return \/ Escape

Spec == Init /\ [][Next]_vars

\* The event loop calls select again and again, and a fiber it resumes transfers
\* back to it.  Nothing is assumed of the users, the kernel or the processes.
Fairness == WF_vars(Select) /\ WF_vars(HandleStep) /\ WF_vars(Return)

FairSpec == Spec /\ Fairness

-----------------------------------------------------------------------------
(***************************************************************************)
(* Properties                                                               *)
(***************************************************************************)

\* The waiting structures are on the stacks of the fibers (epoll.c:565): whatever
\* order fibers wait, are cancelled and are resumed in, also while handle walks the
\* list, a list holds the fibers that wait for its descriptor, each once, and handle
\* looks at none that has returned.
ListLive ==
    /\ \A d \in FDs :
          /\ IsInjective(list[d])
          /\ Range(list[d]) \ {Saved} = {f \in Fibers : at[f] = d}
    /\ node # None => at[node] = current

\* The saved node is on the stack of select: it is in the list only while the fiber
\* resumed by handle runs, and is taken out when an exception leaves it.
SavedBounded ==
    \A d \in FDs : Saved \in Range(list[d]) <=> phase = "resumed" /\ d = current

\* No list holds a structure of a stack frame that is gone.
ListsSound == ListLive /\ SavedBounded

\* The waiting_events of a descriptor are "the union of all events we are waiting for"
\* (epoll.c:58), at least, whenever handle is not computing them again.
WaitingCovered ==
    \A f \in Fibers : at[f] \notin {None, current} => events[f] \subseteq entry[at[f]].waiting

\* The kernel is asked for every event some fiber waits for, though Descriptor_update
\* decides that from what the entry remembers: descriptor numbers are reused, close
\* takes them out of the interest set, cancelled waits leave their events behind, and
\* resumed fibers register while handle has reset them.
Armed ==
    \A f \in Fibers : at[f] \notin {None, current} => events[f] \subseteq interest[at[f]]

\* Descriptors are armed for the fibers that wait for them, in the entry and in the kernel.
Covered == WaitingCovered /\ Armed

\* A fiber does not wait for ever while an event it waits for holds and the kernel is
\* asked for it, as long as some selects come to their end: exceptions do not leave every
\* one of them.
NoStuckWaiter ==
    []<><<SelectEnd>>_vars =>
        \A f \in Fibers :
            ~<>[](at[f] # None /\ events[f] \cap condition[at[f]] \cap interest[at[f]] # {})

\* "so that the HUP will be noted, rather than potentially ignored" (epoll.c:205):
\* a fiber does not wait for ever on a descriptor that has hung up.
HangupNoted ==
    \A f \in Fibers : ~<>[](at[f] # None /\ "hangup" \in condition[at[f]])

\* "Reap a process that is known to have changed state" (selector.h:62): process_wait
\* is not resumed to reap a process that still runs, for which it would return nil.
ReapKnown ==
    /\ phase = "handling"
    /\ node # None
    /\ target[node] \in Pids
    /\ events[node] \cap happened # {}
    => process[target[node]] # "running"

=============================================================================
