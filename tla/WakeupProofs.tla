---------------------------- MODULE WakeupProofs ----------------------------
(***************************************************************************)
(* Proofs about Wakeup: the EPoll selector loses no wakeup, for any number  *)
(* of threads.                                                              *)
(***************************************************************************)
EXTENDS Wakeup, TLAPS

\* The native select never is at "enter", and its wait is marked by blocked.
Marked == native => loop # "enter" /\ (loop = "wait" => blocked)

\* The ready list and the interrupt descriptor stay within their bounds, whoever
\* pushes and signals: a full descriptor is not written to.
THEOREM TypeCorrect == Spec => []TypeOK
<1> DEFINE Places == /\ loop \in {"flush", "check", "enter", "wait", "leave"}
                     /\ ready \in 0..MaxReady
                     /\ signals \in 0..Capacity
                     /\ unblock \in [Threads -> {"idle", "pushed"}]
<1>1. Init => Flags /\ Places
  <2>1. Init => Flags
    BY WakeupAssumption, Zenon DEF Init, Flags
  <2>2. Init => Places
    BY WakeupAssumption DEF Init
  <2> QED
    BY <2>1, <2>2
<1>2. ASSUME Flags, [Next]_vars PROVE Flags'
  <2> USE <1>2 DEF Flags
  <2>0. (ready > 0) \in BOOLEAN /\ (signals > 0) \in BOOLEAN
    OBVIOUS
  <2>1. CASE Select
    BY <2>0, <2>1, Zenon DEF Select, Flush, CheckPending, CheckReturns, CheckBlocks,
                             CheckDuration, Enter, Wake, Leave
  <2>2. CASE Expire
    BY <2>0, <2>2, Zenon DEF Expire
  <2>3. CASE \E t \in Threads : Push(t) \/ WakeupCall(t)
    BY <2>3, Zenon DEF Push, WakeupCall
  <2>4. CASE UNCHANGED vars
    BY <2>4 DEF vars
  <2> QED
    BY <1>2, <2>1, <2>2, <2>3, <2>4 DEF Next
<1>3. ASSUME Places, [Next]_vars PROVE Places'
  <2> USE <1>3, WakeupAssumption
  <2>1. CASE Flush
    BY <2>1 DEF Flush
  <2>2. CASE CheckPending \/ CheckReturns \/ CheckBlocks \/ CheckDuration
    BY <2>2 DEF CheckPending, CheckReturns, CheckBlocks, CheckDuration, Cleared
  <2>3. CASE Enter \/ Wake \/ Expire
    BY <2>3 DEF Enter, Wake, Expire
  <2>4. CASE Leave
    BY <2>4 DEF Leave, Cleared
  <2>5. ASSUME NEW t \in Threads, Push(t) PROVE Places'
    BY <2>5 DEF Push
  <2>6. ASSUME NEW t \in Threads, WakeupCall(t) PROVE Places'
    BY <2>6 DEF WakeupCall, Signalled
  <2>7. CASE UNCHANGED vars
    BY <2>7 DEF vars
  <2> QED
    BY <1>3, <2>1, <2>2, <2>3, <2>4, <2>5, <2>6, <2>7 DEF Next, Select
<1>4. Flags /\ Places => TypeOK
  BY DEF TypeOK
<1> HIDE DEF Places
<1> QED
  BY <1>1, <1>2, <1>3, <1>4, PTL DEF Spec

\* No wakeup is lost by the EPoll selector: blocked is set in the step that finds
\* the ready list empty, so every later push is followed by a wakeup that signals.
THEOREM WakeupSafe == Spec => []NativeWakeup
<1> DEFINE Inv == TypeOK /\ Marked /\ NativeWakeup
<1> USE WakeupAssumption
<1>1. Init /\ TypeOK => Inv
  BY DEF Init, Marked, NativeWakeup, NoLostWakeup
<1>2. ASSUME TypeOK, TypeOK', Inv, [Next]_vars PROVE Inv'
  <2>1. native' = native
    BY <1>2 DEF Next, Select, Flush, CheckPending, CheckReturns, CheckBlocks, CheckDuration,
                Enter, Wake, Leave, Expire, Push, WakeupCall, vars
  <2>2. CASE ~native
    BY <1>2, <2>1, <2>2 DEF Marked, NativeWakeup
  <2>3. CASE native
    <3> USE <1>2, <2>1, <2>3 DEF TypeOK, Marked, NativeWakeup, NoLostWakeup
    <3>1. CASE Flush \/ CheckPending \/ CheckReturns \/ CheckBlocks
      BY <3>1 DEF Flush, CheckPending, CheckReturns, CheckBlocks
    <3>2. CASE CheckDuration \/ Enter
      BY <3>2 DEF CheckDuration, Enter
    <3>3. CASE Wake \/ Leave
      BY <3>3 DEF Wake, Leave
    <3>4. CASE Expire
      BY <3>4 DEF Expire
    <3>5. ASSUME NEW t \in Threads, Push(t) PROVE Inv'
      BY <3>5 DEF Push
    <3>6. ASSUME NEW t \in Threads, WakeupCall(t) PROVE Inv'
      BY <3>6 DEF WakeupCall, Signalled
    <3>7. CASE UNCHANGED vars
      BY <3>7 DEF vars
    <3> QED
      BY <1>2, <3>1, <3>2, <3>3, <3>4, <3>5, <3>6, <3>7 DEF Next, Select
  <2> QED
    BY <1>2, <2>2, <2>3 DEF TypeOK, Flags
<1>3. Inv => NativeWakeup
  OBVIOUS
<1> QED
  BY <1>1, <1>2, <1>3, TypeCorrect, PTL DEF Spec

=============================================================================
