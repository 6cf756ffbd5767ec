--------------------------- MODULE WatermarkProofs ---------------------------
(***************************************************************************)
(* Theorems about the watermark file, for any number of keys, threads,     *)
(* dates and calls.  With all threads in one process, the lock makes the   *)
(* read-modify-write atomic and no update is lost, even across crashes.    *)
(***************************************************************************)
EXTENDS Watermark, TLAPS

\* Every variable keeps its type (watermark.py:18-45).
THEOREM WatermarkTyped == Spec => []TypeOK
<1>1. Init => TypeOK
  BY HomeAssumption, DatesAssumption
  DEF Init, TypeOK, NoMarks, Marks, NoDate, Nobody
<1>2. TypeOK /\ [Next]_vars => TypeOK'
  <2> SUFFICES ASSUME TypeOK, [Next]_vars PROVE TypeOK'
    OBVIOUS
  <2> USE HomeAssumption, DatesAssumption
      DEF TypeOK, NoMarks, Marks, Dates, NoDate, Nobody
  <2>1. ASSUME NEW t \in Threads, NEW k \in Keys, NEW v \in Dates, Call(t, k, v)
        PROVE  TypeOK'
    BY <2>1 DEF Call
  <2>2. ASSUME NEW t \in Threads, Acquire(t) PROVE TypeOK'
    BY <2>2 DEF Acquire
  <2>3. ASSUME NEW t \in Threads, Load(t) PROVE TypeOK'
    BY <2>3 DEF Load, Return, WithCompleted, Advances
  <2>4. ASSUME NEW t \in Threads, LoadFails(t) PROVE TypeOK'
    BY <2>4 DEF LoadFails, Return
  <2>5. ASSUME NEW t \in Threads, Open(t) PROVE TypeOK'
    BY <2>5 DEF Open
  <2>6. ASSUME NEW t \in Threads, Write(t) PROVE TypeOK'
    BY <2>6 DEF Write, Return, WithCompleted, NewMarks
  <2>7. ASSUME NEW t \in Threads, GetWatermark(t) \/ Reply(t) PROVE TypeOK'
    BY <2>7 DEF GetWatermark, Reply
  <2>8. ASSUME NEW p \in Processes, Crash(p) PROVE TypeOK'
    BY <2>8 DEF Crash
  <2>9. CASE UNCHANGED vars
    BY <2>9 DEF vars
  <2>. QED
    BY <2>1, <2>2, <2>3, <2>4, <2>5, <2>6, <2>7, <2>8, <2>9 DEF Next, SetWatermark
<1>. QED
  BY <1>1, <1>2, PTL DEF Spec

---------------------------------------------------------------------------
\* All ingesting threads share one process, as in one Prefect worker.
OneHome == \A t, u \in Threads : Home[t] = Home[u]

\* Only the thread that holds the lock is inside the critical section.
LockIsHeld ==
  \A t \in Threads : pc[t] \in {"load", "open", "write"} => lock[Home[t]] = t

\* Between its load and its open, the file still says what t loaded.
LoadedIsCurrent ==
  \A t \in Threads : pc[t] = "open" =>
    state = "text" /\ data[t] = marks /\ marks[key[t]] < value[t]

\* While t rewrites the file, t's copy still has every finished call.
CopyHasFinishedCalls ==
  \A t \in Threads : pc[t] = "write" =>
    /\ state = "empty"
    /\ \A k \in Keys : data[t][k] >= completed[k]
    /\ data[t][key[t]] < value[t]

IInv ==
  /\ TypeOK
  /\ LockIsHeld
  /\ LoadedIsCurrent
  /\ CopyHasFinishedCalls
  /\ FinishedCallsAreRecorded

\* With one process no finished set_watermark is lost or undone.
THEOREM NoLostUpdate ==
  ASSUME OneHome
  PROVE  Spec => []FinishedCallsAreRecorded
<1>1. Init => IInv
  BY HomeAssumption, DatesAssumption
  DEF Init, IInv, TypeOK, LockIsHeld, LoadedIsCurrent, CopyHasFinishedCalls,
      FinishedCallsAreRecorded, NoMarks, Marks, NoDate, Nobody
<1>2. IInv /\ TypeOK' /\ [Next]_vars => IInv'
  <2> SUFFICES ASSUME IInv, TypeOK', [Next]_vars PROVE IInv'
    OBVIOUS
  <2> USE OneHome, HomeAssumption, DatesAssumption
      DEF IInv, TypeOK, LockIsHeld, LoadedIsCurrent, CopyHasFinishedCalls,
          FinishedCallsAreRecorded, OneHome
  <2>1. ASSUME NEW t \in Threads, NEW k \in Keys, NEW v \in Dates, Call(t, k, v)
        PROVE  IInv'
    BY <2>1 DEF Call
  <2>2. ASSUME NEW t \in Threads, Acquire(t) PROVE IInv'
    BY <2>2, NobodyAssumption DEF Acquire
  <2>3. ASSUME NEW t \in Threads, Load(t) PROVE IInv'
    <3>1. \A u \in Threads \ {t} : pc[u] \notin {"load", "open", "write"}
      BY <2>3 DEF Load
    <3>2. CASE Advances(t)
      <4>1. /\ pc' = [pc EXCEPT ![t] = "open"]
            /\ data' = [data EXCEPT ![t] = marks]
            /\ UNCHANGED <<state, marks, lock, key, value, completed>>
            /\ state = "text"
        BY <2>3, <3>2 DEF Load
      <4>2. LockIsHeld'
        BY <2>3, <4>1 DEF Load
      <4>3. LoadedIsCurrent'
        BY <3>1, <3>2, <4>1 DEF Advances
      <4>4. CopyHasFinishedCalls'
        BY <3>1, <4>1
      <4>5. FinishedCallsAreRecorded'
        BY <4>1
      <4>. QED
        BY <4>2, <4>3, <4>4, <4>5
    <3>3. CASE ~Advances(t)
      <4>1. /\ pc' = [pc EXCEPT ![t] = "idle"]
            /\ lock' = [lock EXCEPT ![Home[t]] = Nobody]
            /\ completed' = WithCompleted(t)
            /\ UNCHANGED <<state, marks, key, value, data>>
        BY <2>3, <3>3 DEF Load, Return
      <4>2. LockIsHeld' /\ LoadedIsCurrent' /\ CopyHasFinishedCalls'
        BY <3>1, <4>1
      <4>3. FinishedCallsAreRecorded'
        BY <3>3, <4>1 DEF WithCompleted, Advances, Marks
      <4>. QED
        BY <4>2, <4>3
    <3>. QED
      BY <3>2, <3>3
  <2>4. ASSUME NEW t \in Threads, LoadFails(t) PROVE IInv'
    BY <2>4, NobodyAssumption DEF LoadFails, Return
  <2>5. ASSUME NEW t \in Threads, Open(t) PROVE IInv'
    BY <2>5, NobodyAssumption DEF Open, Marks
  <2>6. ASSUME NEW t \in Threads, Write(t) PROVE IInv'
    BY <2>6, NobodyAssumption DEF Write, Return, WithCompleted, NewMarks, Marks
  <2>7. ASSUME NEW t \in Threads, GetWatermark(t) \/ Reply(t) PROVE IInv'
    BY <2>7 DEF GetWatermark, Reply
  <2>8. ASSUME NEW p \in Processes, Crash(p) PROVE IInv'
    BY <2>8 DEF Crash
  <2>9. CASE UNCHANGED vars
    BY <2>9 DEF vars
  <2>. QED
    BY <2>1, <2>2, <2>3, <2>4, <2>5, <2>6, <2>7, <2>8, <2>9 DEF Next, SetWatermark
<1>3. IInv => FinishedCallsAreRecorded
  BY DEF IInv
<1>. QED
  BY <1>1, <1>2, <1>3, WatermarkTyped, PTL DEF Spec

==============================================================================
