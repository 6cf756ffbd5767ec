------------------------------ MODULE Watermark ------------------------------
(***************************************************************************)
(* The watermark file (sfe/ingest/watermark.py): one JSON object for all   *)
(* endpoints, rewritten as a whole by set_watermark under a lock that is   *)
(* private to a process, and read without a lock by get_watermark.  A      *)
(* rewrite truncates the file first and writes its text afterwards.        *)
(***************************************************************************)
EXTENDS Naturals, FiniteSets

CONSTANTS
  Keys,       \* the endpoints' watermark keys
  Processes,  \* processes that share the storage root
  Threads,    \* threads that ingest
  Home,       \* Home[t]: the process thread t runs in
  LastDate,   \* dates are 1..LastDate
  MaxCalls    \* bound: calls of set_watermark and get_watermark

ASSUME HomeAssumption == Home \in [Threads -> Processes]
ASSUME DatesAssumption == LastDate \in Nat \ {0} /\ MaxCalls \in Nat

VARIABLES
  state,     \* of the file: "text", "empty" (truncated) or "garbage"
  marks,     \* the object the text stands for; NoDate where a key is absent
  lock,      \* lock[p]: the thread of p that holds _LOCK, or Nobody
  pc,        \* pc[t]: where thread t is in a call
  key,       \* key[t]: the argument key of t's call
  value,     \* value[t]: the argument value of t's call
  data,      \* data[t]: what t loaded from the file
  calls,     \* calls made so far
  completed  \* observer: completed[k]: the latest date a finished call set for k

vars == <<state, marks, lock, pc, key, value, data, calls, completed>>

NoDate == 0
Dates == 1..LastDate
Marks == [Keys -> 0..LastDate]
NoMarks == [k \in Keys |-> NoDate]

Nobody == "nobody"
ASSUME NobodyAssumption == Nobody \notin Threads

Init ==
  /\ state = "text"
  /\ marks = NoMarks
  /\ lock = [p \in Processes |-> Nobody]
  /\ pc = [t \in Threads |-> "idle"]
  /\ key \in [Threads -> Keys]
  /\ value = [t \in Threads |-> NoDate]
  /\ data = [t \in Threads |-> NoMarks]
  /\ calls = 0
  /\ completed = NoMarks

---------------------------------------------------------------------------
(* set_watermark(k, v) *)

Call(t, k, v) ==
  /\ pc[t] = "idle"
  /\ calls < MaxCalls
  /\ calls' = calls + 1
  /\ pc' = [pc EXCEPT ![t] = "lock"]
  /\ key' = [key EXCEPT ![t] = k]
  /\ value' = [value EXCEPT ![t] = v]
  /\ UNCHANGED <<state, marks, lock, data, completed>>

\* Faulty variant of Acquire: nobody waits for the lock.
AcquireUnlocked(t) ==
  /\ pc[t] = "lock"
  /\ lock' = [lock EXCEPT ![Home[t]] = t]
  /\ pc' = [pc EXCEPT ![t] = "load"]
  /\ UNCHANGED <<state, marks, key, value, data, calls, completed>>

Acquire(t) ==
  /\ pc[t] = "lock"
  /\ lock[Home[t]] = Nobody
  /\ lock' = [lock EXCEPT ![Home[t]] = t]
  /\ pc' = [pc EXCEPT ![t] = "load"]
  /\ UNCHANGED <<state, marks, key, value, data, calls, completed>>

\* Faulty variant of Return: the lock is not given back.
ReturnHoldingLock(t) ==
  /\ pc' = [pc EXCEPT ![t] = "idle"]
  /\ UNCHANGED lock

\* The call returns, or its exception passes through "with _LOCK".
Return(t) ==
  /\ pc' = [pc EXCEPT ![t] = "idle"]
  /\ lock' = [lock EXCEPT ![Home[t]] = Nobody]

\* json.loads raises on an empty or a garbled text.
LoadFails(t) ==
  /\ pc[t] = "load"
  /\ state # "text"
  /\ Return(t)
  /\ UNCHANGED <<state, marks, key, value, data, calls, completed>>

WithCompleted(t) ==
  [completed EXCEPT ![key[t]] = IF @ < value[t] THEN value[t] ELSE @]

\* cur is None or cur < value: only then is the file rewritten.
Advances(t) == marks[key[t]] < value[t]

Load(t) ==
  /\ pc[t] = "load"
  /\ state = "text"
  /\ IF Advances(t)
     THEN /\ data' = [data EXCEPT ![t] = marks]
          /\ pc' = [pc EXCEPT ![t] = "open"]
          /\ UNCHANGED <<lock, completed>>
     ELSE /\ Return(t)
          /\ completed' = WithCompleted(t)
          /\ UNCHANGED data
  /\ UNCHANGED <<state, marks, key, value, calls>>

\* write_text opens the file, which truncates it ...
Open(t) ==
  /\ pc[t] = "open"
  /\ state' = "empty"
  /\ marks' = NoMarks
  /\ pc' = [pc EXCEPT ![t] = "write"]
  /\ UNCHANGED <<lock, key, value, data, calls, completed>>

NewMarks(t) == [data[t] EXCEPT ![key[t]] = value[t]]

Entries(m) == {k \in Keys : m[k] # NoDate}

\* ... and puts the text at its beginning.  If another process wrote since, the
\* end of a longer text sticks out behind this one.
Write(t) ==
  /\ pc[t] = "write"
  /\ \/ /\ state' = "text"
        /\ marks' = NewMarks(t)
     \/ /\ state # "empty"
        /\ Entries(marks) # Entries(NewMarks(t))
        /\ state' = "garbage"
        /\ marks' = NoMarks
  /\ Return(t)
  /\ completed' = WithCompleted(t)
  /\ UNCHANGED <<key, value, data, calls>>

---------------------------------------------------------------------------
(* Everything else that happens *)

\* get_watermark and all_watermarks read the file without the lock.
GetWatermark(t) ==
  /\ pc[t] = "idle"
  /\ calls < MaxCalls
  /\ calls' = calls + 1
  /\ pc' = [pc EXCEPT ![t] = IF state = "text" THEN "got" ELSE "failed"]
  /\ UNCHANGED <<state, marks, lock, key, value, data, completed>>

Reply(t) ==
  /\ pc[t] \in {"got", "failed"}
  /\ pc' = [pc EXCEPT ![t] = "idle"]
  /\ UNCHANGED <<state, marks, lock, key, value, data, calls, completed>>

\* A process dies with all its threads; the lock dies with it, the file stays.
Crash(p) ==
  /\ \E t \in Threads : Home[t] = p /\ pc[t] # "idle"
  /\ pc' = [t \in Threads |-> IF Home[t] = p THEN "idle" ELSE pc[t]]
  /\ lock' = [lock EXCEPT ![p] = Nobody]
  /\ UNCHANGED <<state, marks, key, value, data, calls, completed>>

SetWatermark(t) ==
  Acquire(t) \/ Load(t) \/ LoadFails(t) \/ Open(t) \/ Write(t)

Next ==
  \/ \E t \in Threads :
       \/ \E k \in Keys, v \in Dates : Call(t, k, v)
       \/ SetWatermark(t)
       \/ GetWatermark(t)
       \/ Reply(t)
  \/ \E p \in Processes : Crash(p)

Spec == Init /\ [][Next]_vars

\* The operating system runs every thread that can run.
FairSpec == Spec /\ \A t \in Threads : WF_vars(SetWatermark(t) \/ Reply(t))

---------------------------------------------------------------------------
(* Properties *)

TypeOK ==
  /\ state \in {"text", "empty", "garbage"}
  /\ marks \in Marks
  /\ lock \in [Processes -> Threads \cup {Nobody}]
  /\ pc \in [Threads -> {"idle", "lock", "load", "open", "write", "got", "failed"}]
  /\ key \in [Threads -> Keys]
  /\ value \in [Threads -> 0..LastDate]
  /\ data \in [Threads -> Marks]
  /\ calls \in 0..MaxCalls
  /\ completed \in Marks

\* No update is lost and no watermark goes back (watermark.py:37-45): a file that
\* can be read holds, for every key, at least the latest date that a finished
\* set_watermark set, whichever keys other threads updated meanwhile.
FinishedCallsAreRecorded ==
  state = "text" => \A k \in Keys : marks[k] >= completed[k]

\* Every call ends, also the one whose load raised: the lock is always given
\* back (watermark.py:38), so nobody waits for it forever.
EveryCallEnds == \A t \in Threads : pc[t] # "idle" ~> pc[t] = "idle"

==============================================================================
