---------------------------- MODULE BackendCalls ----------------------------
(***************************************************************************)
(* What the resident backends of one process share: the threads that call  *)
(* prepare, score_universal_choice and close, the _load_lock of each       *)
(* backend, and torch's process-global CPU thread count.                   *)
(***************************************************************************)
EXTENDS Integers

CONSTANTS
    Threads,        \* the threads of the process
    Backends,       \* the backend instances
    Nobody,         \* no thread, no backend
    CpuThreads,     \* the cpu_threads each backend was constructed with
    StartThreads,   \* torch's thread count before any backend is prepared
    Unset,          \* None
    Defects,        \* the combinations of what may be wrong with the inputs
    MaxCalls        \* bound on the calls of each thread

DefectNames ==
    {"none", "capsule", "snapshot", "runtime", "encoder", "ranker",
     "tokenizer", "weights", "unlisted"}

ASSUME CallsAssumption ==
    /\ Nobody \notin Threads \cup Backends
    /\ Unset \notin Nat
    /\ CpuThreads \in [Backends -> Nat]
    /\ StartThreads \in Nat
    /\ Defects \subseteq [Backends -> DefectNames]
    /\ MaxCalls \in [Threads -> Nat]

VARIABLES
    at,         \* what the thread does next, "idle" outside any call
    on,         \* the backend it calls
    op,         \* the method it calls
    kept,       \* the prior thread count a releasing thread holds in a local
    left,       \* calls the thread may still make
    holder,     \* the thread inside the _load_lock of each backend
    cpu,        \* torch.get_num_threads()
    defect      \* what is wrong with each backend's inputs; fixed

callVars == <<at, on, op, kept, left>>

Operations == {"prepare", "score", "close"}

InitCalls ==
    /\ at = [t \in Threads |-> "idle"]
    /\ on = [t \in Threads |-> Nobody]
    /\ op = [t \in Threads |-> "prepare"]
    /\ kept = [t \in Threads |-> Unset]
    /\ left = MaxCalls
    /\ holder = [b \in Backends |-> Nobody]
    /\ cpu = StartThreads
    /\ defect \in Defects

-----------------------------------------------------------------------------

\* A thread calls a method of a backend; the request is valid.
Call(t, b, m) ==
    /\ at[t] = "idle"
    /\ left[t] > 0
    /\ left' = [left EXCEPT ![t] = @ - 1]
    /\ at' = [at EXCEPT ![t] = "enter"]
    /\ on' = [on EXCEPT ![t] = b]
    /\ op' = [op EXCEPT ![t] = m]
    /\ UNCHANGED <<kept, holder, cpu, defect>>

\* "with self._load_lock" is entered.
Lock(t, s) ==
    /\ holder[on[t]] = Nobody
    /\ holder' = [holder EXCEPT ![on[t]] = t]
    /\ at' = [at EXCEPT ![t] = s]
    /\ UNCHANGED <<on, op, left>>

\* The thread goes on inside the lock.
Goto(t, s) ==
    /\ at' = [at EXCEPT ![t] = s]
    /\ UNCHANGED <<on, op, left, holder>>

\* The thread is in no call.
Leave(t) ==
    /\ on' = [on EXCEPT ![t] = Nobody]
    /\ op' = [op EXCEPT ![t] = "prepare"]

\* The lock is left; a call that has more to do continues at s.
Unlock(t, s) ==
    /\ holder' = [holder EXCEPT ![on[t]] = Nobody]
    /\ at' = [at EXCEPT ![t] = s]
    /\ IF s = "idle" THEN Leave(t) ELSE UNCHANGED <<on, op>>
    /\ UNCHANGED left

\* The lock is entered and left with nothing done: the call returns or raises.
Bounce(t) ==
    /\ holder[on[t]] = Nobody
    /\ at' = [at EXCEPT ![t] = "idle"]
    /\ Leave(t)
    /\ UNCHANGED <<left, holder>>
=============================================================================
