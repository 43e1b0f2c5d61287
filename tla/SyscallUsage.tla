---------------------------- MODULE SyscallUsage ----------------------------
(***************************************************************************)
(* The system-call usage table of kernel/usac/syscall2.c: track_syscall,   *)
(* called at the head of read, write, openat and clone, and the system     *)
(* call luis_track_syscall_usage that allocates the table on its first use *)
(* and copies it out.  Nothing is locked, so a call is split at every      *)
(* access to shared memory, as the compiled object makes them: the pointer *)
(* is loaded for the check and reused for "count++" (a load and a store),  *)
(* loaded again after ktime_get_real_ts64, and tv_nsec is stored before    *)
(* tv_sec.                                                                 *)
(***************************************************************************)
EXTENDS Integers, FiniteSets

CONSTANTS
    Tasks,           \* tasks that make system calls
    Hooks,           \* ids passed to track_syscall
    MAX_SYS_CALLS,
    ULONG_MOD,       \* 2^w for the w bits of unsigned long
    MaxArrays,       \* bound: successful allocations
    MaxCalls         \* bound: counted calls of each id

ASSUME SyscallUsageAssumption ==
    /\ IsFiniteSet(Tasks)
    /\ Hooks \subseteq Nat
    /\ MAX_SYS_CALLS \in Nat \ {0}
    /\ ULONG_MOD \in Nat \ {0}
    /\ MaxArrays \in Nat
    /\ MaxCalls \in Nat

VARIABLES
    syscall_counters,  \* NULL or the address of the table in use
    heap,              \* contents of the tables allocated so far
    allocated,         \* how many there are; their addresses are 1, 2, ...
    clock,             \* the number of clock readings: time as calls see it
    pc, ptr,           \* each task: where it is, the pointer it loaded,
    syscall_id,        \*   the id it tracks,
    loaded, now,       \*   the count it loaded, the time it read,
    word,              \*   the next word of the copy,
    estatic, ret,      \*   its user buffer and its return value
    entered, stored,   \* history: counted calls begun, counts stored, per id
    raced, failed      \* history: overlapping updates; a failed allocation

NULL == 0
ENOMEM == -12
EFAULT == -14

Fields == {"count", "tv_sec", "tv_nsec"}
syscall_usage == [Fields -> Nat]
Slots == 0 .. MAX_SYS_CALLS - 1
Table == [Slots -> syscall_usage]
Zeroed == [s \in Slots |-> [f \in Fields |-> 0]]
Arrays == 1 .. MaxArrays

\* The words of the table in the order copy_to_user moves them.
WORDS == 3 * MAX_SYS_CALLS
SlotOf(w) == w \div 3
FieldOf(w) == IF w % 3 = 0 THEN "count" ELSE IF w % 3 = 1 THEN "tv_sec" ELSE "tv_nsec"

taskVars == <<pc, ptr, syscall_id, loaded, now, word, estatic, ret>>
tableVars == <<syscall_counters, heap, allocated>>
history == <<entered, stored, raced, failed>>
vars == <<tableVars, clock, taskVars, history>>

PCs == {"idle", "load", "store", "clock", "reload", "sec", "alloc", "copy", "dead"}
Tracking == {"load", "store", "clock", "reload", "sec"}

TypeOK ==
    /\ syscall_counters \in Arrays \cup {NULL}
    /\ heap \in [Arrays -> Table]
    /\ allocated \in 0 .. MaxArrays
    /\ clock \in Nat
    /\ pc \in [Tasks -> PCs]
    /\ ptr \in [Tasks -> Arrays \cup {NULL}]
    /\ syscall_id \in [Tasks -> Slots]
    /\ loaded \in [Tasks -> Nat]
    /\ now \in [Tasks -> Nat]
    /\ word \in [Tasks -> 0 .. WORDS]
    /\ estatic \in [Tasks -> Table]
    /\ ret \in [Tasks -> {0, ENOMEM, EFAULT}]
    /\ entered \in [Slots -> Nat]
    /\ stored \in [Slots -> Nat]
    /\ raced \in BOOLEAN
    /\ failed \in BOOLEAN

Init ==
    /\ syscall_counters = NULL
    /\ heap = [a \in Arrays |-> Zeroed]
    /\ allocated = 0
    /\ clock = 0
    /\ pc = [t \in Tasks |-> "idle"]
    /\ ptr = [t \in Tasks |-> NULL]
    /\ syscall_id = [t \in Tasks |-> 0]
    /\ loaded = [t \in Tasks |-> 0]
    /\ now = [t \in Tasks |-> 0]
    /\ word = [t \in Tasks |-> 0]
    /\ estatic = [t \in Tasks |-> Zeroed]
    /\ ret = [t \in Tasks |-> 0]
    /\ entered = [s \in Slots |-> 0]
    /\ stored = [s \in Slots |-> 0]
    /\ raced = FALSE
    /\ failed = FALSE

\* The heap with v stored in field f of entry s of the table at a.
Stored(a, s, f, v) == [heap EXCEPT ![a][s][f] = v]

Goto(t, where) == pc' = [pc EXCEPT ![t] = where]

-----------------------------------------------------------------------------
(***************************************************************************)
(* track_syscall.                                                          *)
(***************************************************************************)

\* The check of the table and of the id.  A call that is not tracked leaves
\* no trace.
TrackEnter(t) ==
    /\ pc[t] = "idle"
    /\ \E id \in Hooks :
         /\ syscall_counters # NULL /\ id < MAX_SYS_CALLS
         /\ entered[id] < MaxCalls
         /\ syscall_id' = [syscall_id EXCEPT ![t] = id]
         /\ ptr' = [ptr EXCEPT ![t] = syscall_counters]
         /\ entered' = [entered EXCEPT ![id] = @ + 1]
         /\ raced' = (raced \/ \E u \in Tasks : pc[u] \in Tracking /\ syscall_id[u] = id)
    /\ Goto(t, "load")
    /\ UNCHANGED <<tableVars, clock, loaded, now, word, estatic, ret, stored, failed>>

\* count++ is the load and the store of one instruction without a lock.
CountLoad(t) ==
    /\ pc[t] = "load"
    /\ loaded' = [loaded EXCEPT ![t] = heap[ptr[t]][syscall_id[t]]["count"]]
    /\ Goto(t, "store")
    /\ UNCHANGED <<tableVars, clock, ptr, syscall_id, now, word, estatic, ret, history>>

\* Faulty: the value loaded is stored back.
CountStoreSame(t) ==
    /\ pc[t] = "store"
    /\ heap' = Stored(ptr[t], syscall_id[t], "count", loaded[t])
    /\ stored' = [stored EXCEPT ![syscall_id[t]] = @ + 1]
    /\ Goto(t, "clock")
    /\ UNCHANGED <<syscall_counters, allocated, clock, ptr, syscall_id, loaded, now, word,
                   estatic, ret, entered, raced, failed>>

CountStore(t) ==
    /\ pc[t] = "store"
    /\ heap' = Stored(ptr[t], syscall_id[t], "count", (loaded[t] + 1) % ULONG_MOD)
    /\ stored' = [stored EXCEPT ![syscall_id[t]] = @ + 1]
    /\ Goto(t, "clock")
    /\ UNCHANGED <<syscall_counters, allocated, clock, ptr, syscall_id, loaded, now, word,
                   estatic, ret, entered, raced, failed>>

\* ktime_get_real_ts64 (external): no two readings are equal.
ktime_get_real_ts64(t) ==
    /\ pc[t] = "clock"
    /\ clock' = clock + 1
    /\ now' = [now EXCEPT ![t] = clock + 1]
    /\ Goto(t, "reload")
    /\ UNCHANGED <<tableVars, ptr, syscall_id, loaded, word, estatic, ret, history>>

\* The pointer is loaded again and tv_nsec is stored through it, whatever it
\* is now: a NULL kills the task.
NsecStore(t) ==
    /\ pc[t] = "reload"
    /\ ptr' = [ptr EXCEPT ![t] = syscall_counters]
    /\ \/ /\ syscall_counters = NULL
          /\ Goto(t, "dead")
          /\ UNCHANGED heap
       \/ /\ syscall_counters # NULL
          /\ heap' = Stored(syscall_counters, syscall_id[t], "tv_nsec", now[t])
          /\ Goto(t, "sec")
    /\ UNCHANGED <<syscall_counters, allocated, clock, syscall_id, loaded, now, word,
                   estatic, ret, history>>

SecStore(t) ==
    /\ pc[t] = "sec"
    /\ heap' = Stored(ptr[t], syscall_id[t], "tv_sec", now[t])
    /\ Goto(t, "idle")
    /\ UNCHANGED <<syscall_counters, allocated, clock, ptr, syscall_id, loaded, now, word,
                   estatic, ret, history>>

-----------------------------------------------------------------------------
(***************************************************************************)
(* luis_track_syscall_usage and init_syscall_counters.                     *)
(***************************************************************************)

UsageEnter(t) ==
    /\ pc[t] = "idle"
    /\ ptr' = [ptr EXCEPT ![t] = syscall_counters]
    /\ word' = [word EXCEPT ![t] = 0]
    /\ \/ /\ syscall_counters = NULL
          /\ raced' = (raced \/ \E u \in Tasks : pc[u] = "alloc")
          /\ Goto(t, "alloc")
       \/ /\ syscall_counters # NULL
          /\ UNCHANGED raced
          /\ Goto(t, "copy")
    /\ UNCHANGED <<tableVars, clock, syscall_id, loaded, now, estatic, ret,
                   entered, stored, failed>>

\* Faulty: the table is not cleared.
init_syscall_countersDirty(t) ==
    /\ pc[t] = "alloc"
    /\ allocated < MaxArrays
    /\ allocated' = allocated + 1
    /\ heap' = [heap EXCEPT ![allocated + 1] =
                  [s \in Slots |-> [f \in Fields |-> MaxCalls + 1]]]
    /\ syscall_counters' = allocated + 1
    /\ ptr' = [ptr EXCEPT ![t] = allocated + 1]
    /\ Goto(t, "copy")
    /\ UNCHANGED <<failed, ret, clock, syscall_id, loaded, now, word, estatic,
                   entered, stored, raced>>

\* kzalloc, which may sleep, and the store of its result in the global
\* pointer whether it succeeded or not.
init_syscall_counters(t) ==
    /\ pc[t] = "alloc"
    /\ \/ /\ syscall_counters' = NULL
          /\ failed' = TRUE
          /\ ret' = [ret EXCEPT ![t] = ENOMEM]
          /\ Goto(t, "idle")
          /\ UNCHANGED <<allocated, ptr>>
       \/ /\ allocated < MaxArrays
          /\ allocated' = allocated + 1
          /\ syscall_counters' = allocated + 1
          /\ ptr' = [ptr EXCEPT ![t] = allocated + 1]
          /\ Goto(t, "copy")
          /\ UNCHANGED <<failed, ret>>
    /\ UNCHANGED <<heap, clock, syscall_id, loaded, now, word, estatic, entered, stored, raced>>

\* Faulty: a fault gives the table up.
CopyToUserFrees(t) ==
    /\ pc[t] = "copy"
    /\ \/ syscall_counters' = NULL /\ ret' = [ret EXCEPT ![t] = EFAULT]
       \/ ret' = [ret EXCEPT ![t] = 0] /\ UNCHANGED syscall_counters
    /\ Goto(t, "idle")
    /\ UNCHANGED <<heap, allocated, clock, ptr, syscall_id, loaded, now, word, estatic, history>>

\* copy_to_user of the table, a word at a time; it may fault at any of them.
CopyToUser(t) ==
    /\ pc[t] = "copy"
    /\ \/ /\ word[t] < WORDS
          /\ LET s == SlotOf(word[t])
                 f == FieldOf(word[t])
             IN estatic' = [estatic EXCEPT ![t][s][f] = heap[ptr[t]][s][f]]
          /\ word' = [word EXCEPT ![t] = @ + 1]
          /\ UNCHANGED <<pc, ret>>
       \/ /\ word[t] < WORDS
          /\ ret' = [ret EXCEPT ![t] = EFAULT]
          /\ Goto(t, "idle")
          /\ UNCHANGED <<estatic, word>>
       \/ /\ word[t] = WORDS
          /\ ret' = [ret EXCEPT ![t] = 0]
          /\ Goto(t, "idle")
          /\ UNCHANGED <<estatic, word>>
    /\ UNCHANGED <<tableVars, clock, ptr, syscall_id, loaded, now, history>>

Next == \E t \in Tasks :
    \/ TrackEnter(t) \/ CountLoad(t) \/ CountStore(t)
    \/ ktime_get_real_ts64(t) \/ NsecStore(t) \/ SecStore(t)
    \/ UsageEnter(t) \/ init_syscall_counters(t) \/ CopyToUser(t)

Spec == Init /\ [][Next]_vars

-----------------------------------------------------------------------------
(***************************************************************************)
(* Properties.                                                             *)
(***************************************************************************)

\* Races lose counts but never invent them: no count, in a table or in a
\* report, exceeds the number of calls of its id that track_syscall let in,
\* however stale the value a store is based on.
NoInventedCalls ==
    \A s \in Slots :
        /\ \A a \in Arrays : heap[a][s]["count"] <= entered[s]
        /\ \A t \in Tasks : estatic[t][s]["count"] <= entered[s]

\* While no two updates of an id and no two initialisations overlapped, the
\* table in use has counted every call that got past its count++.
ExactWhileAlone ==
    (~raced /\ syscall_counters # NULL) =>
        \A s \in Slots : heap[syscall_counters][s]["count"] = stored[s] % ULONG_MOD

\* A table, once in use, is replaced or withdrawn only by initialisations
\* that overlapped: a lone caller allocates one table for good.
OneTableWhileAlone ==
    [][(~raced /\ syscall_counters # NULL) => syscall_counters' = syscall_counters]_vars

\* A task dies on the reloaded pointer only after an allocation failed in an
\* initialisation that overlapped another one.
DeathNeedsFailedInit ==
    (\E t \in Tasks : pc[t] = "dead") => failed /\ raced

=============================================================================
