---------------------------- MODULE MemoryLimit ----------------------------
(***************************************************************************)
(* The memory-limit registry of kernel/usac/project3/syscall7.c: the three *)
(* system calls so2_add_memory_limit, so2_get_memory_limits and            *)
(* so2_update_memory_limit, run by concurrent callers over one linked list *)
(* guarded by one mutex, while the processes they name run, fault memory   *)
(* in, exit and have their pid used again.                                 *)
(*                                                                         *)
(* A call is split where another task can observe or disturb it: the       *)
(* lookup of the task, the read of task->mm, the read of the resident set, *)
(* the mutex, each piece of work under it, and the copies to user memory.  *)
(***************************************************************************)
EXTENDS Integers, Sequences, FiniteSets

CONSTANTS
    Callers,      \* tasks that issue the system calls
    Pids,         \* pids that can name a process
    PidArgs,      \* pid arguments callers pass (Pids, 0 and negatives)
    LimitArgs,    \* signed limits callers pass, in KB
    MaxArgs,      \* max_entries arguments
    MaxPages,     \* bound: resident pages of a process
    PAGE_KB,      \* PAGE_SIZE / 1024
    SIZE_MOD,     \* 2^w for the w bits of size_t
    NoOwner       \* "the mutex is free"

ASSUME MemoryLimitAssumption ==
    /\ Pids \subseteq Nat \ {0}
    /\ PidArgs \subseteq Int
    /\ LimitArgs \subseteq Int
    /\ MaxArgs \subseteq Nat
    /\ MaxPages \in Nat
    /\ PAGE_KB \in Nat \ {0}
    /\ SIZE_MOD \in Nat \ {0}
    /\ NoOwner \notin Callers

VARIABLES
    memory_limit_list,   \* entries, head first
    memory_limit_lock,   \* the caller that owns the mutex, or NoOwner
    task,                \* pid -> "none", "nomm" (kernel thread, zombie), "user"
    rss,                 \* pid -> resident pages of its mm
    pc, call,            \* where each caller is, and its arguments
    dangling,            \* the task or mm pointer of the caller is stale
    ret,                 \* return value of the call
    kernel_buffer,       \* so2_get_memory_limits' kmalloc'ed array
    u_processes_buffer,  \* the caller's buffer
    processes_returned   \* the caller's count; -1 while not written

vars == <<memory_limit_list, memory_limit_lock, task, rss, pc, call, dangling,
          ret, kernel_buffer, u_processes_buffer, processes_returned>>
procVars == <<task, rss>>
listVars == <<memory_limit_list, memory_limit_lock>>
userVars == <<u_processes_buffer, processes_returned>>

EINVAL == -22
EPERM  == -1
ESRCH  == -3
ENOMEM == -12
EFAULT == -14
EXCEEDS == -100      \* the process already uses more than the limit
PRESENT == -101      \* the process is already in the list
ABSENT  == -102      \* the process is not in the list

(***************************************************************************)
(* struct memory_limitation without its list links: the order of the       *)
(* sequence is the order of the links.                                     *)
(***************************************************************************)
memory_limitation == [pid : Nat, memory_limit : Nat]

\* A signed argument received in a size_t parameter.
size_t(x) == x % SIZE_MOD

Ops == {"none", "add", "get", "update"}
Calls == [op : Ops, pid : Int, limit : Nat, max : Nat]
NoCall == [op |-> "none", pid |-> 0, limit |-> 0, max |-> 0]

PCs == {"idle", "mm", "rss", "lock", "scan", "alloc", "count", "copy",
        "unlock", "copy_to_user", "put_user", "done", "dead"}
Locked == {"scan", "alloc", "count", "copy", "unlock"}

Buffers == [live : BOOLEAN, cap : Nat, data : Seq(memory_limitation)]
NoBuffer == [live |-> FALSE, cap |-> 0, data |-> <<>>]

Minimum(a, b) == IF a <= b THEN a ELSE b
PidsOf(list) == {list[i].pid : i \in 1 .. Len(list)}

TypeOK ==
    /\ memory_limit_list \in Seq(memory_limitation)
    /\ memory_limit_lock \in Callers \cup {NoOwner}
    /\ task \in [Pids -> {"none", "nomm", "user"}]
    /\ rss \in [Pids -> 0 .. MaxPages]
    /\ pc \in [Callers -> PCs]
    /\ call \in [Callers -> Calls]
    /\ dangling \in [Callers -> BOOLEAN]
    /\ ret \in [Callers -> Int]
    /\ kernel_buffer \in [Callers -> Buffers]
    /\ u_processes_buffer \in [Callers -> Seq(memory_limitation)]
    /\ processes_returned \in [Callers -> Nat \cup {-1}]

Init ==
    /\ memory_limit_list = <<>>
    /\ memory_limit_lock = NoOwner
    /\ task \in [Pids -> {"none", "nomm", "user"}]
    /\ rss = [p \in Pids |-> 0]
    /\ pc = [c \in Callers |-> "idle"]
    /\ call = [c \in Callers |-> NoCall]
    /\ dangling = [c \in Callers |-> FALSE]
    /\ ret = [c \in Callers |-> 0]
    /\ kernel_buffer = [c \in Callers |-> NoBuffer]
    /\ u_processes_buffer = [c \in Callers |-> <<>>]
    /\ processes_returned = [c \in Callers |-> -1]

-----------------------------------------------------------------------------
(***************************************************************************)
(* The processes (external).  pid_task() is called with no RCU read lock   *)
(* and takes no reference, so a process that goes on dying while a caller  *)
(* holds a pointer to its task or mm leaves that pointer dangling.         *)
(***************************************************************************)
Holders(p, at) == {c \in Callers : pc[c] = at /\ call[c].pid = p}

Invalidate(S) == dangling' = [c \in Callers |-> dangling[c] \/ c \in S]

Spawn(p) ==
    /\ task[p] = "none"
    /\ \E t \in {"nomm", "user"} : task' = [task EXCEPT ![p] = t]
    /\ UNCHANGED <<listVars, rss, pc, call, dangling, ret, kernel_buffer, userVars>>

Fault(p) ==
    /\ task[p] = "user"
    /\ \E n \in 0 .. MaxPages : rss' = [rss EXCEPT ![p] = n]
    /\ UNCHANGED <<listVars, task, pc, call, dangling, ret, kernel_buffer, userVars>>

\* The process lets go of its mm: it exits, or takes a new one in exec.
ExitMm(p) ==
    /\ task[p] = "user"
    /\ \E t \in {"nomm", "user"} : task' = [task EXCEPT ![p] = t]
    /\ rss' = [rss EXCEPT ![p] = 0]
    /\ Invalidate(Holders(p, "rss"))
    /\ UNCHANGED <<listVars, pc, call, ret, kernel_buffer, userVars>>

Reap(p) ==
    /\ task[p] = "nomm"
    /\ task' = [task EXCEPT ![p] = "none"]
    /\ Invalidate(Holders(p, "mm"))
    /\ UNCHANGED <<listVars, rss, pc, call, ret, kernel_buffer, userVars>>

-----------------------------------------------------------------------------
Goto(c, where) == pc' = [pc EXCEPT ![c] = where]

\* Finish the call with value v; the caller then reads it at its leisure.
Return(c, v) ==
    /\ Goto(c, "done")
    /\ ret' = [ret EXCEPT ![c] = v]

\* Leave the critical section by way of mutex_unlock, to return v after it.
UnlockAndReturn(c, v) ==
    /\ Goto(c, "unlock")
    /\ ret' = [ret EXCEPT ![c] = v]

(***************************************************************************)
(* The common head of add and update: argument checks, the capability      *)
(* check and the task lookup, in that order.  The limit is a size_t, so    *)
(* "memory_limit <= 0" holds only of 0.                                    *)
(***************************************************************************)
Rejection(pid, limit, capable) ==
    IF pid <= 0 \/ limit <= 0 THEN EINVAL
    ELSE IF ~capable THEN EPERM
    ELSE IF pid \notin Pids \/ task[pid] = "none" THEN ESRCH
    ELSE 0

LimitEnter(c, op) ==
    /\ pc[c] = "idle"
    /\ \E pid \in PidArgs, arg \in LimitArgs, capable \in BOOLEAN :
         LET error == Rejection(pid, size_t(arg), capable) IN
         /\ call' = [call EXCEPT ![c] =
                       [op |-> op, pid |-> pid, limit |-> size_t(arg), max |-> 0]]
         /\ IF error # 0 THEN Return(c, error)
            ELSE Goto(c, "mm") /\ UNCHANGED ret
    /\ UNCHANGED <<listVars, procVars, dangling, kernel_buffer, userVars>>

AddEnter(c) == LimitEnter(c, "add")

UpdateEnter(c) == LimitEnter(c, "update")

(***************************************************************************)
(* mm = task->mm.  Through a dangling task pointer the value read is       *)
(* whatever the freed memory holds: a null, or a pointer to nowhere.       *)
(***************************************************************************)
ReadMm(c) ==
    /\ pc[c] = "mm"
    /\ \/ /\ dangling[c] \/ task[call[c].pid] # "user"
          /\ Return(c, ESRCH)
          /\ dangling' = [dangling EXCEPT ![c] = FALSE]
       \/ /\ dangling[c] \/ task[call[c].pid] = "user"
          /\ Goto(c, "rss")
          /\ UNCHANGED <<ret, dangling>>
    /\ UNCHANGED <<listVars, procVars, call, kernel_buffer, userVars>>

KB(pages) == pages * PAGE_KB

\* get_mm_rss(mm) against the limit; a dangling mm reads as anything.
CheckRss(c) ==
    /\ pc[c] = "rss"
    /\ \/ /\ dangling[c] \/ KB(rss[call[c].pid]) > call[c].limit
          /\ Return(c, EXCEEDS)
       \/ /\ dangling[c] \/ KB(rss[call[c].pid]) <= call[c].limit
          /\ Goto(c, "lock")
          /\ UNCHANGED ret
    /\ dangling' = [dangling EXCEPT ![c] = FALSE]
    /\ UNCHANGED <<listVars, procVars, call, kernel_buffer, userVars>>

\* Following a dangling pointer may also oops, which kills the caller.
Oops(c) ==
    /\ pc[c] \in {"mm", "rss"}
    /\ dangling[c]
    /\ Goto(c, "dead")
    /\ dangling' = [dangling EXCEPT ![c] = FALSE]
    /\ UNCHANGED <<listVars, procVars, call, ret, kernel_buffer, userVars>>

mutex_lock(c) ==
    /\ pc[c] = "lock"
    /\ memory_limit_lock = NoOwner
    /\ memory_limit_lock' = c
    /\ Goto(c, IF call[c].op = "get" THEN "count" ELSE "scan")
    /\ UNCHANGED <<memory_limit_list, procVars, call, dangling, ret, kernel_buffer, userVars>>

mutex_unlock(c) ==
    /\ pc[c] = "unlock"
    /\ memory_limit_lock' = NoOwner
    /\ Goto(c, IF kernel_buffer[c].live THEN "copy_to_user" ELSE "done")
    /\ UNCHANGED <<memory_limit_list, procVars, call, dangling, ret, kernel_buffer, userVars>>

-----------------------------------------------------------------------------
\* Faulty: the walk starts after the first entry.
AddScanSkipsHead(c) ==
    /\ pc[c] = "scan"
    /\ call[c].op = "add"
    /\ IF \E i \in 2 .. Len(memory_limit_list) : memory_limit_list[i].pid = call[c].pid
       THEN UnlockAndReturn(c, PRESENT)
       ELSE Goto(c, "alloc") /\ UNCHANGED ret
    /\ UNCHANGED <<listVars, procVars, call, dangling, kernel_buffer, userVars>>

\* Faulty: the early return for a duplicate forgets the mutex.
AddScanKeepsLock(c) ==
    /\ pc[c] = "scan"
    /\ call[c].op = "add"
    /\ IF call[c].pid \in PidsOf(memory_limit_list)
       THEN Return(c, PRESENT)
       ELSE Goto(c, "alloc") /\ UNCHANGED ret
    /\ UNCHANGED <<listVars, procVars, call, dangling, kernel_buffer, userVars>>

\* so2_add_memory_limit: the walk over the list for the pid.
AddScan(c) ==
    /\ pc[c] = "scan"
    /\ call[c].op = "add"
    /\ IF call[c].pid \in PidsOf(memory_limit_list)
       THEN UnlockAndReturn(c, PRESENT)
       ELSE Goto(c, "alloc") /\ UNCHANGED ret
    /\ UNCHANGED <<listVars, procVars, call, dangling, kernel_buffer, userVars>>

\* so2_add_memory_limit: kmalloc, which can sleep and fail, then list_add,
\* which links the entry at the head.
AddInsert(c) ==
    /\ pc[c] = "alloc"
    /\ \/ /\ UnlockAndReturn(c, ENOMEM)
          /\ UNCHANGED memory_limit_list
       \/ /\ memory_limit_list' =
               <<[pid |-> call[c].pid, memory_limit |-> call[c].limit]>> \o memory_limit_list
          /\ UnlockAndReturn(c, 0)
    /\ UNCHANGED <<memory_limit_lock, procVars, call, dangling, kernel_buffer, userVars>>

\* Faulty: the limit is written to the head entry, not to the one found.
UpdateScanHead(c) ==
    /\ pc[c] = "scan"
    /\ call[c].op = "update"
    /\ IF call[c].pid \in PidsOf(memory_limit_list)
       THEN /\ memory_limit_list' =
                 [memory_limit_list EXCEPT ![1].memory_limit = call[c].limit]
            /\ UnlockAndReturn(c, 0)
       ELSE UnlockAndReturn(c, ABSENT) /\ UNCHANGED memory_limit_list
    /\ UNCHANGED <<memory_limit_lock, procVars, call, dangling, kernel_buffer, userVars>>

\* so2_update_memory_limit: the first entry of the pid takes the new limit.
UpdateScan(c) ==
    /\ pc[c] = "scan"
    /\ call[c].op = "update"
    /\ \/ /\ call[c].pid \notin PidsOf(memory_limit_list)
          /\ UnlockAndReturn(c, ABSENT)
          /\ UNCHANGED memory_limit_list
       \/ \E i \in 1 .. Len(memory_limit_list) :
            /\ memory_limit_list[i].pid = call[c].pid
            /\ \A j \in 1 .. i - 1 : memory_limit_list[j].pid # call[c].pid
            /\ memory_limit_list' =
                 [memory_limit_list EXCEPT ![i].memory_limit = call[c].limit]
            /\ UnlockAndReturn(c, 0)
    /\ UNCHANGED <<memory_limit_lock, procVars, call, dangling, kernel_buffer, userVars>>

-----------------------------------------------------------------------------
\* so2_get_memory_limits: max_entries and the two pointers are checked.
GetEnter(c) ==
    /\ pc[c] = "idle"
    /\ \E max \in MaxArgs, nullPointer \in BOOLEAN :
         /\ call' = [call EXCEPT ![c] =
                       [op |-> "get", pid |-> 0, limit |-> 0, max |-> max]]
         /\ IF max <= 0 \/ nullPointer THEN Return(c, EINVAL)
            ELSE Goto(c, "lock") /\ UNCHANGED ret
    /\ UNCHANGED <<listVars, procVars, dangling, kernel_buffer, userVars>>

\* Faulty: the array is one element short.
GetCountShort(c) ==
    /\ pc[c] = "count"
    /\ LET count == Minimum(Len(memory_limit_list), call[c].max) IN
       kernel_buffer' = [kernel_buffer EXCEPT ![c] =
           [live |-> TRUE, cap |-> IF count = 0 THEN 0 ELSE count - 1, data |-> <<>>]]
    /\ Goto(c, "copy")
    /\ UNCHANGED <<listVars, procVars, call, dangling, ret, userVars>>

\* so2_get_memory_limits: count, clamp, kmalloc_array.  An array of no
\* elements is allocated without fail (ZERO_SIZE_PTR is not NULL).
GetCount(c) ==
    /\ pc[c] = "count"
    /\ LET count == Minimum(Len(memory_limit_list), call[c].max) IN
       \/ /\ count > 0
          /\ UnlockAndReturn(c, ENOMEM)
          /\ UNCHANGED kernel_buffer
       \/ /\ kernel_buffer' = [kernel_buffer EXCEPT ![c] =
                                 [live |-> TRUE, cap |-> count, data |-> <<>>]]
          /\ Goto(c, "copy")
          /\ UNCHANGED ret
    /\ UNCHANGED <<listVars, procVars, call, dangling, userVars>>

\* so2_get_memory_limits: the second walk, which stops at max_entries (not
\* at the size the array was allocated with).
GetCopy(c) ==
    /\ pc[c] = "copy"
    /\ kernel_buffer' = [kernel_buffer EXCEPT ![c].data =
           SubSeq(memory_limit_list, 1, Minimum(Len(memory_limit_list), call[c].max))]
    /\ UnlockAndReturn(c, 0)
    /\ UNCHANGED <<listVars, procVars, call, dangling, userVars>>

kfree(c) == kernel_buffer' = [kernel_buffer EXCEPT ![c] = NoBuffer]

\* copy_to_user of the whole array.  A fault leaves a part of it copied; a
\* copy of no bytes cannot fault.
CopyToUser(c) ==
    /\ pc[c] = "copy_to_user"
    /\ LET data == kernel_buffer[c].data IN
       \/ /\ u_processes_buffer' = [u_processes_buffer EXCEPT ![c] = data]
          /\ Goto(c, "put_user")
          /\ UNCHANGED <<ret, kernel_buffer>>
       \/ \E n \in 0 .. Len(data) - 1 :
          /\ u_processes_buffer' = [u_processes_buffer EXCEPT ![c] = SubSeq(data, 1, n)]
          /\ Return(c, EFAULT)
          /\ kfree(c)
    /\ UNCHANGED <<listVars, procVars, call, dangling, processes_returned>>

\* put_user of the count; a fault leaves the array delivered without it.
PutUser(c) ==
    /\ pc[c] = "put_user"
    /\ \/ /\ processes_returned' =
               [processes_returned EXCEPT ![c] = Len(kernel_buffer[c].data)]
          /\ Return(c, 0)
       \/ Return(c, EFAULT) /\ UNCHANGED processes_returned
    /\ kfree(c)
    /\ UNCHANGED <<listVars, procVars, call, dangling, u_processes_buffer>>

\* The program takes the result of its call and reuses its buffers (external).
Collect(c) ==
    /\ pc[c] = "done"
    /\ Goto(c, "idle")
    /\ call' = [call EXCEPT ![c] = NoCall]
    /\ ret' = [ret EXCEPT ![c] = 0]
    /\ u_processes_buffer' = [u_processes_buffer EXCEPT ![c] = <<>>]
    /\ processes_returned' = [processes_returned EXCEPT ![c] = -1]
    /\ UNCHANGED <<listVars, procVars, dangling, kernel_buffer>>

-----------------------------------------------------------------------------
\* What a call does once it was entered, the wait for the mutex apart.
Proceed(c) ==
    \/ ReadMm(c) \/ CheckRss(c) \/ Oops(c)
    \/ AddScan(c) \/ AddInsert(c) \/ UpdateScan(c)
    \/ GetCount(c) \/ GetCopy(c) \/ mutex_unlock(c)
    \/ CopyToUser(c) \/ PutUser(c)

Enter(c) == AddEnter(c) \/ UpdateEnter(c) \/ GetEnter(c)

Next ==
    \/ \E p \in Pids : Spawn(p) \/ Fault(p) \/ ExitMm(p) \/ Reap(p)
    \/ \E c \in Callers : Enter(c) \/ mutex_lock(c) \/ Proceed(c) \/ Collect(c)

Spec == Init /\ [][Next]_vars

(***************************************************************************)
(* A task in the kernel is scheduled again, so a call goes on.  A kernel   *)
(* mutex hands itself over to a waiter that was passed by, hence strong    *)
(* fairness of the acquisition.  Nothing obliges a program to call, or a   *)
(* process to run or die.                                                  *)
(***************************************************************************)
Fairness ==
    \A c \in Callers : WF_vars(Proceed(c)) /\ SF_vars(mutex_lock(c))

FairSpec == Spec /\ Fairness

-----------------------------------------------------------------------------
(***************************************************************************)
(* Properties.                                                             *)
(***************************************************************************)

\* No pid has two entries, however many adds of it race: the walk of
\* so2_add_memory_limit and its list_add are one critical section although
\* kmalloc sleeps between them.
PidsUnique ==
    \A i, j \in 1 .. Len(memory_limit_list) :
        memory_limit_list[i].pid = memory_limit_list[j].pid => i = j

\* The mutex is owned by a caller exactly while it is between its
\* mutex_lock and its mutex_unlock: no early return (duplicate, no memory,
\* not found) leaves with the mutex held or gives it up twice.
LockDiscipline ==
    \A c \in Callers : (memory_limit_lock = c) <=> (pc[c] \in Locked)

\* The second walk of so2_get_memory_limits never writes past the array it
\* sized in the first one, though it is bounded by max_entries only.
BufferFits ==
    \A c \in Callers : Len(kernel_buffer[c].data) <= kernel_buffer[c].cap

\* Every path out of so2_get_memory_limits frees its array: no finished or
\* dead call still owns one.
NoBufferLeak ==
    \A c \in Callers : pc[c] \in {"idle", "done", "dead"} => ~kernel_buffer[c].live

\* A caller told 0 or -101 by add, or 0 by update, finds the pid in the
\* list from then on.
AnswersHold ==
    \A c \in Callers :
        (pc[c] = "done" /\ \/ call[c].op = "add" /\ ret[c] \in {0, PRESENT}
                           \/ call[c].op = "update" /\ ret[c] = 0)
        => call[c].pid \in PidsOf(memory_limit_list)

\* The list changes only in the hands of the mutex's owner, and by one link
\* at the head or one limit: no entry is lost, reordered or renamed.
ListSteps ==
    [][memory_limit_list' # memory_limit_list =>
         /\ memory_limit_lock # NoOwner
         /\ memory_limit_lock' = memory_limit_lock
         /\ LET old == Len(memory_limit_list)
                new == Len(memory_limit_list')
            IN /\ new \in {old, old + 1}
               /\ \A i \in 1 .. old :
                    memory_limit_list'[new - old + i].pid = memory_limit_list[i].pid
               /\ new = old + 1 => \A i \in 1 .. old :
                    memory_limit_list'[1 + i] = memory_limit_list[i]]_vars

\* Every call comes back, whoever else is adding, updating or reading, but
\* for one that oopsed on a pointer to a process that died under it.
EveryCallReturns ==
    \A c \in Callers : (pc[c] # "idle") ~> (pc[c] \in {"done", "dead"})

=============================================================================
