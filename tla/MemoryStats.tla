----------------------------- MODULE MemoryStats -----------------------------
(***************************************************************************)
(* luis_recoleccion_general (kernel/usac/syscall5.c), the memory of one    *)
(* process, and luis_resumen_total (kernel/usac/syscall6.c), the memory of *)
(* all, over the list of tasks they read while processes come and go.      *)
(*                                                                         *)
(* Neither call enters an RCU read-side section or takes a reference, so   *)
(* a task it stands on may be freed, and its memory used again, at any     *)
(* moment; an address space may be dropped between two reads of it.  What  *)
(* is then read is any value, or a fault that kills the caller.            *)
(***************************************************************************)
EXTENDS Integers, FiniteSets

CONSTANTS
    Tasks,        \* task structs, apart from init_task
    init_task,    \* the head of the list of tasks
    MMs,          \* address spaces: records [rss, vm], in pages
    NoMm,         \* of a kernel thread, or after exit_mm
    MB_PAGES,     \* pages in a megabyte
    TOTAL_RAM,    \* pages of the machine
    MaxForks,     \* bound: processes that start
    MaxVisits     \* bound: tasks visited by a walk that lost its way

Garbage == {m.rss : m \in MMs} \cup {m.vm : m \in MMs}
AllMMs == MMs \cup {NoMm}

\* What an instance gives the constants.
MemoryStatsAssumption ==
    /\ init_task \notin Tasks /\ NoMm \notin MMs
    /\ \A m \in MMs : m.rss \in Nat /\ m.vm \in Nat /\ m.rss <= m.vm
    /\ MB_PAGES \in Nat \ {0} /\ TOTAL_RAM \in Nat /\ MaxForks \in Nat /\ MaxVisits \in Nat

EFAULT == -14
ESRCH == -3

VARIABLES
    status,       \* of each task struct: "listed", "unlinked" or "free"
    next,         \* tasks.next; list_del_rcu leaves that of an unlinked task
    mm,           \* task->mm
    forks,        \* processes started so far
    \* the caller
    pc, task,
    held,         \* the address space loaded: "none", "live" or "dropped"
    reserved, committed,  \* the local variables, in pages
    summary,      \* memory_summary, or the fields of process_memory_info
    ret,
    \* history
    strayed,      \* a task on the way of the walk was freed
    here,         \* processes present, with memory, since the walk began
    counted,      \* how often the walk counted each process
    pages,        \* pages read, before they are rounded to megabytes
    seen          \* what the process asked about had since its mm was loaded

env == <<status, next, mm, forks>>
local == <<pc, task, held, reserved, committed, summary, ret>>
history == <<strayed, here, counted, pages, seen>>
vars == <<env, local, history>>

Zero == [reserved |-> 0, committed |-> 0, oom_score |-> 0, percentage |-> 0]

TypeOK ==
    /\ status \in [Tasks -> {"listed", "unlinked", "free"}]
    /\ next \in [Tasks \cup {init_task} -> Tasks \cup {init_task}]
    /\ mm \in [Tasks -> AllMMs]
    /\ forks \in 0 .. MaxForks
    /\ pc \in {"idle", "next", "mm", "rss", "vm", "copy", "pid_mm", "pid_vm", "pid_rss", "done", "dead"}
    /\ task \in Tasks \cup {init_task}
    /\ held \in {"none", "live", "dropped"}
    /\ reserved \in Nat /\ committed \in Nat
    /\ summary \in [reserved : Nat, committed : Nat, oom_score : Nat, percentage : Nat]
    /\ ret \in {0, EFAULT, ESRCH}
    /\ strayed \in BOOLEAN /\ here \subseteq Tasks /\ counted \in [Tasks -> Nat]
    /\ pages \in [rss : Nat, vm : Nat, n : Nat] /\ seen \subseteq MMs

Init ==
    /\ status = [t \in Tasks |-> "free"]
    /\ next = [t \in Tasks \cup {init_task} |-> init_task]
    /\ mm = [t \in Tasks |-> NoMm]
    /\ forks = 0
    /\ pc = "idle" /\ task = init_task /\ held = "none"
    /\ reserved = 0 /\ committed = 0 /\ summary = Zero /\ ret = 0
    /\ strayed = FALSE /\ here = {} /\ counted = [t \in Tasks |-> 0]
    /\ pages = [rss |-> 0, vm |-> 0, n |-> 0] /\ seen = {}

-----------------------------------------------------------------------------
(***************************************************************************)
(* The processes (external).                                               *)
(***************************************************************************)

Walking == pc \in {"next", "mm", "rss", "vm"}

Freed == {t \in Tasks : status[t] = "free"}

\* The tasks that next leads through from t, t included.
Ahead(t) ==
    LET at[n \in 0 .. Cardinality(Tasks)] ==
            IF n = 0 THEN t
            ELSE IF at[n - 1] = init_task THEN init_task ELSE next[at[n - 1]]
    IN  {at[n] : n \in 0 .. Cardinality(Tasks)} \ {init_task}

\* copy_process links the new task at the tail.
Fork(t) ==
    /\ status[t] = "free" /\ forks < MaxForks
    /\ \E last \in {u \in Tasks : status[u] = "listed"} \cup {init_task}, m \in AllMMs :
         /\ next[last] = init_task
         /\ next' = [next EXCEPT ![last] = t, ![t] = init_task]
         /\ mm' = [mm EXCEPT ![t] = m]
    /\ status' = [status EXCEPT ![t] = "listed"]
    /\ forks' = forks + 1
    /\ counted' = [counted EXCEPT ![t] = 0]
    /\ UNCHANGED <<local, strayed, here, pages, seen>>

\* mmap, munmap and page faults.
Resize(t) ==
    /\ mm[t] # NoMm
    /\ \E m \in MMs :
         /\ mm' = [mm EXCEPT ![t] = m]
         /\ seen' = IF task = t /\ pc \in {"pid_vm", "pid_rss"} THEN seen \cup {m} ELSE seen
    /\ UNCHANGED <<status, next, forks, local, strayed, here, counted, pages>>

\* exit_mm, or exec with a new address space.
DropMm(t) ==
    /\ status[t] = "listed" /\ mm[t] # NoMm
    /\ \E m \in AllMMs :
         /\ mm' = [mm EXCEPT ![t] = m]
         /\ here' = IF m = NoMm THEN here \ {t} ELSE here
    /\ held' = IF task = t /\ held = "live" THEN "dropped" ELSE held
    /\ UNCHANGED <<status, next, forks, pc, task, reserved, committed, summary, ret,
                   strayed, counted, pages, seen>>

\* release_task.
Unlink(t) ==
    /\ status[t] = "listed" /\ mm[t] = NoMm
    /\ \E before \in {u \in Tasks : status[u] = "listed"} \cup {init_task} :
         /\ next[before] = t
         /\ next' = [next EXCEPT ![before] = next[t]]
    /\ status' = [status EXCEPT ![t] = "unlinked"]
    /\ UNCHANGED <<mm, forks, local, history>>

\* After a grace period, which the caller does not delay.
FreeTask(t) ==
    /\ status[t] = "unlinked"
    /\ status' = [status EXCEPT ![t] = "free"]
    /\ strayed' = (strayed \/ (Walking /\ t \in Ahead(task)) \/ (pc = "pid_mm" /\ task = t))
    /\ UNCHANGED <<next, mm, forks, local, here, counted, pages, seen>>

-----------------------------------------------------------------------------
(***************************************************************************)
(* luis_resumen_total.                                                     *)
(***************************************************************************)

Oops == pc' = "dead" /\ UNCHANGED <<task, held, reserved, committed, summary, ret>>

\* sys_summary = {0}; for_each_process starts at init_task.
ResumenEnter ==
    /\ pc = "idle"
    /\ pc' = "next" /\ task' = init_task
    /\ here' = {t \in Tasks : status[t] = "listed" /\ mm[t] # NoMm}
    /\ UNCHANGED <<env, held, reserved, committed, summary, ret, strayed, counted, pages, seen>>

\* The step of for_each_process.
NextTask ==
    /\ pc = "next" /\ (strayed => pages.n < MaxVisits)
    /\ \/ /\ task \notin Freed
          /\ task' = next[task]
          /\ pc' = IF next[task] = init_task THEN "copy" ELSE "mm"
          /\ UNCHANGED <<held, reserved, committed, summary, ret>>
       \/ /\ task \in Freed
          /\ \/ /\ task' \in Tasks \cup {init_task}
                /\ pc' = IF task' = init_task THEN "copy" ELSE "mm"
                /\ UNCHANGED <<held, reserved, committed, summary, ret>>
             \/ Oops
    /\ UNCHANGED <<env, history>>

\* Faulty: the first process without an address space ends the walk.
LoadMmBreak ==
    /\ pc = "mm"
    /\ pc' = IF mm[task] = NoMm THEN "copy" ELSE "rss"
    /\ held' = IF mm[task] = NoMm THEN "none" ELSE "live"
    /\ UNCHANGED <<env, task, reserved, committed, summary, ret, history>>

\* Faulty: continue without a step to the next task.
LoadMmAgain ==
    /\ pc = "mm"
    /\ pc' = IF mm[task] = NoMm THEN "mm" ELSE "rss"
    /\ held' = IF mm[task] = NoMm THEN "none" ELSE "live"
    /\ UNCHANGED <<env, task, reserved, committed, summary, ret, history>>

\* if (!task->mm) continue: the pointer is loaded once.
LoadMm ==
    /\ pc = "mm"
    /\ \/ /\ task \notin Freed
          /\ pc' = IF mm[task] = NoMm THEN "next" ELSE "rss"
          /\ held' = IF mm[task] = NoMm THEN "none" ELSE "live"
          /\ UNCHANGED <<task, reserved, committed, summary, ret>>
       \/ /\ task \in Freed
          /\ \/ /\ \/ pc' = "next" /\ held' = "none"
                   \/ pc' = "rss" /\ held' = "dropped"
                /\ UNCHANGED <<task, reserved, committed, summary, ret>>
             \/ Oops
    /\ UNCHANGED <<env, history>>

\* What a read through the loaded mm may return.
Field(f) == IF held = "live" THEN {mm[task][f]} ELSE Garbage

MB(p) == p \div MB_PAGES

\* get_mm_rss.
ReadRss ==
    /\ pc = "rss"
    /\ \/ /\ reserved' \in Field("rss")
          /\ pc' = "vm"
          /\ UNCHANGED <<task, held, committed, summary, ret>>
       \/ held = "dropped" /\ Oops
    /\ UNCHANGED <<env, history>>

\* total_vm, and the two sums.
ReadVm ==
    /\ pc = "vm"
    /\ \/ /\ committed' \in Field("vm")
          /\ summary' = [summary EXCEPT !.reserved = @ + MB(reserved), !.committed = @ + MB(committed')]
          /\ pages' = [rss |-> pages.rss + reserved, vm |-> pages.vm + committed', n |-> pages.n + 1]
          /\ counted' = [counted EXCEPT ![task] = @ + 1]
          /\ pc' = "next" /\ held' = "none"
          /\ UNCHANGED <<task, reserved, ret>>
       \/ held = "dropped" /\ Oops /\ UNCHANGED <<counted, pages>>
    /\ UNCHANGED <<env, strayed, here, seen>>

\* copy_to_user; both calls end so.
CopyToUser ==
    /\ pc = "copy"
    /\ ret' \in {0, EFAULT}
    /\ pc' = "done"
    /\ UNCHANGED <<env, task, held, reserved, committed, summary, history>>

-----------------------------------------------------------------------------
(***************************************************************************)
(* luis_recoleccion_general.                                               *)
(***************************************************************************)

\* pid_task: a task is found by its pid until release_task unhashes it.
RecoleccionEnter(t) ==
    /\ pc = "idle"
    /\ IF status[t] = "listed"
       THEN pc' = "pid_mm" /\ task' = t /\ UNCHANGED ret
       ELSE pc' = "done" /\ ret' = ESRCH /\ UNCHANGED task
    /\ UNCHANGED <<env, held, reserved, committed, summary, history>>

\* mm = task->mm.
PidLoadMm ==
    /\ pc = "pid_mm"
    /\ \/ /\ task \notin Freed /\ mm[task] # NoMm
          /\ pc' = "pid_vm" /\ held' = "live" /\ seen' = {mm[task]}
          /\ UNCHANGED <<task, reserved, committed, summary, ret>>
       \/ /\ task \in Freed \/ mm[task] = NoMm
          /\ pc' = "done" /\ ret' = EFAULT
          /\ UNCHANGED <<task, held, reserved, committed, summary, seen>>
       \/ /\ task \in Freed
          /\ \/ pc' = "pid_vm" /\ held' = "dropped"
                /\ UNCHANGED <<task, reserved, committed, summary, ret>>
             \/ Oops
          /\ UNCHANGED seen
    /\ UNCHANGED <<env, strayed, here, counted, pages>>

PidReadVm ==
    /\ pc = "pid_vm"
    /\ \/ /\ reserved' \in Field("vm")
          /\ pc' = "pid_rss"
          /\ UNCHANGED <<task, held, committed, summary, ret>>
       \/ held = "dropped" /\ Oops
    /\ UNCHANGED <<env, history>>

\* In units of KB the page size cancels out.
Percentage(used, of) == IF of > 0 THEN (used * 100) \div of ELSE 0
OomScore(used) == IF TOTAL_RAM > 0 THEN (used * 1000) \div TOTAL_RAM ELSE 0

\* get_mm_rss, si_meminfo and the two ratios.
PidReadRss ==
    /\ pc = "pid_rss"
    /\ \/ /\ committed' \in Field("rss")
          /\ summary' = [reserved |-> reserved, committed |-> committed',
                         oom_score |-> OomScore(committed'), percentage |-> Percentage(committed', reserved)]
          /\ pc' = "copy"
          /\ UNCHANGED <<task, held, reserved, ret>>
       \/ held = "dropped" /\ Oops
    /\ UNCHANGED <<env, history>>

\* The program calls again.
Return ==
    /\ pc = "done"
    /\ pc' = "idle" /\ task' = init_task /\ held' = "none"
    /\ reserved' = 0 /\ committed' = 0 /\ summary' = Zero /\ ret' = 0
    /\ strayed' = FALSE /\ here' = {} /\ counted' = [t \in Tasks |-> 0]
    /\ pages' = [rss |-> 0, vm |-> 0, n |-> 0] /\ seen' = {}
    /\ UNCHANGED env

-----------------------------------------------------------------------------
Call ==
    \/ NextTask \/ LoadMm \/ ReadRss \/ ReadVm \/ CopyToUser
    \/ PidLoadMm \/ PidReadVm \/ PidReadRss

Processes == \E t \in Tasks :
    Fork(t) \/ Resize(t) \/ DropMm(t) \/ Unlink(t) \/ FreeTask(t)

Enter == ResumenEnter \/ \E t \in Tasks : RecoleccionEnter(t)

Next == Call \/ Enter \/ Return \/ Processes

Spec == Init /\ [][Next]_vars

\* A task in the kernel is scheduled again.
FairSpec == Spec /\ WF_vars(Call)

-----------------------------------------------------------------------------
(***************************************************************************)
(* Properties.                                                             *)
(***************************************************************************)

\* The walk of luis_resumen_total: unless a task on its way was freed under
\* it, a process that had memory all the time is counted when the walk ends,
\* and no process is counted twice, whoever starts, execs or exits meanwhile.
CountedOnce ==
    ~strayed =>
        /\ \A t \in Tasks : counted[t] <= 1
        /\ pc = "copy" => \A t \in here : counted[t] = 1

\* Unless a task was freed under the call, it does not lose its way: it is
\* killed only over an address space that was dropped between two reads.
DiesOnlyOverDropped ==
    pc = "dead" => strayed \/ held = "dropped"

\* Each total of luis_resumen_total is below the pages it read by less than
\* one megabyte per process, and not above them.
SummaryRoundsDown ==
    Walking =>
        /\ summary.reserved * MB_PAGES <= pages.rss
        /\ pages.rss <= (summary.reserved * MB_PAGES) + (pages.n * (MB_PAGES - 1))
        /\ summary.committed * MB_PAGES <= pages.vm
        /\ pages.vm <= (summary.committed * MB_PAGES) + (pages.n * (MB_PAGES - 1))

\* luis_recoleccion_general reports sizes the process had during the call
\* while it kept its address space, and a percentage of at most 100 if they
\* did not change between the two reads.
ReportIsReal ==
    (pc \in {"copy", "done"} /\ ret = 0 /\ held = "live") =>
        /\ \E m \in seen : m.vm = summary.reserved
        /\ \E m \in seen : m.rss = summary.committed
        /\ Cardinality(seen) = 1 => summary.percentage <= 100

\* What the two reports promise while processes come and go under them:
\* figures that were there, every lasting process once, and a call that does
\* not fall on the way.
ReportsTrue ==
    /\ SummaryRoundsDown
    /\ ReportIsReal
    /\ CountedOnce
    /\ DiesOnlyOverDropped

\* Both calls end once programs stop starting processes (MaxForks), unless a
\* task was freed under them: the walk follows the list to its head.
WalkEnds ==
    (pc \notin {"idle", "done", "dead"}) ~> (pc \in {"done", "dead"} \/ strayed)

=============================================================================
