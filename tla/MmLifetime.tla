----------------------------- MODULE MmLifetime -----------------------------
(***************************************************************************)
(* The life of one mm_struct (kernel/fork.c: mmput, mmput_async,           *)
(* get_task_mm, mmdrop_async, __mmdrop and cleanup_lazy_tlbs).  mm_users   *)
(* counts who uses the address space; when it reaches zero that is torn    *)
(* down.  mm_count counts who refers to the structure: its users together  *)
(* as one, and CPUs on which a kernel thread borrows it.  On some          *)
(* architectures those are not counted and are driven off before the mm is *)
(* freed.                                                                  *)
(***************************************************************************)
EXTENDS Integers, FiniteSets

CONSTANTS
    Tasks,         \* tasks that may share the mm
    Readers,       \* tasks that reach it through another's task_struct
    CPUs

Worker == "worker"
Actors == Tasks \cup Readers \cup CPUs \cup {Worker}

\* What an instance gives the constants.
MmLifetimeAssumption ==
    /\ IsFiniteSet(Tasks) /\ IsFiniteSet(Readers) /\ IsFiniteSet(CPUs)
    /\ \A S, U \in {Tasks, Readers, CPUs, {Worker}} : S # U => S \cap U = {}

VARIABLES
    mm,            \* the tasks whose task->mm it is
    at,            \* where an actor is
    mm_users, mm_count,
    phase,         \* of the mm: "live", "torn" down or "free"
    work,          \* async_put_work: "idle", or queued for "mmput" or "mmdrop"
    lazy,          \* CPUs whose active_mm it is without being a task's mm
    oom_mm,        \* the reference of an out-of-memory victim
    shootdown,     \* CONFIG_MMU_LAZY_TLB_SHOOTDOWN
    \* history
    requeued       \* async_put_work was initialised while it was queued

vars == <<mm, at, mm_users, mm_count, phase, work, lazy, oom_mm, shootdown, requeued>>

TypeOK ==
    /\ mm \subseteq Tasks
    /\ at \in [Actors -> {"idle", "using", "mmput", "__mmput", "mmdrop", "__mmdrop", "free"}]
    /\ mm_users \in Nat /\ mm_count \in Nat
    /\ phase \in {"live", "torn", "free"}
    /\ work \in {"idle", "mmput", "mmdrop"}
    /\ lazy \subseteq CPUs
    /\ oom_mm \in BOOLEAN /\ shootdown \in BOOLEAN /\ requeued \in BOOLEAN

\* mm_init, for a task that has just execed.
Init ==
    /\ \E t \in Tasks : mm = {t}
    /\ at = [a \in Actors |-> "idle"]
    /\ mm_users = 1 /\ mm_count = 1
    /\ phase = "live"
    /\ work = "idle" /\ lazy = {} /\ oom_mm = FALSE
    /\ shootdown \in BOOLEAN /\ requeued = FALSE

Goto(a, l) == at' = [at EXCEPT ![a] = l]

-----------------------------------------------------------------------------
(***************************************************************************)
(* Who uses it.                                                            *)
(***************************************************************************)

\* copy_mm with CLONE_VM.
copy_mm(t, c) ==
    /\ t \in mm /\ c \in Tasks \ mm /\ at[c] = "idle"
    /\ mm_users' = mm_users + 1
    /\ mm' = mm \cup {c}
    /\ UNCHANGED <<at, mm_count, phase, work, lazy, oom_mm, shootdown, requeued>>

\* Under task_lock, so that the task cannot give the mm up meanwhile.
get_task_mm(r, t) ==
    /\ at[r] = "idle" /\ t \in mm
    /\ Goto(r, "using")
    /\ mm_users' = mm_users + 1
    /\ UNCHANGED <<mm, mm_count, phase, work, lazy, oom_mm, shootdown, requeued>>

\* mm_access: a reader that may not have it puts it back at once; others use it
\* and put it back.
StopUsing(r) ==
    /\ at[r] = "using"
    /\ Goto(r, "mmput")
    /\ UNCHANGED <<mm, mm_users, mm_count, phase, work, lazy, oom_mm, shootdown, requeued>>

\* exit_mm or exec_mmap (external): the CPU goes on with the mm as a lazy one.
exit_mm(t, cpu) ==
    /\ t \in mm /\ cpu \in CPUs \ lazy /\ at[cpu] = "idle"
    /\ mm' = mm \ {t}
    /\ lazy' = lazy \cup {cpu}
    /\ mm_count' = IF shootdown THEN mm_count ELSE mm_count + 1
    /\ Goto(t, "mmput")
    /\ UNCHANGED <<mm_users, phase, work, oom_mm, shootdown, requeued>>

LastUser == mm_users' = 0

mmput(a) ==
    /\ at[a] = "mmput"
    /\ mm_users' = mm_users - 1
    /\ Goto(a, IF LastUser THEN "__mmput" ELSE "idle")
    /\ UNCHANGED <<mm, mm_count, phase, work, lazy, oom_mm, shootdown, requeued>>

\* INIT_WORK and schedule_work.
Queue(w) == work' = w /\ requeued' = (requeued \/ work # "idle")

\* Faulty: the last user leaves the work to somebody else.
mmput_asyncLost(a) ==
    /\ at[a] = "mmput" /\ a \in Readers
    /\ mm_users' = mm_users - 1
    /\ Goto(a, "idle")
    /\ UNCHANGED <<mm, mm_count, phase, work, lazy, oom_mm, shootdown, requeued>>

mmput_async(a) ==
    /\ at[a] = "mmput" /\ a \in Readers
    /\ mm_users' = mm_users - 1
    /\ Goto(a, "idle")
    /\ IF LastUser THEN Queue("mmput") ELSE UNCHANGED <<work, requeued>>
    /\ UNCHANGED <<mm, mm_count, phase, lazy, oom_mm, shootdown>>

-----------------------------------------------------------------------------
(***************************************************************************)
(* How it ends.                                                            *)
(***************************************************************************)

\* exit_mmap and the rest of __mmput; last, mmdrop.
__mmput(a) ==
    /\ at[a] = "__mmput"
    /\ phase' = "torn"
    /\ Goto(a, "mmdrop")
    /\ UNCHANGED <<mm, mm_users, mm_count, work, lazy, oom_mm, shootdown, requeued>>

mmdrop(a) ==
    /\ at[a] = "mmdrop"
    /\ mm_count' = mm_count - 1
    /\ Goto(a, IF mm_count' = 0 THEN "__mmdrop" ELSE "idle")
    /\ UNCHANGED <<mm, mm_users, phase, work, lazy, oom_mm, shootdown, requeued>>

\* Faulty: nobody is driven off.
cleanup_lazy_tlbsNot == UNCHANGED lazy

\* An IPI to every CPU that may have it as its active_mm.
cleanup_lazy_tlbs == lazy' = IF shootdown THEN {} ELSE lazy

__mmdrop(a) ==
    /\ at[a] = "__mmdrop"
    /\ cleanup_lazy_tlbs
    /\ Goto(a, "free")
    /\ UNCHANGED <<mm, mm_users, mm_count, phase, work, oom_mm, shootdown, requeued>>

free_mm(a) ==
    /\ at[a] = "free"
    /\ phase' = "free"
    /\ Goto(a, "idle")
    /\ UNCHANGED <<mm, mm_users, mm_count, work, lazy, oom_mm, shootdown, requeued>>

\* A CPU switches to another address space (external): mmdrop_lazy_tlb.
SwitchMm(cpu) ==
    /\ cpu \in lazy /\ at[cpu] = "idle"
    /\ lazy' = lazy \ {cpu}
    /\ Goto(cpu, IF shootdown THEN "idle" ELSE "mmdrop")
    /\ UNCHANGED <<mm, mm_users, mm_count, phase, work, oom_mm, shootdown, requeued>>

\* mark_oom_victim (external): signal->oom_mm.
MarkOomVictim(t) ==
    /\ t \in mm /\ ~oom_mm
    /\ oom_mm' = TRUE
    /\ mm_count' = mm_count + 1
    /\ UNCHANGED <<mm, at, mm_users, phase, work, lazy, shootdown, requeued>>

\* free_signal_struct, once the victim is gone: mmdrop_async.
mmdrop_async ==
    /\ oom_mm /\ mm = {}
    /\ oom_mm' = FALSE
    /\ mm_count' = mm_count - 1
    /\ IF mm_count' = 0 THEN Queue("mmdrop") ELSE UNCHANGED <<work, requeued>>
    /\ UNCHANGED <<mm, at, mm_users, phase, lazy, shootdown>>

\* mmput_async_fn or mmdrop_async_fn, in a worker.
RunWork ==
    /\ work # "idle" /\ at[Worker] = "idle"
    /\ Goto(Worker, IF work = "mmput" THEN "__mmput" ELSE "__mmdrop")
    /\ work' = "idle"
    /\ UNCHANGED <<mm, mm_users, mm_count, phase, lazy, oom_mm, shootdown, requeued>>

-----------------------------------------------------------------------------
\* The steps of whoever has begun to give the mm up.
Put(a) == mmput(a) \/ mmput_async(a) \/ __mmput(a) \/ mmdrop(a) \/ __mmdrop(a) \/ free_mm(a)

Next ==
    \/ \E t, c \in Tasks : copy_mm(t, c)
    \/ \E t \in Tasks : MarkOomVictim(t) \/ \E cpu \in CPUs : exit_mm(t, cpu)
    \/ \E r \in Readers : StopUsing(r) \/ \E t \in Tasks : get_task_mm(r, t)
    \/ \E a \in Actors : Put(a)
    \/ \E cpu \in CPUs : SwitchMm(cpu)
    \/ mmdrop_async \/ RunWork

Spec == Init /\ [][Next]_vars

\* Whoever holds the mm puts it at last: readers finish, CPUs switch, signal
\* structures are freed, workers run.
FairSpec ==
    /\ Spec
    /\ \A a \in Actors : WF_vars(Put(a))
    /\ \A r \in Readers : WF_vars(StopUsing(r))
    /\ \A cpu \in CPUs : WF_vars(SwitchMm(cpu))
    /\ WF_vars(mmdrop_async) /\ WF_vars(RunWork)

-----------------------------------------------------------------------------
(***************************************************************************)
(* Properties.                                                             *)
(***************************************************************************)

Live(S) == {a \in S : at[a] \in {"using", "mmput"}}

\* The address space is torn down only when no task has it and no reader is
\* still using it.
TornDownUnused ==
    ((\E a \in Actors : at[a] = "__mmput") \/ work = "mmput" \/ phase # "live")
        => mm = {} /\ Live(Actors) = {}

\* The structure is freed only when nobody can reach it: no user, no queued
\* work, no CPU that borrows it, nobody else about to put it.
FreedUnreachable ==
    ((\E a \in Actors : at[a] = "free") \/ phase = "free")
        => /\ phase # "live"
           /\ mm = {} /\ lazy = {} /\ ~oom_mm /\ work = "idle"
           /\ Cardinality({a \in Actors : at[a] # "idle"}) <= 1

\* mmput_async and mmdrop_async share async_put_work: it is never initialised
\* while it is queued.
WorkQueuedOnce == ~requeued

\* Neither the address space nor its structure goes while anybody, counted or
\* lazy, can still come to it.
MmFreedUnused == TornDownUnused /\ FreedUnreachable /\ WorkQueuedOnce

\* An address space that no task has left is freed at last.
FreedAtLast == mm = {} ~> phase = "free"

=============================================================================
