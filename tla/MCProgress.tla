----------------------------- MODULE MCProgress -----------------------------
(***************************************************************************)
(* Progress for TLC: that a parent waiting in vfork goes on and an address *)
(* space is freed (kernel/fork.c), that calls on the memory limits come    *)
(* back and the walk over all processes ends (kernel/usac), that getrusage *)
(* ends (kernel/sys.c), that stats_module is unloaded (test/modulo), and   *)
(* that the machine comes up (init/main.c). The components share no state, *)
(* so that exploring them one at a time in one run loses nothing: at the   *)
(* start one is chosen to move, and the others stay as they are. Each has  *)
(* the fairness its own module gives it.                                   *)
(***************************************************************************)
EXTENDS Boot

CONSTANTS NoMm, NoTask

\* Sizes do not matter here.
OneMM == {[rss |-> 1, vm |-> 2]}
MCTicks == {[idle |-> 1, total |-> 3]}

VARIABLE component   \* the one that moves

VARIABLES
    v_pc, why, v_mm, v_usage, vfork_done, task_lock, vfork, child, frame,
    done, wait_lock, killed, tid, clear_child_tid, clones, joins
vforkVars == <<v_pc, why, v_mm, v_usage, vfork_done, task_lock, vfork, child, frame,
    done, wait_lock, killed, tid, clear_child_tid, clones, joins>>
V == INSTANCE Vfork WITH
    Tasks <- {1, 2}, NULL <- NoTask, MaxClones <- 2,
    pc <- v_pc, mm <- v_mm, usage <- v_usage

VARIABLES
    life_mm, at, mm_users, mm_count, phase, life_work, lazy, oom_mm,
    shootdown, requeued
lifetimeVars == <<life_mm, at, mm_users, mm_count, phase, life_work, lazy, oom_mm,
    shootdown, requeued>>
M == INSTANCE MmLifetime WITH
    Tasks <- {"t1", "t2"}, Readers <- {"r1", "r2"}, CPUs <- {"c1", "c2"},
    mm <- life_mm, work <- life_work

VARIABLES
    memory_limit_list, memory_limit_lock, li_task, rss, li_pc, call, dangling,
    li_ret, kernel_buffer, u_processes_buffer, processes_returned
limitsVars == <<memory_limit_list, memory_limit_lock, li_task, rss, li_pc, call, dangling,
    li_ret, kernel_buffer, u_processes_buffer, processes_returned>>
L == INSTANCE MemoryLimit WITH
    Callers <- {"c1", "c2"}, Pids <- {1}, PidArgs <- {1}, LimitArgs <- {3},
    MaxArgs <- {1}, MaxPages <- 1, PAGE_KB <- 4, SIZE_MOD <- 256,
    NoOwner <- "NoOwner",
    task <- li_task, pc <- li_pc, ret <- li_ret

VARIABLES
    status, next, w_mm, forks, w_pc, w_task, held, reserved, committed,
    summary, w_ret, strayed, here, counted, pages, seen
walkVars == <<status, next, w_mm, forks, w_pc, w_task, held, reserved, committed,
    summary, w_ret, strayed, here, counted, pages, seen>>
W == INSTANCE MemoryStats WITH
    Tasks <- {"t1", "t2"}, init_task <- "init_task", MMs <- OneMM,
    MB_PAGES <- 2, TOTAL_RAM <- 8, MaxForks <- 2, MaxVisits <- 3,
    mm <- w_mm, pc <- w_pc, task <- w_task, ret <- w_ret

VARIABLES
    live, min_flt, sig_flt, cmin, cmaj, seqcount, holder, writer, us_pc, who,
    seq, flt, ccmin, ccmaj, visited, due, before
usageVars == <<live, min_flt, sig_flt, cmin, cmaj, seqcount, holder, writer, us_pc, who,
    seq, flt, ccmin, ccmaj, visited, due, before>>
U == INSTANCE Rusage WITH
    Threads <- {"t1", "t2"}, MaxCount <- 0, MaxWrites <- 2,
    pc <- us_pc

VARIABLES
    module, entry, mo_pc, opened, refs, mo_usage, mo_ret
moduleVars == <<module, entry, mo_pc, opened, refs, mo_usage, mo_ret>>
P == INSTANCE StatsModule WITH
    Readers <- {"r1", "r2"}, Ticks <- MCTicks,
    pc <- mo_pc, usage <- mo_usage, ret <- mo_ret

-----------------------------------------------------------------------------
Components == {"boot", "vfork", "lifetime", "limits", "walk", "usage", "module"}
allVars == <<component, vars, vforkVars, lifetimeVars, limitsVars, walkVars, usageVars, moduleVars>>

ASSUME InstancesAssumption ==
    /\ V!VforkAssumption
    /\ M!MmLifetimeAssumption
    /\ W!MemoryStatsAssumption
    /\ U!RusageAssumption
    /\ P!StatsModuleAssumption

\* Every component is in its initial state, and one of them will move.
MCInit ==
    /\ component \in Components
    /\ Init /\ (component # "boot" => machine = [threads |-> 2, requested |-> TRUE, default |-> TRUE])
    /\ V!Init
    /\ M!Init /\ (component # "lifetime" => life_mm = {"t1"} /\ ~shootdown)
    /\ L!Init /\ (component # "limits" => li_task[1] = "none")
    /\ W!Init
    /\ U!Init /\ (component # "usage" => live = {"t1"})
    /\ P!Init

MCNext ==
    /\ UNCHANGED component
    /\ \/ component = "boot" /\ Next
          /\ UNCHANGED <<vforkVars, lifetimeVars, limitsVars, walkVars, usageVars, moduleVars>>
       \/ component = "vfork" /\ V!Next
          /\ UNCHANGED <<vars, lifetimeVars, limitsVars, walkVars, usageVars, moduleVars>>
       \/ component = "lifetime" /\ M!Next
          /\ UNCHANGED <<vars, vforkVars, limitsVars, walkVars, usageVars, moduleVars>>
       \/ component = "limits" /\ L!Next
          /\ UNCHANGED <<vars, vforkVars, lifetimeVars, walkVars, usageVars, moduleVars>>
       \/ component = "walk" /\ W!Next
          /\ UNCHANGED <<vars, vforkVars, lifetimeVars, limitsVars, usageVars, moduleVars>>
       \/ component = "usage" /\ U!Next
          /\ UNCHANGED <<vars, vforkVars, lifetimeVars, limitsVars, walkVars, moduleVars>>
       \/ component = "module" /\ P!Next
          /\ UNCHANGED <<vars, vforkVars, lifetimeVars, limitsVars, walkVars, usageVars>>

MCSpec == MCInit /\ [][MCNext]_allVars

\* A task in the kernel is scheduled again, readers finish, CPUs switch, queued
\* work runs; a kernel mutex hands itself over to a waiter that was passed by
\* (mutex_lock).  Nothing obliges programs to call.
MCFairSpec ==
    /\ MCSpec
    /\ \A t \in {1, 2} : WF_vforkVars(component = "vfork" /\ V!Step(t))
    /\ \A a \in M!Actors : WF_lifetimeVars(component = "lifetime" /\ M!Put(a))
    /\ \A r \in {"r1", "r2"} : WF_lifetimeVars(component = "lifetime" /\ M!StopUsing(r))
    /\ \A cpu \in {"c1", "c2"} : WF_lifetimeVars(component = "lifetime" /\ M!SwitchMm(cpu))
    /\ WF_lifetimeVars(component = "lifetime" /\ M!mmdrop_async)
    /\ WF_lifetimeVars(component = "lifetime" /\ M!RunWork)
    /\ \A c \in {"c1", "c2"} : /\ WF_limitsVars(component = "limits" /\ L!Proceed(c))
                               /\ SF_limitsVars(component = "limits" /\ L!mutex_lock(c))
    /\ WF_walkVars(component = "walk" /\ W!Call)
    /\ WF_usageVars(component = "usage" /\ U!Reader)
    /\ WF_usageVars(component = "usage" /\ U!Writer)
    /\ WF_moduleVars(component = "module" /\ P!stats_module_exit)
    /\ WF_moduleVars(component = "module" /\ P!Rundown)
    /\ \A r \in {"r1", "r2"} : WF_moduleVars(component = "module" /\ P!mostrar_estadisticas(r))
    /\ WF_vars(component = "boot" /\ rest_init)
    /\ WF_vars(component = "boot" /\ kernel_init)
    /\ WF_vars(component = "boot" /\ do_populate_rootfs)
    /\ \A a \in Asyncs : WF_vars(component = "boot" /\ async_run_entry(a))

-----------------------------------------------------------------------------
(***************************************************************************)
(* Properties of the instances.                                            *)
(***************************************************************************)

\* Who waits for a child or a thread to leave the address space goes on: the
\* parent in wait_for_vfork_done, and the joiner that mm_release wakes.
WaitersGoOn == V!WaitersGoOn

\* An address space that no task has left is freed at last, by mmput,
\* mmput_async or the lazy CPUs.
FreedAtLast == M!FreedAtLast

\* Every call on the memory limits comes back to its caller, whatever others do
\* and whichever process dies: no path keeps memory_limit_lock.
EveryCallReturns == L!EveryCallReturns

\* luis_resumen_total and luis_recoleccion_general end once programs stop
\* starting processes, unless a task was freed under them; getrusage ends
\* however often its lockless pass is disturbed.
WalkEnds ==
    /\ W!WalkEnds
    /\ U!GetrusageEnds

\* Whichever of its five fallible calls fail, mostrar_estadisticas returns with
\* every file closed and the path put, and no program is in, or can still
\* enter, the code of stats_module once it is unloaded.
UnloadIsSafe == component = "module" => P!UnloadIsSafe

\* rmmod of stats_module comes to an end whatever the readers do: those that
\* are reading finish, and no other may begin.
UnloadEnds == P!UnloadEnds

\* The machine comes up or stops with a message: no thread of the boot waits
\* for ever for a completion, an asynchronous function or the initramfs.
ComesUp == component = "boot" => BootEnds

=============================================================================
