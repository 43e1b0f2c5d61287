----------------------------- MODULE MCCreation -----------------------------
(***************************************************************************)
(* Process creation (kernel/fork.c) for TLC: the references that creation  *)
(* takes and unwinds, the lifetime of address spaces, the cache of thread  *)
(* stacks, what fork must not miss, and what a parent lends in vfork; and  *)
(* the options the first process is started with (init/main.c). The        *)
(* components share no state, so that exploring them one at a time in one  *)
(* run loses nothing: at the start one is chosen to move, and the others   *)
(* stay as they are.                                                       *)
(***************************************************************************)
EXTENDS TaskResources

CONSTANTS NoOption, NoTask

Thread == {"VM", "FILES", "FS", "SIGHAND", "THREAD"}

\* A process with a pidfd and namespaces of its own, a thread, a process that
\* shares handlers, and flags that are turned down.
MCCloneFlags == {{"PIDFD", "NEWNS"}, Thread, {"VM", "SIGHAND"}, {"SIGHAND"},
                 {"THREAD", "VM"}}
MCUnshareFlags == {{"FILES", "NEWNS"}, {"NEWUSER"}, {"VM"}}

\* Two processes of a user that create at once.
TwoCloneFlags == {{}, Thread}

VARIABLE component   \* the one that moves

\* The value of the variables of the others.
Still == "still"

VARIABLES
    np_state, np_flags, np_creator, np_at, np_failing, np_ptr, np_count,
    np_own, np_new, np_nproc, np_nr_threads, np_held, np_unshares, np_twice
nprocVars == <<np_state, np_flags, np_creator, np_at, np_failing, np_ptr, np_count,
    np_own, np_new, np_nproc, np_nr_threads, np_held, np_unshares, np_twice>>
nprocIdle ==
    /\ np_state = Still /\ np_flags = Still /\ np_creator = Still
    /\ np_at = Still /\ np_failing = Still /\ np_ptr = Still
    /\ np_count = Still /\ np_own = Still /\ np_new = Still
    /\ np_nproc = Still /\ np_nr_threads = Still /\ np_held = Still
    /\ np_unshares = Still /\ np_twice = Still
N == INSTANCE TaskResources WITH
    Tasks <- {1, 2, 3, 4}, First <- {1, 2}, CloneFlags <- TwoCloneFlags,
    UnshareFlags <- {}, RLIMIT_NPROC <- 3, max_threads <- 5, MaxUnshares <- 0,
    state <- np_state, flags <- np_flags, creator <- np_creator, at <- np_at,
    failing <- np_failing, ptr <- np_ptr, count <- np_count, own <- np_own,
    new <- np_new, nproc <- np_nproc, nr_threads <- np_nr_threads,
    held <- np_held, unshares <- np_unshares, twice <- np_twice

VARIABLES
    life_mm, life_at, mm_users, mm_count, phase, work, lazy, oom_mm,
    shootdown, requeued
lifetimeVars == <<life_mm, life_at, mm_users, mm_count, phase, work, lazy, oom_mm,
    shootdown, requeued>>
lifetimeIdle ==
    /\ life_mm = Still /\ life_at = Still /\ mm_users = Still
    /\ mm_count = Still /\ phase = Still /\ work = Still /\ lazy = Still
    /\ oom_mm = Still /\ shootdown = Still /\ requeued = Still
M == INSTANCE MmLifetime WITH
    Tasks <- {"t1", "t2", "t3"}, Readers <- {"r1", "r2"}, CPUs <- {"c1", "c2"},
    mm <- life_mm, at <- life_at

VARIABLES
    st_pc, i, stack, stack_refcount, cached_stacks, rcu, callback, allocated,
    charged, dirty, readers
stacksVars == <<st_pc, i, stack, stack_refcount, cached_stacks, rcu, callback, allocated,
    charged, dirty, readers>>
stacksIdle ==
    /\ st_pc = Still /\ i = Still /\ stack = Still /\ stack_refcount = Still
    /\ cached_stacks = Still /\ rcu = Still /\ callback = Still
    /\ allocated = Still /\ charged = Still /\ dirty = Still
    /\ readers = Still
S == INSTANCE ThreadStacks WITH
    Tasks <- {"t1", "t2"}, Stacks <- {"s1", "s2", "s3"}, CPUs <- {"c1", "c2"},
    NULL <- "NULL", NR_CACHED_STACKS <- 2, Pages <- 2,
    pc <- st_pc

VARIABLES
    fs_at, kind, linked, listed, delayed, pending, child_pending, filter,
    no_new_privs, syscall_work, oom_score_adj, MMF_MULTIPROCESS, ns, inside,
    during, tsync
syncVars == <<fs_at, kind, linked, listed, delayed, pending, child_pending, filter,
    no_new_privs, syscall_work, oom_score_adj, MMF_MULTIPROCESS, ns, inside,
    during, tsync>>
syncIdle ==
    /\ fs_at = Still /\ kind = Still /\ linked = Still /\ listed = Still
    /\ delayed = Still /\ pending = Still /\ child_pending = Still
    /\ filter = Still /\ no_new_privs = Still /\ syscall_work = Still
    /\ oom_score_adj = Still /\ MMF_MULTIPROCESS = Still /\ ns = Still
    /\ inside = Still /\ during = Still /\ tsync = Still
F == INSTANCE ForkSync WITH
    MaxFilters <- 2,
    at <- fs_at

VARIABLES
    vf_pc, why, vf_mm, usage, vfork_done, task_lock, vfork, child, frame,
    done, wait_lock, killed, tid, clear_child_tid, clones, joins
vforkVars == <<vf_pc, why, vf_mm, usage, vfork_done, task_lock, vfork, child, frame,
    done, wait_lock, killed, tid, clear_child_tid, clones, joins>>
vforkIdle ==
    /\ vf_pc = Still /\ why = Still /\ vf_mm = Still /\ usage = Still
    /\ vfork_done = Still /\ task_lock = Still /\ vfork = Still
    /\ child = Still /\ frame = Still /\ done = Still /\ wait_lock = Still
    /\ killed = Still /\ tid = Still /\ clear_child_tid = Still
    /\ clones = Still /\ joins = Still
V == INSTANCE Vfork WITH
    Tasks <- {1, 2, 3}, NULL <- NoTask, MaxClones <- 2,
    pc <- vf_pc, mm <- vf_mm

VARIABLES
    bo_at, argv_init, envp_init, panic_later, overrun, args, before, env, left
optionsVars == <<bo_at, argv_init, envp_init, panic_later, overrun, args, before, env, left>>
optionsIdle ==
    /\ bo_at = Still /\ argv_init = Still /\ envp_init = Still
    /\ panic_later = Still /\ overrun = Still /\ args = Still
    /\ before = Still /\ env = Still /\ left = Still
B == INSTANCE BootArgs WITH
    Arguments <- {"a", "b", "c"}, Variables <- {"HOME", "X"},
    Values <- {"1", "2"}, Known <- {"mod.x"}, MAX_INIT_ARGS <- 2,
    MAX_INIT_ENVS <- 2, MaxOptions <- 4, NULL <- NoOption,
    at <- bo_at

-----------------------------------------------------------------------------
Components == {"resources", "nproc", "lifetime", "stacks", "sync", "vfork", "options"}
allVars == <<component, vars, nprocVars, lifetimeVars, stacksVars, syncVars, vforkVars, optionsVars>>

ASSUME InstancesAssumption ==
    /\ N!TaskResourcesAssumption
    /\ M!MmLifetimeAssumption
    /\ S!ThreadStacksAssumption
    /\ F!ForkSyncAssumption
    /\ V!VforkAssumption

\* Every component is in its initial state, and one of them will move.
MCInit ==
    /\ component \in Components
    /\ Init
    /\ component = "nproc" => N!Init
    /\ component # "nproc" => nprocIdle
    /\ component = "lifetime" => M!Init
    /\ component # "lifetime" => lifetimeIdle
    /\ component = "stacks" => S!Init
    /\ component # "stacks" => stacksIdle
    /\ component = "sync" => F!Init
    /\ component # "sync" => syncIdle
    /\ component = "vfork" => V!Init
    /\ component # "vfork" => vforkIdle
    /\ component = "options" => B!Init
    /\ component # "options" => optionsIdle

MCNext ==
    /\ UNCHANGED component
    /\ \/ component = "resources" /\ Next
          /\ UNCHANGED <<nprocVars, lifetimeVars, stacksVars, syncVars, vforkVars, optionsVars>>
       \/ component = "nproc" /\ N!Next
          /\ UNCHANGED <<vars, lifetimeVars, stacksVars, syncVars, vforkVars, optionsVars>>
       \/ component = "lifetime" /\ M!Next
          /\ UNCHANGED <<vars, nprocVars, stacksVars, syncVars, vforkVars, optionsVars>>
       \/ component = "stacks" /\ S!Next
          /\ UNCHANGED <<vars, nprocVars, lifetimeVars, syncVars, vforkVars, optionsVars>>
       \/ component = "sync" /\ F!Next
          /\ UNCHANGED <<vars, nprocVars, lifetimeVars, stacksVars, vforkVars, optionsVars>>
       \/ component = "vfork" /\ V!Next
          /\ UNCHANGED <<vars, nprocVars, lifetimeVars, stacksVars, syncVars, optionsVars>>
       \/ component = "options" /\ B!Next
          /\ UNCHANGED <<vars, nprocVars, lifetimeVars, stacksVars, syncVars, vforkVars>>

MCSpec == MCInit /\ [][MCNext]_allVars

-----------------------------------------------------------------------------
(***************************************************************************)
(* Properties of the instances.                                            *)
(***************************************************************************)

\* RLIMIT_NPROC holds though many create at once: copy_process raises the count
\* before it compares it.
LimitRespected == component = "nproc" => N!NprocRespected

\* __mmput tears an address space down, and __mmdrop frees its structure, only
\* when nobody can come to it: no task, no reader that came by get_task_mm, no
\* queued work, no CPU that borrows it, with or without lazy TLB shootdown.
MmFreedUnused == component = "lifetime" => M!MmFreedUnused

\* Whatever CPUs, migrating tasks and RCU callbacks do, a thread stack is in
\* exactly one place, clean when a task begins on it, charged while and only
\* while it belongs to a task that has not exited, and kept for who took a
\* reference to it.
StacksAccounted == component = "stacks" => S!StacksAccounted

\* What comes between the start of copy_process and the linking of the child
\* does not miss it: signals to the group, seccomp filters for all threads, a
\* new oom_score_adj, the end of its pid namespace.
ForkMissesNothing == component = "sync" => F!ForkMissesNothing

\* kernel_clone, wait_for_vfork_done and complete_vfork_done: the parent lends
\* its address space and the completion on its stack, and neither side uses
\* what the other has taken back, though the parent may be killed and the child
\* may vfork in turn.
VforkLends == component = "vfork" => V!VforkLends

\* unknown_bootoption, set_init_arg and init_setup: no loop over argv_init and
\* envp_init leaves them, full as they may be, and an init that is started has
\* every argument given since init=, in order, and every variable as it was
\* given last.
InitGetsItsOptions == component = "options" => B!InitGetsItsOptions

=============================================================================
