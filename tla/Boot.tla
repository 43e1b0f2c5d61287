-------------------------------- MODULE Boot --------------------------------
(***************************************************************************)
(* How the boot thread hands over to init (init/main.c:684-731,            *)
(* 1116-1170, 1234-1342, 1344-1380, 1440-1585).  The root thread starts    *)
(* kernel_init, which becomes pid 1, then kthreadd, and turns into the     *)
(* idle thread.  kernel_init waits for kthreadd, makes the init calls,     *)
(* which may leave functions running asynchronously, gives the memory of   *)
(* the __init sections back, and tries programs until one runs.            *)
(*                                                                         *)
(* External: the threads that run asynchronous functions (async.c) and the *)
(* one that unpacks the initramfs in a domain of its own, and what the     *)
(* init calls do.                                                          *)
(***************************************************************************)
EXTENDS Integers

CONSTANTS
    Early,        \* number of init calls before the other CPUs are started
    Initcalls,    \* number of init calls, in the order of their levels
    Populate,     \* the one that starts unpacking the initramfs
    Blacklist,    \* those named by initcall_blacklist=
    Asyncs        \* asynchronous functions in __init sections

VARIABLES
    root,         \* where rest_init is
    init,         \* where kernel_init is
    kthreadd_task, kthreadd_done,
    system_state,
    fn,           \* init calls made or skipped
    imbalance,    \* what the last one left: a preempt count, interrupts off
    smp,          \* the other CPUs are started
    async,        \* state of each asynchronous function
    unpack,       \* state of the unpacking of the initramfs
    initmem,      \* the __init sections are still there
    ramdisk,      \* ramdisk_execute_command is set
    failed,       \* programs that could not be run
    program,      \* the one that init runs
    machine       \* how many threads fit, and the programs there are to try

boot == <<root, kthreadd_task, kthreadd_done>>
calls == <<fn, imbalance, smp>>
work == <<async, unpack>>
exec == <<ramdisk, failed, program>>
vars == <<boot, init, system_state, calls, work, initmem, exec, machine>>

\* The programs of kernel_init in the order in which it tries them.
Order == <<"ramdisk", "requested", "default", "/sbin/init", "/etc/init", "/bin/init", "/bin/sh">>
Fallbacks == 4 .. 7

Init ==
    /\ root = "start_kernel" /\ init = "none"
    /\ kthreadd_task = 0 /\ kthreadd_done = FALSE
    /\ system_state = "BOOTING"
    /\ fn = 0 /\ imbalance = {} /\ smp = FALSE
    /\ async = [a \in Asyncs |-> "no"] /\ unpack = "no"
    /\ initmem = TRUE
    /\ ramdisk = TRUE /\ failed = {} /\ program = "none"
    /\ machine \in [threads : 0 .. 2, requested : BOOLEAN, default : BOOLEAN]

-----------------------------------------------------------------------------
(***************************************************************************)
(* rest_init, on the root thread.                                          *)
(***************************************************************************)

\* "We need to spawn init first so that it obtains pid 1"; without it the
\* look-up of its task gives NULL, which is written through.
user_mode_thread ==
    /\ root = "start_kernel"
    /\ IF machine.threads = 0
       THEN root' = "oops" /\ UNCHANGED init
       ELSE root' = "kthreadd" /\ init' = "wait"
    /\ UNCHANGED <<kthreadd_task, kthreadd_done, system_state, calls, work, initmem, exec, machine>>

\* kernel_thread(kthreadd), which may fail too: nobody asks.
kernel_thread ==
    /\ root = "kthreadd" /\ root' = "scheduling"
    /\ kthreadd_task' = IF machine.threads < 2 THEN 0 ELSE 2
    /\ UNCHANGED <<init, kthreadd_done, system_state, calls, work, initmem, exec, machine>>

Scheduling ==
    /\ root = "scheduling" /\ root' = "complete"
    /\ system_state' = "SCHEDULING"
    /\ UNCHANGED <<init, kthreadd_task, kthreadd_done, calls, work, initmem, exec, machine>>

\* Faulty: init is not told.
completeNot ==
    /\ root = "complete" /\ root' = "idle"
    /\ UNCHANGED <<init, kthreadd_task, kthreadd_done, system_state, calls, work, initmem, exec, machine>>

\* complete(&kthreadd_done), and the thread goes to cpu_startup_entry.
complete ==
    /\ root = "complete" /\ root' = "idle"
    /\ kthreadd_done' = TRUE
    /\ UNCHANGED <<init, kthreadd_task, system_state, calls, work, initmem, exec, machine>>

rest_init == user_mode_thread \/ kernel_thread \/ Scheduling \/ complete

-----------------------------------------------------------------------------
(***************************************************************************)
(* kernel_init_freeable.                                                   *)
(***************************************************************************)
Goto(from, to) == init = from /\ init' = to

wait_for_completion ==
    /\ kthreadd_done /\ Goto("wait", "workqueue")
    /\ UNCHANGED <<boot, system_state, calls, work, initmem, exec, machine>>

\* workqueue_init makes kthreads, which without kthreadd "will OOPS".
workqueue_init ==
    /\ Goto("workqueue", IF kthreadd_task = 0 THEN "oops" ELSE "early")
    /\ UNCHANGED <<boot, system_state, calls, work, initmem, exec, machine>>

initcall_blacklisted(i) == i \in Blacklist

\* Functions that are started: any that were not.
Schedule(now) ==
    \E more \in SUBSET {a \in Asyncs : now[a] = "no"} :
      async' = [a \in Asyncs |-> IF a \in more THEN "queued" ELSE now[a]]

\* There is a call left: of the early ones (do_pre_smp_initcalls), or of all
\* levels (do_initcalls, level after level).
InLevel ==
    \/ init = "early" /\ fn < Early
    \/ init = "late" /\ fn < Initcalls

\* What is blacklisted is skipped; any other call may start asynchronous
\* functions, and come back with preemption or interrupts off.
do_one_initcall ==
    /\ InLevel /\ fn' = fn + 1
    /\ \/ /\ initcall_blacklisted(fn')
          /\ UNCHANGED <<init, imbalance, work>>
       \/ /\ ~initcall_blacklisted(fn')
          /\ init' = "check"
          /\ imbalance' \in SUBSET {"preempt", "irqs"}
          /\ Schedule(async)
          /\ unpack' = IF fn' = Populate THEN "queued" ELSE unpack
    /\ UNCHANGED <<boot, system_state, smp, initmem, exec, machine>>

\* ... and then what the call left out of order is put back.
Restore ==
    /\ Goto("check", IF smp THEN "late" ELSE "early")
    /\ imbalance' = {}
    /\ UNCHANGED <<boot, system_state, fn, smp, work, initmem, exec, machine>>

\* The other CPUs are started, and do_initcalls copies the command line or
\* panics.
smp_init ==
    /\ fn = Early /\ init = "early" /\ init' \in {"late", "nomem"}
    /\ smp' = TRUE
    /\ UNCHANGED <<boot, system_state, fn, imbalance, work, initmem, exec, machine>>

\* wait_for_initramfs returns at once if nobody has begun to unpack.
wait_for_initramfs ==
    /\ fn = Initcalls /\ unpack \in {"no", "done"}
    /\ Goto("late", "eaccess")
    /\ UNCHANGED <<boot, system_state, calls, work, initmem, exec, machine>>

\* "check if there is an early userspace init.  If yes, let it do all the
\* work"; if not, prepare_namespace mounts the root file system.
init_eaccess ==
    /\ Goto("eaccess", "async")
    /\ ramdisk' \in {FALSE, unpack = "done"}
    /\ UNCHANGED <<boot, system_state, calls, work, initmem, failed, program, machine>>

kernel_init_freeable ==
    \/ workqueue_init \/ do_one_initcall \/ Restore \/ smp_init
    \/ wait_for_initramfs \/ init_eaccess

-----------------------------------------------------------------------------
(***************************************************************************)
(* The rest of kernel_init.                                                *)
(***************************************************************************)
Pending == {a \in Asyncs : async[a] \in {"queued", "running"}}

\* Faulty: waits for those that have begun only.
async_synchronize_fullBegun ==
    /\ \A a \in Asyncs : async[a] # "running"
    /\ Goto("async", "free")
    /\ system_state' = "FREEING_INITMEM"
    /\ UNCHANGED <<boot, calls, work, initmem, exec, machine>>

\* "need to finish all async __init code before freeing the memory"
async_synchronize_full ==
    /\ Pending = {} /\ Goto("async", "free")
    /\ system_state' = "FREEING_INITMEM"
    /\ UNCHANGED <<boot, calls, work, initmem, exec, machine>>

free_initmem ==
    /\ Goto("free", "freed")
    /\ initmem' = FALSE
    /\ UNCHANGED <<boot, system_state, calls, work, exec, machine>>

\* mark_readonly, and the system runs.
Running ==
    /\ Goto("freed", "ramdisk")
    /\ system_state' = "RUNNING"
    /\ UNCHANGED <<boot, calls, work, initmem, exec, machine>>

\* kernel_execve of p: it runs, or init goes on.
run_init_process(p, otherwise) ==
    /\ \/ init' = "user" /\ program' = p /\ UNCHANGED failed
       \/ init' = otherwise /\ failed' = failed \cup {p} /\ UNCHANGED program
    /\ UNCHANGED <<boot, system_state, calls, work, initmem, ramdisk, machine>>

Skip(from, to) ==
    /\ Goto(from, to)
    /\ UNCHANGED <<boot, system_state, calls, work, initmem, exec, machine>>

TryRamdisk ==
    \/ init = "ramdisk" /\ ramdisk /\ run_init_process("ramdisk", "requested")
    \/ ~ramdisk /\ Skip("ramdisk", "requested")

\* A requested program that does not run is the end.
TryRequested ==
    \/ init = "requested" /\ machine.requested /\ run_init_process("requested", "panic")
    \/ ~machine.requested /\ Skip("requested", "default")

TryDefault ==
    \/ init = "default" /\ machine.default /\ run_init_process("default", "fallback")
    \/ ~machine.default /\ Skip("default", "fallback")

try_to_run_init_process ==
    /\ init = "fallback"
    /\ \E i \in Fallbacks :
         /\ \A j \in Fallbacks : Order[j] \in failed <=> j < i
         /\ run_init_process(Order[i], IF i = 7 THEN "panic" ELSE "fallback")

kernel_init ==
    \/ wait_for_completion \/ kernel_init_freeable
    \/ async_synchronize_full \/ free_initmem \/ Running
    \/ TryRamdisk \/ TryRequested \/ TryDefault \/ try_to_run_init_process

-----------------------------------------------------------------------------
(***************************************************************************)
(* What runs asynchronously (external).  A function that runs may start    *)
(* others.                                                                 *)
(***************************************************************************)
async_run_entry(a) ==
    /\ \/ async[a] = "queued" /\ async' = [async EXCEPT ![a] = "running"]
       \/ async[a] = "running" /\ Schedule([async EXCEPT ![a] = "done"])
    /\ UNCHANGED <<boot, init, system_state, calls, unpack, initmem, exec, machine>>

do_populate_rootfs ==
    /\ \/ unpack = "queued" /\ unpack' = "running"
       \/ unpack = "running" /\ unpack' = "done"
    /\ UNCHANGED <<boot, init, system_state, calls, async, initmem, exec, machine>>

Next ==
    \/ rest_init \/ kernel_init
    \/ \E a \in Asyncs : async_run_entry(a)
    \/ do_populate_rootfs

Spec == Init /\ [][Next]_vars

\* The threads are scheduled, and what they run asynchronously ends.
FairSpec ==
    /\ Spec
    /\ WF_vars(rest_init) /\ WF_vars(kernel_init) /\ WF_vars(do_populate_rootfs)
    /\ \A a \in Asyncs : WF_vars(async_run_entry(a))

-----------------------------------------------------------------------------
(***************************************************************************)
(* Properties.                                                             *)
(***************************************************************************)
Freeable == {"early", "late", "check", "eaccess", "async"}

\* Nothing of the __init sections is used once free_initmem gave them back:
\* neither kernel_init_freeable, nor asynchronous functions, nor the
\* unpacking, which async_synchronize_full does not wait for.
InitmemUnused ==
    ~initmem => init \notin Freeable /\ Pending = {} /\ unpack \in {"no", "done"}

\* kernel_init makes threads without kthreadd only if kthreadd could not be
\* made, although it may run before rest_init goes on.
ParentFirst ==
    init = "oops" => machine.threads < 2

\* The state of the system is not set back by rest_init, which writes it on
\* another thread: once init has begun to free memory it says so.
StateForward ==
    /\ init \in {"free", "freed"} => system_state = "FREEING_INITMEM"
    /\ init \in {"ramdisk", "requested", "default", "fallback", "user"} =>
         system_state = "RUNNING"

\* An init call starts with interrupts and preemption as do_initcalls had
\* them, whatever the one before did.
CallsStartClean ==
    init \in {"early", "late"} => imbalance = {}

\* The programs there are to try, as kernel_init is documented to try them.
Offered(p) ==
    CASE p = "ramdisk" -> ramdisk
      [] p = "requested" -> machine.requested
      [] p = "default" -> machine.default /\ ~machine.requested
      [] OTHER -> ~machine.requested

\* init runs the first program that can be run, and the kernel gives up only
\* when all there are were tried; a requested one has no substitute.
FirstThatRuns ==
    /\ init = "user" =>
         \E i \in 1 .. 7 :
           /\ program = Order[i] /\ Offered(program)
           /\ \A j \in 1 .. i - 1 : Offered(Order[j]) => Order[j] \in failed
    /\ init = "panic" =>
         \A i \in 1 .. 7 : Offered(Order[i]) => Order[i] \in failed

\* The hand-over is in order.
BootOrder ==
    InitmemUnused /\ ParentFirst /\ StateForward /\ CallsStartClean /\ FirstThatRuns

\* The machine comes up or stops with a message: no thread waits for ever
\* for a completion, an asynchronous function or the initramfs.
BootEnds ==
    <>(root = "oops" \/ init \in {"user", "panic", "oops", "nomem"})

=============================================================================
