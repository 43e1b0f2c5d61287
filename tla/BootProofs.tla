----------------------------- MODULE BootProofs -----------------------------
(***************************************************************************)
(* That the hand-over from the boot thread to init is in order, for any    *)
(* number of init calls, any of them blacklisted, and any asynchronous     *)
(* functions.                                                              *)
(***************************************************************************)
EXTENDS Boot, TLAPS

Trying == {"ramdisk", "requested", "default", "fallback"}
Freed == {"freed", "user", "panic"} \cup Trying
Waiting == {"none", "wait"}
Done == {"no", "done"}

\* rest_init tells init that kthreadd is there at the very end, so that it
\* writes nothing that init reads or writes any more once init goes on.
HandedOver ==
    /\ kthreadd_done => root = "idle"
    /\ init \notin Waiting => kthreadd_done
    /\ root \in {"scheduling", "complete", "idle"} /\ kthreadd_task = 0 => machine.threads < 2

\* What is freed is what nobody will use: the functions have ended, and no
\* init call is left to start others.
Finished ==
    /\ initmem \/ init \in Freed
    /\ init \in Freed \cup {"free"} => Pending = {}
    /\ init \in Freed \cup {"free", "async", "eaccess"} => unpack \in Done

\* Preemption and interrupts are out of order only inside an init call.
Balanced == init # "check" => imbalance = {}

\* The candidates passed over so far were not there or could not be run.
Passed ==
    /\ init \in Trying \ {"ramdisk"} => (ramdisk => "ramdisk" \in failed)
    /\ init \in {"default", "fallback"} => ~machine.requested
    /\ init = "fallback" => (machine.default => "default" \in failed)

Typed == async \in [Asyncs -> {"no", "queued", "running", "done"}]

\* What rest_init and kernel_init may rely on, without the choice of the
\* program.
Core ==
    /\ Typed /\ HandedOver /\ Finished /\ Balanced /\ Passed
    /\ ParentFirst /\ StateForward

IInv == Core /\ FirstThatRuns

\* The names of the programs are different.
LEMMA OrderIs ==
    /\ Order[1] = "ramdisk" /\ Order[2] = "requested" /\ Order[3] = "default"
    /\ Order[4] = "/sbin/init" /\ Order[5] = "/etc/init"
    /\ Order[6] = "/bin/init" /\ Order[7] = "/bin/sh"
    /\ \A i, j \in 1 .. 7 : Order[i] = Order[j] => i = j
BY SMT DEF Order

LEMMA IInvInit == Init => IInv
BY SMT DEF Init, IInv, Core, Typed, HandedOver, Finished, Balanced, Passed, ParentFirst, StateForward,
    FirstThatRuns, Trying, Freed, Waiting, Done, Pending

LEMMA CoreStep == Core /\ [Next]_vars => Core'
<1> SUFFICES ASSUME Core, [Next]_vars PROVE Core'
  OBVIOUS
<1> USE DEF Core, Typed, HandedOver, Finished, Balanced, Passed, ParentFirst, StateForward,
            Trying, Freed, Waiting, Done, Pending, boot, calls, work, exec
<1>1. CASE rest_init
  BY <1>1, SMT DEF rest_init, user_mode_thread, kernel_thread, Scheduling, complete
<1>2. CASE wait_for_completion
  BY <1>2, SMT DEF wait_for_completion, Goto
<1>3. CASE workqueue_init
  BY <1>3, SMT DEF workqueue_init, Goto
<1>4. CASE do_one_initcall
  BY <1>4, SMT DEF do_one_initcall, InLevel, Schedule
<1>5. CASE Restore
  BY <1>5, SMT DEF Restore, Goto
<1>6. CASE smp_init
  BY <1>6, SMT DEF smp_init
<1>7. CASE wait_for_initramfs
  BY <1>7, SMT DEF wait_for_initramfs, Goto
<1>8. CASE init_eaccess
  BY <1>8, SMT DEF init_eaccess, Goto
<1>9. CASE async_synchronize_full
  BY <1>9, SMT DEF async_synchronize_full, Goto
<1>10. CASE free_initmem
  BY <1>10, SMT DEF free_initmem, Goto
<1>11. CASE Running
  BY <1>11, SMT DEF Running, Goto
<1>12. CASE TryRamdisk
  BY <1>12, SMT DEF TryRamdisk, run_init_process, Skip, Goto
<1>13. CASE TryRequested
  BY <1>13, SMT DEF TryRequested, run_init_process, Skip, Goto
<1>14. CASE TryDefault
  BY <1>14, SMT DEF TryDefault, run_init_process, Skip, Goto
<1>15. CASE try_to_run_init_process
  BY <1>15, SMT DEF try_to_run_init_process, run_init_process
<1>16. ASSUME NEW a \in Asyncs, async_run_entry(a) PROVE Core'
  BY <1>16, SMT DEF async_run_entry, Schedule
<1>17. CASE do_populate_rootfs
  BY <1>17, SMT DEF do_populate_rootfs
<1>18. CASE UNCHANGED vars
  BY <1>18, SMT DEF vars
<1> HIDE DEF Core, Typed, HandedOver, Finished, Balanced, Passed, ParentFirst, StateForward
<1> QED
  BY <1>1, <1>2, <1>3, <1>4, <1>5, <1>6, <1>7, <1>8, <1>9, <1>10, <1>11, <1>12, <1>13, <1>14,
     <1>15, <1>16, <1>17, <1>18 DEF Next, kernel_init, kernel_init_freeable

\* A step that ends the search for a program has passed over those before it.
LEMMA FirstStep == Core /\ FirstThatRuns /\ [Next]_vars => FirstThatRuns'
<1> SUFFICES ASSUME Core, FirstThatRuns, [Next]_vars PROVE FirstThatRuns'
  OBVIOUS
<1>1. CASE init' \notin {"user", "panic"}
  BY <1>1 DEF FirstThatRuns
<1>2. CASE UNCHANGED <<init, ramdisk, failed, program, machine>>
  BY <1>2 DEF FirstThatRuns, Offered
<1>3. CASE TryRamdisk
  BY <1>3, OrderIs, SMT DEF TryRamdisk, run_init_process, Skip, Goto, FirstThatRuns, Offered
<1>4. CASE TryRequested
  BY <1>4, OrderIs, SMT DEF TryRequested, run_init_process, Skip, Goto, FirstThatRuns, Offered,
     Core, Passed, Trying
<1>5. CASE TryDefault
  BY <1>5, OrderIs, SMT DEF TryDefault, run_init_process, Skip, Goto, FirstThatRuns, Offered,
     Core, Passed, Trying
<1>6. CASE try_to_run_init_process
  BY <1>6, OrderIs, SMT DEF try_to_run_init_process, run_init_process, FirstThatRuns, Offered,
     Core, Passed, Trying, Fallbacks
<1>7. CASE rest_init
  BY <1>1, <1>2, <1>7, SMT DEF rest_init, user_mode_thread, kernel_thread, Scheduling, complete,
     exec
<1>8. CASE wait_for_completion \/ async_synchronize_full \/ free_initmem \/ Running
  BY <1>1, <1>8, SMT DEF wait_for_completion, async_synchronize_full, free_initmem, Running, Goto
<1>9. CASE kernel_init_freeable
  <2>1. workqueue_init => init' \notin {"user", "panic"}
    BY SMT DEF workqueue_init, Goto
  <2>2. do_one_initcall => init' \notin {"user", "panic"}
    BY SMT DEF do_one_initcall, InLevel
  <2>3. Restore => init' \notin {"user", "panic"}
    BY SMT DEF Restore, Goto
  <2>4. smp_init => init' \notin {"user", "panic"}
    BY SMT DEF smp_init
  <2>5. wait_for_initramfs => init' \notin {"user", "panic"}
    BY SMT DEF wait_for_initramfs, Goto
  <2>6. init_eaccess => init' \notin {"user", "panic"}
    BY SMT DEF init_eaccess, Goto
  <2> QED
    BY <1>1, <1>9, <2>1, <2>2, <2>3, <2>4, <2>5, <2>6 DEF kernel_init_freeable
<1>10. ASSUME NEW a \in Asyncs, async_run_entry(a) PROVE FirstThatRuns'
  BY <1>2, <1>10, SMT DEF async_run_entry, exec
<1>11. CASE do_populate_rootfs \/ UNCHANGED vars
  BY <1>2, <1>11, SMT DEF do_populate_rootfs, exec, vars
<1> QED
  BY <1>3, <1>4, <1>5, <1>6, <1>7, <1>8, <1>9, <1>10, <1>11 DEF Next, kernel_init

LEMMA IInvStep == IInv /\ [Next]_vars => IInv'
BY CoreStep, FirstStep DEF IInv

\* The invariant gives the properties.
LEMMA IInvImplies == IInv => BootOrder
BY SMT DEF IInv, Core, BootOrder, InitmemUnused, CallsStartClean, Finished, Balanced, Freed, Trying,
    Done, Freeable

\* rest_init and kernel_init hand over in order, however many init calls there
\* are and whatever these leave running: nothing of the __init sections is used
\* once free_initmem gave them back, kthreadd comes before the first thread
\* that needs it, system_state is not set back, each init call starts with
\* interrupts and preemption on, and init runs the first program that can be
\* run.
THEOREM HandOver == Spec => []BootOrder
<1>1. Init => IInv
  BY IInvInit
<1>2. IInv /\ [Next]_vars => IInv'
  BY IInvStep
<1>3. IInv => BootOrder
  BY IInvImplies
<1> QED
  BY <1>1, <1>2, <1>3, PTL DEF Spec

=============================================================================
