------------------------------- MODULE Vfork -------------------------------
(***************************************************************************)
(* vfork (kernel/fork.c: kernel_clone, wait_for_vfork_done, mm_release and *)
(* complete_vfork_done).  The parent waits in the kernel, on a completion  *)
(* that lies on its own stack, until its child execs or exits; it may also *)
(* be killed while it waits.  The child may itself vfork, and a thread of  *)
(* the same address space may wait for the child's tid to be cleared.      *)
(***************************************************************************)
EXTENDS Integers, FiniteSets

CONSTANTS
    Tasks,         \* task_structs, and the address space each execs into
    NULL,
    MaxClones      \* bound: calls of kernel_clone

VforkAssumption ==
    1 \in Tasks /\ Tasks \subseteq Nat /\ NULL \notin Tasks /\ MaxClones \in Nat

VARIABLES
    pc,            \* where a task is
    why,           \* "exec" or "exit": the caller of mm_release
    mm,            \* the address space of a task
    usage,         \* references to a task_struct
    vfork_done,    \* the completion a task is to complete, named by its owner
    task_lock,     \* whether the task_lock of a task is held
    vfork,         \* the local copy of vfork_done in complete_vfork_done
    child,         \* the task a parent waits for
    frame,         \* whether the kernel_clone that owns the completion is active
    done,          \* the completion's flag
    wait_lock,     \* whether the lock of the completion is held
    killed,        \* a fatal signal is pending
    tid,           \* the tid word of a task is still set
    clear_child_tid,
    clones,        \* calls of kernel_clone so far
    joins          \* the task whose tid a task waits for in user space

vars == <<pc, why, mm, usage, vfork_done, task_lock, vfork, child, frame, done, wait_lock,
          killed, tid, clear_child_tid, clones, joins>>

\* Variables of the completion, and of the futex.
completion == <<frame, done, wait_lock>>
futex == <<tid, clear_child_tid, clones, joins>>

All(v) == [t \in Tasks |-> v]
Init ==
    /\ pc = [t \in Tasks |-> IF t = 1 THEN "user" ELSE "none"]
    /\ mm = [t \in Tasks |-> IF t = 1 THEN 1 ELSE NULL]
    /\ usage = [t \in Tasks |-> IF t = 1 THEN 2 ELSE 0]
    /\ why = All("exit")
    /\ vfork_done = All(NULL) /\ vfork = All(NULL) /\ child = All(NULL)
    /\ task_lock = All(FALSE)
    /\ frame = All(FALSE) /\ done = All(FALSE) /\ wait_lock = All(FALSE)
    /\ killed = All(FALSE)
    /\ tid = All(FALSE) /\ clear_child_tid = All(FALSE) /\ joins = All(NULL)
    /\ clones = 0

Goto(t, l) == pc' = [pc EXCEPT ![t] = l]
Running(t) == pc[t] = "user" /\ joins[t] = NULL /\ ~killed[t]

-----------------------------------------------------------------------------
(***************************************************************************)
(* The parent.                                                             *)
(***************************************************************************)

\* kernel_clone, with CLONE_VM, up to wake_up_new_task, before which nobody sees
\* the child.  A new task_struct has two references (rcu_users,
\* counted here with usage); a parent that is to wait
\* takes another.
kernel_clone(p, c, CLONE_VFORK) ==
    /\ Running(p) /\ pc[c] = "none" /\ usage[c] = 0
    /\ clones < MaxClones /\ clones' = clones + 1
    /\ pc' = [pc EXCEPT ![p] = IF CLONE_VFORK THEN "wait" ELSE "user", ![c] = "user"]
    /\ mm' = [mm EXCEPT ![c] = mm[p]]
    /\ usage' = [usage EXCEPT ![c] = IF CLONE_VFORK THEN 3 ELSE 2]
    /\ IF CLONE_VFORK
       THEN /\ vfork_done' = [vfork_done EXCEPT ![c] = p]
            /\ child' = [child EXCEPT ![p] = c]
            /\ frame' = [frame EXCEPT ![p] = TRUE]
            /\ done' = [done EXCEPT ![p] = FALSE]
       ELSE UNCHANGED <<vfork_done, child, frame, done>>
    /\ tid' = [tid EXCEPT ![c] = TRUE]
    /\ clear_child_tid' = [clear_child_tid EXCEPT ![c] = TRUE]
    /\ killed' = [killed EXCEPT ![c] = FALSE]
    /\ UNCHANGED <<why, task_lock, vfork, wait_lock, joins>>

\* wait_for_completion_state, under the completion's lock.
WaitDone(p) ==
    /\ pc[p] = "wait" /\ ~wait_lock[p]
    /\ done[p]
    /\ Goto(p, "put")
    /\ UNCHANGED <<why, mm, usage, vfork_done, task_lock, vfork, child, killed>>
    /\ UNCHANGED completion /\ UNCHANGED futex

WaitKilled(p) ==
    /\ pc[p] = "wait" /\ ~wait_lock[p]
    /\ killed[p]
    /\ Goto(p, "killed")
    /\ UNCHANGED <<why, mm, usage, vfork_done, task_lock, vfork, child, killed>>
    /\ UNCHANGED completion /\ UNCHANGED futex

\* Faulty: the pointer is cleared without the task_lock of the child.
ForgetChildUnlocked(p) ==
    /\ pc[p] = "killed"
    /\ vfork_done' = [vfork_done EXCEPT ![child[p]] = NULL]
    /\ Goto(p, "put")
    /\ UNCHANGED <<why, mm, usage, task_lock, vfork, child, killed>>
    /\ UNCHANGED completion /\ UNCHANGED futex

\* The child must not complete a completion that is about to disappear.
ForgetChild(p) ==
    /\ pc[p] = "killed"
    /\ ~task_lock[child[p]]
    /\ vfork_done' = [vfork_done EXCEPT ![child[p]] = NULL]
    /\ Goto(p, "put")
    /\ UNCHANGED <<why, mm, usage, task_lock, vfork, child, killed>>
    /\ UNCHANGED completion /\ UNCHANGED futex

\* put_task_struct, and the end of kernel_clone and of its stack frame.
PutChild(p) ==
    /\ pc[p] = "put"
    /\ usage' = [usage EXCEPT ![child[p]] = @ - 1]
    /\ child' = [child EXCEPT ![p] = NULL]
    /\ frame' = [frame EXCEPT ![p] = FALSE]
    /\ Goto(p, "user")
    /\ UNCHANGED <<why, mm, vfork_done, task_lock, vfork, done, wait_lock, killed>>
    /\ UNCHANGED futex

-----------------------------------------------------------------------------
(***************************************************************************)
(* The child: exec or exit.                                                *)
(***************************************************************************)

\* execve, once in the life of a task (a bound).
Exec(c) ==
    /\ Running(c) /\ mm[c] # c
    /\ why' = [why EXCEPT ![c] = "exec"]
    /\ Goto(c, "mm_release")
    /\ UNCHANGED <<mm, usage, vfork_done, task_lock, vfork, child, killed>>
    /\ UNCHANGED completion /\ UNCHANGED futex

\* exit, also on the way back to user space with a fatal signal pending.
Exit(c) ==
    /\ pc[c] = "user"
    /\ why' = [why EXCEPT ![c] = "exit"]
    /\ joins' = [joins EXCEPT ![c] = NULL]
    /\ Goto(c, "mm_release")
    /\ UNCHANGED <<mm, usage, vfork_done, task_lock, vfork, child, killed, tid, clear_child_tid,
                   clones>>
    /\ UNCHANGED completion

\* The number of tasks that use the address space.
MmUsers(m) == Cardinality({t \in Tasks : mm[t] = m})

SharedMm(c) == MmUsers(mm[c]) > 1

\* Faulty: only exit, not exec, completes.
mm_releaseExitOnly(c) ==
    /\ pc[c] = "mm_release"
    /\ IF clear_child_tid[c] /\ SharedMm(c)
       THEN /\ tid' = [tid EXCEPT ![c] = FALSE]
            /\ joins' = [t \in Tasks |-> IF joins[t] = c THEN NULL ELSE joins[t]]
       ELSE UNCHANGED <<tid, joins>>
    /\ clear_child_tid' = [clear_child_tid EXCEPT ![c] = FALSE]
    /\ Goto(c, IF vfork_done[c] # NULL /\ why[c] = "exit" THEN "complete_vfork_done" ELSE "released")
    /\ UNCHANGED <<why, mm, usage, vfork_done, task_lock, vfork, child, killed, clones>>
    /\ UNCHANGED completion

\* mm_release: clear_child_tid and its FUTEX_WAKE; then whether to complete.
mm_release(c) ==
    /\ pc[c] = "mm_release"
    /\ IF clear_child_tid[c] /\ SharedMm(c)
       THEN /\ tid' = [tid EXCEPT ![c] = FALSE]
            /\ joins' = [t \in Tasks |-> IF joins[t] = c THEN NULL ELSE joins[t]]
       ELSE UNCHANGED <<tid, joins>>
    /\ clear_child_tid' = [clear_child_tid EXCEPT ![c] = FALSE]
    /\ Goto(c, IF vfork_done[c] # NULL THEN "complete_vfork_done" ELSE "released")
    /\ UNCHANGED <<why, mm, usage, vfork_done, task_lock, vfork, child, killed, clones>>
    /\ UNCHANGED completion

complete_vfork_done(c) ==
    /\ pc[c] = "complete_vfork_done"
    /\ ~task_lock[c]
    /\ vfork' = [vfork EXCEPT ![c] = vfork_done[c]]
    /\ IF vfork_done[c] # NULL
       THEN /\ task_lock' = [task_lock EXCEPT ![c] = TRUE]
            /\ vfork_done' = [vfork_done EXCEPT ![c] = NULL]
            /\ Goto(c, "complete")
       ELSE Goto(c, "released") /\ UNCHANGED <<task_lock, vfork_done>>
    /\ UNCHANGED <<why, mm, usage, child, killed>>
    /\ UNCHANGED completion /\ UNCHANGED futex

\* complete, under the completion's lock (external), in two steps.
complete(c) ==
    /\ pc[c] = "complete"
    /\ ~wait_lock[vfork[c]]
    /\ wait_lock' = [wait_lock EXCEPT ![vfork[c]] = TRUE]
    /\ done' = [done EXCEPT ![vfork[c]] = TRUE]
    /\ Goto(c, "completed")
    /\ UNCHANGED <<why, mm, usage, vfork_done, task_lock, vfork, child, killed, frame>>
    /\ UNCHANGED futex

completed(c) ==
    /\ pc[c] = "completed"
    /\ wait_lock' = [wait_lock EXCEPT ![vfork[c]] = FALSE]
    /\ Goto(c, "task_unlock")
    /\ vfork' = [vfork EXCEPT ![c] = NULL]
    /\ UNCHANGED <<why, mm, usage, vfork_done, task_lock, child, killed, frame, done>>
    /\ UNCHANGED futex

TaskUnlock(c) ==
    /\ pc[c] = "task_unlock"
    /\ task_lock' = [task_lock EXCEPT ![c] = FALSE]
    /\ Goto(c, "released")
    /\ UNCHANGED <<why, mm, usage, vfork_done, vfork, child, killed>>
    /\ UNCHANGED completion /\ UNCHANGED futex

\* What the callers of mm_release do then (external: exec_mmap and do_exit).
Released(c) ==
    /\ pc[c] = "released"
    /\ mm' = [mm EXCEPT ![c] = IF why[c] = "exec" THEN c ELSE NULL]
    /\ usage' = [usage EXCEPT ![c] = IF why[c] = "exec" THEN @ ELSE @ - 1]
    /\ Goto(c, IF why[c] = "exec" THEN "user" ELSE "zombie")
    /\ tid' = [tid EXCEPT ![c] = tid[c] /\ why[c] = "exit"]
    /\ UNCHANGED <<why, vfork_done, task_lock, vfork, child, killed, clear_child_tid, clones,
                   joins>>
    /\ UNCHANGED completion

\* release_task (external).
Reap(c) ==
    /\ pc[c] = "zombie"
    /\ usage' = [usage EXCEPT ![c] = @ - 1]
    /\ Goto(c, "none")
    /\ UNCHANGED <<why, mm, vfork_done, task_lock, vfork, child, killed>>
    /\ UNCHANGED completion /\ UNCHANGED futex

-----------------------------------------------------------------------------
Kill(p) ==
    /\ pc[p] \in {"user", "wait"} /\ ~killed[p]
    /\ killed' = [killed EXCEPT ![p] = TRUE]
    /\ UNCHANGED <<pc, why, mm, usage, vfork_done, task_lock, vfork, child>>
    /\ UNCHANGED completion /\ UNCHANGED futex

\* A task waits, in user space, for the tid of another of its address space.
Join(t, c) ==
    /\ Running(t) /\ pc[c] # "none" /\ mm[c] = mm[t] /\ t # c
    /\ tid[c]
    /\ joins' = [joins EXCEPT ![t] = c]
    /\ UNCHANGED <<pc, why, mm, usage, vfork_done, task_lock, vfork, child, killed, tid,
                   clear_child_tid, clones>>
    /\ UNCHANGED completion

\* What a task does in the kernel, without a choice of its own.
Step(t) ==
    \/ WaitDone(t) \/ WaitKilled(t) \/ ForgetChild(t) \/ PutChild(t)
    \/ mm_release(t) \/ complete_vfork_done(t) \/ complete(t) \/ completed(t)
    \/ TaskUnlock(t) \/ Released(t)

Next ==
    \E t \in Tasks :
        \/ Step(t) \/ Exec(t) \/ Exit(t) \/ Reap(t) \/ Kill(t)
        \/ \E c \in Tasks : Join(t, c) \/ \E vf \in BOOLEAN : kernel_clone(t, c, vf)

Spec == Init /\ [][Next]_vars

\* Tasks in the kernel go on.
FairSpec == Spec /\ \A t \in Tasks : WF_vars(Step(t))

-----------------------------------------------------------------------------
(***************************************************************************)
(* Properties.                                                             *)
(***************************************************************************)

\* A child touches the completion only while the parent's kernel_clone, on
\* whose stack it lies, is active, though the parent may be killed meanwhile.
CompletionOnStack ==
    \A c \in Tasks : pc[c] \in {"complete", "completed"} => frame[vfork[c]]

\* The parent touches its child's task_struct only while that is not freed,
\* though the child may have exited and been reaped.
ChildHeld ==
    \A p \in Tasks : pc[p] \in {"wait", "killed", "put"} => usage[child[p]] > 0

\* The address space is lent: a parent runs again only when its child runs
\* there no more ("finally we can wake up parent and return this mm to him"),
\* unless it was killed.
MmReturned ==
    \A p, c \in Tasks : (vfork_done[c] = p /\ pc[c] = "user") => pc[p] # "user"

\* The parent lends its address space and the completion on its stack: neither
\* side uses what the other has taken back.
VforkLends == CompletionOnStack /\ ChildHeld /\ MmReturned

\* A parent goes on when its child execs or exits, and when it is killed
\* whatever its child does.
ParentGoesOn ==
    \A p \in Tasks :
        (/\ pc[p] = "wait"
         /\ killed[p] \/ \E c \in Tasks : child[p] = c /\ pc[c] = "mm_release")
        ~> pc[p] # "wait"

\* A task that joins another of its address space goes on when that is gone.
JoinEnds ==
    \A t \in Tasks :
        (\E c \in Tasks : joins[t] = c /\ pc[c] = "mm_release") ~> joins[t] = NULL

\* Who waits for a child or a thread to leave the address space goes on.
WaitersGoOn == ParentGoesOn /\ JoinEnds

=============================================================================
