---------------------------- MODULE ThreadStacks ----------------------------
(***************************************************************************)
(* Kernel stacks (kernel/fork.c, CONFIG_VMAP_STACK): every CPU caches a    *)
(* few for new tasks.  A stack is cleared and charged to the memory cgroup *)
(* when a task gets it, uncharged when the task exits, and given back when *)
(* the last who looks at it has put it: to the cache, or after an RCU      *)
(* grace period to the allocator.  A task may be moved to another CPU      *)
(* between any two looks at a cache.                                       *)
(***************************************************************************)
EXTENDS Integers, FiniteSets

CONSTANTS
    Tasks, Stacks, CPUs,
    NULL,
    NR_CACHED_STACKS,
    Pages          \* THREAD_SIZE / PAGE_SIZE

\* What an instance gives the constants.
ThreadStacksAssumption ==
    /\ NR_CACHED_STACKS \in Nat \ {0} /\ Pages \in Nat \ {0}
    /\ NULL \notin Tasks \cup Stacks

Slots == 1 .. NR_CACHED_STACKS

VARIABLES
    pc,            \* where a task is: "none", "alloc", "charge", ...
    i,             \* the loop variable of a walk of the cache
    stack,         \* tsk->stack_vm_area, or the stack in an allocator's hand
    stack_refcount,
    cached_stacks, \* per CPU
    rcu,           \* stacks given to call_rcu
    callback,      \* the stack an RCU callback has in its hand, and its i
    allocated,     \* stacks that vmalloc has given and vfree not got back
    charged,       \* pages of a stack charged
    dirty,         \* stacks with something of an earlier task on them
    readers        \* references of others to the stack of a task

vars == <<pc, i, stack, stack_refcount, cached_stacks, rcu, callback, allocated, charged, dirty,
          readers>>

NoCallback == [s |-> NULL, i |-> 1]

Init ==
    /\ pc = [t \in Tasks |-> "none"]
    /\ i = [t \in Tasks |-> 1]
    /\ stack = [t \in Tasks |-> NULL]
    /\ stack_refcount = [t \in Tasks |-> 0]
    /\ cached_stacks = [c \in CPUs |-> [n \in Slots |-> NULL]]
    /\ rcu = {} /\ callback = NoCallback
    /\ allocated = {}
    /\ charged = [s \in Stacks |-> 0]
    /\ dirty = {}
    /\ readers = [t \in Tasks |-> 0]

Goto(t, l) == pc' = [pc EXCEPT ![t] = l]

-----------------------------------------------------------------------------
(***************************************************************************)
(* dup_task_struct.                                                        *)
(***************************************************************************)

dup_task_struct(t) ==
    /\ pc[t] = "none"
    /\ Goto(t, "alloc")
    /\ i' = [i EXCEPT ![t] = 1]
    /\ UNCHANGED <<stack, stack_refcount, cached_stacks, rcu, callback, allocated, charged, dirty,
                   readers>>

\* "Clear stale pointers from reused stack."
Cleared(s) == dirty \ {s}

\* this_cpu_xchg of a slot with NULL; the walk ends at the first stack.
TakeCached(t, c) ==
    /\ pc[t] = "alloc" /\ i[t] \in Slots
    /\ LET s == cached_stacks[c][i[t]] IN
       /\ cached_stacks' = [cached_stacks EXCEPT ![c][i[t]] = NULL]
       /\ IF s = NULL
          THEN i' = [i EXCEPT ![t] = @ + 1] /\ UNCHANGED <<pc, stack, dirty>>
          ELSE /\ stack' = [stack EXCEPT ![t] = s]
               /\ dirty' = Cleared(s)
               /\ Goto(t, "charge")
               /\ UNCHANGED i
    /\ UNCHANGED <<stack_refcount, rcu, callback, allocated, charged, readers>>

\* __vmalloc_node_range gives a cleared stack, or fails.
AllocateStack(t) ==
    /\ pc[t] = "alloc" /\ i[t] \notin Slots
    /\ \/ /\ Goto(t, "none")
          /\ UNCHANGED <<stack, allocated>>
       \/ \E s \in Stacks \ allocated :
            /\ stack' = [stack EXCEPT ![t] = s]
            /\ allocated' = allocated \cup {s}
            /\ Goto(t, "charge")
    /\ UNCHANGED <<i, stack_refcount, cached_stacks, rcu, callback, charged, dirty, readers>>

Vfree(s) == allocated' = allocated \ {s} /\ dirty' = dirty \ {s}

\* The n pages charged before the one that could not be are uncharged.
Uncharged(s, n) == [charged EXCEPT ![s] = 0]

\* memcg_charge_kernel_stack: n pages are charged; then, unless these are all,
\* the next cannot be, and the stack is given back.
memcg_charge_kernel_stack(t) ==
    /\ pc[t] = "charge"
    /\ \E n \in 0 .. Pages :
         IF n = Pages
         THEN /\ charged' = [charged EXCEPT ![stack[t]] = Pages]
              /\ stack_refcount' = [stack_refcount EXCEPT ![t] = 1]
              /\ Goto(t, "scs_prepare")
              /\ UNCHANGED <<stack, allocated, dirty>>
         ELSE /\ charged' = Uncharged(stack[t], n)
              /\ Vfree(stack[t])
              /\ stack' = [stack EXCEPT ![t] = NULL]
              /\ Goto(t, "none")
              /\ UNCHANGED stack_refcount
    /\ UNCHANGED <<i, cached_stacks, rcu, callback, readers>>

\* The shadow call stack: the task starts, or goes to free_stack.
scs_prepare(t) ==
    /\ pc[t] = "scs_prepare"
    /\ \E l \in {"starts", "free_stack"} : Goto(t, l)
    /\ UNCHANGED <<i, stack, stack_refcount, cached_stacks, rcu, callback, allocated, charged,
                   dirty, readers>>

\* exit_task_stack_account, then free_thread_stack, of a task never seen.
FreeStack(t) ==
    /\ pc[t] = "free_stack"
    /\ charged' = [charged EXCEPT ![stack[t]] = 0]
    /\ stack_refcount' = [stack_refcount EXCEPT ![t] = 0]
    /\ i' = [i EXCEPT ![t] = 1]
    /\ Goto(t, "release")
    /\ UNCHANGED <<stack, cached_stacks, rcu, callback, allocated, dirty, readers>>

-----------------------------------------------------------------------------
(***************************************************************************)
(* The task runs, is looked at, and exits.                                 *)
(***************************************************************************)

Run(t) ==
    /\ pc[t] = "starts"
    /\ dirty' = dirty \cup {stack[t]}
    /\ Goto(t, "runs")
    /\ UNCHANGED <<i, stack, stack_refcount, cached_stacks, rcu, callback, allocated, charged,
                   readers>>

\* try_get_task_stack (external): refcount_inc_not_zero.
TryGetTaskStack(t) ==
    /\ stack_refcount[t] > 0 /\ pc[t] \in {"runs", "account", "put"} /\ readers[t] = 0
    /\ stack_refcount' = [stack_refcount EXCEPT ![t] = @ + 1]
    /\ readers' = [readers EXCEPT ![t] = @ + 1]
    /\ UNCHANGED <<pc, i, stack, cached_stacks, rcu, callback, allocated, charged, dirty>>

\* do_exit (external).
Exit(t) ==
    /\ pc[t] = "runs"
    /\ Goto(t, "account")
    /\ UNCHANGED <<i, stack, stack_refcount, cached_stacks, rcu, callback, allocated, charged,
                   dirty, readers>>

exit_task_stack_account(t) ==
    /\ pc[t] = "account"
    /\ charged' = [charged EXCEPT ![stack[t]] = 0]
    /\ Goto(t, "put")
    /\ UNCHANGED <<i, stack, stack_refcount, cached_stacks, rcu, callback, allocated, dirty,
                   readers>>

LastReference(t) == stack_refcount[t] = 1

\* put_task_stack, of the task or of a reader; with the last, release_task_stack.
Drop(t, then) ==
    /\ stack_refcount' = [stack_refcount EXCEPT ![t] = @ - 1]
    /\ Goto(t, IF LastReference(t) THEN "release" ELSE then)
    /\ i' = [i EXCEPT ![t] = 1]

\* Faulty: the task gives its stack back whoever looks at it.
put_task_stackAlways(t) ==
    /\ pc[t] = "put"
    /\ stack_refcount' = [stack_refcount EXCEPT ![t] = @ - 1]
    /\ Goto(t, "release")
    /\ i' = [i EXCEPT ![t] = 1]
    /\ UNCHANGED <<stack, cached_stacks, rcu, callback, allocated, charged, dirty, readers>>

put_task_stack(t) ==
    /\ pc[t] = "put"
    /\ Drop(t, "dead")
    /\ UNCHANGED <<stack, cached_stacks, rcu, callback, allocated, charged, dirty, readers>>

ReaderPuts(t) ==
    /\ readers[t] > 0
    /\ readers' = [readers EXCEPT ![t] = @ - 1]
    /\ Drop(t, pc[t])
    /\ UNCHANGED <<stack, cached_stacks, rcu, callback, allocated, charged, dirty>>

-----------------------------------------------------------------------------
(***************************************************************************)
(* Back to the cache.                                                      *)
(***************************************************************************)

\* this_cpu_cmpxchg succeeds.
EmptySlot(c, n) == cached_stacks[c][n] = NULL

\* try_release_thread_stack_to_cache, in free_thread_stack: one look at a slot.
ReleaseToCache(t, c) ==
    /\ pc[t] = "release" /\ i[t] \in Slots
    /\ IF EmptySlot(c, i[t])
       THEN /\ cached_stacks' = [cached_stacks EXCEPT ![c][i[t]] = stack[t]]
            /\ stack' = [stack EXCEPT ![t] = NULL]
            /\ Goto(t, "none") /\ UNCHANGED i
       ELSE i' = [i EXCEPT ![t] = @ + 1] /\ UNCHANGED <<pc, stack, cached_stacks>>
    /\ UNCHANGED <<stack_refcount, rcu, callback, allocated, charged, dirty, readers>>

\* The rcu_head lies on the stack itself.
thread_stack_delayed_free(t) ==
    /\ pc[t] = "release" /\ i[t] \notin Slots
    /\ rcu' = rcu \cup {stack[t]}
    /\ dirty' = dirty \cup {stack[t]}
    /\ stack' = [stack EXCEPT ![t] = NULL]
    /\ Goto(t, "none")
    /\ UNCHANGED <<i, stack_refcount, cached_stacks, callback, allocated, charged, readers>>

\* The grace period has passed.
thread_stack_free_rcu(s) ==
    /\ s \in rcu /\ callback = NoCallback
    /\ rcu' = rcu \ {s}
    /\ callback' = [s |-> s, i |-> 1]
    /\ UNCHANGED <<pc, i, stack, stack_refcount, cached_stacks, allocated, charged, dirty, readers>>

CallbackToCache(c) ==
    /\ callback.s # NULL /\ callback.i \in Slots
    /\ IF EmptySlot(c, callback.i)
       THEN /\ cached_stacks' = [cached_stacks EXCEPT ![c][callback.i] = callback.s]
            /\ callback' = NoCallback
       ELSE callback' = [callback EXCEPT !.i = @ + 1] /\ UNCHANGED cached_stacks
    /\ UNCHANGED <<pc, i, stack, stack_refcount, rcu, allocated, charged, dirty, readers>>

CallbackFrees ==
    /\ callback.s # NULL /\ callback.i \notin Slots
    /\ Vfree(callback.s)
    /\ callback' = NoCallback
    /\ UNCHANGED <<pc, i, stack, stack_refcount, cached_stacks, rcu, charged, readers>>

\* free_vm_stack_cache, for a CPU that has been taken down.
free_vm_stack_cache(c) ==
    LET S == {cached_stacks[c][n] : n \in Slots} \ {NULL} IN
    /\ S # {}
    /\ allocated' = allocated \ S /\ dirty' = dirty \ S
    /\ cached_stacks' = [cached_stacks EXCEPT ![c] = [n \in Slots |-> NULL]]
    /\ UNCHANGED <<pc, i, stack, stack_refcount, rcu, callback, charged, readers>>

Next ==
    \/ \E t \in Tasks :
         \/ dup_task_struct(t) \/ AllocateStack(t) \/ memcg_charge_kernel_stack(t)
         \/ scs_prepare(t) \/ FreeStack(t) \/ Run(t) \/ TryGetTaskStack(t) \/ Exit(t)
         \/ exit_task_stack_account(t) \/ put_task_stack(t) \/ ReaderPuts(t)
         \/ thread_stack_delayed_free(t)
         \/ \E c \in CPUs : TakeCached(t, c) \/ ReleaseToCache(t, c)
    \/ \E s \in Stacks : thread_stack_free_rcu(s)
    \/ \E c \in CPUs : CallbackToCache(c) \/ free_vm_stack_cache(c)
    \/ CallbackFrees

Spec == Init /\ [][Next]_vars

-----------------------------------------------------------------------------
(***************************************************************************)
(* Properties.                                                             *)
(***************************************************************************)

\* The places a stack may be.
Holders(s) ==
    {<<"task", t>> : t \in {u \in Tasks : stack[u] = s}}
    \cup {<<"cache", x>> : x \in {y \in CPUs \X Slots : cached_stacks[y[1]][y[2]] = s}}
    \cup {<<"rcu", x>> : x \in {s} \cap rcu}
    \cup {<<"callback", x>> : x \in {s} \cap {callback.s}}

\* Whatever the CPUs, the tasks moved between them and the callbacks do, a
\* stack that vmalloc gave is in exactly one place, and no other is in any:
\* none is given to two tasks, and none is lost.
OnePlace ==
    \A s \in Stacks : Cardinality(Holders(s)) = IF s \in allocated THEN 1 ELSE 0

\* A task begins with nothing of an earlier task on its stack.
StartsClean == \A t \in Tasks : pc[t] = "starts" => stack[t] \notin dirty

\* Pages are charged while, and only while, the stack belongs to a task that
\* has not exited ("memcg accounting is performed manually on
\* assigning/releasing stacks to tasks").
ChargedToTasks ==
    \A s \in Stacks :
        charged[s] = IF \E t \in Tasks : stack[t] = s
                           /\ pc[t] \in {"scs_prepare", "starts", "free_stack", "runs", "account"}
                     THEN Pages ELSE 0

\* Whoever looks at the stack of a task has it before them until they put it,
\* though the task exits.
ReaderKeepsStack == \A t \in Tasks : readers[t] > 0 => stack[t] # NULL /\ pc[t] # "release"

\* Through caches, migration, RCU callbacks and readers a stack has one owner,
\* who pays for it and finds it clean, and is not taken from under a reader.
StacksAccounted ==
    /\ OnePlace
    /\ StartsClean
    /\ ChargedToTasks
    /\ ReaderKeepsStack

=============================================================================
