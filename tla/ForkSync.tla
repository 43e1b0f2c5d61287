------------------------------ MODULE ForkSync ------------------------------
(***************************************************************************)
(* What happens to a process while one of its threads is in copy_process   *)
(* (kernel/fork.c).  The new task is a copy of its creator as that was     *)
(* when dup_task_struct ran, and it is seen by others only when it is      *)
(* linked; in between signals are sent to the process group, another       *)
(* thread installs seccomp filters for all of them, the oom_score_adj is   *)
(* changed, and the pid namespace is taken down.                           *)
(***************************************************************************)
EXTENDS Integers, FiniteSets

CONSTANTS
    MaxFilters     \* bound: seccomp filters installed

\* What an instance gives the constants.
ForkSyncAssumption == MaxFilters \in Nat

Threads == {"creator", "sibling", "child"}
Kinds == {"process", "shares_vm", "thread"}
Signals == {"INT", "STOP", "CONT", "KILL"}

VARIABLES
    at,            \* where the creator is in copy_process
    kind,          \* of the new task
    linked,        \* the new task is visible
    listed,        \* delayed is on the multiprocess list of the process
    delayed,       \* signals collected for the child
    pending,       \* signals pending for the process of the creator
    child_pending, \* signals pending for that of the child
    filter,        \* how many seccomp filters a thread has
    no_new_privs,
    syscall_work,  \* the thread flag that has system calls checked
    oom_score_adj, \* of the process of the creator, and of the child
    MMF_MULTIPROCESS,
    ns,            \* the child's pid namespace: "adding", "disabled", "zapped"
    inside,        \* the creator is in it as well
    \* history
    during,        \* signals sent to the group since copy_process began
    tsync          \* filters that every thread of the group was given

vars == <<at, kind, linked, listed, delayed, pending, child_pending, filter, no_new_privs,
          syscall_work, oom_score_adj, MMF_MULTIPROCESS, ns, inside, during, tsync>>

signals == <<listed, delayed, pending, child_pending, during>>
seccomp == <<filter, no_new_privs, syscall_work, tsync>>
oom == <<oom_score_adj, MMF_MULTIPROCESS>>

Init ==
    /\ at = "user" /\ kind \in Kinds /\ linked = FALSE
    /\ listed = FALSE /\ delayed = {} /\ pending = {} /\ child_pending = {} /\ during = {}
    /\ filter = [t \in Threads |-> 0] /\ tsync = 0
    /\ no_new_privs = [t \in Threads |-> FALSE]
    /\ syscall_work = [t \in Threads |-> FALSE]
    /\ oom_score_adj = [p \in {"creator", "child"} |-> 0] /\ MMF_MULTIPROCESS = FALSE
    /\ ns = "adding" /\ inside \in BOOLEAN

-----------------------------------------------------------------------------
(***************************************************************************)
(* copy_process.                                                           *)
(***************************************************************************)

\* Under siglock: from here on signals to the group are also collected for
\* the child; and one that is pending is to be handled first.
Begin ==
    /\ at = "user" /\ ~linked
    /\ IF pending # {}
       THEN UNCHANGED <<at, listed, delayed, during>>
       ELSE at' = "dup" /\ listed' = (kind # "thread") /\ delayed' = {} /\ during' = {}
    /\ UNCHANGED <<kind, linked, pending, child_pending, inside, ns>>
    /\ UNCHANGED seccomp /\ UNCHANGED oom

\* dup_task_struct: the flags as they are now, and no filter.
dup_task_struct ==
    /\ at = "dup" /\ at' = "copy_signal"
    /\ no_new_privs' = [no_new_privs EXCEPT !["child"] = no_new_privs["creator"]]
    /\ syscall_work' = [syscall_work EXCEPT !["child"] = syscall_work["creator"]]
    /\ filter' = [filter EXCEPT !["child"] = 0]
    /\ UNCHANGED <<kind, linked, inside, ns, tsync>>
    /\ UNCHANGED signals /\ UNCHANGED oom

copy_signal ==
    /\ at = "copy_signal" /\ at' = "link"
    /\ oom_score_adj' = [oom_score_adj EXCEPT !["child"] = oom_score_adj["creator"]]
    /\ UNCHANGED <<kind, linked, inside, ns, MMF_MULTIPROCESS>>
    /\ UNCHANGED signals /\ UNCHANGED seccomp

\* Faulty: the filter the creator had when it was copied.
copy_seccompEarly ==
    UNCHANGED <<filter, no_new_privs, syscall_work>>

\* Under siglock, which the threads of the group share.
copy_seccomp ==
    /\ filter' = [filter EXCEPT !["child"] = filter["creator"]]
    /\ no_new_privs' = [no_new_privs EXCEPT !["child"] = @ \/ no_new_privs["creator"]]
    /\ syscall_work' = [syscall_work EXCEPT !["child"] = @ \/ filter["creator"] > 0]

SharedPending == delayed

DyingNamespace == ns # "adding"

\* Under tasklist_lock and siglock.
Fails == DyingNamespace \/ "KILL" \in pending

Cancel ==
    /\ at = "link" /\ Fails
    /\ at' = "user" /\ listed' = FALSE
    /\ UNCHANGED <<kind, linked, delayed, pending, child_pending, during, inside, ns>>
    /\ UNCHANGED seccomp /\ UNCHANGED oom

Link ==
    /\ at = "link" /\ ~Fails
    /\ copy_seccomp
    /\ linked' = TRUE /\ listed' = FALSE
    /\ child_pending' = IF kind = "thread" THEN {} ELSE SharedPending
    /\ at' = "copy_oom_score_adj"
    /\ UNCHANGED <<kind, delayed, pending, during, inside, ns, tsync>>
    /\ UNCHANGED oom

\* For a new process that shares the address space; under oom_adj_mutex.
copy_oom_score_adj ==
    /\ at = "copy_oom_score_adj" /\ at' = "done"
    /\ IF kind = "shares_vm"
       THEN /\ MMF_MULTIPROCESS' = TRUE
            /\ oom_score_adj' = [oom_score_adj EXCEPT !["child"] = oom_score_adj["creator"]]
       ELSE UNCHANGED oom
    /\ UNCHANGED <<kind, linked, inside, ns>>
    /\ UNCHANGED signals /\ UNCHANGED seccomp

-----------------------------------------------------------------------------
(***************************************************************************)
(* Others (external).                                                      *)
(***************************************************************************)

\* A stop signal and SIGCONT cancel each other.
Add(S, sig) ==
    (S \ (CASE sig = "CONT" -> {"STOP"} [] sig = "STOP" -> {"CONT"} [] OTHER -> {})) \cup {sig}

\* kill of the process group: every process in it, under tasklist_lock.
KillGroup(sig) ==
    /\ pending' = Add(pending, sig)
    /\ delayed' = IF listed THEN Add(delayed, sig) ELSE delayed
    /\ child_pending' = IF linked /\ kind # "thread" THEN Add(child_pending, sig) ELSE child_pending
    /\ during' = IF listed \/ linked THEN Add(during, sig) ELSE during
    /\ UNCHANGED <<at, kind, linked, listed, inside, ns>>
    /\ UNCHANGED seccomp /\ UNCHANGED oom

\* The signals of the process are delivered on its way to user space.
Deliver ==
    /\ at = "user" /\ pending # {} /\ "KILL" \notin pending
    /\ pending' = {}
    /\ UNCHANGED <<at, kind, linked, listed, delayed, child_pending, during, inside, ns>>
    /\ UNCHANGED seccomp /\ UNCHANGED oom

\* seccomp with SECCOMP_FILTER_FLAG_TSYNC, by a thread with no_new_privs set:
\* every thread of the group gets the filters, the flag and the privilege bit,
\* under siglock.
InstallFilters ==
    LET group == {"creator", "sibling"} \cup IF linked /\ kind = "thread" THEN {"child"} ELSE {} IN
    /\ tsync < MaxFilters
    /\ tsync' = tsync + 1
    /\ filter' = [t \in Threads |-> IF t \in group THEN tsync + 1 ELSE filter[t]]
    /\ no_new_privs' = [t \in Threads |-> no_new_privs[t] \/ t \in group]
    /\ syscall_work' = [t \in Threads |-> syscall_work[t] \/ t \in group]
    /\ UNCHANGED <<at, kind, linked, inside, ns>>
    /\ UNCHANGED signals /\ UNCHANGED oom

\* A write to oom_score_adj, under oom_adj_mutex: of the process, and if
\* MMF_MULTIPROCESS is set of every process with its mm.
SetOomAdj(p, v) ==
    /\ p = "child" => linked /\ kind = "shares_vm"
    /\ oom_score_adj' = [q \in {"creator", "child"} |->
         IF q = p \/ (MMF_MULTIPROCESS /\ linked) THEN v ELSE oom_score_adj[q]]
    /\ UNCHANGED <<at, kind, linked, inside, ns, MMF_MULTIPROCESS>>
    /\ UNCHANGED signals /\ UNCHANGED seccomp

\* zap_pid_ns_processes: no more processes; then all of them are killed.
DisableNamespace ==
    /\ ns = "adding" /\ ns' = "disabled"
    /\ UNCHANGED <<at, kind, linked, inside>>
    /\ UNCHANGED signals /\ UNCHANGED seccomp /\ UNCHANGED oom

ZapNamespace ==
    /\ ns = "disabled" /\ ns' = "zapped"
    /\ pending' = IF inside THEN Add(pending, "KILL") ELSE pending
    /\ child_pending' = IF linked THEN Add(child_pending, "KILL") ELSE child_pending
    /\ UNCHANGED <<at, kind, linked, inside, listed, delayed, during>>
    /\ UNCHANGED seccomp /\ UNCHANGED oom

Next ==
    \/ Begin \/ dup_task_struct \/ copy_signal \/ Cancel \/ Link \/ copy_oom_score_adj
    \/ \E sig \in Signals : KillGroup(sig)
    \/ Deliver \/ InstallFilters
    \/ \E p \in {"creator", "child"}, v \in 0 .. 1 : SetOomAdj(p, v)
    \/ DisableNamespace \/ ZapNamespace

Spec == Init /\ [][Next]_vars

-----------------------------------------------------------------------------
(***************************************************************************)
(* Properties.                                                             *)
(***************************************************************************)

\* No signal to the process group misses the child: each that was sent since
\* the fork began, and was not cancelled by a later one, is pending for it.
NoSignalEscapes == (linked /\ kind # "thread") => during \subseteq child_pending

\* "The seccomp state and nnp must be in sync": a thread with a filter has no
\* new privileges, and its system calls are checked.
FilterEnforced ==
    \A t \in Threads : (t # "child" \/ linked) =>
        (filter[t] > 0 => no_new_privs[t] /\ syscall_work[t])

\* A filter installed for all the threads of the group is one of each, those
\* that were being created included.
FilterReachesAll ==
    \A t \in Threads : (t # "child" \/ (linked /\ kind = "thread")) => filter[t] >= tsync

\* Processes that share an address space have the same oom_score_adj.
OomScoreShared ==
    (at = "done" /\ kind = "shares_vm") => oom_score_adj["creator"] = oom_score_adj["child"]

\* When a pid namespace has been taken down everyone in it has been killed.
NobodySurvives ==
    ns = "zapped" => /\ inside => "KILL" \in pending
                     /\ linked => "KILL" \in child_pending

\* Nothing that comes to the creator or its group between the copy of the task
\* and its linking misses the child.
ForkMissesNothing ==
    /\ NoSignalEscapes
    /\ FilterEnforced
    /\ FilterReachesAll
    /\ OomScoreShared
    /\ NobodySurvives

=============================================================================
