---------------------------- MODULE ProcessGroups ----------------------------
(***************************************************************************)
(* Process groups and sessions (kernel/sys.c: setpgid, setsid, getpgid,    *)
(* getsid).  setpgid and setsid hold tasklist_lock for writing from the    *)
(* first look at a task to the last change, so each is one step.  Tasks    *)
(* are known by number; fork, thread creation, exec, exit and wait are the *)
(* environment, and a number is given out again only when no task, group   *)
(* or session has it (the struct pid is gone).                             *)
(***************************************************************************)
EXTENDS Integers

CONSTANTS
    Pids,         \* numbers of tasks
    init          \* the first process

ASSUME ProcessGroupsAssumption == init \in Pids /\ Pids \cap {0, -1} = {}

EPERM == -1
ESRCH == -3
EACCES == -13
EINVAL == -22

VARIABLES
    task,         \* "none", "live", or "zombie" until it is waited for
    tgid,         \* the group leader of a task: itself, but for a thread
    real_parent,  \* of a process: the process
    pgrp, session,\* of a process, shared by its threads
    leader,       \* signal->leader: it called setsid
    noexec,       \* PF_FORKNOEXEC: it has not called exec
    ret           \* the last call's answer

vars == <<task, tgid, real_parent, pgrp, session, leader, noexec, ret>>

Exists(p) == task[p] # "none"
Tasks == {p \in Pids : Exists(p)}
Process(p) == Exists(p) /\ tgid[p] = p
Processes == {p \in Pids : Process(p)}

TypeOK ==
    /\ task \in [Pids -> {"none", "live", "zombie"}]
    /\ tgid \in [Pids -> Pids]
    /\ real_parent \in [Pids -> Pids]
    /\ pgrp \in [Pids -> Pids \cup {0}]
    /\ session \in [Pids -> Pids \cup {0}]
    /\ leader \in [Pids -> BOOLEAN]
    /\ noexec \in [Pids -> BOOLEAN]
    /\ ret \in {EPERM, ESRCH, EACCES, EINVAL, 0} \cup Pids
    /\ \A t \in Pids : Exists(t) => Process(tgid[t])

Init ==
    /\ task = [p \in Pids |-> IF p = init THEN "live" ELSE "none"]
    /\ tgid = [p \in Pids |-> p]
    /\ real_parent = [p \in Pids |-> init]
    /\ pgrp = [p \in Pids |-> 0] /\ session = [p \in Pids |-> 0]
    /\ leader = [p \in Pids |-> FALSE]
    /\ noexec = [p \in Pids |-> FALSE]
    /\ ret = 0

-----------------------------------------------------------------------------
\* pid_task(pid, PIDTYPE_PGID): the processes of a group.
Group(n) == {p \in Processes : pgrp[p] = n}

Return(v) == ret' = v /\ UNCHANGED <<task, tgid, real_parent, pgrp, session, leader, noexec>>

\* Whether p is the caller's to move: a child in its session that has not
\* called exec, or itself.  0, or the error.
MayMove(gl, p) ==
    IF real_parent[p] = gl
    THEN IF session[p] # session[gl] THEN EPERM ELSE IF ~noexec[p] THEN EACCES ELSE 0
    ELSE IF p # gl THEN ESRCH ELSE 0

\* Faulty: no look at the session of the group to join.
GroupOKAny(gl, p, n) == n = p \/ Group(n) # {}

\* The group is p's own, or one of the caller's session.
GroupOK(gl, p, n) == n = p \/ \E q \in Group(n) : session[q] = session[gl]

LeaderStays(p) == ~leader[p]

\* What programs may ask for, -1 standing for the negative numbers.
PidArgs == Pids \cup {0, -1}

\* The answer to setpgid(pid, pgid) of a task of process gl.
Verdict(gl, pid, pgid) ==
    LET p == IF pid = 0 THEN gl ELSE pid
        n == IF pgid = 0 THEN p ELSE pgid
    IN
    IF n = -1 THEN EINVAL
    ELSE IF p \notin Tasks THEN ESRCH
    ELSE IF tgid[p] # p THEN EINVAL
    ELSE IF MayMove(gl, p) # 0 THEN MayMove(gl, p)
    ELSE IF LeaderStays(p) /\ GroupOK(gl, p, n) THEN 0 ELSE EPERM

\* Task t calls setpgid.  What is turned down changes nothing, so that one step
\* for each answer does; security_task_setpgid may always give -EPERM.
sys_setpgid(t) ==
    LET gl == tgid[t] IN
    /\ task[t] = "live"
    /\ \/ \E e \in {Verdict(gl, a, b) : a \in PidArgs, b \in PidArgs} \cup {EPERM} :
            e # 0 /\ Return(e)
       \/ \E p \in Processes, n \in Pids :
            /\ Verdict(gl, p, n) = 0
            /\ pgrp' = [pgrp EXCEPT ![p] = n]
            /\ ret' = 0
            /\ UNCHANGED <<task, tgid, real_parent, session, leader, noexec>>

MaySetsid(gl) == ~leader[gl] /\ Group(gl) = {}

set_special_pids(gl) ==
    /\ session' = [session EXCEPT ![gl] = gl]
    /\ pgrp' = [pgrp EXCEPT ![gl] = gl]

ksys_setsid(t) ==
    LET gl == tgid[t] IN
    /\ task[t] = "live"
    /\ \/ ~MaySetsid(gl) /\ Return(EPERM)
       \/ /\ MaySetsid(gl)
          /\ leader' = [leader EXCEPT ![gl] = TRUE]
          /\ set_special_pids(gl)
          /\ ret' = gl
          /\ UNCHANGED <<task, tgid, real_parent, noexec>>

\* getpgid and getsid, by the same rules: the process of a task, 0 being the
\* caller, or no such task; and the answer may be refused to a caller that
\* names a task.
Ask(t, of) ==
    /\ task[t] = "live"
    /\ \E v \in {of[tgid[p]] : p \in Tasks} \cup {ESRCH, EPERM} : Return(v)

do_getpgid(t) == Ask(t, pgrp)
sys_getsid(t) == Ask(t, session)

-----------------------------------------------------------------------------
(***************************************************************************)
(* The environment.                                                        *)
(***************************************************************************)

\* alloc_pid: a number nothing is called by.
Free(n) == ~Exists(n) /\ \A p \in Processes : pgrp[p] # n /\ session[p] # n

\* copy_process: the child is in its parent's group and session.
Fork(t, n) ==
    /\ task[t] = "live" /\ Free(n)
    /\ task' = [task EXCEPT ![n] = "live"]
    /\ tgid' = [tgid EXCEPT ![n] = n]
    /\ real_parent' = [real_parent EXCEPT ![n] = tgid[t]]
    /\ pgrp' = [pgrp EXCEPT ![n] = pgrp[tgid[t]]]
    /\ session' = [session EXCEPT ![n] = session[tgid[t]]]
    /\ leader' = [leader EXCEPT ![n] = FALSE]
    /\ noexec' = [noexec EXCEPT ![n] = TRUE]
    /\ UNCHANGED ret

Thread(t, n) ==
    /\ task[t] = "live" /\ Free(n)
    /\ task' = [task EXCEPT ![n] = "live"]
    /\ tgid' = [tgid EXCEPT ![n] = tgid[t]]
    /\ UNCHANGED <<real_parent, pgrp, session, leader, noexec, ret>>

\* The tasks of t's process but its leader are gone.
Others(t) == {q \in Pids : tgid[q] = tgid[t] /\ q # tgid[t]}

Exec(t) ==
    /\ task[t] = "live"
    /\ task' = [q \in Pids |-> IF q \in Others(t) THEN "none" ELSE IF q = tgid[t] THEN "live" ELSE task[q]]
    /\ tgid' = [q \in Pids |-> IF q \in Others(t) THEN q ELSE tgid[q]]
    /\ noexec' = [noexec EXCEPT ![tgid[t]] = FALSE]
    /\ UNCHANGED <<real_parent, pgrp, session, leader, ret>>

\* exit_group; the children go to init.
Exit(t) ==
    /\ task[t] = "live" /\ tgid[t] # init
    /\ task' = [q \in Pids |-> IF q \in Others(t) THEN "none" ELSE IF q = tgid[t] THEN "zombie" ELSE task[q]]
    /\ tgid' = [q \in Pids |-> IF q \in Others(t) THEN q ELSE tgid[q]]
    /\ real_parent' = [q \in Pids |-> IF real_parent[q] = tgid[t] THEN init ELSE real_parent[q]]
    /\ UNCHANGED <<pgrp, session, leader, noexec, ret>>

\* release_task
Wait(p) ==
    /\ task[p] = "zombie"
    /\ task' = [task EXCEPT ![p] = "none"]
    /\ pgrp' = [pgrp EXCEPT ![p] = 0] /\ session' = [session EXCEPT ![p] = 0]
    /\ leader' = [leader EXCEPT ![p] = FALSE] /\ noexec' = [noexec EXCEPT ![p] = FALSE]
    /\ real_parent' = [real_parent EXCEPT ![p] = init]
    /\ UNCHANGED <<tgid, ret>>

Next == \E t \in Pids :
    \/ ksys_setsid(t) \/ sys_setpgid(t) \/ do_getpgid(t) \/ sys_getsid(t)
    \/ \E n \in Pids : Fork(t, n) \/ Thread(t, n)
    \/ Exec(t) \/ Exit(t) \/ Wait(t)

Spec == Init /\ [][Next]_vars

-----------------------------------------------------------------------------
(***************************************************************************)
(* Properties.                                                             *)
(***************************************************************************)

\* A process group lies in one session, and its leader, while there is one,
\* in the same: setpgid to a process's own number asks for no session, and
\* relies on it.
GroupInOneSession ==
    \A p \in Processes, q \in Processes :
        (pgrp[p] = pgrp[q] \/ pgrp[p] = q) => session[p] = session[q]

\* setsid's signal->leader: a session leader is for good in the group and the
\* session of its own number, and a session's number is its leader's, or
\* that of no process any more.
SessionHasItsLeader ==
    \A p \in Processes :
        /\ leader[p] => pgrp[p] = p /\ session[p] = p
        /\ (session[p] \in Processes) => leader[session[p]]

\* Groups nest in sessions, and sessions have the leader they are named for,
\* through reuse of numbers and death of leaders.
SessionsNest == GroupInOneSession /\ SessionHasItsLeader

=============================================================================
