------------------------------ MODULE Priority ------------------------------
(***************************************************************************)
(* setpriority and getpriority (kernel/sys.c).  A call visits the tasks    *)
(* that it names one by one: a process, a group under tasklist_lock, or a  *)
(* user's tasks with only RCU to keep them in memory.  Between two tasks,  *)
(* and between the test of a task's nice value and its change, others run. *)
(***************************************************************************)
EXTENDS Integers, FiniteSets

CONSTANTS
    Tasks, Callers,
    owner,        \* the uid of each task
    group,        \* the process group of each task
    euid,         \* of each caller
    getters,      \* the callers that call getpriority too
    nice_cap,     \* the callers with CAP_SYS_NICE
    RLIMIT_NICE,  \* of every task
    MIN_NICE, MAX_NICE,
    Targets,      \* what calls name: [which, who]
    NiceArgs      \* what callers ask for

\* What an instance gives the constants.
PriorityAssumption ==
    /\ MIN_NICE \in Int /\ MAX_NICE \in Int /\ MIN_NICE <= 0 /\ 0 <= MAX_NICE
    /\ 0 \notin Tasks /\ NiceArgs \subseteq Int /\ RLIMIT_NICE \in Nat /\ nice_cap \subseteq Callers

EPERM == -1
ESRCH == -3
EACCES == -13
EINVAL == -22
NoTask == 0

VARIABLES
    alive,        \* the tasks there are
    nice,
    pc,           \* of a caller: "idle", "walk", "set" (a task passed the tests), "done"
    call,         \* [op, which, who, niceval]
    at,           \* the task between its tests and its change
    visited,
    error,        \* error or retval
    \* history
    start,        \* the tasks named and alive since the call began
    unchanged,    \* of those, the ones whose nice value stayed the same
    ever,         \* every value, as getpriority answers it, of a named task in this call
    outcome,      \* of setpriority: whether some task was changed, and some refused
    granted       \* the lowest nice value each task was given by who may lower it

vars == <<alive, nice, pc, call, at, visited, error, start, unchanged, ever, outcome, granted>>

Nices == MIN_NICE .. MAX_NICE
nice_to_rlimit(n) == MAX_NICE - n + 1
NoCall == [op |-> "none", which |-> "none", who |-> 0, niceval |-> 0]

TypeOK ==
    /\ alive \subseteq Tasks
    /\ nice \in [Tasks -> Nices] /\ granted \in [Tasks -> Nices]
    /\ pc \in [Callers -> {"idle", "walk", "set", "done"}]
    /\ at \in [Callers -> Tasks \cup {NoTask}]
    /\ visited \in [Callers -> SUBSET Tasks]
    /\ start \in [Callers -> SUBSET Tasks] /\ unchanged \in [Callers -> SUBSET Tasks]
    /\ ever \in [Callers -> SUBSET (1 .. MAX_NICE - MIN_NICE + 1)]
    /\ error \in [Callers -> {EPERM, ESRCH, EACCES, EINVAL, 0} \cup 1 .. MAX_NICE - MIN_NICE + 1]

Init ==
    /\ alive \in SUBSET Tasks
    /\ nice = [p \in Tasks |-> 0] /\ granted = nice
    /\ pc = [c \in Callers |-> "idle"]
    /\ call = [c \in Callers |-> NoCall]
    /\ at = [c \in Callers |-> NoTask]
    /\ visited = [c \in Callers |-> {}]
    /\ error = [c \in Callers |-> 0]
    /\ start = visited /\ unchanged = visited /\ ever = visited
    /\ outcome = [c \in Callers |-> [changed |-> FALSE, refused |-> FALSE]]

-----------------------------------------------------------------------------
Clamp(n) == IF n < MIN_NICE THEN MIN_NICE ELSE IF n > MAX_NICE THEN MAX_NICE ELSE n

\* Whether a call names a task.
Named(q, p) == CASE q.which = "process" -> p = q.who
                 [] q.which = "pgrp" -> group[p] = q.who
                 [] q.which = "user" -> owner[p] = q.who
                 [] OTHER -> FALSE

Values(q, A) == {nice_to_rlimit(nice[p]) : p \in {r \in A : Named(q, r)}}

\* A getpriority of c is under way that names p.
Getting(c, p) == pc[c] = "walk" /\ call[c].op = "get" /\ Named(call[c], p)

Begin(c, op, which, who, n) ==
    LET q == [op |-> op, which |-> which, who |-> who, niceval |-> Clamp(n)]
        named == {p \in alive : Named(q, p)}
    IN
    /\ pc[c] = "idle"
    /\ call' = [call EXCEPT ![c] = q]
    /\ visited' = [visited EXCEPT ![c] = {}]
    /\ IF which = "bad"
       THEN pc' = [pc EXCEPT ![c] = "done"] /\ error' = [error EXCEPT ![c] = EINVAL]
       ELSE pc' = [pc EXCEPT ![c] = "walk"] /\ error' = [error EXCEPT ![c] = ESRCH]
    /\ start' = [start EXCEPT ![c] = named]
    /\ unchanged' = [unchanged EXCEPT ![c] = IF op = "get" THEN named ELSE {}]
    /\ ever' = [ever EXCEPT ![c] = IF op = "get" THEN Values(q, alive) ELSE {}]
    /\ outcome' = [outcome EXCEPT ![c] = [changed |-> FALSE, refused |-> FALSE]]
    /\ UNCHANGED <<alive, nice, at, granted>>

\* The tasks the walk can come to now; it ends when it has come to all that
\* were there all the time.
Reachable(c) == {p \in alive \ visited[c] : Named(call[c], p)}

set_one_prio_perm(c, p) == owner[p] = euid[c] \/ c \in nice_cap

can_nice(c, n) == nice_to_rlimit(n) <= RLIMIT_NICE \/ c \in nice_cap

\* The tests of set_one_prio: the error, or 0.
Refusal(c, p) ==
    IF ~set_one_prio_perm(c, p) THEN EPERM
    ELSE IF call[c].niceval < nice[p] /\ ~can_nice(c, call[c].niceval) THEN EACCES ELSE 0

\* Faulty: a success hides an earlier refusal.
AfterSuccessAlways(e) == IF e \in Int THEN 0 ELSE e

AfterSuccess(e) == IF e = ESRCH THEN 0 ELSE e

\* set_one_prio up to the change; security_task_setnice may refuse too.
TestOne(c, p) ==
    /\ pc[c] = "walk" /\ call[c].op = "set" /\ p \in Reachable(c)
    /\ visited' = [visited EXCEPT ![c] = @ \cup {p}]
    /\ \/ /\ \E v \in {Refusal(c, p), EPERM} \ {0} : error' = [error EXCEPT ![c] = v]
          /\ outcome' = [outcome EXCEPT ![c].refused = TRUE]
          /\ UNCHANGED <<pc, at>>
       \/ /\ Refusal(c, p) = 0
          /\ error' = [error EXCEPT ![c] = AfterSuccess(@)]
          /\ pc' = [pc EXCEPT ![c] = "set"]
          /\ at' = [at EXCEPT ![c] = p]
          /\ UNCHANGED outcome
    /\ UNCHANGED <<alive, nice, call, start, unchanged, ever, granted>>

\* set_user_nice
SetOne(c) ==
    LET p == at[c]  n == call[c].niceval IN
    /\ pc[c] = "set"
    /\ nice' = [nice EXCEPT ![p] = n]
    /\ granted' = IF can_nice(c, n) /\ n < granted[p] THEN [granted EXCEPT ![p] = n] ELSE granted
    /\ unchanged' = [d \in Callers |-> IF nice[p] # n THEN unchanged[d] \ {p} ELSE unchanged[d]]
    /\ ever' = [d \in Callers |-> IF Getting(d, p) /\ p \in alive
                                   THEN ever[d] \cup {nice_to_rlimit(n)} ELSE ever[d]]
    /\ outcome' = [outcome EXCEPT ![c].changed = TRUE]
    /\ pc' = [pc EXCEPT ![c] = "walk"]
    /\ at' = [at EXCEPT ![c] = NoTask]
    /\ UNCHANGED <<alive, call, visited, error, start>>

\* niceval > retval
Better(old, new) == IF new > old THEN new ELSE old

GetOne(c, p) ==
    /\ pc[c] = "walk" /\ call[c].op = "get" /\ p \in Reachable(c)
    /\ visited' = [visited EXCEPT ![c] = @ \cup {p}]
    /\ error' = [error EXCEPT ![c] = Better(@, nice_to_rlimit(nice[p]))]
    /\ UNCHANGED <<alive, nice, pc, call, at, start, unchanged, ever, outcome, granted>>

Finish(c) ==
    /\ pc[c] = "walk" /\ start[c] \subseteq visited[c]
    /\ pc' = [pc EXCEPT ![c] = "done"]
    /\ start' = [start EXCEPT ![c] = {}]
    /\ UNCHANGED <<alive, nice, call, at, visited, error, unchanged, ever, outcome, granted>>

Return(c) ==
    /\ pc[c] = "done"
    /\ pc' = [pc EXCEPT ![c] = "idle"]
    /\ call' = [call EXCEPT ![c] = NoCall]
    /\ visited' = [visited EXCEPT ![c] = {}]
    /\ unchanged' = [unchanged EXCEPT ![c] = {}] /\ ever' = [ever EXCEPT ![c] = {}]
    /\ error' = [error EXCEPT ![c] = 0]
    /\ outcome' = [outcome EXCEPT ![c] = [changed |-> FALSE, refused |-> FALSE]]
    /\ UNCHANGED <<alive, nice, at, start, granted>>

\* tasklist_lock is held for reading by a walk through a group: no task is
\* linked or unlinked meanwhile.
Unlocked == \A c \in Callers : ~(pc[c] \in {"walk", "set"} /\ call[c].which = "pgrp")

\* copy_process and release_task (external); a child inherits the nice value.
Spawn(p, q) ==
    /\ Unlocked /\ p \in alive /\ q \in Tasks \ alive
    /\ \A c \in Callers : at[c] # q
    /\ alive' = alive \cup {q}
    /\ nice' = [nice EXCEPT ![q] = nice[p]]
    /\ granted' = [granted EXCEPT ![q] = granted[p]]
    /\ ever' = [c \in Callers |-> IF Getting(c, q)
                                   THEN ever[c] \cup {nice_to_rlimit(nice[p])} ELSE ever[c]]
    /\ visited' = [c \in Callers |-> visited[c] \ {q}]
    /\ UNCHANGED <<pc, call, at, error, start, unchanged, outcome>>

Exit(p) ==
    /\ Unlocked /\ p \in alive
    /\ alive' = alive \ {p}
    /\ start' = [c \in Callers |-> start[c] \ {p}]
    /\ unchanged' = [c \in Callers |-> unchanged[c] \ {p}]
    /\ UNCHANGED <<nice, pc, call, at, visited, error, ever, outcome, granted>>

Next ==
    \/ \E c \in Callers :
         \/ \E q \in Targets :
              \/ \E n \in NiceArgs : Begin(c, "set", q.which, q.who, n)
              \/ c \in getters /\ Begin(c, "get", q.which, q.who, 0)
         \/ \E p \in Tasks : TestOne(c, p) \/ GetOne(c, p)
         \/ SetOne(c) \/ Finish(c) \/ Return(c)
    \/ \E p \in Tasks : Exit(p) \/ \E q \in Tasks : Spawn(p, q)

Spec == Init /\ [][Next]_vars

-----------------------------------------------------------------------------
(***************************************************************************)
(* Properties.                                                             *)
(***************************************************************************)

\* The answer of setpriority: 0 only if some task was changed and none
\* refused, -ESRCH only if the call came to no task, or else the error of a
\* task that refused.
OutcomeReported ==
    \A c \in Callers : (pc[c] = "done" /\ call[c].op = "set" /\ call[c].which # "bad") =>
        LET o == outcome[c] IN
        /\ o.refused => error[c] \in {EPERM, EACCES}
        /\ o.changed => error[c] # ESRCH
        /\ error[c] = ESRCH => visited[c] = {}

\* The answer of getpriority: the value that some task named had at some
\* moment of the call, and no less than that of any task that was there, the
\* same, all the time; -ESRCH only if there was none such.
GetTellsBest ==
    \A c \in Callers : (pc[c] = "done" /\ call[c].op = "get" /\ call[c].which # "bad") =>
        /\ error[c] \in ever[c] \cup {ESRCH}
        /\ \A p \in unchanged[c] : error[c] >= nice_to_rlimit(nice[p])

\* set_one_prio: whoever else changes the task between the test and the
\* change, no task ends below the lowest value it was given, itself or in an
\* ancestor, by a caller with CAP_SYS_NICE or RLIMIT_NICE for it.
LoweredOnlyByRight == \A p \in Tasks : nice[p] >= granted[p]

\* Walks over tasks that others renice, link and unlink meanwhile answer for
\* what they met, and give nobody more than their rights.
PriorityAnswers == OutcomeReported /\ GetTellsBest /\ LoweredOnlyByRight

=============================================================================
