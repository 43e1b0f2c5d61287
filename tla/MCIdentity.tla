----------------------------- MODULE MCIdentity -----------------------------
(***************************************************************************)
(* Identity (kernel/sys.c) for TLC: the calls that change user ids, those  *)
(* that change group ids, the priorities of tasks, the names of the        *)
(* machine, and the sizes sysinfo tells. The components share no state, so *)
(* that exploring them one at a time in one run loses nothing: at the      *)
(* start one is chosen to move, and the others stay as they are.           *)
(***************************************************************************)
EXTENDS Credentials

\* A namespace that knows its first arguments by other numbers, not the last.
Make(n) == [a \in 0 .. n |-> IF a = n THEN INVALID ELSE 100 + a]

\* The calls for users: root and two users, all known.
UidKids == {100, 101, 102}
UidArgs == 0 .. 2
UidMake == [a \in UidArgs |-> 100 + a]
UidFamilies == {"uid"}

\* A caller with CAP_SYS_NICE and one without, who owns one of two tasks.
MCOwner == [p \in {1, 2} |-> IF p = 2 THEN 10 ELSE 20]
MCEuid == [c \in {"root", "user"} |-> IF c = "root" THEN 0 ELSE 20]

Target(which, who) == [which |-> which, who |-> who]
MCTargets == {Target("process", 1), Target("pgrp", 1), Target("user", 20), Target("bad", 0)}

VARIABLE component   \* the one that moves

\* The value of the variables of the others.
Still == "still"

VARIABLES
    gid_u, gid_g, gid_permitted, gid_effective, gid_keepcaps, gid_user,
    gid_ucounts, gid_refs, gid_nproc_exceeded, gid_ret, gid_fs_explicit,
    gid_dropped
gidsVars == <<gid_u, gid_g, gid_permitted, gid_effective, gid_keepcaps, gid_user,
    gid_ucounts, gid_refs, gid_nproc_exceeded, gid_ret, gid_fs_explicit,
    gid_dropped>>
G == INSTANCE Credentials WITH
    Kids <- {100, 101, 103}, Args <- 0 .. 2, make_kid <- Make(2),
    Families <- {"gid"},
    u <- gid_u, g <- gid_g, permitted <- gid_permitted,
    effective <- gid_effective, keepcaps <- gid_keepcaps, user <- gid_user,
    ucounts <- gid_ucounts, refs <- gid_refs,
    nproc_exceeded <- gid_nproc_exceeded, ret <- gid_ret,
    fs_explicit <- gid_fs_explicit, dropped <- gid_dropped

VARIABLES
    utsname, uts_sem, uts_pc, op, len, tmp, whole, last
namesVars == <<utsname, uts_sem, uts_pc, op, len, tmp, whole, last>>
namesIdle ==
    /\ utsname = Still /\ uts_sem = Still /\ uts_pc = Still /\ op = Still
    /\ len = Still /\ tmp = Still /\ whole = Still /\ last = Still
U == INSTANCE UtsNames WITH
    Callers <- {"a", "b"}, LEN <- 2, OLD_LEN <- 1, Bytes <- {0, 1},
    pc <- uts_pc

VARIABLES
    machine, info, mem_unit, unit, mem_total, bitcount, si_pc
sysinfoVars == <<machine, info, mem_unit, unit, mem_total, bitcount, si_pc>>
sysinfoIdle ==
    /\ machine = Still /\ info = Still /\ mem_unit = Still /\ unit = Still
    /\ mem_total = Still /\ bitcount = Still /\ si_pc = Still
I == INSTANCE Sysinfo WITH
    BITS <- 5, COMPAT_BITS <- 3, PAGE_SHIFT <- 2,
    RamPages <- {1, 2, 3, 4, 6, 7, 8, 9, 15, 16, 31},
    SwapPages <- {0, 1, 2, 4, 7, 8, 16, 31},
    pc <- si_pc

VARIABLES
    alive, nice, pr_pc, call, at, visited, error, start, unchanged, ever,
    outcome, granted
priorityVars == <<alive, nice, pr_pc, call, at, visited, error, start, unchanged, ever,
    outcome, granted>>
priorityIdle ==
    /\ alive = Still /\ nice = Still /\ pr_pc = Still /\ call = Still
    /\ at = Still /\ visited = Still /\ error = Still /\ start = Still
    /\ unchanged = Still /\ ever = Still /\ outcome = Still /\ granted = Still
P == INSTANCE Priority WITH
    Tasks <- {1, 2}, Callers <- {"root", "user"}, owner <- MCOwner,
    group <- [p \in {1, 2} |-> 1], euid <- MCEuid, getters <- {"user"},
    nice_cap <- {"root"}, RLIMIT_NICE <- 0, MIN_NICE <- -1, MAX_NICE <- 0,
    Targets <- MCTargets, NiceArgs <- {-5, 7},
    pc <- pr_pc

-----------------------------------------------------------------------------
Components == {"uids", "gids", "names", "sysinfo", "priority"}
allVars == <<component, vars, gidsVars, namesVars, sysinfoVars, priorityVars>>

ASSUME InstancesAssumption ==
    /\ U!UtsNamesAssumption
    /\ I!SysinfoAssumption
    /\ P!PriorityAssumption

\* Every component is in its initial state, and one of them will move.
MCInit ==
    /\ component \in Components
    /\ Init /\ (component # "uids" => u.r = 100 /\ u.e = 100)
    /\ G!Init /\ (component # "gids" => gid_u.r = 100 /\ gid_u.e = 100)
    /\ component = "names" => U!Init
    /\ component # "names" => namesIdle
    /\ component = "sysinfo" => I!Init
    /\ component # "sysinfo" => sysinfoIdle
    /\ component = "priority" => P!Init
    /\ component # "priority" => priorityIdle

MCNext ==
    /\ UNCHANGED component
    /\ \/ component = "uids" /\ Next /\ UNCHANGED <<gidsVars, namesVars, sysinfoVars, priorityVars>>
       \/ component = "gids" /\ G!Next /\ UNCHANGED <<vars, namesVars, sysinfoVars, priorityVars>>
       \/ component = "names" /\ U!Next /\ UNCHANGED <<vars, gidsVars, sysinfoVars, priorityVars>>
       \/ component = "sysinfo" /\ I!Next /\ UNCHANGED <<vars, gidsVars, namesVars, priorityVars>>
       \/ component = "priority" /\ P!Next /\ UNCHANGED <<vars, gidsVars, namesVars, sysinfoVars>>

MCSpec == MCInit /\ [][MCNext]_allVars

-----------------------------------------------------------------------------
(***************************************************************************)
(* Properties of the instances.                                            *)
(***************************************************************************)

\* After any sequence of calls on user ids, and of those on group ids, failed
\* ones included, the ids agree with each other, with who pays for the process
\* (set_user, set_cred_ucounts), and with what it gave up.
IdsHold ==
    /\ component = "uids" => IdsAccounted
    /\ component = "gids" => G!IdsAccounted

\* setuid, setgid and their kin: a process without the capability never has an
\* id it did not have before, in whichever order it makes the calls, and one
\* that fails changes nothing.
IdsChange ==
    /\ IdsChangeByRight
    /\ G!IdsChangeByRight

\* uname tells both names as they were at one instant, gethostname and olduname
\* the beginning of a name that was set, and a shorter name leaves nothing of a
\* longer one before it.
NamesKept == component = "names" => U!NamesKept

\* "If mem_total did not overflow, multiply all memory values by info->mem_unit
\* and set it to 1": the sizes told, natively and to 32-bit programs, are those
\* of the machine wherever a sum, a doubling or a shift wraps, and in bytes
\* when these fit.
SizesTold == component = "sysinfo" => I!SizesTold

\* setpriority and getpriority answer for the tasks their walk met, though
\* these are reniced, linked and unlinked meanwhile, and no task ends below the
\* lowest value it was given by a caller with the right to it.
PriorityAnswers == component = "priority" => P!PriorityAnswers

=============================================================================
