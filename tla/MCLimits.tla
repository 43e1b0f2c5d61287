------------------------------ MODULE MCLimits ------------------------------
(***************************************************************************)
(* Limits and the memory descriptor (kernel/sys.c, kernel/fork.c) for TLC: *)
(* prlimit and its kin, prctl on the boundaries of an address space, on    *)
(* its auxiliary vector and flags, and on its executable file. The         *)
(* components share no state, so that exploring them one at a time in one  *)
(* run loses nothing: at the start one is chosen to move, and the others   *)
(* stay as they are.                                                       *)
(***************************************************************************)
EXTENDS Rlimits

L(x, y) == [cur |-> x, max |-> y]

\* Infinity; a limit above what 32 bits hold; a low one; one out of order.
MCNewLimits == {L(3, 3), L(1, 2), L(2, 1)}
MCNewLimits32 == {L(0, 1)}

\* Two valid maps with different boundaries, and one with code out of order.
B(x, y) == [lo |-> x, hi |-> y]
MCPairs == {"code", "brk", "arg"}
MCMaps == {[p \in MCPairs |-> B(1, 2)], [p \in MCPairs |-> B(1, 3)],
           [p \in MCPairs |-> IF p = "code" THEN B(2, 2) ELSE B(1, 2)]}

VARIABLE component   \* the one that moves

\* The value of the variables of the others.
Still == "still"

VARIABLES
    mm, saved_auxv, mdwe, readers, arg_lock, mm_pc, mm_call, prctl_map, todo,
    serial
mapVars == <<mm, saved_auxv, mdwe, readers, arg_lock, mm_pc, mm_call, prctl_map, todo,
    serial>>
mapIdle ==
    /\ mm = Still /\ saved_auxv = Still /\ mdwe = Still /\ readers = Still
    /\ arg_lock = Still /\ mm_pc = Still /\ mm_call = Still
    /\ prctl_map = Still /\ todo = Still /\ serial = Still
M == INSTANCE MmMap WITH
    Ops <- {"map", "one"}, Callers <- {"a", "b"}, Pairs <- MCPairs,
    mmap_min_addr <- 1, TASK_SIZE <- 4, RLIMIT_DATA <- 2, Maps <- MCMaps,
    Addrs <- {1, 2, 3}, AUXV_SIZE <- 2,
    pc <- mm_pc, call <- mm_call

A == INSTANCE MmMap WITH
    Ops <- {"map", "auxv", "mdwe"}, Callers <- {"a", "b"}, Pairs <- MCPairs,
    mmap_min_addr <- 1, TASK_SIZE <- 4, RLIMIT_DATA <- 2, Maps <- MCMaps,
    Addrs <- {1, 2, 3, 4}, AUXV_SIZE <- 4,
    pc <- mm_pc, call <- mm_call

VARIABLES
    exe_file, mapped, f_count, i_writecount, writers, exe_pc, new, old, alive
exeVars == <<exe_file, mapped, f_count, i_writecount, writers, exe_pc, new, old, alive>>
exeIdle ==
    /\ exe_file = Still /\ mapped = Still /\ f_count = Still
    /\ i_writecount = Still /\ writers = Still /\ exe_pc = Still
    /\ new = Still /\ old = Still /\ alive = Still
E == INSTANCE ExeFile WITH
    Threads <- {"t1", "t2"}, Readers <- {"r1"}, Files <- {"f1", "f2"},
    First <- "f1", NULL <- "NULL",
    pc <- exe_pc

-----------------------------------------------------------------------------
Components == {"rlimits", "map", "auxv", "exe"}
allVars == <<component, vars, mapVars, exeVars>>

ASSUME InstancesAssumption ==
    /\ M!MmMapAssumption
    /\ A!MmMapAssumption
    /\ E!ExeFileAssumption

\* Every component is in its initial state, and one of them will move.
MCInit ==
    /\ component \in Components
    /\ Init
    /\ component = "map" => M!Init
    /\ component = "auxv" => A!Init
    /\ component \notin {"map", "auxv"} => mapIdle
    /\ component = "exe" => E!Init
    /\ component # "exe" => exeIdle

MCNext ==
    /\ UNCHANGED component
    /\ \/ component = "rlimits" /\ Next /\ UNCHANGED <<mapVars, exeVars>>
       \/ component = "map" /\ M!Next /\ UNCHANGED <<vars, exeVars>>
       \/ component = "auxv" /\ A!Next /\ UNCHANGED <<vars, exeVars>>
       \/ component = "exe" /\ E!Next /\ UNCHANGED <<vars, mapVars>>

MCSpec == MCInit /\ [][MCNext]_allVars

-----------------------------------------------------------------------------
(***************************************************************************)
(* Properties of the instances.                                            *)
(***************************************************************************)

\* "arg_lock protects concurrent updates but we still need mmap_lock for read
\* to exclude races with sys_brk" (prctl_set_mm): whole maps, single boundaries
\* and brk leave what they would if each had been alone, with the pairs of
\* boundaries in order. The same holds of the auxiliary vector, whose last
\* entry stays AT_NULL, and of the flags of prctl_set_mdwe.
MapConsistent ==
    /\ component = "map" => M!MapConsistent
    /\ component = "auxv" => A!MapConsistent

\* While threads replace each other's executable (replace_mm_exe_file), nobody
\* writes the one that is being executed, one that no longer is may be written
\* again, and a reader's file (get_mm_exe_file) is never freed under it.
ExeFileCounted == component = "exe" => E!ExeFileCounted

=============================================================================
