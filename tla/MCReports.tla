----------------------------- MODULE MCReports ------------------------------
(***************************************************************************)
(* What the kernel reports (kernel/usac/syscall1.c, 4, 5, 6, kernel/sys.c) *)
(* for TLC: tamalloc, the memory statistics of one process and of all, the *)
(* snapshot of the machine, and getrusage. The components share no state,  *)
(* so that exploring them one at a time in one run loses nothing: at the   *)
(* start one is chosen to move, and the others stay as they are.           *)
(***************************************************************************)
EXTENDS Tamalloc, TLC

CONSTANTS t1, t2, init_task, NoMm

\* Every size: 0, within a page, a page exactly, over one, more than fits,
\* and those that PAGE_ALIGN wraps to 0.
MCSizes == 0 .. SIZE_MOD - 1

\* An address space of less than a megabyte and one of more than one.
MCMMs == {[rss |-> 1, vm |-> 1], [rss |-> 1, vm |-> 3]}

MCSymmetry == Permutations(Procs) \cup Permutations(Frames)

VARIABLE component   \* the one that moves

\* The value of the variables of the others.
Still == "still"

VARIABLES
    status, next, mm, forks, st_pc, task, held, reserved, committed, summary,
    st_ret, strayed, here, counted, pages, seen
statsVars == <<status, next, mm, forks, st_pc, task, held, reserved, committed, summary,
    st_ret, strayed, here, counted, pages, seen>>
statsIdle ==
    /\ status = Still /\ next = Still /\ mm = Still /\ forks = Still
    /\ st_pc = Still /\ task = Still /\ held = Still /\ reserved = Still
    /\ committed = Still /\ summary = Still /\ st_ret = Still
    /\ strayed = Still /\ here = Still /\ counted = Still /\ pages = Still
    /\ seen = Still
M == INSTANCE MemoryStats WITH
    Tasks <- {t1, t2}, MMs <- MCMMs, MB_PAGES <- 2, TOTAL_RAM <- 8,
    MaxForks <- 3, MaxVisits <- 3,
    pc <- st_pc, ret <- st_ret

VARIABLES
    live, min_flt, sig_flt, cmin, cmaj, seqcount, holder, writer, us_pc, who,
    seq, flt, ccmin, ccmaj, visited, due, before
usageVars == <<live, min_flt, sig_flt, cmin, cmaj, seqcount, holder, writer, us_pc, who,
    seq, flt, ccmin, ccmaj, visited, due, before>>
usageIdle ==
    /\ live = Still /\ min_flt = Still /\ sig_flt = Still /\ cmin = Still
    /\ cmaj = Still /\ seqcount = Still /\ holder = Still /\ writer = Still
    /\ us_pc = Still /\ who = Still /\ seq = Still /\ flt = Still
    /\ ccmin = Still /\ ccmaj = Still /\ visited = Still /\ due = Still
    /\ before = Still
U == INSTANCE Rusage WITH
    Threads <- {"t1", "t2"}, MaxCount <- 1, MaxWrites <- 2,
    pc <- us_pc

VARIABLES
    counter, sn_pc, kernel_snapshot, user_snapshot, sn_ret, instants
snapshotVars == <<counter, sn_pc, kernel_snapshot, user_snapshot, sn_ret, instants>>
snapshotIdle ==
    /\ counter = Still /\ sn_pc = Still /\ kernel_snapshot = Still
    /\ user_snapshot = Still /\ sn_ret = Still /\ instants = Still
S == INSTANCE MemorySnapshot WITH
    TOTAL <- 2, Words <- {0, 1}, MaxInstants <- 3,
    pc <- sn_pc, ret <- sn_ret

-----------------------------------------------------------------------------
Components == {"tamalloc", "stats", "usage", "snapshot"}
allVars == <<component, vars, statsVars, usageVars, snapshotVars>>

ASSUME InstancesAssumption ==
    /\ M!MemoryStatsAssumption
    /\ U!RusageAssumption
    /\ S!MemorySnapshotAssumption

\* Every component is in its initial state, and one of them will move.
MCInit ==
    /\ component \in Components
    /\ Init /\ (component # "tamalloc" => content = [f \in Frames |-> [b \in Bytes |-> 0]])
    /\ component = "stats" => M!Init
    /\ component # "stats" => statsIdle
    /\ component = "usage" => U!Init
    /\ component # "usage" => usageIdle
    /\ component = "snapshot" => S!Init
    /\ component # "snapshot" => snapshotIdle

MCNext ==
    /\ UNCHANGED component
    /\ \/ component = "tamalloc" /\ Next /\ UNCHANGED <<statsVars, usageVars, snapshotVars>>
       \/ component = "stats" /\ M!Next /\ UNCHANGED <<vars, usageVars, snapshotVars>>
       \/ component = "usage" /\ U!Next /\ UNCHANGED <<vars, statsVars, snapshotVars>>
       \/ component = "snapshot" /\ S!Next /\ UNCHANGED <<vars, statsVars, usageVars>>

MCSpec == MCInit /\ [][MCNext]_allVars

-----------------------------------------------------------------------------
(***************************************************************************)
(* Properties of the instances.                                            *)
(***************************************************************************)

\* luis_resumen_total and luis_recoleccion_general: unless a task on the way
\* was freed under the walk, every process that had memory all the time is
\* counted, and none twice, whoever starts, execs or exits meanwhile; the call
\* falls only over an address space dropped between two reads; and the figures
\* are sizes that were there, rounded down by less than a megabyte per process.
ReportsTrue == component = "stats" => M!ReportsTrue

\* getrusage of a process: threads that count, start or are released during the
\* call are neither lost nor counted twice, and a sample gets all the additions
\* of a reaped child, or none (sys.c:1753-1754).
SampleConsistent == component = "usage" => U!SampleConsistent

\* luis_capture_memory_snapshot: though the fields are read one by one, each
\* was true at some instant of the call, and what is reported free and used
\* adds up to the whole.
EachFieldHeld == component = "snapshot" => S!EachFieldHeld

=============================================================================
