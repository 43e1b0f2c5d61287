----------------------------- MODULE StatsModule -----------------------------
(***************************************************************************)
(* The module behind /proc/stats_module (modulo_cpu_ram/stats_module.c):   *)
(* programs read the file while the module is loaded and unloaded.         *)
(***************************************************************************)
EXTENDS Integers, FiniteSets

CONSTANTS
    Readers,      \* programs
    Ticks         \* processor times /proc/stat may show: records [idle, total]

\* What an instance gives the constants.
StatsModuleAssumption ==
    \A t \in Ticks : t.idle \in Nat /\ t.total \in Nat \ {0} /\ t.idle <= t.total

VARIABLES
    module,       \* "out", "live", "going" (in its exit), "waiting" (in remove_proc_entry)
    entry,        \* the entry is in /proc
    pc,           \* of each reader, in mostrar_estadisticas
    opened,       \* the reader has the entry open
    refs,         \* references each reader took and did not give back
    usage,        \* the percentage printed, or -1
    ret           \* what mostrar_estadisticas returned

vars == <<module, entry, pc, opened, refs, usage, ret>>

Resources == {"file", "mem_file", "path"}

TypeOK ==
    /\ module \in {"out", "live", "going", "waiting"}
    /\ entry \in BOOLEAN
    /\ pc \in [Readers -> {"out", "cpu", "cpu_read", "mem", "mem_read", "disk", "statfs", "ret"}]
    /\ opened \in [Readers -> BOOLEAN]
    /\ refs \in [Readers -> SUBSET Resources]
    /\ usage \in [Readers -> -1 .. 100]
    /\ ret \in [Readers -> {0, -1}]

Init ==
    /\ module = "out" /\ entry = FALSE
    /\ pc = [r \in Readers |-> "out"]
    /\ opened = [r \in Readers |-> FALSE]
    /\ refs = [r \in Readers |-> {}]
    /\ usage = [r \in Readers |-> -1]
    /\ ret = [r \in Readers |-> 0]

-----------------------------------------------------------------------------
\* The result of proc_create is not looked at: the module may be loaded
\* without an entry.
stats_module_init ==
    /\ module = "out"
    /\ module' = "live" /\ entry' \in BOOLEAN
    /\ UNCHANGED <<pc, opened, refs, usage, ret>>

\* rmmod: an open entry does not hold the module, which names no owner.
Unload ==
    /\ module = "live"
    /\ module' = "going"
    /\ UNCHANGED <<entry, pc, opened, refs, usage, ret>>

\* remove_proc_entry takes the entry away, ...
stats_module_exit ==
    /\ module = "going"
    /\ entry' = FALSE /\ module' = "waiting"
    /\ UNCHANGED <<pc, opened, refs, usage, ret>>

\* ... waits for calls under way and releases what is still open (external).
Rundown ==
    /\ module = "waiting"
    /\ \A r \in Readers : pc[r] = "out"
    /\ opened' = [r \in Readers |-> FALSE]
    /\ module' = "out"
    /\ UNCHANGED <<entry, pc, refs, usage, ret>>

-----------------------------------------------------------------------------
Goto(r, then) == pc' = [pc EXCEPT ![r] = then]
Take(r, x) == refs' = [refs EXCEPT ![r] = @ \cup {x}]
Give(r, x) == refs' = [refs EXCEPT ![r] = @ \ {x}]

abrir_proc(r) ==
    /\ entry /\ ~opened[r]
    /\ opened' = [opened EXCEPT ![r] = TRUE]
    /\ UNCHANGED <<module, entry, pc, refs, usage, ret>>

\* seq_read calls the show function of an entry that is not going away.
SeqRead(r) ==
    /\ opened[r] /\ entry /\ pc[r] = "out"
    /\ Goto(r, "cpu")
    /\ usage' = [usage EXCEPT ![r] = -1]
    /\ ret' = [ret EXCEPT ![r] = 0]
    /\ UNCHANGED <<module, entry, opened, refs>>

\* filp_open of /proc/stat: without it the call gives up.
OpenStat(r) ==
    /\ pc[r] = "cpu"
    /\ \/ Take(r, "file") /\ Goto(r, "cpu_read") /\ UNCHANGED ret
       \/ ret' = [ret EXCEPT ![r] = -1] /\ Goto(r, "ret") /\ UNCHANGED refs
    /\ UNCHANGED <<module, entry, opened, usage>>

\* Faulty: a read that fails is tried again from the start.
ReadStatRetries(r) ==
    /\ pc[r] = "cpu_read"
    /\ Give(r, "file")
    /\ Goto(r, "cpu") \/ Goto(r, "mem")
    /\ UNCHANGED <<module, entry, opened, usage, ret>>

\* kernel_read and filp_close; the share of the time that was not idle, or a
\* message when nothing was read.
ReadStat(r) ==
    /\ pc[r] = "cpu_read"
    /\ Give(r, "file")
    /\ \/ \E t \in Ticks :
            usage' = [usage EXCEPT ![r] = ((t.total - t.idle) * 100) \div t.total]
       \/ UNCHANGED usage
    /\ Goto(r, "mem")
    /\ UNCHANGED <<module, entry, opened, ret>>

OpenMeminfo(r) ==
    /\ pc[r] = "mem"
    /\ \/ Take(r, "mem_file") /\ Goto(r, "mem_read")
       \/ Goto(r, "disk") /\ UNCHANGED refs
    /\ UNCHANGED <<module, entry, opened, usage, ret>>

ReadMeminfo(r) ==
    /\ pc[r] = "mem_read"
    /\ Give(r, "mem_file") /\ Goto(r, "disk")
    /\ UNCHANGED <<module, entry, opened, usage, ret>>

KernPath(r) ==
    /\ pc[r] = "disk"
    /\ \/ Take(r, "path") /\ Goto(r, "statfs")
       \/ Goto(r, "ret") /\ UNCHANGED refs
    /\ UNCHANGED <<module, entry, opened, usage, ret>>

\* Faulty: path_put only where vfs_statfs succeeded.
StatfsLeaks(r) ==
    /\ pc[r] = "statfs"
    /\ Give(r, "path") \/ UNCHANGED refs
    /\ Goto(r, "ret")
    /\ UNCHANGED <<module, entry, opened, usage, ret>>

\* vfs_statfs, whatever it says, and path_put.
Statfs(r) ==
    /\ pc[r] = "statfs"
    /\ Give(r, "path") /\ Goto(r, "ret")
    /\ UNCHANGED <<module, entry, opened, usage, ret>>

ShowReturn(r) ==
    /\ pc[r] = "ret"
    /\ Goto(r, "out")
    /\ UNCHANGED <<module, entry, opened, refs, usage, ret>>

\* single_release.
Close(r) ==
    /\ opened[r] /\ pc[r] = "out"
    /\ opened' = [opened EXCEPT ![r] = FALSE]
    /\ UNCHANGED <<module, entry, pc, refs, usage, ret>>

-----------------------------------------------------------------------------
mostrar_estadisticas(r) ==
    \/ OpenStat(r) \/ ReadStat(r) \/ OpenMeminfo(r) \/ ReadMeminfo(r)
    \/ KernPath(r) \/ Statfs(r) \/ ShowReturn(r)

Next ==
    \/ stats_module_init \/ Unload \/ stats_module_exit \/ Rundown
    \/ \E r \in Readers : abrir_proc(r) \/ SeqRead(r) \/ mostrar_estadisticas(r) \/ Close(r)

Spec == Init /\ [][Next]_vars

\* Tasks in the kernel are scheduled again.
FairSpec ==
    /\ Spec
    /\ WF_vars(stats_module_exit) /\ WF_vars(Rundown)
    /\ \A r \in Readers : WF_vars(mostrar_estadisticas(r))

-----------------------------------------------------------------------------
(***************************************************************************)
(* Properties.                                                             *)
(***************************************************************************)

\* Whichever of its five fallible calls fail, mostrar_estadisticas returns
\* with every file closed and the path put, and never holds two of them.
NoReferenceLeft ==
    \A r \in Readers : Cardinality(refs[r]) <= 1 /\ (pc[r] \in {"out", "ret"} => refs[r] = {})

\* No program is in, or can still enter, the module's code once it is out.
NoCodeAfterUnload ==
    module = "out" => ~entry /\ \A r \in Readers : pc[r] = "out" /\ ~opened[r]

\* Whatever fails and whenever rmmod comes, the module leaves nothing behind:
\* no file or path held, and nobody in code that is gone.
UnloadIsSafe == NoReferenceLeft /\ NoCodeAfterUnload

\* rmmod comes to an end whatever the readers do: those that are reading
\* finish, and no other may begin.
UnloadEnds == (module = "going") ~> (module = "out")

=============================================================================
