------------------------------ MODULE ExeFile ------------------------------
(***************************************************************************)
(* The executable file of an mm (kernel/fork.c: set_mm_exe_file,           *)
(* replace_mm_exe_file, get_mm_exe_file; kernel/sys.c:                     *)
(* prctl_set_mm_exe_file).  Threads of a process replace it and map files, *)
(* others read it through /proc, and the file may be open for writing,     *)
(* which an executable file denies.                                        *)
(***************************************************************************)
EXTENDS Integers, FiniteSets

CONSTANTS
    Threads,       \* threads that call prctl
    Readers,       \* tasks that read /proc/[pid]/exe
    Files, First,  \* files, and the one the process execed
    NULL

\* What an instance gives the constants.
ExeFileAssumption == First \in Files /\ NULL \notin Files

VARIABLES
    exe_file,
    mapped,        \* files that the process has mapped
    f_count,       \* references to an open file
    i_writecount,  \* of its inode: writers, or less than zero if they are denied
    writers,       \* who has the file open for writing
    pc,            \* where a caller is
    new, old,      \* new_exe_file and old_exe_file
    alive          \* the process has not exited

vars == <<exe_file, mapped, f_count, i_writecount, writers, pc, new, old, alive>>
Users == Threads \cup Readers

\* An execed process: the mm holds its file and denies writing; every other
\* file is open in the process.
Init ==
    /\ exe_file = First /\ mapped = {First}
    /\ f_count = [f \in Files |-> IF f = First THEN 2 ELSE 1]
    /\ i_writecount = [f \in Files |-> IF f = First THEN -1 ELSE 0]
    /\ writers = [f \in Files |-> 0]
    /\ pc = [c \in Users |-> "idle"]
    /\ new = [c \in Users |-> NULL] /\ old = [c \in Users |-> NULL]
    /\ alive = TRUE

Goto(c, l) == pc' = [pc EXCEPT ![c] = l]
Get(f) == f_count' = [f_count EXCEPT ![f] = @ + 1]
Put(f) == f_count' = [f_count EXCEPT ![f] = @ - 1]

-----------------------------------------------------------------------------
(***************************************************************************)
(* prctl_set_mm_exe_file and replace_mm_exe_file.                          *)
(***************************************************************************)

\* fdget of a descriptor (the reference is that of the table, or another one),
\* and the checks of the file, which it may fail.
prctl_set_mm_exe_file(c, f) ==
    /\ pc[c] = "idle" /\ c \in Threads /\ alive
    /\ new' = [new EXCEPT ![c] = f]
    /\ f_count' = [f_count EXCEPT ![f] = @ + 1]
    /\ \E l \in {"replace", "fdput"} : Goto(c, l)
    /\ UNCHANGED <<exe_file, mapped, i_writecount, writers, old, alive>>

\* get_file_rcu: the pointer is read, its count raised unless zero, and the
\* pointer read again, so that the reference is to the file that is there.
replace_mm_exe_file(c) ==
    /\ pc[c] = "replace"
    /\ old' = [old EXCEPT ![c] = exe_file]
    /\ Get(exe_file)
    /\ Goto(c, "mapped")
    /\ UNCHANGED <<exe_file, mapped, i_writecount, writers, new, alive>>

\* Under mmap_lock for reading; then fput.
CheckMapped(c) ==
    /\ pc[c] = "mapped"
    /\ Put(old[c])
    /\ Goto(c, IF old[c] \in mapped THEN "fdput" ELSE "deny")
    /\ old' = [old EXCEPT ![c] = NULL]
    /\ UNCHANGED <<exe_file, mapped, i_writecount, writers, new, alive>>

\* deny_write_access: fails while there are writers; then get_file.
DenyWriteAccess(c) ==
    /\ pc[c] = "deny"
    /\ IF i_writecount[new[c]] > 0
       THEN Goto(c, "fdput") /\ UNCHANGED <<i_writecount, f_count>>
       ELSE /\ i_writecount' = [i_writecount EXCEPT ![new[c]] = @ - 1]
            /\ Get(new[c])
            /\ Goto(c, "set")
    /\ UNCHANGED <<exe_file, mapped, writers, new, old, alive>>

OldFile(c) == exe_file

\* Under mmap_lock for writing the file is exchanged.
SetExeFile(c) ==
    /\ pc[c] = "set"
    /\ old' = [old EXCEPT ![c] = OldFile(c)]
    /\ exe_file' = new[c]
    /\ Goto(c, "allow")
    /\ UNCHANGED <<mapped, f_count, i_writecount, writers, new, alive>>

\* Faulty: writing the old file stays denied.
AllowWriteAccessNot(f) == UNCHANGED i_writecount

AllowWriteAccess(f) == i_writecount' = [i_writecount EXCEPT ![f] = @ + 1]

ReleaseOld(c) ==
    /\ pc[c] = "allow"
    /\ AllowWriteAccess(old[c])
    /\ Put(old[c])
    /\ old' = [old EXCEPT ![c] = NULL]
    /\ Goto(c, "fdput")
    /\ UNCHANGED <<exe_file, mapped, writers, new, alive>>

Fdput(c) ==
    /\ pc[c] = "fdput"
    /\ Put(new[c])
    /\ new' = [new EXCEPT ![c] = NULL]
    /\ Goto(c, "idle")
    /\ UNCHANGED <<exe_file, mapped, i_writecount, writers, old, alive>>

-----------------------------------------------------------------------------

\* get_mm_exe_file, of another process.
get_mm_exe_file(r) ==
    /\ pc[r] = "idle" /\ r \in Readers /\ exe_file # NULL
    /\ old' = [old EXCEPT ![r] = exe_file]
    /\ Get(exe_file)
    /\ Goto(r, "reads")
    /\ UNCHANGED <<exe_file, mapped, i_writecount, writers, new, alive>>

ReaderPuts(r) ==
    /\ pc[r] = "reads"
    /\ Put(old[r])
    /\ old' = [old EXCEPT ![r] = NULL]
    /\ Goto(r, "idle")
    /\ UNCHANGED <<exe_file, mapped, i_writecount, writers, new, alive>>

\* set_mm_exe_file(mm, NULL), when the last thread is gone.
set_mm_exe_file ==
    /\ alive /\ \A c \in Threads : pc[c] = "idle"
    /\ alive' = FALSE
    /\ exe_file' = NULL /\ mapped' = {}
    /\ i_writecount' = [i_writecount EXCEPT ![exe_file] = @ + 1]
    /\ Put(exe_file)
    /\ UNCHANGED <<writers, pc, new, old>>

\* mmap and munmap (external).
Map(f) ==
    /\ alive
    /\ mapped' = IF f \in mapped THEN mapped \ {f} ELSE mapped \cup {f}
    /\ UNCHANGED <<exe_file, f_count, i_writecount, writers, pc, new, old, alive>>

\* get_write_access and put_write_access (external).
OpenForWriting(f) ==
    /\ i_writecount[f] >= 0 /\ writers[f] = 0
    /\ i_writecount' = [i_writecount EXCEPT ![f] = @ + 1]
    /\ writers' = [writers EXCEPT ![f] = @ + 1]
    /\ UNCHANGED <<exe_file, mapped, f_count, pc, new, old, alive>>

CloseWriter(f) ==
    /\ writers[f] > 0
    /\ i_writecount' = [i_writecount EXCEPT ![f] = @ - 1]
    /\ writers' = [writers EXCEPT ![f] = @ - 1]
    /\ UNCHANGED <<exe_file, mapped, f_count, pc, new, old, alive>>

Next ==
    \/ \E c \in Users :
         \/ \E f \in Files : prctl_set_mm_exe_file(c, f)
         \/ replace_mm_exe_file(c) \/ CheckMapped(c) \/ DenyWriteAccess(c)
         \/ SetExeFile(c) \/ ReleaseOld(c) \/ Fdput(c)
         \/ get_mm_exe_file(c) \/ ReaderPuts(c)
    \/ set_mm_exe_file
    \/ \E f \in Files : Map(f) \/ OpenForWriting(f) \/ CloseWriter(f)

Spec == Init /\ [][Next]_vars

-----------------------------------------------------------------------------
(***************************************************************************)
(* Properties.                                                             *)
(***************************************************************************)

\* While threads replace each other's file, nobody writes the one that is
\* being executed, and one that no longer is may be written again.
WritingDenied ==
    \A f \in Files :
        i_writecount[f] = writers[f] - Cardinality({c \in Users : pc[c] = "set" /\ new[c] = f})
                          - Cardinality({c \in Users : pc[c] = "allow" /\ old[c] = f})
                          - (IF exe_file = f THEN 1 ELSE 0)

\* Every count is one for the table of descriptors and one for each reference:
\* a reader's file is never freed under it, and none leaks.
FilesCounted ==
    \A f \in Files :
        f_count[f] = 1 + (IF exe_file = f THEN 1 ELSE 0)
                     + Cardinality({c \in Users : new[c] = f})
                     + Cardinality({c \in Users : old[c] = f})
                     + Cardinality({c \in Users : pc[c] = "set" /\ new[c] = f})

\* Of the files that threads exchange as their executable, each is held and
\* closed to writers exactly while it is one.
ExeFileCounted == WritingDenied /\ FilesCounted

=============================================================================
