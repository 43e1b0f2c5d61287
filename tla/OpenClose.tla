----------------------------- MODULE OpenClose -----------------------------
(***************************************************************************)
(* Opening, closing and truncating a file (fs/open.c).  The tasks share a  *)
(* table of descriptors and open one inode on one mount; meanwhile the     *)
(* inode may be executed, which denies writing, and the mount be remounted *)
(* read-only.  An open that fails undoes exactly what it has done.         *)
(***************************************************************************)
EXTENDS Integers, FiniteSets

CONSTANTS
    Tasks,
    Fds,        \* numbers
    Files,      \* struct files
    NULL

\* What an instance gives the constants.
OpenCloseAssumption == Fds \subseteq Nat /\ NULL \notin Files \cup Fds

VARIABLES
    open_fds,       \* descriptors in use
    fdt,            \* the file of each descriptor, or NULL
    f_count, f_mode,
    f_path,         \* the file has its path, and the reference to it
    d_count,        \* references to the path by files and truncations
    i_readcount, i_writecount,
    mnt_writers, readonly,    \* of the mount
    denied,         \* the inode is being executed
    pc, fd, file    \* where a task is, its descriptor and its file

table == <<open_fds, fdt>>
structs == <<f_count, f_mode, f_path>>
counts == <<d_count, i_readcount, i_writecount, mnt_writers>>
world == <<readonly, denied>>
vars == <<table, structs, counts, world, pc, fd, file>>

Init ==
    /\ open_fds = {} /\ fdt = [n \in Fds |-> NULL]
    /\ f_count = [f \in Files |-> 0] /\ f_mode = [f \in Files |-> {}]
    /\ f_path = [f \in Files |-> FALSE]
    /\ d_count = 0 /\ i_readcount = 0 /\ i_writecount = 0 /\ mnt_writers = 0
    /\ readonly = FALSE /\ denied = FALSE
    /\ pc = [t \in Tasks |-> "idle"]
    /\ fd = [t \in Tasks |-> NULL] /\ file = [t \in Tasks |-> NULL]

Goto(t, l) == pc' = [pc EXCEPT ![t] = l]

-----------------------------------------------------------------------------
(***************************************************************************)
(* open: a descriptor, a file, and do_dentry_open.                         *)
(***************************************************************************)

FreeFds == Fds \ open_fds

\* do_sys_openat2: the flags are valid and get_unused_fd_flags finds one.
do_sys_openat2(t) ==
    LET n == CHOOSE x \in FreeFds : \A y \in FreeFds : x <= y IN
    /\ pc[t] = "idle" /\ FreeFds # {}
    /\ open_fds' = open_fds \cup {n}
    /\ fd' = [fd EXCEPT ![t] = n]
    /\ Goto(t, "filp_open")
    /\ UNCHANGED <<fdt, structs, counts, world, file>>

\* do_filp_open: the lookup may fail; else the file is allocated with the mode
\* asked for (external).
do_filp_open(t) ==
    /\ pc[t] = "filp_open"
    /\ \/ Goto(t, "put_unused") /\ UNCHANGED <<structs, file>>
       \/ \E f \in Files, mode \in {{"READ"}, {"WRITE"}, {"READ", "WRITE"}, {"PATH"}} :
            /\ f_count[f] = 0
            /\ f_count' = [f_count EXCEPT ![f] = 1]
            /\ f_mode' = [f_mode EXCEPT ![f] = mode]
            /\ file' = [file EXCEPT ![t] = f]
            /\ Goto(t, "dentry_open")
            /\ UNCHANGED f_path
    /\ UNCHANGED <<table, counts, world, fd>>

WriteDenied == i_writecount < 0

\* path_get; then an O_PATH file is open, one only for reading is counted, and
\* one for writing needs get_write_access, which fails while it is denied.
do_dentry_open(t) ==
    LET f == file[t] IN
    /\ pc[t] = "dentry_open"
    /\ f_path' = [f_path EXCEPT ![f] = TRUE]
    /\ d_count' = d_count + 1
    /\ CASE "PATH" \in f_mode[f] ->
              /\ f_mode' = [f_mode EXCEPT ![f] = {"PATH", "OPENED"}]
              /\ Goto(t, "install") /\ UNCHANGED <<i_readcount, i_writecount>>
         [] f_mode[f] = {"READ"} ->
              /\ i_readcount' = i_readcount + 1
              /\ Goto(t, "checks") /\ UNCHANGED <<f_mode, i_writecount>>
         [] OTHER ->
              /\ IF WriteDenied
                 THEN Goto(t, "cleanup_file") /\ UNCHANGED i_writecount
                 ELSE Goto(t, "mnt") /\ i_writecount' = i_writecount + 1
              /\ UNCHANGED <<f_mode, i_readcount>>
    /\ UNCHANGED <<table, f_count, mnt_writers, world, fd, file>>

\* Faulty: the inode's count is kept when the mount refuses.
CleanupInodeNot == UNCHANGED i_writecount

CleanupInode == i_writecount' = i_writecount - 1

\* mnt_get_write_access, and put_write_access if it fails.
file_get_write_access(t) ==
    /\ pc[t] = "mnt"
    /\ IF readonly
       THEN /\ CleanupInode
            /\ Goto(t, "cleanup_file") /\ UNCHANGED <<f_mode, mnt_writers>>
       ELSE /\ mnt_writers' = mnt_writers + 1
            /\ f_mode' = [f_mode EXCEPT ![file[t]] = @ \cup {"WRITER"}]
            /\ Goto(t, "checks") /\ UNCHANGED i_writecount
    /\ UNCHANGED <<table, f_count, f_path, d_count, i_readcount, world, fd, file>>

\* What put_file_access gives back of a file with that mode (external).
put_file_access(f) ==
    /\ i_readcount' = IF f_mode[f] \cap {"READ", "WRITE"} = {"READ"}
                      THEN i_readcount - 1 ELSE i_readcount
    /\ i_writecount' = IF "WRITER" \in f_mode[f] THEN i_writecount - 1 ELSE i_writecount
    /\ mnt_writers' = IF "WRITER" \in f_mode[f] THEN mnt_writers - 1 ELSE mnt_writers

\* The security module, a lease or the open method may refuse; a file that is
\* open may still be refused for O_DIRECT, and then nothing is undone here.
OpenChecks(t) ==
    LET f == file[t] IN
    /\ pc[t] = "checks"
    /\ \/ put_file_access(f) /\ Goto(t, "cleanup_file") /\ UNCHANGED f_mode
       \/ /\ f_mode' = [f_mode EXCEPT ![f] = @ \cup {"OPENED"}]
          /\ \E l \in {"install", "fput"} : Goto(t, l)
          /\ UNCHANGED <<i_readcount, i_writecount, mnt_writers>>
    /\ UNCHANGED <<table, f_count, f_path, d_count, world, fd, file>>

CleanupFile(t) ==
    /\ pc[t] = "cleanup_file"
    /\ d_count' = d_count - 1
    /\ f_path' = [f_path EXCEPT ![file[t]] = FALSE]
    /\ Goto(t, "fput")
    /\ UNCHANGED <<table, f_count, f_mode, i_readcount, i_writecount, mnt_writers,
                   world, fd, file>>

\* fput: the last reference to a file that was opened gives back its access
\* and its path (external).
fput(f) ==
    /\ f_count' = [f_count EXCEPT ![f] = @ - 1]
    /\ IF f_count[f] = 1
       THEN /\ f_mode' = [f_mode EXCEPT ![f] = {}]
            /\ f_path' = [f_path EXCEPT ![f] = FALSE]
            /\ IF "OPENED" \in f_mode[f]
               THEN put_file_access(f) /\ d_count' = d_count - 1
               ELSE UNCHANGED counts
       ELSE UNCHANGED <<f_mode, f_path, counts>>

\* path_openat drops the file of an open that failed.
FailedOpen(t) ==
    /\ pc[t] = "fput"
    /\ fput(file[t])
    /\ file' = [file EXCEPT ![t] = NULL]
    /\ Goto(t, "put_unused")
    /\ UNCHANGED <<table, world, fd>>

put_unused_fd(t) ==
    /\ pc[t] = "put_unused"
    /\ open_fds' = open_fds \ {fd[t]}
    /\ fd' = [fd EXCEPT ![t] = NULL]
    /\ Goto(t, "idle")
    /\ UNCHANGED <<fdt, structs, counts, world, file>>

fd_install(t) ==
    /\ pc[t] = "install"
    /\ fdt' = [fdt EXCEPT ![fd[t]] = file[t]]
    /\ fd' = [fd EXCEPT ![t] = NULL] /\ file' = [file EXCEPT ![t] = NULL]
    /\ Goto(t, "idle")
    /\ UNCHANGED <<open_fds, structs, counts, world>>

-----------------------------------------------------------------------------
(***************************************************************************)
(* Use and close.                                                          *)
(***************************************************************************)

\* A system call on a descriptor holds its file until it returns (external).
fdget(t, n) ==
    /\ pc[t] = "idle" /\ fdt[n] # NULL
    /\ f_count' = [f_count EXCEPT ![fdt[n]] = @ + 1]
    /\ file' = [file EXCEPT ![t] = fdt[n]]
    /\ Goto(t, "uses")
    /\ UNCHANGED <<table, f_mode, f_path, counts, world, fd>>

\* close: the file is taken out of the table, if there is one.
file_close_fd(t, n) ==
    /\ pc[t] = "idle" /\ fdt[n] # NULL
    /\ fdt' = [fdt EXCEPT ![n] = NULL]
    /\ open_fds' = open_fds \ {n}
    /\ file' = [file EXCEPT ![t] = fdt[n]]
    /\ Goto(t, "uses")
    /\ UNCHANGED <<structs, counts, world, fd>>

\* filp_flush, and the reference is put.
filp_close(t) ==
    /\ pc[t] = "uses"
    /\ fput(file[t])
    /\ file' = [file EXCEPT ![t] = NULL]
    /\ Goto(t, "idle")
    /\ UNCHANGED <<table, world, fd>>

-----------------------------------------------------------------------------
(***************************************************************************)
(* truncate, of the path.                                                  *)
(***************************************************************************)

\* mnt_want_write.
vfs_truncate(t) ==
    /\ pc[t] = "idle" /\ ~readonly
    /\ mnt_writers' = mnt_writers + 1 /\ d_count' = d_count + 1
    /\ Goto(t, "trunc_access")
    /\ UNCHANGED <<table, structs, i_readcount, i_writecount, world, fd, file>>

\* Permissions, then get_write_access.
TruncateAccess(t) ==
    /\ pc[t] = "trunc_access"
    /\ \/ Goto(t, "trunc_drop") /\ UNCHANGED i_writecount
       \/ ~WriteDenied /\ i_writecount' = i_writecount + 1 /\ Goto(t, "truncate")
    /\ UNCHANGED <<table, structs, d_count, i_readcount, mnt_writers, world, fd, file>>

\* break_lease and do_truncate may fail; either way put_write_access.
do_truncate(t) ==
    /\ pc[t] = "truncate"
    /\ i_writecount' = i_writecount - 1
    /\ Goto(t, "trunc_drop")
    /\ UNCHANGED <<table, structs, d_count, i_readcount, mnt_writers, world, fd, file>>

TruncateDrop(t) ==
    /\ pc[t] = "trunc_drop"
    /\ mnt_writers' = mnt_writers - 1 /\ d_count' = d_count - 1
    /\ Goto(t, "idle")
    /\ UNCHANGED <<table, structs, i_readcount, i_writecount, world, fd, file>>

-----------------------------------------------------------------------------
\* deny_write_access and allow_write_access (external).
Execute ==
    /\ IF denied THEN i_writecount' = i_writecount + 1
       ELSE i_writecount <= 0 /\ i_writecount' = i_writecount - 1
    /\ denied' = ~denied
    /\ UNCHANGED <<table, structs, d_count, i_readcount, mnt_writers, readonly, pc, fd, file>>

\* mnt_make_readonly fails while there are writers (external).
Remount ==
    /\ readonly \/ mnt_writers = 0
    /\ readonly' = ~readonly
    /\ UNCHANGED <<table, structs, counts, denied, pc, fd, file>>

Next ==
    \/ \E t \in Tasks :
         \/ do_sys_openat2(t) \/ do_filp_open(t) \/ do_dentry_open(t)
         \/ file_get_write_access(t) \/ OpenChecks(t) \/ CleanupFile(t)
         \/ FailedOpen(t) \/ put_unused_fd(t) \/ fd_install(t)
         \/ \E n \in Fds : fdget(t, n) \/ file_close_fd(t, n)
         \/ filp_close(t)
         \/ vfs_truncate(t) \/ TruncateAccess(t) \/ do_truncate(t) \/ TruncateDrop(t)
    \/ Execute \/ Remount

Spec == Init /\ [][Next]_vars

-----------------------------------------------------------------------------
(***************************************************************************)
(* Properties.                                                             *)
(***************************************************************************)

At(labels) == Cardinality({t \in Tasks : pc[t] \in labels})
WithAccess(modes) == Cardinality({f \in Files : f_path[f] /\ modes \cap f_mode[f] # {}
                                     /\ \A t \in Tasks : file[t] = f => pc[t] # "cleanup_file"})

\* However opens, truncations and closes interleave and fail, the inode and
\* the mount count exactly the accesses that exist: none leaks, which would
\* refuse executions and remounts for ever, and none is given back twice.
AccessCounted ==
    /\ i_writecount = WithAccess({"WRITER"}) + At({"mnt", "truncate"}) - (IF denied THEN 1 ELSE 0)
    /\ mnt_writers = WithAccess({"WRITER"}) + At({"trunc_access", "truncate", "trunc_drop"})
    /\ i_readcount = Cardinality({f \in Files : f_path[f] /\ f_mode[f] \cap {"READ", "WRITE"} = {"READ"}
                                     /\ \A t \in Tasks : file[t] = f => pc[t] # "cleanup_file"})

\* Every reference to the path belongs to a file that still has it.
PathCounted ==
    d_count = Cardinality({f \in Files : f_path[f]})
              + At({"trunc_access", "truncate", "trunc_drop"})

\* "This ensures that one clone task can't release an fd while another clone
\* is opening it": a descriptor is reserved by one open, and free of a file,
\* until that open ends, and one that ended leaves none reserved.
FdReserved ==
    /\ \A t \in Tasks : fd[t] # NULL =>
         /\ fd[t] \in open_fds /\ fdt[fd[t]] = NULL
         /\ \A u \in Tasks \ {t} : fd[u] # fd[t]
    /\ \A n \in open_fds : fdt[n] # NULL \/ \E t \in Tasks : fd[t] = n

\* What a descriptor or a running call refers to is open, and counted once for
\* each of them, so that it is not freed under a call that another closes.
FilesHeld ==
    /\ \A f \in Files :
         f_count[f] = Cardinality({n \in Fds : fdt[n] = f}) + Cardinality({t \in Tasks : file[t] = f})
    /\ \A n \in Fds : fdt[n] # NULL => {"OPENED"} \subseteq f_mode[fdt[n]]

\* A file that is executed is open to nobody for writing, and neither is one
\* on a read-only mount.
WritersExcluded ==
    \A f \in Files : {"OPENED", "WRITER"} \subseteq f_mode[f] => ~denied /\ ~readonly

\* Every counter that do_dentry_open, vfs_truncate and close move is, at every
\* step of every interleaving and failure, the number of those who rely on it,
\* and so keeps writers out.
ReferencesExact ==
    /\ AccessCounted
    /\ PathCounted
    /\ FdReserved
    /\ FilesHeld
    /\ WritersExcluded

=============================================================================
