------------------------------ MODULE MCFiles -------------------------------
(***************************************************************************)
(* Files (fs/open.c, fs/read_write.c) for TLC, with the table of system-   *)
(* call usage that openat, read and write count in                         *)
(* (kernel/usac/syscall2.c): opening, closing and truncating, the position *)
(* of open files, and copies between files. Offsets have four bits and     *)
(* files at most four bytes. The components share no state, so that        *)
(* exploring them one at a time in one run loses nothing: at the start one *)
(* is chosen to move, and the others stay as they are.                     *)
(***************************************************************************)
EXTENDS SyscallUsage, TLC

CONSTANTS f1, f2, f3, g1, g2, i1, i2, NoFile

Call(op, f) == [op |-> op, f |-> f, g |-> f, whence |-> "SET", count |-> 0,
                in_off |-> FALSE, out_off |-> FALSE, off |-> 0, off_out |-> 0]
Lseeks(f, whences, offs) ==
    {[Call("lseek", f) EXCEPT !.whence = w, !.off = o] : w \in whences, o \in offs}
Transfers(ops, f, sizes) ==
    {[Call(op, f) EXCEPT !.count = n] : op \in ops, n \in sizes}
From(calls, offs) == {[q EXCEPT !.in_off = TRUE, !.off = o] : q \in calls, o \in offs}
Between(op, f, g, sizes) == {[Call(op, f) EXCEPT !.g = g, !.count = n] : n \in sizes}
To(calls, offs) == {[q EXCEPT !.out_off = TRUE, !.off_out = o] : q \in calls, o \in offs}

\* Two open files of one inode: a regular one, and one that appends and whose
\* llseek is default_llseek, without FMODE_ATOMIC_POS.
SharedInode == g1 :> i1 @@ g2 :> i1
SharedMethod == g1 :> "generic" @@ g2 :> "default"
SharedCalls ==
    Lseeks(g1, {"SET"}, {5}) \cup Lseeks(g1, {"CUR"}, {0, 2, 7})
    \cup Lseeks(g1, {"END"}, {-1}) \cup Lseeks(g1, {"DATA", "HOLE"}, {0})
    \cup Lseeks(g2, {"CUR"}, {2}) \cup Lseeks(g2, {"HOLE"}, {-1})
    \cup Transfers({"read", "write"}, g1, {2}) \cup Transfers({"write"}, g2, {0, 7})
    \cup From(Transfers({"write"}, g1, {1}), {3})

\* Copies between two files, of one inode or of two.
CopyMethod == g1 :> "generic" @@ g2 :> "fixed_size"
TwoInodes == g1 :> i1 @@ g2 :> i2
CopyCalls ==
    Between("sendfile64", g1, g2, {3}) \cup From(Between("sendfile", g1, g2, {6}), {1})
    \cup Between("copy", g1, g2, {3}) \cup From(Between("copy", g1, g2, {15}), {-1})
    \cup To(From(Between("copy", g1, g1, {2}), {0}), {1, 2, -8})
    \cup From(Transfers({"read"}, g1, {3, 9}), {6}) \cup Transfers({"write"}, g1, {3})
    \cup Lseeks(g2, {"END"}, {0})

TaskSymmetry == Permutations(Tasks)

VARIABLE component   \* the one that moves

\* The value of the variables of the others.
Still == "still"

VARIABLES
    open_fds, fdt, f_count, f_mode, f_path, d_count, i_readcount,
    i_writecount, mnt_writers, readonly, denied, o_pc, fd, file
openVars == <<open_fds, fdt, f_count, f_mode, f_path, d_count, i_readcount,
    i_writecount, mnt_writers, readonly, denied, o_pc, fd, file>>
openIdle ==
    /\ open_fds = Still /\ fdt = Still /\ f_count = Still /\ f_mode = Still
    /\ f_path = Still /\ d_count = Still /\ i_readcount = Still
    /\ i_writecount = Still /\ mnt_writers = Still /\ readonly = Still
    /\ denied = Still /\ o_pc = Still /\ fd = Still /\ file = Still
O == INSTANCE OpenClose WITH
    Fds <- {0, 1}, Files <- {f1, f2, f3}, NULL <- NoFile,
    pc <- o_pc

VARIABLES
    p_f_pos, p_lock, p_i_size, p_pc, p_call, p_pos, p_out_pos, p_count
positionVars == <<p_f_pos, p_lock, p_i_size, p_pc, p_call, p_pos, p_out_pos, p_count>>
P == INSTANCE FilePosition WITH
    Files <- {g1, g2}, Inodes <- {i1}, NULL <- NoFile, InodeOf <- SharedInode,
    ATOMIC_POS <- {g1}, APPEND <- {g2}, LARGEFILE <- {g1},
    Method <- SharedMethod, Calls <- SharedCalls, LOFF_MOD <- 16,
    s_maxbytes <- 4, MAX_NON_LFS <- 2, MAX_RW_COUNT <- 3, RLIMIT_FSIZE <- 3,
    f_pos <- p_f_pos, lock <- p_lock, i_size <- p_i_size, pc <- p_pc,
    call <- p_call, pos <- p_pos, out_pos <- p_out_pos, count <- p_count

VARIABLES
    c_f_pos, c_lock, c_i_size, c_pc, c_call, c_pos, c_out_pos, c_count
copyVars == <<c_f_pos, c_lock, c_i_size, c_pc, c_call, c_pos, c_out_pos, c_count>>
copyIdle ==
    /\ c_f_pos = Still /\ c_lock = Still /\ c_i_size = Still /\ c_pc = Still
    /\ c_call = Still /\ c_pos = Still /\ c_out_pos = Still /\ c_count = Still
C == INSTANCE FilePosition WITH
    Files <- {g1, g2}, Inodes <- {i1, i2}, NULL <- NoFile,
    InodeOf <- TwoInodes, ATOMIC_POS <- {g1, g2}, APPEND <- {},
    LARGEFILE <- {g1, g2}, Method <- CopyMethod, Calls <- CopyCalls,
    LOFF_MOD <- 16, s_maxbytes <- 3, MAX_NON_LFS <- 2, MAX_RW_COUNT <- 3,
    RLIMIT_FSIZE <- 15,
    f_pos <- c_f_pos, lock <- c_lock, i_size <- c_i_size, pc <- c_pc,
    call <- c_call, pos <- c_pos, out_pos <- c_out_pos, count <- c_count

-----------------------------------------------------------------------------
Components == {"usage", "open", "position", "copy"}
allVars == <<component, vars, openVars, positionVars, copyVars>>

ASSUME InstancesAssumption ==
    /\ O!OpenCloseAssumption
    /\ P!FilePositionAssumption
    /\ C!FilePositionAssumption

\* Every component is in its initial state, and one of them will move.
MCInit ==
    /\ component \in Components
    /\ Init
    /\ component = "open" => O!Init
    /\ component # "open" => openIdle
    /\ P!Init /\ (component # "position" => p_i_size = [i \in {i1} |-> 0])
    /\ component = "copy" => C!Init
    /\ component # "copy" => copyIdle

MCNext ==
    /\ UNCHANGED component
    /\ \/ component = "usage" /\ Next /\ UNCHANGED <<openVars, positionVars, copyVars>>
       \/ component = "open" /\ O!Next /\ UNCHANGED <<vars, positionVars, copyVars>>
       \/ component = "position" /\ P!Next /\ UNCHANGED <<vars, openVars, copyVars>>
       \/ component = "copy" /\ C!Next /\ UNCHANGED <<vars, openVars, positionVars>>

MCSpec == MCInit /\ [][MCNext]_allVars

-----------------------------------------------------------------------------
(***************************************************************************)
(* Properties of the instances.                                            *)
(***************************************************************************)

\* However opens, truncations and closes interleave and fail (do_dentry_open,
\* vfs_truncate), the counts of the inode, the mount, the path, the files and
\* the descriptors are those of who relies on them: none leaks, none is given
\* back twice, and nobody writes a file that is executed or on a read-only
\* mount.
ReferencesExact == component = "open" => O!ReferencesExact

\* While a read or write is under way nobody else's read, write or seek moves
\* the position it will replace (f_pos_lock), of two relative seeks neither is
\* lost, and no call makes a file larger than s_maxbytes or RLIMIT_FSIZE
\* allows.
FileStepsSafe == P!FileStepsSafe

\* Whatever calls race and overflow, a position stays where llseek could have
\* put it, no transfer starts before the file or ends beyond what loff_t can
\* name (rw_verify_area), and copy_file_range within an inode never writes a
\* byte it has yet to read.
OffsetsInRange ==
    /\ component = "position" => P!OffsetsInRange
    /\ component = "copy" => C!OffsetsInRange

=============================================================================
