---------------------------- MODULE FilePosition ----------------------------
(***************************************************************************)
(* The file position (fs/read_write.c).  Tasks share open files: read,     *)
(* write and lseek use f_pos under f_pos_lock, pread and pwrite bring an   *)
(* offset of their own, sendfile and copy_file_range use f_pos without the *)
(* lock.  Offsets are loff_t, counts size_t, of LOFF_MOD values each.      *)
(* Files with FMODE_UNSIGNED_OFFSET or FMODE_STREAM, and pipes, are left   *)
(* out.                                                                    *)
(***************************************************************************)
EXTENDS Integers

CONSTANTS
    Tasks,
    Files, Inodes, InodeOf,  \* open files, and the inode of each
    ATOMIC_POS, APPEND, LARGEFILE,   \* files with that mode or flag
    Method,                  \* the llseek of each file
    Calls,                   \* what tasks may ask for
    LOFF_MOD,                \* 2^64
    s_maxbytes, MAX_NON_LFS, MAX_RW_COUNT,
    RLIMIT_FSIZE,            \* of the tasks; RLIM_INFINITY is LOFF_MOD - 1
    NULL

LOFF_MAX == (LOFF_MOD \div 2) - 1
Whences == {"SET", "CUR", "END", "DATA", "HOLE"}

\* off and off_out are used if in_off and out_off say so, else f_pos is.
CallSet == [op : {"lseek", "read", "write", "sendfile", "sendfile64", "copy"},
            f : Files, g : Files, whence : Whences, count : 0 .. LOFF_MOD - 1,
            in_off : BOOLEAN, out_off : BOOLEAN,
            off : -(LOFF_MAX + 1) .. LOFF_MAX, off_out : -(LOFF_MAX + 1) .. LOFF_MAX]

\* What an instance gives the constants.
FilePositionAssumption ==
    /\ NULL \notin Tasks /\ Files \cap Inodes = {}
    /\ InodeOf \in [Files -> Inodes]
    /\ Method \in [Files -> {"generic", "default", "fixed_size", "no_seek_end"}]
    /\ ATOMIC_POS \subseteq Files /\ APPEND \subseteq Files /\ LARGEFILE \subseteq Files
    /\ LOFF_MOD \in Nat /\ LOFF_MOD > 1 /\ LOFF_MOD % 2 = 0
    /\ s_maxbytes \in 1 .. LOFF_MAX /\ MAX_NON_LFS \in 1 .. s_maxbytes
    /\ MAX_RW_COUNT \in 1 .. LOFF_MAX /\ RLIMIT_FSIZE \in 0 .. LOFF_MOD - 1
    /\ Calls \subseteq CallSet

VARIABLES
    f_pos,      \* of an open file
    lock,       \* f_pos_lock of a file, f_lock of <<a file>>, i_rwsem of an inode
    i_size,     \* of an inode
    pc, call,   \* where a task is, and what it asked for
    pos, out_pos, count     \* its local variables

vars == <<f_pos, lock, i_size, pc, call, pos, out_pos, count>>

f_lock(f) == <<f>>
Locks == Files \cup Inodes \cup {f_lock(f) : f \in Files}

loff_t(x) == ((x + LOFF_MAX + 1) % LOFF_MOD) - (LOFF_MAX + 1)
size_t(x) == x % LOFF_MOD
Least(a, b) == IF a < b THEN a ELSE b
Greatest(a, b) == IF a < b THEN b ELSE a

Init ==
    /\ f_pos = [f \in Files |-> 0]
    /\ lock = [l \in Locks |-> NULL]
    /\ i_size \in [Inodes -> {0, 1}]
    /\ pc = [t \in Tasks |-> "idle"] /\ call = [t \in Tasks |-> NULL]
    /\ pos = [t \in Tasks |-> 0] /\ out_pos = [t \in Tasks |-> 0]
    /\ count = [t \in Tasks |-> 0]

Goto(t, l) == pc' = [pc EXCEPT ![t] = l]
\* The locals are not read any more.
Leave(t, l) ==
    /\ Goto(t, l)
    /\ pos' = [pos EXCEPT ![t] = 0] /\ out_pos' = [out_pos EXCEPT ![t] = 0]
    /\ count' = [count EXCEPT ![t] = 0]
Begin(t, q, l) == call' = [call EXCEPT ![t] = q] /\ Goto(t, l)

-----------------------------------------------------------------------------
(***************************************************************************)
(* The checks, over the values of one call.                                *)
(***************************************************************************)

rw_verify_area(p, n) == loff_t(n) >= 0 /\ p >= 0 /\ loff_t(p + n) >= 0

\* The count, shortened to the limits, or -EFBIG.
generic_write_check_limits(f, p, n) ==
    LET limit == loff_t(RLIMIT_FSIZE)
        infinite == RLIMIT_FSIZE = LOFF_MOD - 1
        max_size == IF f \in LARGEFILE THEN s_maxbytes ELSE MAX_NON_LFS
        shortened == IF infinite THEN loff_t(n) ELSE Least(loff_t(n), loff_t(limit - p)) IN
    IF (~infinite /\ p >= limit) \/ p >= max_size THEN -1
    ELSE Least(shortened, loff_t(max_size - p))

\* Faulty: ranges that start apart are taken to be apart.
OverlapsAtStart(f, g, p, q, n) == InodeOf[f] = InodeOf[g] /\ p = q

\* Within one inode, the ranges have a byte in common.
Overlaps(f, g, p, q, n) ==
    /\ InodeOf[f] = InodeOf[g]
    /\ size_t(q + n) > size_t(p) /\ size_t(q) < size_t(p + n)

\* The count to copy from p to q, shortened to the end of the source, or -1.
generic_copy_file_checks(f, g, p, q, n) ==
    LET size_in == i_size[InodeOf[f]]
        toEof == IF p >= size_in THEN 0 ELSE Least(n, size_t(size_in - p))
        c == generic_write_check_limits(g, q, toEof) IN
    IF \/ size_t(p) + n >= LOFF_MOD \/ size_t(q) + n >= LOFF_MOD
       \/ g \in APPEND \/ c = -1
       \/ Overlaps(f, g, p, q, size_t(c))
    THEN -1 ELSE size_t(c)

-----------------------------------------------------------------------------
(***************************************************************************)
(* Locks, and the way out of a call.                                       *)
(***************************************************************************)

\* fdget_pos of a file with FMODE_ATOMIC_POS (external).
fdget_pos(t, f) ==
    IF f \in ATOMIC_POS
    THEN lock[f] = NULL /\ lock' = [lock EXCEPT ![f] = t]
    ELSE UNCHANGED lock

fdput_pos(t) ==
    /\ pc[t] \in {"out", "done"}
    /\ lock' = [l \in Locks |-> IF lock[l] = t THEN NULL ELSE lock[l]]
    /\ Begin(t, NULL, "idle")
    /\ UNCHANGED <<f_pos, i_size, pos, out_pos, count>>

-----------------------------------------------------------------------------
(***************************************************************************)
(* lseek.                                                                  *)
(***************************************************************************)

Supported(f) ==
    CASE Method[f] = "fixed_size"  -> {"SET", "CUR", "END"}
      [] Method[f] = "no_seek_end" -> {"SET", "CUR"}
      [] OTHER -> Whences

\* The size of the device is s_maxbytes.
Eof(f) ==
    CASE Method[f] = "fixed_size"  -> s_maxbytes
      [] Method[f] = "no_seek_end" -> 0
      [] OTHER -> i_size[InodeOf[f]]

MaxSize(f) == IF Method[f] \in {"default", "no_seek_end"} THEN LOFF_MAX ELSE s_maxbytes

\* What serialises a read, change and write of f_pos.
SeekLock(f) == IF Method[f] = "default" THEN InodeOf[f] ELSE f_lock(f)

ksys_lseek(t, q) ==
    /\ pc[t] = "idle" /\ q.op = "lseek"
    /\ fdget_pos(t, q.f)
    /\ Begin(t, q, IF q.whence \notin Supported(q.f) THEN "out"
                   ELSE IF q.whence = "CUR" THEN "cur" ELSE "seek")
    /\ UNCHANGED <<f_pos, i_size, pos, out_pos, count>>

\* default_llseek holds the inode lock over all of it.
Seek(t) ==
    LET q == call[t]
        beyond == (IF Method[q.f] = "default" THEN q.off ELSE size_t(q.off)) >= Eof(q.f)
        offset == CASE q.whence = "END" -> loff_t(q.off + Eof(q.f))
                    [] q.whence = "HOLE" -> Eof(q.f)
                    [] OTHER -> q.off IN
    /\ pc[t] = "seek"
    /\ IF Method[q.f] = "default"
       THEN lock[InodeOf[q.f]] = NULL /\ lock' = [lock EXCEPT ![InodeOf[q.f]] = t]
       ELSE UNCHANGED lock
    /\ IF q.whence \in {"DATA", "HOLE"} /\ beyond
       THEN Goto(t, "out") /\ UNCHANGED pos
       ELSE Goto(t, "set") /\ pos' = [pos EXCEPT ![t] = offset]
    /\ UNCHANGED <<f_pos, i_size, call, out_pos, count>>

\* Faulty: without f_lock.
SeekCurUnlocked(t) ==
    LET q == call[t] IN
    /\ pc[t] = "cur"
    /\ Goto(t, "set")
    /\ pos' = [pos EXCEPT ![t] = loff_t(f_pos[q.f] + q.off)]
    /\ UNCHANGED <<f_pos, i_size, lock, call, out_pos, count>>

\* The position is read, and will be changed, under SeekLock.
SeekCur(t) ==
    LET q == call[t] IN
    /\ pc[t] = "cur"
    /\ lock[SeekLock(q.f)] = NULL \/ (q.off = 0 /\ Method[q.f] # "default")
    /\ IF q.off = 0
       THEN Goto(t, "out") /\ UNCHANGED <<lock, pos>>
       ELSE /\ Goto(t, "set")
            /\ lock' = [lock EXCEPT ![SeekLock(q.f)] = t]
            /\ pos' = [pos EXCEPT ![t] = loff_t(f_pos[q.f] + q.off)]
    /\ UNCHANGED <<f_pos, i_size, call, out_pos, count>>

ValidOffset(f, offset) == offset >= 0 /\ offset <= MaxSize(f)

\* vfs_setpos, and the locks of llseek are given back.
vfs_setpos(t) ==
    LET f == call[t].f IN
    /\ pc[t] = "set"
    /\ f_pos' = IF ValidOffset(f, pos[t]) THEN [f_pos EXCEPT ![f] = pos[t]] ELSE f_pos
    /\ lock' = IF lock[SeekLock(f)] = t THEN [lock EXCEPT ![SeekLock(f)] = NULL] ELSE lock
    /\ Leave(t, "done")
    /\ UNCHANGED <<i_size, call>>

-----------------------------------------------------------------------------
(***************************************************************************)
(* read, write, pread and pwrite.                                          *)
(***************************************************************************)

\* The file's lock is wanted and the position is copied, or the caller's is
\* taken; the area is verified, and a permission hook may refuse.
ksys_read(t, q) ==
    LET p == IF q.in_off THEN q.off ELSE f_pos[q.f] IN
    /\ pc[t] = "idle" /\ q.op \in {"read", "write"}
    /\ IF q.in_off THEN UNCHANGED lock ELSE fdget_pos(t, q.f)
    /\ \/ Begin(t, q, "out") /\ UNCHANGED <<pos, count>>
       \/ /\ rw_verify_area(p, q.count)
          /\ Begin(t, q, "transfer")
          /\ pos' = [pos EXCEPT ![t] = p]
          /\ count' = [count EXCEPT ![t] = Least(q.count, MAX_RW_COUNT)]
    /\ UNCHANGED <<f_pos, i_size, out_pos>>

\* What the file has from p on, up to n bytes.
Available(i, p, n) == Least(n, Greatest(0, i_size[i] - p))

\* read_iter may deliver less, or fail.
vfs_read(t) ==
    LET q == call[t] IN
    /\ pc[t] = "transfer" /\ q.op = "read"
    /\ \/ Leave(t, "out")
       \/ \E k \in 0 .. Available(InodeOf[q.f], pos[t], count[t]) :
            /\ Goto(t, "store") /\ pos' = [pos EXCEPT ![t] = @ + k]
            /\ UNCHANGED <<out_pos, count>>
    /\ UNCHANGED <<f_pos, lock, i_size, call>>

Grow(i, end) == i_size' = [i_size EXCEPT ![i] = Greatest(@, end)]

\* write_iter, under the inode lock: the position is the end of the file if
\* it was opened with O_APPEND, and the count is shortened to the limits.
vfs_write(t) ==
    LET q == call[t]
        i == InodeOf[q.f]
        p == IF q.f \in APPEND THEN i_size[i] ELSE pos[t] IN
    /\ pc[t] = "transfer" /\ q.op = "write" /\ lock[i] = NULL
    /\ \/ Leave(t, "out") /\ UNCHANGED i_size
       \/ count[t] = 0 /\ Goto(t, "store") /\ UNCHANGED <<pos, out_pos, count, i_size>>
       \/ \E k \in 1 .. generic_write_check_limits(q.f, p, count[t]) :
            /\ Grow(i, p + k)
            /\ Goto(t, "store") /\ pos' = [pos EXCEPT ![t] = p + k]
            /\ UNCHANGED <<out_pos, count>>
    /\ UNCHANGED <<f_pos, lock, call>>

\* Only a call that used the position stores it.
StorePos(t) ==
    LET q == call[t] IN
    /\ pc[t] = "store" /\ q.op \in {"read", "write"}
    /\ f_pos' = IF q.in_off THEN f_pos ELSE [f_pos EXCEPT ![q.f] = pos[t]]
    /\ Leave(t, "done")
    /\ UNCHANGED <<lock, i_size, call>>

-----------------------------------------------------------------------------
(***************************************************************************)
(* sendfile and copy_file_range, from f to g.                              *)
(***************************************************************************)

\* The offset of the source; sendfile verifies it.
do_sendfile(t, q) ==
    LET p == IF q.in_off THEN q.off ELSE f_pos[q.f] IN
    /\ pc[t] = "idle" /\ q.op \in {"sendfile", "sendfile64", "copy"}
    /\ \/ q.op # "copy" /\ Begin(t, q, "out") /\ UNCHANGED <<pos, count>>
       \/ /\ q.op = "copy" \/ rw_verify_area(p, q.count)
          /\ Begin(t, q, "second")
          /\ pos' = [pos EXCEPT ![t] = p]
          /\ count' = [count EXCEPT ![t] =
                         IF q.op = "copy" THEN q.count ELSE Least(q.count, MAX_RW_COUNT)]
    /\ UNCHANGED <<f_pos, i_size, lock, out_pos>>

\* The count, shortened so that the source position stays within max.
ClampToMax(p, n, max) == IF size_t(p + n) > max THEN max - p ELSE n

SendOut(t) ==
    LET q == call[t]
        o == f_pos[q.g]
        max == IF q.op = "sendfile" /\ q.in_off THEN MAX_NON_LFS ELSE s_maxbytes
        n == ClampToMax(pos[t], count[t], max) IN
    /\ pc[t] = "second" /\ q.op \in {"sendfile", "sendfile64"}
    /\ \/ Leave(t, "out")
       \/ /\ n > 0 /\ rw_verify_area(o, n)
          /\ Goto(t, "transfer")
          /\ out_pos' = [out_pos EXCEPT ![t] = o] /\ count' = [count EXCEPT ![t] = n]
          /\ UNCHANGED pos
    /\ UNCHANGED <<f_pos, i_size, lock, call>>

\* The offset of the target, and the checks of vfs_copy_file_range; some
\* depend on the file systems and may refuse.
copy_file_range(t) ==
    LET q == call[t]
        o == IF q.out_off THEN q.off_out ELSE f_pos[q.g]
        n == generic_copy_file_checks(q.f, q.g, pos[t], o, count[t]) IN
    /\ pc[t] = "second" /\ q.op = "copy"
    /\ \/ Leave(t, "out")
       \/ /\ n > 0 /\ rw_verify_area(pos[t], n) /\ rw_verify_area(o, n)
          /\ Goto(t, "transfer")
          /\ out_pos' = [out_pos EXCEPT ![t] = o]
          /\ count' = [count EXCEPT ![t] = Least(n, MAX_RW_COUNT)]
          /\ UNCHANGED pos
    /\ UNCHANGED <<f_pos, i_size, lock, call>>

\* do_splice_direct, or the file system's copy: what the source still has is
\* written under the lock of the target, within its limits.
Splice(t) ==
    LET q == call[t]
        n == Available(InodeOf[q.f], pos[t], count[t]) IN
    /\ pc[t] = "transfer" /\ q.op \in {"sendfile", "sendfile64", "copy"}
    /\ lock[InodeOf[q.g]] = NULL
    /\ \/ Leave(t, "out") /\ UNCHANGED i_size
       \/ /\ q.g \notin APPEND
          /\ \E k \in 1 .. generic_write_check_limits(q.g, out_pos[t], n) :
               /\ Grow(InodeOf[q.g], out_pos[t] + k)
               /\ pos' = [pos EXCEPT ![t] = @ + k]
               /\ out_pos' = [out_pos EXCEPT ![t] = @ + k]
          /\ Goto(t, "store")
          /\ UNCHANGED count
    /\ UNCHANGED <<f_pos, lock, call>>

\* sendfile stores the target's position first, copy_file_range the source's.
StoreFirst(t) ==
    LET q == call[t] IN
    /\ pc[t] = "store" /\ q.op \notin {"read", "write"}
    /\ f_pos' = IF q.op = "copy"
                THEN (IF q.in_off THEN f_pos ELSE [f_pos EXCEPT ![q.f] = pos[t]])
                ELSE [f_pos EXCEPT ![q.g] = out_pos[t]]
    /\ Goto(t, "store_second")
    /\ UNCHANGED <<lock, i_size, call, pos, out_pos, count>>

StoreSecond(t) ==
    LET q == call[t] IN
    /\ pc[t] = "store_second"
    /\ f_pos' = IF q.op = "copy"
                THEN (IF q.out_off THEN f_pos ELSE [f_pos EXCEPT ![q.g] = out_pos[t]])
                ELSE (IF q.in_off THEN f_pos ELSE [f_pos EXCEPT ![q.f] = pos[t]])
    /\ Leave(t, "done")
    /\ UNCHANGED <<lock, i_size, call>>

-----------------------------------------------------------------------------
\* do_truncate, under the inode lock (external).
Truncate(i) ==
    /\ lock[i] = NULL
    /\ i_size' = [i_size EXCEPT ![i] = 0]
    /\ UNCHANGED <<f_pos, lock, pc, call, pos, out_pos, count>>

Next ==
    \/ \E t \in Tasks :
         \/ \E q \in Calls : ksys_lseek(t, q) \/ ksys_read(t, q) \/ do_sendfile(t, q)
         \/ Seek(t) \/ SeekCur(t) \/ vfs_setpos(t)
         \/ vfs_read(t) \/ vfs_write(t) \/ StorePos(t)
         \/ SendOut(t) \/ copy_file_range(t) \/ Splice(t)
         \/ StoreFirst(t) \/ StoreSecond(t) \/ fdput_pos(t)
    \/ \E i \in Inodes : Truncate(i)

Spec == Init /\ [][Next]_vars

-----------------------------------------------------------------------------
(***************************************************************************)
(* Properties.                                                             *)
(***************************************************************************)

\* Whatever calls race, and whatever they overflow, the position of a file
\* stays where its llseek could have put it.
PositionInRange == \A f \in Files : f_pos[f] \in 0 .. MaxSize(f)

\* No transfer starts before the file or ends beyond what loff_t can name, on
\* either side of a copy.
TransferInRange ==
    \A t \in Tasks : pc[t] = "transfer" =>
        /\ pos[t] >= 0 /\ pos[t] + count[t] <= LOFF_MAX
        /\ out_pos[t] >= 0 /\ out_pos[t] + count[t] <= LOFF_MAX

\* No call makes a file larger than the file system, or than RLIMIT_FSIZE,
\* allows: a larger file can only be one that was larger before.
SizeWithinLimits ==
    [][\A i \in Inodes : i_size'[i] > i_size[i] =>
         /\ i_size'[i] <= s_maxbytes
         /\ i_size'[i] <= RLIMIT_FSIZE]_vars

\* A copy within an inode never writes a byte it has yet to read.
CopyApart ==
    \A t \in Tasks : (pc[t] = "transfer" /\ call[t].op = "copy") =>
        \/ InodeOf[call[t].f] # InodeOf[call[t].g]
        \/ pos[t] + count[t] <= out_pos[t] \/ out_pos[t] + count[t] <= pos[t]

\* No offset that a racing or overflowing call computes is used outside the
\* range where it means something.
OffsetsInRange == PositionInRange /\ TransferInRange /\ CopyApart

\* The calls that take f_pos_lock.
Holds(t, f) ==
    /\ pc[t] \in {"transfer", "store"}
    /\ call[t].f = f /\ f \in ATOMIC_POS
    /\ call[t].op \in {"read", "write"} /\ ~call[t].in_off

Lockless(q) == q.op \in {"sendfile", "sendfile64", "copy"}

\* While a read or write is under way nobody else's read, write or seek moves
\* the position it will replace: no move is lost, and no byte is delivered to
\* two readers.  Only sendfile and copy_file_range can come between.
PositionKept ==
    [][\A t \in Tasks, f \in Files : (Holds(t, f) /\ f_pos'[f] # f_pos[f]) =>
         \/ pc'[t] = "done"
         \/ \E u \in Tasks \ {t} : pc'[u] # pc[u] /\ Lockless(call[u])]_vars

\* "SEEK_CUR is synchronized against other SEEK_CURs", on any kind of file: of
\* two relative seeks neither is lost.
Moving(t, f) == pc[t] = "set" /\ call[t].f = f /\ call[t].whence = "CUR"
RelativeSeeksAdd ==
    [][\A t \in Tasks, f \in Files : (Moving(t, f) /\ Moving(t, f)' /\ f_pos'[f] # f_pos[f]) =>
         \A u \in Tasks \ {t} : ~(Moving(u, f) /\ pc'[u] # pc[u])]_vars

\* No step of one call undoes what another did to the position of a file, or
\* makes the file larger than it may be.
FileStepsSafe == SizeWithinLimits /\ PositionKept /\ RelativeSeeksAdd

=============================================================================
