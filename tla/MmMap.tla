-------------------------------- MODULE MmMap --------------------------------
(***************************************************************************)
(* prctl on the memory descriptor (kernel/sys.c): PR_SET_MM sets the       *)
(* boundaries of code, data, heap, arguments and environment, all at once  *)
(* from a map or one at a time, and the auxiliary vector; PR_SET_MDWE sets *)
(* its two flags.  The threads of a process share the descriptor and call  *)
(* at the same time; brk moves the end of the heap meanwhile.              *)
(***************************************************************************)
EXTENDS Integers

CONSTANTS
    Callers,
    Ops,                      \* what callers do, of "map", "one", "auxv", "mdwe"
    Pairs,                    \* the pairs of boundaries, of "code", "data", "brk", "arg", "env"
    mmap_min_addr, TASK_SIZE, \* addresses are from the first up to before the second
    RLIMIT_DATA,
    Maps,                     \* the maps that callers give
    Addrs,                    \* the addresses that callers give
    AUXV_SIZE                 \* words of saved_auxv, a multiple of two

\* What an instance gives the constants.
MmMapAssumption ==
    /\ Ops \subseteq {"map", "one", "auxv", "mdwe"}
    /\ Pairs \subseteq {"code", "data", "brk", "arg", "env"} /\ {"code", "brk"} \subseteq Pairs
    /\ mmap_min_addr \in Nat /\ TASK_SIZE \in Nat /\ RLIMIT_DATA \in Nat
    /\ Addrs \subseteq Nat /\ Maps \subseteq [Pairs -> [lo : Addrs, hi : Addrs]]
    /\ AUXV_SIZE \in Nat /\ AUXV_SIZE >= 2

Nobody == "nobody"
Ends == {"lo", "hi"}
Words == 1 .. AUXV_SIZE
Unset == [p \in Pairs |-> [lo |-> mmap_min_addr, hi |-> mmap_min_addr + 1]]

VARIABLES
    mm,           \* mm->start_code, mm->end_code, ...: a pair [lo, hi] each
    saved_auxv,   \* 0 is AT_NULL
    mdwe,         \* of "REFUSE_EXEC_GAIN" and "NO_INHERIT", those set in mm->flags
    readers,      \* who holds mmap_lock for reading
    arg_lock,     \* who holds it
    pc, call,
    prctl_map,    \* each caller's copy of the map
    todo,         \* pairs it has still to write, or words of saved_auxv
    \* history
    serial        \* the map if each change happened at once when its lock was taken

vars == <<mm, saved_auxv, mdwe, readers, arg_lock, pc, call, prctl_map, todo, serial>>

Init ==
    /\ mm \in {m \in Maps : m["code"].lo < m["code"].hi /\ \A p \in Pairs : m[p].lo <= m[p].hi}
    /\ serial = mm
    /\ saved_auxv = [w \in Words |-> IF w < AUXV_SIZE - 1 THEN 1 ELSE 0]
    /\ mdwe = {}
    /\ readers = {} /\ arg_lock = Nobody
    /\ pc = [c \in Callers |-> "idle"]
    /\ call = [c \in Callers |-> [op |-> "none"]]
    /\ prctl_map = [c \in Callers |-> Unset]
    /\ todo = [c \in Callers |-> {}]

-----------------------------------------------------------------------------
Size(m, p) == IF p \in Pairs THEN m[p].hi - m[p].lo ELSE 0

validate_prctl_map_addr(m) ==
    /\ \A p \in Pairs : {m[p].lo, m[p].hi} \subseteq mmap_min_addr .. TASK_SIZE - 1
    /\ m["code"].lo < m["code"].hi
    /\ \A p \in Pairs : m[p].lo <= m[p].hi
    /\ Size(m, "brk") + Size(m, "data") <= RLIMIT_DATA

Move(c, to) == pc' = [pc EXCEPT ![c] = to]

\* A call ends; one that is refused, with -EPERM, -EINVAL or -EFAULT, has
\* changed nothing.
Return(c) ==
    /\ Move(c, "idle")
    /\ call' = [call EXCEPT ![c] = [op |-> "none"]]
    /\ prctl_map' = [prctl_map EXCEPT ![c] = Unset]

\* PR_SET_MM_MAP, up to the locks.  Before them come also the copy of the
\* auxiliary vector and the change of the executable.
prctl_set_mm_map(c, m, auxv) ==
    /\ pc[c] = "idle" /\ "map" \in Ops
    /\ validate_prctl_map_addr(m)
    /\ call' = [call EXCEPT ![c] = [op |-> "map", auxv |-> auxv]]
    /\ prctl_map' = [prctl_map EXCEPT ![c] = m]
    /\ Move(c, "lock")
    /\ UNCHANGED <<mm, saved_auxv, mdwe, readers, arg_lock, todo, serial>>

\* PR_SET_MM with one boundary.
prctl_set_mm(c, p, end, addr) ==
    /\ pc[c] = "idle" /\ "one" \in Ops
    /\ addr \in mmap_min_addr .. TASK_SIZE - 1
    /\ call' = [call EXCEPT ![c] = [op |-> "one", pair |-> p, end |-> end, addr |-> addr]]
    /\ Move(c, "lock")
    /\ UNCHANGED <<mm, saved_auxv, mdwe, readers, arg_lock, prctl_map, todo, serial>>

\* Faulty: the spinlock alone.
LockArgOnly(c) ==
    /\ pc[c] = "lock" /\ arg_lock = Nobody
    /\ arg_lock' = c
    /\ Move(c, IF call[c].op = "map" THEN "decide" ELSE "copy")
    /\ UNCHANGED <<mm, saved_auxv, mdwe, readers, call, prctl_map, todo, serial>>

\* mmap_read_lock, then the spinlock.
Lock(c) ==
    /\ pc[c] = "lock" /\ arg_lock = Nobody
    /\ readers' = readers \cup {c}
    /\ arg_lock' = c
    /\ Move(c, IF call[c].op = "map" THEN "decide" ELSE "copy")
    /\ UNCHANGED <<mm, saved_auxv, mdwe, call, prctl_map, todo, serial>>

CopyMap(c) ==
    /\ pc[c] = "copy" /\ Move(c, "decide")
    /\ prctl_map' = [prctl_map EXCEPT ![c] = [mm EXCEPT ![call[c].pair][call[c].end] = call[c].addr]]
    /\ UNCHANGED <<mm, saved_auxv, mdwe, readers, arg_lock, call, todo, serial>>

\* Validation of the changed copy, and for arguments and environment a vma at
\* the address; a given map was validated before.
Decide(c) ==
    /\ pc[c] = "decide"
    /\ \/ /\ call[c].op = "one"
          /\ ~validate_prctl_map_addr(prctl_map[c]) \/ call[c].pair \in {"arg", "env"}
          /\ Move(c, "unlock")
          /\ UNCHANGED <<todo, serial>>
       \/ /\ call[c].op = "map" \/ validate_prctl_map_addr(prctl_map[c])
          /\ todo' = [todo EXCEPT ![c] = Pairs]
          /\ serial' = IF call[c].op = "map" THEN prctl_map[c]
                       ELSE [serial EXCEPT ![call[c].pair][call[c].end] = call[c].addr]
          /\ Move(c, "write")
    /\ UNCHANGED <<mm, saved_auxv, mdwe, readers, arg_lock, call, prctl_map>>

WritePair(c, p) ==
    /\ pc[c] = "write" /\ todo[c] # {} /\ p = CHOOSE q \in todo[c] : TRUE
    /\ mm' = [mm EXCEPT ![p] = prctl_map[c][p]]
    /\ todo' = [todo EXCEPT ![c] = @ \ {p}]
    /\ Move(c, IF todo[c] = {p} THEN "unlock" ELSE "write")
    /\ UNCHANGED <<saved_auxv, mdwe, readers, arg_lock, call, prctl_map, serial>>

\* The spinlock is released; a map's auxiliary vector is still to be written
\* under mmap_lock.
Unlock(c) ==
    /\ pc[c] = "unlock"
    /\ arg_lock' = Nobody
    /\ IF call[c].op = "map" /\ call[c].auxv
       THEN /\ Move(c, "auxv") /\ todo' = [todo EXCEPT ![c] = Words]
            /\ UNCHANGED <<readers, call, prctl_map>>
       ELSE Return(c) /\ readers' = readers \ {c} /\ UNCHANGED todo
    /\ UNCHANGED <<mm, saved_auxv, mdwe, serial>>

\* What a word of the copy of a caller's vector can be.
user_auxv(w) == IF w >= AUXV_SIZE - 1 THEN {0} ELSE {0, 1}

\* prctl_set_auxv: only the words given, under the caller's own task lock.
prctl_set_auxv(c, len) ==
    /\ pc[c] = "idle" /\ "auxv" \in Ops
    /\ call' = [call EXCEPT ![c] = [op |-> "auxv"]]
    /\ Move(c, "auxv")
    /\ todo' = [todo EXCEPT ![c] = 1 .. len]
    /\ UNCHANGED <<mm, saved_auxv, mdwe, readers, arg_lock, prctl_map, serial>>

\* memcpy, word by word.
WriteAuxv(c, w) ==
    /\ pc[c] = "auxv" /\ w \in todo[c] /\ \A x \in todo[c] : w <= x
    /\ \E v \in user_auxv(w) : saved_auxv' = [saved_auxv EXCEPT ![w] = v]
    /\ todo' = [todo EXCEPT ![c] = @ \ {w}]
    /\ IF todo[c] = {w} THEN Return(c) /\ readers' = readers \ {c}
                        ELSE UNCHANGED <<pc, call, prctl_map, readers>>
    /\ UNCHANGED <<mm, mdwe, arg_lock, serial>>

mdwe_bits(bits) == "NO_INHERIT" \in bits => "REFUSE_EXEC_GAIN" \in bits

\* PR_SET_MDWE: the flags are read, compared, and set one after the other.
prctl_set_mdwe(c, bits) ==
    /\ pc[c] = "idle" /\ "mdwe" \in Ops
    /\ call' = [call EXCEPT ![c] = [op |-> "mdwe", bits |-> bits]]
    /\ mdwe_bits(bits) /\ mdwe \in {{}, bits}
    /\ Move(c, "mdwe")
    /\ UNCHANGED <<mm, saved_auxv, mdwe, readers, arg_lock, prctl_map, todo, serial>>

SetMdwe(c) ==
    /\ \/ /\ pc[c] = "mdwe" /\ Move(c, "mdwe2")
          /\ mdwe' = mdwe \cup (call[c].bits \cap {"NO_INHERIT"})
          /\ UNCHANGED <<call, prctl_map>>
       \/ /\ pc[c] = "mdwe2" /\ Return(c)
          /\ mdwe' = mdwe \cup (call[c].bits \cap {"REFUSE_EXEC_GAIN"})
    /\ UNCHANGED <<mm, saved_auxv, readers, arg_lock, todo, serial>>

\* brk (external), under mmap_lock for writing.
sys_brk(addr) ==
    /\ readers = {}
    /\ validate_prctl_map_addr([mm EXCEPT !["brk"].hi = addr])
    /\ mm' = [mm EXCEPT !["brk"].hi = addr]
    /\ serial' = [serial EXCEPT !["brk"].hi = addr]
    /\ UNCHANGED <<saved_auxv, mdwe, readers, arg_lock, pc, call, prctl_map, todo>>

Next ==
    \/ \E c \in Callers :
         \/ \E m \in Maps, a \in BOOLEAN : prctl_set_mm_map(c, m, a)
         \/ \E p \in Pairs, e \in Ends, a \in Addrs : prctl_set_mm(c, p, e, a)
         \/ \E n \in 1 .. AUXV_SIZE : prctl_set_auxv(c, n)
         \/ \E b \in SUBSET {"REFUSE_EXEC_GAIN", "NO_INHERIT"} : prctl_set_mdwe(c, b)
         \/ \E p \in Pairs : WritePair(c, p)
         \/ \E w \in Words : WriteAuxv(c, w)
         \/ Lock(c) \/ CopyMap(c) \/ Decide(c) \/ Unlock(c) \/ SetMdwe(c)
    \/ \E a \in Addrs : sys_brk(a)

Spec == Init /\ [][Next]_vars

-----------------------------------------------------------------------------
(***************************************************************************)
(* Properties.                                                             *)
(***************************************************************************)

\* "arg_lock protects concurrent updates but we still need mmap_lock for read
\* to exclude races with sys_brk": whole maps, single boundaries and brk leave
\* what they would if each had been alone; no update is lost or half done.
UpdatesSerialise == arg_lock = Nobody => mm = serial

\* validate_prctl_map_addr: whatever is changed as a whole or one at a time,
\* with brk moving meanwhile, a reader under arg_lock sees the pairs of
\* boundaries in order.
PairsOrdered ==
    arg_lock = Nobody =>
        mm["code"].lo < mm["code"].hi /\ \A p \in Pairs : mm[p].lo <= mm[p].hi

\* "Make sure the last entry is always AT_NULL", though two threads write the
\* vector word by word at the same time, and shorter ones over longer ones.
AuxvEndsNull == saved_auxv[AUXV_SIZE - 1] = 0 /\ saved_auxv[AUXV_SIZE] = 0

\* "NO_INHERIT only makes sense with REFUSE_EXEC_GAIN": when no call is under
\* way, whatever calls raced.
NoInheritOnlyWithRefuse ==
    (\A c \in Callers : pc[c] \notin {"mdwe", "mdwe2"}) =>
        ("NO_INHERIT" \in mdwe => "REFUSE_EXEC_GAIN" \in mdwe)

\* Threads that change the memory descriptor at once, and brk, leave it as
\* some order of the whole calls would.
MapConsistent ==
    /\ UpdatesSerialise
    /\ PairsOrdered
    /\ AuxvEndsNull
    /\ NoInheritOnlyWithRefuse

=============================================================================
