------------------------------ MODULE Subreaper ------------------------------
(***************************************************************************)
(* PR_SET_CHILD_SUBREAPER (kernel/sys.c) and what fork and the process     *)
(* tree walk (kernel/fork.c) do for it.  A process that is a subreaper     *)
(* adopts the orphans among its descendants; so that an exiting process    *)
(* need not look for one in vain, every descendant carries the flag        *)
(* has_child_subreaper.                                                    *)
(*                                                                         *)
(* is_child_subreaper and has_child_subreaper are adjacent one-bit fields: *)
(* writing one loads the byte of both and stores it, without a lock that   *)
(* the two writers share.                                                  *)
(***************************************************************************)
EXTENDS Integers, FiniteSets, FiniteSetsExt

CONSTANTS
    Procs,         \* processes besides the first
    NsInits,       \* those that are created as the first of a pid namespace
    Callers,       \* those that call prctl
    Overlapping    \* may two calls be under way at once

\* What an instance gives the constants.
SubreaperAssumption ==
    /\ Procs \subseteq Nat \ {0}
    /\ NsInits \subseteq Procs /\ Callers \subseteq Procs
    /\ Overlapping \in BOOLEAN

child_reaper == 0          \* child_reaper of the first namespace; it never exits
None == -1

VARIABLES
    real_parent,   \* of each process that exists, or None
    signal,        \* [is, has]: its is_child_subreaper and has_child_subreaper
    pc,
    arg2,          \* whether a call sets or clears the flag
    byte,          \* the byte a caller has loaded
    child,         \* the child it marks
    leader, seen   \* where its walk is, and which children it has visited

local == <<pc, arg2, byte, child, leader, seen>>
vars == <<real_parent, signal, local>>

Alive == {p \in Procs : real_parent[p] # None}
Children(p) == {q \in Alive : real_parent[q] = p}
PCs == {"idle", "store", "lock", "visit", "mark"}

\* Who holds tasklist_lock for reading.
Readers == {c \in Callers : pc[c] \in {"visit", "mark"}}

TypeOK ==
    /\ real_parent \in [Procs -> Procs \cup {child_reaper, None}]
    /\ signal \in [Procs \cup {child_reaper} -> [is : BOOLEAN, has : BOOLEAN]]
    /\ pc \in [Callers -> PCs]
    /\ arg2 \in [Callers -> BOOLEAN]
    /\ byte \in [Callers -> [is : BOOLEAN, has : BOOLEAN]]
    /\ child \in [Callers -> Procs] /\ leader \in [Callers -> Procs]
    /\ seen \in [Callers -> SUBSET Procs]

Unmarked == [is |-> FALSE, has |-> FALSE]

Init ==
    /\ real_parent = [p \in Procs |-> None]
    /\ signal = [p \in Procs \cup {child_reaper} |-> Unmarked]
    /\ pc = [c \in Callers |-> "idle"]
    /\ arg2 = [c \in Callers |-> FALSE]
    /\ byte = [c \in Callers |-> Unmarked]
    /\ child = [c \in Callers |-> c]
    /\ leader = [c \in Callers |-> c]
    /\ seen = [c \in Callers |-> {}]

-----------------------------------------------------------------------------
(***************************************************************************)
(* copy_process: the new process is linked and marked under tasklist_lock. *)
(***************************************************************************)

\* Faulty: a new child of a subreaper is not marked.
InheritHas(p) == signal[p].has

Inherit(p) == signal[p].has \/ signal[p].is

copy_process(p, q) ==
    /\ Readers = {}
    /\ p \in Alive \cup {child_reaper} /\ q \in Procs \ Alive
    /\ real_parent' = [real_parent EXCEPT ![q] = p]
    /\ signal' = [signal EXCEPT ![q] = [is |-> FALSE, has |-> Inherit(p)]]
    /\ UNCHANGED local

-----------------------------------------------------------------------------
(***************************************************************************)
(* prctl.                                                                  *)
(***************************************************************************)
PrctlLoad(c, on) ==
    /\ c \in Alive /\ pc[c] = "idle"
    /\ Overlapping \/ \A d \in Callers : pc[d] = "idle"
    /\ pc' = [pc EXCEPT ![c] = "store"]
    /\ arg2' = [arg2 EXCEPT ![c] = on]
    /\ byte' = [byte EXCEPT ![c] = signal[c]]
    /\ UNCHANGED <<real_parent, signal, child, leader, seen>>

PrctlStore(c) ==
    /\ pc[c] = "store"
    /\ signal' = [signal EXCEPT ![c] = [is |-> arg2[c], has |-> byte[c].has]]
    /\ pc' = [pc EXCEPT ![c] = IF arg2[c] THEN "lock" ELSE "idle"]
    /\ UNCHANGED <<real_parent, arg2, byte, child, leader, seen>>

WalkLock(c) ==
    /\ pc[c] = "lock"
    /\ pc' = [pc EXCEPT ![c] = "visit"]
    /\ leader' = [leader EXCEPT ![c] = c]
    /\ UNCHANGED <<real_parent, signal, arg2, byte, child, seen>>

\* propagate_has_child_subreaper for a child: skip it, or go on to mark it.
WalkVisit(c, q) ==
    /\ pc[c] = "visit" /\ q \in Children(leader[c]) \ seen[c]
    /\ IF signal[q].has \/ q \in NsInits
       THEN seen' = [seen EXCEPT ![c] = @ \cup {q}] /\ UNCHANGED <<pc, byte, child>>
       ELSE /\ pc' = [pc EXCEPT ![c] = "mark"]
            /\ byte' = [byte EXCEPT ![c] = signal[q]]
            /\ child' = [child EXCEPT ![c] = q]
            /\ UNCHANGED seen
    /\ UNCHANGED <<real_parent, signal, arg2, leader>>

\* Faulty: the walk stays on the level of the children.
WalkMarkFlat(c) ==
    /\ pc[c] = "mark"
    /\ signal' = [signal EXCEPT ![child[c]] = [is |-> byte[c].is, has |-> TRUE]]
    /\ seen' = [seen EXCEPT ![c] = @ \cup {child[c]}]
    /\ pc' = [pc EXCEPT ![c] = "visit"]
    /\ UNCHANGED <<real_parent, arg2, byte, child, leader>>

WalkMark(c) ==
    /\ pc[c] = "mark"
    /\ signal' = [signal EXCEPT ![child[c]] = [is |-> byte[c].is, has |-> TRUE]]
    /\ seen' = [seen EXCEPT ![c] = @ \cup {child[c]}]
    /\ leader' = [leader EXCEPT ![c] = child[c]]
    /\ pc' = [pc EXCEPT ![c] = "visit"]
    /\ UNCHANGED <<real_parent, arg2, byte, child>>

\* No child is left: back to the parent, or the end of the walk.
WalkUp(c) ==
    /\ pc[c] = "visit" /\ Children(leader[c]) \subseteq seen[c]
    /\ IF leader[c] # c
       THEN leader' = [leader EXCEPT ![c] = real_parent[@]]
            /\ UNCHANGED <<pc, arg2, byte, child, seen>>
       ELSE /\ pc' = [pc EXCEPT ![c] = "idle"]
            /\ arg2' = [arg2 EXCEPT ![c] = FALSE]
            /\ byte' = [byte EXCEPT ![c] = Unmarked]
            /\ child' = [child EXCEPT ![c] = c]
            /\ seen' = [seen EXCEPT ![c] = {}]
            /\ UNCHANGED leader
    /\ UNCHANGED <<real_parent, signal>>

-----------------------------------------------------------------------------
(***************************************************************************)
(* exit (external): the children of an exiting process go to the nearest   *)
(* ancestor of its namespace that is a subreaper, looked for only when the *)
(* flag says so, and else to the first process of the namespace.           *)
(***************************************************************************)
Nodes == Procs \cup {child_reaper, None}
Up == [p \in Nodes |-> IF p \in Procs \ NsInits THEN real_parent[p] ELSE None]

\* Anc[n][p] is the n-th ancestor of p in its namespace, or None.
Anc[n \in 0 .. Cardinality(Procs)] ==
    IF n = 0 THEN [p \in Nodes |-> p] ELSE [p \in Nodes |-> Up[Anc[n - 1][p]]]

Depths(p) == {n \in 1 .. Cardinality(Procs) : Anc[n][p] # None}
Subreapers(p) == {n \in Depths(p) : signal[Anc[n][p]].is}
Nearest(p) == Anc[Min(Subreapers(p))][p]

find_new_reaper(p) ==
    IF signal[p].has /\ Subreapers(p) # {} THEN Nearest(p) ELSE Anc[Max(Depths(p))][p]

exit(p) ==
    /\ Readers = {}
    /\ p \in Alive /\ (p \in Callers => pc[p] = "idle")
    /\ p \in NsInits => Children(p) = {}
    /\ real_parent' = [q \in Procs |->
         IF q = p THEN None
         ELSE IF q \in Children(p) THEN find_new_reaper(p) ELSE real_parent[q]]
    /\ signal' = [signal EXCEPT ![p] = Unmarked]
    /\ UNCHANGED local

Next ==
    \/ \E p \in Procs \cup {child_reaper}, q \in Procs : copy_process(p, q)
    \/ \E p \in Procs : exit(p)
    \/ \E c \in Callers :
         \/ \E on \in BOOLEAN : PrctlLoad(c, on)
         \/ \E q \in Procs : WalkVisit(c, q)
         \/ PrctlStore(c) \/ WalkLock(c) \/ WalkMark(c) \/ WalkUp(c)

Spec == Init /\ [][Next]_vars

-----------------------------------------------------------------------------
(***************************************************************************)
(* Properties.                                                             *)
(***************************************************************************)

\* "If task has has_child_subreaper - all its descendants already have these
\* flag too": while no walk is under way, the children of a marked process and
\* those of a subreaper whose call has returned are marked, except for the
\* first processes of namespaces.  The walk relies on it when it skips.
DescendantsMarked ==
    Readers = {} =>
        \A q \in Alive \ NsInits : LET p == real_parent[q] IN
            \/ signal[q].has
            \/ ~signal[p].has /\ (signal[p].is => p \in Callers /\ pc[p] # "idle")

\* What the flag is for: the orphans of an exiting process go to the nearest
\* subreaper among its ancestors, if that one's call has returned.
AdoptedByNearest ==
    [][\A p \in Procs :
         (p \in Alive /\ p \notin Alive' /\ p \notin NsInits /\ Subreapers(p) # {}) =>
             \/ Nearest(p) \in Callers /\ pc[Nearest(p)] # "idle"
             \/ \A q \in Children(p) : real_parent'[q] = Nearest(p)]_vars

=============================================================================
