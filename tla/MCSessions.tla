----------------------------- MODULE MCSessions -----------------------------
(***************************************************************************)
(* Families of processes (kernel/sys.c) for TLC: process groups and        *)
(* sessions, and subreapers in a tree with a nested pid namespace and in   *)
(* one without. The components share no state, so that exploring them one  *)
(* at a time in one run loses nothing: at the start one is chosen to move, *)
(* and the others stay as they are.                                        *)
(***************************************************************************)
EXTENDS ProcessGroups, TLC

NumberSymmetry == Permutations(Pids \ {init})

VARIABLE component   \* the one that moves

\* The value of the variables of the others.
Still == "still"

VARIABLES
    m_real_parent, m_signal, m_pc, m_arg2, m_byte, m_child, m_leader, m_seen
marksVars == <<m_real_parent, m_signal, m_pc, m_arg2, m_byte, m_child, m_leader, m_seen>>
marksIdle ==
    /\ m_real_parent = Still /\ m_signal = Still /\ m_pc = Still
    /\ m_arg2 = Still /\ m_byte = Still /\ m_child = Still /\ m_leader = Still
    /\ m_seen = Still
S == INSTANCE Subreaper WITH
    Procs <- {1, 2, 3, 4}, NsInits <- {4}, Callers <- {1},
    Overlapping <- FALSE,
    real_parent <- m_real_parent, signal <- m_signal, pc <- m_pc,
    arg2 <- m_arg2, byte <- m_byte, child <- m_child, leader <- m_leader,
    seen <- m_seen

VARIABLES
    a_real_parent, a_signal, a_pc, a_arg2, a_byte, a_child, a_leader, a_seen
adoptionVars == <<a_real_parent, a_signal, a_pc, a_arg2, a_byte, a_child, a_leader, a_seen>>
A == INSTANCE Subreaper WITH
    Procs <- {1, 2, 3, 4}, NsInits <- {}, Callers <- {1, 3},
    Overlapping <- FALSE,
    real_parent <- a_real_parent, signal <- a_signal, pc <- a_pc,
    arg2 <- a_arg2, byte <- a_byte, child <- a_child, leader <- a_leader,
    seen <- a_seen

-----------------------------------------------------------------------------
Components == {"groups", "marks", "adoption"}
allVars == <<component, vars, marksVars, adoptionVars>>

ASSUME InstancesAssumption ==
    /\ S!SubreaperAssumption
    /\ A!SubreaperAssumption

\* Every component is in its initial state, and one of them will move.
MCInit ==
    /\ component \in Components
    /\ Init
    /\ component = "marks" => S!Init
    /\ component # "marks" => marksIdle
    /\ A!Init

MCNext ==
    /\ UNCHANGED component
    /\ \/ component = "groups" /\ Next /\ UNCHANGED <<marksVars, adoptionVars>>
       \/ component = "marks" /\ S!Next /\ UNCHANGED <<vars, adoptionVars>>
       \/ component = "adoption" /\ A!Next /\ UNCHANGED <<vars, marksVars>>

MCSpec == MCInit /\ [][MCNext]_allVars

-----------------------------------------------------------------------------
(***************************************************************************)
(* Properties of the instances.                                            *)
(***************************************************************************)

\* "If task has has_child_subreaper - all its descendants already have these
\* flag too" (propagate_has_child_subreaper): while no walk is under way, the
\* children of a marked process, and of a subreaper whose prctl has returned,
\* are marked.
DescendantsMarked ==
    /\ component = "marks" => S!DescendantsMarked
    /\ component = "adoption" => A!DescendantsMarked

\* What the flag is for: the orphans of an exiting process go to the nearest
\* subreaper among its ancestors, if that one's prctl has returned.
AdoptedByNearest == A!AdoptedByNearest

\* No step reads the last answer of a call on process groups.
AllButRet == <<component, task, tgid, real_parent, pgrp, session, leader, noexec,
               marksVars, adoptionVars>>

=============================================================================
