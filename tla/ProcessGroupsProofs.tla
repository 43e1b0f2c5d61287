------------------------- MODULE ProcessGroupsProofs -------------------------
(***************************************************************************)
(* That process groups nest in sessions, for any set of task numbers.      *)
(***************************************************************************)
EXTENDS ProcessGroups, TLAPS

\* The types without the last answer, which no step reads.
Typed ==
    /\ task \in [Pids -> {"none", "live", "zombie"}]
    /\ tgid \in [Pids -> Pids]
    /\ real_parent \in [Pids -> Pids]
    /\ pgrp \in [Pids -> Pids \cup {0}]
    /\ session \in [Pids -> Pids \cup {0}]
    /\ leader \in [Pids -> BOOLEAN]
    /\ noexec \in [Pids -> BOOLEAN]

\* Every task has a process, and a process that waits to be waited for has no
\* other tasks: what Wait removes leaves no thread without its process.
Threads ==
    /\ \A t \in Pids : Exists(t) => Process(tgid[t])
    /\ \A p \in Pids : task[p] = "zombie" =>
         tgid[p] = p /\ \A q \in Pids : Exists(q) /\ tgid[q] = p => q = p

IInv == Typed /\ Threads /\ SessionsNest

USE ProcessGroupsAssumption DEF EPERM, ESRCH, EACCES, EINVAL

LEMMA IInvInit == Init => IInv
<1> SUFFICES ASSUME Init PROVE IInv
  OBVIOUS
<1>1. Typed
  BY SMT DEF Init, Typed
<1>2. Threads
  BY SMT DEF Init, Threads, Process, Exists
<1>3. \A p \in Processes : p \in Pids /\ pgrp[p] = 0 /\ session[p] = 0 /\ leader[p] = FALSE
  BY DEF Init, Processes
<1>4. SessionsNest
  BY <1>3, SMT DEF SessionsNest, GroupInOneSession, SessionHasItsLeader, Processes
<1> QED
  BY <1>1, <1>2, <1>4 DEF IInv

\* Steps that neither make nor remove a process, and leave what processes have.
LEMMA Kept ==
    ASSUME SessionsNest, Processes' = Processes, UNCHANGED <<pgrp, session, leader>>
    PROVE  SessionsNest'
BY DEF SessionsNest, GroupInOneSession, SessionHasItsLeader

LEMMA SetsidStep ==
    ASSUME IInv, NEW t \in Pids, ksys_setsid(t)
    PROVE  IInv'
<1> DEFINE gl == tgid[t]
<1>1. Process(gl) /\ gl \in Pids
  BY DEF ksys_setsid, IInv, Typed, Threads, Exists
<1>2. UNCHANGED <<task, tgid, real_parent, noexec>> /\ Processes' = Processes
  BY DEF ksys_setsid, Return, Processes, Process, Exists
<1>3. CASE Return(EPERM)
  BY <1>3, <1>2, Kept, SMT DEF Return, IInv, Typed, Threads, Process, Exists
<1>4. CASE MaySetsid(gl) /\ leader' = [leader EXCEPT ![gl] = TRUE] /\ set_special_pids(gl)
  <2>1. Typed' /\ Threads'
    BY <1>1, <1>2, <1>4, SMT DEF IInv, Typed, Threads, set_special_pids, Process, Exists
  <2>2. \A p \in Processes : pgrp[p] # gl
    BY <1>4 DEF MaySetsid, Group
  <2>3. \A p \in Pids : p # gl => pgrp'[p] = pgrp[p] /\ session'[p] = session[p] /\ leader'[p] = leader[p]
    BY <1>1, <1>4, SMT DEF set_special_pids, IInv, Typed
  <2>4. pgrp'[gl] = gl /\ session'[gl] = gl /\ leader'[gl]
    BY <1>1, <1>4, SMT DEF set_special_pids, IInv, Typed
  <2>5. gl \in Processes /\ Processes \subseteq Pids
    BY <1>1 DEF Processes
  <2>6. GroupInOneSession'
    BY <1>2, <2>2, <2>3, <2>4, <2>5, SMT DEF IInv, SessionsNest, GroupInOneSession
  <2>7. SessionHasItsLeader'
    BY <1>2, <2>3, <2>4, <2>5, SMT DEF IInv, SessionsNest, SessionHasItsLeader
  <2> QED
    BY <2>1, <2>6, <2>7 DEF IInv, SessionsNest
<1> QED
  BY <1>3, <1>4 DEF ksys_setsid

LEMMA SetpgidStep ==
    ASSUME IInv, NEW t \in Pids, sys_setpgid(t)
    PROVE  IInv'
<1> DEFINE gl == tgid[t]
<1>1. gl \in Processes
  BY DEF sys_setpgid, IInv, Typed, Threads, Exists, Processes
<1>2. UNCHANGED <<task, tgid, real_parent, session, leader, noexec>> /\ Processes' = Processes
  BY DEF sys_setpgid, Return, Processes, Process, Exists
<1>3. CASE \E e : Return(e)
  BY <1>3, <1>2, Kept, SMT DEF Return, IInv, Typed, Threads, Process, Exists
<1>4. ASSUME NEW p \in Processes, NEW n \in Pids,
             Verdict(gl, p, n) = 0, pgrp' = [pgrp EXCEPT ![p] = n]
      PROVE  IInv'
  <2>1. p \in Pids /\ p # 0 /\ n # 0 /\ n # -1 /\ Processes \subseteq Pids
    BY DEF Processes
  <2>2. MayMove(gl, p) = 0 /\ ~leader[p] /\ GroupOK(gl, p, n)
    <3>1. MayMove(gl, p) = 0
      BY <1>4, <2>1, SMT DEF Verdict
    <3>2. LeaderStays(p) /\ GroupOK(gl, p, n)
      BY <1>4, <2>1, <3>1, SMT DEF Verdict
    <3> QED
      BY <3>1, <3>2 DEF LeaderStays
  <2>3. session[p] = session[gl]
    BY <2>2, SMT DEF MayMove
  <2>4. n = p \/ \E q \in Processes : pgrp[q] = n /\ session[q] = session[p]
    BY <2>2, <2>3 DEF GroupOK, Group
  <2>5. Typed' /\ Threads'
    BY <1>2, <1>4, <2>1, SMT DEF IInv, Typed, Threads, Process, Exists
  <2>6. pgrp'[p] = n /\ \A q \in Pids : q # p => pgrp'[q] = pgrp[q]
    BY <1>4, <2>1, SMT DEF IInv, Typed
  <2>7. GroupInOneSession'
    BY <1>2, <2>1, <2>4, <2>6, SMT DEF IInv, SessionsNest, GroupInOneSession
  <2>8. SessionHasItsLeader'
    BY <1>2, <2>1, <2>2, <2>6, SMT DEF IInv, SessionsNest, SessionHasItsLeader
  <2> QED
    BY <2>5, <2>7, <2>8 DEF IInv, SessionsNest
<1> QED
  BY <1>3, <1>4 DEF sys_setpgid

\* getpgid and getsid change nothing.
LEMMA AskStep ==
    ASSUME IInv, NEW v, Return(v)
    PROVE  IInv'
<1>1. Processes' = Processes
  BY DEF Return, Processes, Process, Exists
<1> QED
  BY <1>1, Kept, SMT DEF Return, IInv, Typed, Threads, Process, Exists

LEMMA ForkStep ==
    ASSUME IInv, NEW t \in Pids, NEW n \in Pids, Fork(t, n)
    PROVE  IInv'
<1> DEFINE gl == tgid[t]
<1>1. gl \in Processes /\ gl \in Pids
  BY DEF Fork, IInv, Typed, Threads, Exists, Processes
<1>2. /\ n \notin Processes /\ gl # n
      /\ \A p \in Processes : pgrp[p] # n /\ session[p] # n
  BY <1>1 DEF Fork, Free, Processes, Process
<1>3. Typed'
  BY <1>1, SMT DEF Fork, IInv, Typed
<1>4. /\ task'[n] = "live" /\ tgid'[n] = n /\ pgrp'[n] = pgrp[gl] /\ session'[n] = session[gl]
      /\ leader'[n] = FALSE
  BY SMT DEF Fork, IInv, Typed
<1>5. \A p \in Pids : p # n =>
        /\ task'[p] = task[p] /\ tgid'[p] = tgid[p] /\ pgrp'[p] = pgrp[p]
        /\ session'[p] = session[p] /\ leader'[p] = leader[p]
  BY SMT DEF Fork, IInv, Typed
<1>6. task[n] = "none"
  BY DEF Fork, Free, Exists
<1>7. Threads'
  <2>1. \A q \in Pids : Exists(q)' <=> Exists(q) \/ q = n
    BY <1>4, <1>5, SMT DEF Exists
  <2>2. \A q \in Pids : Exists(q) => q # n /\ tgid[q] # n /\ tgid'[q] = tgid[q]
    BY <1>5, <1>6, SMT DEF IInv, Typed, Threads, Process, Exists
  <2>3. \A q \in Pids : Process(q) => Process(q)'
    BY <2>1, <2>2 DEF Process
  <2>4. \A q \in Pids : Exists(q)' => Process(tgid[q])'
    BY <1>4, <2>1, <2>2, <2>3 DEF IInv, Threads, Typed, Process
  <2>5. ASSUME NEW p \in Pids, task'[p] = "zombie"
        PROVE  tgid'[p] = p /\ \A q \in Pids : Exists(q)' /\ tgid'[q] = p => q = p
    <3>1. p # n /\ task[p] = "zombie" /\ tgid'[p] = tgid[p]
      BY <1>4, <1>5, <2>5, SMT
    <3> QED
      BY <1>4, <2>1, <2>2, <3>1 DEF IInv, Threads
  <2> QED
    BY <2>4, <2>5 DEF Threads
<1>8. Processes' = Processes \cup {n}
  <2>1. \A p \in Pids : Process(p)' <=> Process(p) \/ p = n
    BY <1>4, <1>5, SMT DEF Process, Exists
  <2> QED
    BY <2>1 DEF Processes
<1>9. Processes \subseteq Pids
  BY DEF Processes
<1>10. GroupInOneSession'
  BY <1>1, <1>2, <1>4, <1>5, <1>8, <1>9, SMT DEF IInv, SessionsNest, GroupInOneSession
<1>11. SessionHasItsLeader'
  BY <1>1, <1>2, <1>4, <1>5, <1>8, <1>9, SMT DEF IInv, SessionsNest, SessionHasItsLeader
<1> QED
  BY <1>3, <1>7, <1>10, <1>11 DEF IInv, SessionsNest

LEMMA ThreadStep ==
    ASSUME IInv, NEW t \in Pids, NEW n \in Pids, Thread(t, n)
    PROVE  IInv'
<1>1. Process(tgid[t]) /\ tgid[t] \in Pids /\ task[n] = "none" /\ tgid[t] # n
  BY DEF Thread, Free, IInv, Typed, Threads, Process, Exists
<1>2. Typed'
  BY SMT DEF Thread, IInv, Typed
<1>3. task'[n] = "live" /\ tgid'[n] = tgid[t]
  BY SMT DEF Thread, IInv, Typed
<1>4. \A p \in Pids : p # n => task'[p] = task[p] /\ tgid'[p] = tgid[p]
  BY SMT DEF Thread, IInv, Typed
<1>5. task[tgid[t]] # "zombie"
  BY SMT DEF Thread, IInv, Typed, Threads, Exists
<1>6. Threads'
  BY <1>1, <1>3, <1>4, <1>5, SMT DEF IInv, Typed, Threads, Process, Exists
<1>7. Processes' = Processes
  BY <1>1, <1>3, <1>4, SMT DEF Processes, Process, Exists
<1> QED
  BY <1>2, <1>6, <1>7, Kept DEF IInv, Thread

\* What Exec and Exit do to the tasks of the caller's process.
LEMMA OthersGo ==
    ASSUME IInv, NEW t \in Pids, task[t] = "live", NEW state \in {"live", "zombie"},
           task' = [q \in Pids |-> IF q \in Others(t) THEN "none"
                                   ELSE IF q = tgid[t] THEN state ELSE task[q]],
           tgid' = [q \in Pids |-> IF q \in Others(t) THEN q ELSE tgid[q]]
    PROVE  Threads' /\ Processes' = Processes
<1> DEFINE gl == tgid[t]
<1>1. gl \in Pids /\ Process(gl) /\ gl \notin Others(t)
  BY DEF IInv, Typed, Threads, Exists, Others
<1>2. \A q \in Others(t) : q \in Pids /\ tgid[q] = gl /\ q # gl /\ task'[q] = "none"
  BY DEF Others
<1>3. task'[gl] = state /\ tgid'[gl] = gl
  BY <1>1 DEF Process
<1>4. \A q \in Pids : q \notin Others(t) /\ q # gl => task'[q] = task[q] /\ tgid'[q] = tgid[q]
  BY <1>1
<1>5. \A q \in Pids : q \notin Others(t) /\ q # gl => tgid[q] # gl
  BY DEF Others
<1>6. \A p \in Pids : Process(p)' <=> Process(p)
  BY <1>1, <1>2, <1>3, <1>4, SMT DEF Process, Exists
<1>7. Processes' = Processes
  BY <1>6 DEF Processes
<1>8. \A q \in Pids : Exists(q)' => q \notin Others(t)
  BY <1>2 DEF Exists
<1>9. ASSUME NEW q \in Pids, Exists(q)'
      PROVE  Process(tgid[q])'
  <2>1. CASE q = gl
    BY <1>1, <1>3, <1>6, <2>1
  <2>2. CASE q # gl
    <3>1. tgid'[q] = tgid[q] /\ Exists(q)
      BY <1>4, <1>8, <1>9, <2>2 DEF Exists
    <3>2. tgid[q] \in Pids /\ Process(tgid[q])
      BY <3>1 DEF IInv, Typed, Threads
    <3>3. Process(tgid'[q]) /\ tgid'[q] \in Pids
      BY <3>1, <3>2
    <3>4. /\ \A p \in Pids : Process(p) => task'[p] # "none" /\ tgid'[p] = p
      BY <1>6 DEF Process, Exists
    <3> QED
      BY <3>3, <3>4 DEF Process, Exists
  <2> QED
    BY <2>1, <2>2
<1>10. ASSUME NEW p \in Pids, task'[p] = "zombie"
       PROVE  tgid'[p] = p /\ \A q \in Pids : Exists(q)' /\ tgid'[q] = p => q = p
  <2>1. CASE p = gl
    BY <1>3, <1>4, <1>5, <1>8, <2>1
  <2>2. CASE p # gl
    <3>1. p \notin Others(t) /\ task[p] = "zombie" /\ tgid'[p] = tgid[p]
      BY <1>2, <1>4, <1>10, <2>2, SMT
    <3>2. tgid[p] = p /\ \A q \in Pids : Exists(q) /\ tgid[q] = p => q = p
      BY <3>1 DEF IInv, Threads
    <3>3. \A q \in Pids : Exists(q)' /\ q # gl => Exists(q) /\ tgid'[q] = tgid[q]
      BY <1>2, <1>4, <1>8 DEF Exists
    <3> QED
      BY <1>3, <2>2, <3>1, <3>2, <3>3
  <2> QED
    BY <2>1, <2>2
<1>11. Threads'
  BY <1>9, <1>10 DEF Threads
<1> QED
  BY <1>7, <1>11

LEMMA ExecStep ==
    ASSUME IInv, NEW t \in Pids, Exec(t)
    PROVE  IInv'
<1>1. Threads' /\ Processes' = Processes
  BY OthersGo, SMT DEF Exec
<1>2. Typed'
  BY SMT DEF Exec, IInv, Typed
<1> QED
  BY <1>1, <1>2, Kept DEF Exec, IInv

LEMMA ExitStep ==
    ASSUME IInv, NEW t \in Pids, Exit(t)
    PROVE  IInv'
<1>1. Threads' /\ Processes' = Processes
  BY OthersGo, SMT DEF Exit
<1>2. Typed'
  BY SMT DEF Exit, IInv, Typed
<1> QED
  BY <1>1, <1>2, Kept DEF Exit, IInv

LEMMA WaitStep ==
    ASSUME IInv, NEW p \in Pids, Wait(p)
    PROVE  IInv'
<1>1. Typed'
  BY SMT DEF Wait, IInv, Typed
<1>2. task'[p] = "none" /\ tgid' = tgid
  BY SMT DEF Wait, IInv, Typed
<1>3. \A q \in Pids : q # p =>
        /\ task'[q] = task[q] /\ pgrp'[q] = pgrp[q] /\ session'[q] = session[q]
        /\ leader'[q] = leader[q]
  BY SMT DEF Wait, IInv, Typed
<1>4. \A q \in Pids : Exists(q) /\ tgid[q] = p => q = p
  BY DEF Wait, IInv, Threads
<1>5. Threads'
  BY <1>2, <1>3, <1>4, SMT DEF IInv, Typed, Threads, Process, Exists
<1>6. \A q \in Pids : Process(q)' <=> Process(q) /\ q # p
  BY <1>2, <1>3, SMT DEF Process, Exists
<1>7. Processes' = Processes \ {p} /\ Processes \subseteq Pids
  BY <1>6 DEF Processes
<1>8. GroupInOneSession'
  BY <1>3, <1>7, SMT DEF IInv, SessionsNest, GroupInOneSession
<1>9. SessionHasItsLeader'
  BY <1>3, <1>7, SMT DEF IInv, SessionsNest, SessionHasItsLeader
<1> QED
  BY <1>1, <1>5, <1>8, <1>9 DEF IInv, SessionsNest

LEMMA IInvStep == IInv /\ [Next]_vars => IInv'
<1> SUFFICES ASSUME IInv, [Next]_vars PROVE IInv'
  OBVIOUS
<1>1. CASE UNCHANGED vars
  <2>1. Return(ret)
    BY <1>1 DEF vars, Return
  <2> QED
    BY <2>1, AskStep
<1>2. ASSUME NEW t \in Pids, do_getpgid(t) \/ sys_getsid(t) PROVE IInv'
  BY <1>2, AskStep DEF do_getpgid, sys_getsid, Ask
<1> QED
  BY <1>1, <1>2, SetsidStep, SetpgidStep, ForkStep, ThreadStep, ExecStep, ExitStep, WaitStep DEF Next

\* setpgid and setsid keep groups within sessions and sessions with the leader
\* they are named for, whoever forks, execs, exits and is waited for, and
\* however numbers are reused.
THEOREM Nesting == Spec => []SessionsNest
<1>1. IInv => SessionsNest
  BY DEF IInv
<1> QED
  BY <1>1, IInvInit, IInvStep, PTL DEF Spec

=============================================================================
