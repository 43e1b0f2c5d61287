------------------------------- MODULE Rlimits -------------------------------
(***************************************************************************)
(* The resource limits of a process and the calls that read and change     *)
(* them (kernel/sys.c: do_prlimit and its callers).  A limit is a pair of  *)
(* words, copied in two steps; the task lock of the group leader is held   *)
(* while it is.  Threads of the process, and others by prlimit64, call at  *)
(* the same time.                                                          *)
(***************************************************************************)
EXTENDS Integers

CONSTANTS
    Callers,
    privileged,            \* those with CAP_SYS_RESOURCE
    RLIM_INFINITY,         \* the largest unsigned long
    COMPAT_RLIM_INFINITY,  \* the largest 32-bit word
    OLD_MAX,               \* 0x7FFFFFFF, what old_getrlimit tells at most
    sysctl_nr_open,
    NewLimits, NewLimits32 \* pairs callers ask for, in words and in 32-bit words

Nobody == "nobody"

ASSUME RlimitsAssumption ==
    /\ {RLIM_INFINITY, COMPAT_RLIM_INFINITY, OLD_MAX, sysctl_nr_open} \subseteq Nat
    /\ sysctl_nr_open <= RLIM_INFINITY
    /\ OLD_MAX <= COMPAT_RLIM_INFINITY /\ COMPAT_RLIM_INFINITY < RLIM_INFINITY
    /\ NewLimits \subseteq [cur : 0 .. RLIM_INFINITY, max : 0 .. RLIM_INFINITY]
    /\ NewLimits32 \subseteq [cur : 0 .. COMPAT_RLIM_INFINITY, max : 0 .. COMPAT_RLIM_INFINITY]
    /\ privileged \subseteq Callers /\ Nobody \notin Callers

EPERM == -1
ESRCH == -3
EFAULT == -14
EINVAL == -22

Resources == {"RLIMIT_CPU", "RLIMIT_NOFILE"}
Limits == [cur : 0 .. RLIM_INFINITY, max : 0 .. RLIM_INFINITY]
NoLimit == [cur |-> -1, max |-> -1]

VARIABLES
    rlim,         \* signal->rlim
    task_lock,    \* who holds it
    nextevt,      \* when the CPU timer of the process goes off
    pc, call,     \* per caller; call is [op, resource, new, old, raw]
    value,        \* what do_prlimit copied out
    ret,
    \* history
    whole,        \* the limits as the last finished change left them
    replaced,     \* per caller: the limit that its change replaced
    set32         \* the pair of the last change, if compat setrlimit made it

vars == <<rlim, task_lock, nextevt, pc, call, value, ret, whole, replaced, set32>>

NoCall == [op |-> "none", resource |-> "RLIMIT_CPU", new |-> NoLimit, old |-> FALSE, raw |-> NoLimit]

PCs == {"idle", "lock", "check", "copy", "write_cur", "write_max", "unlock", "arm", "answer", "done"}

TypeOK ==
    /\ rlim \in [Resources -> Limits] /\ whole \in [Resources -> Limits]
    /\ task_lock \in Callers \cup {Nobody}
    /\ nextevt \in 0 .. RLIM_INFINITY
    /\ pc \in [Callers -> PCs]
    /\ value \in [Callers -> Limits \cup {NoLimit}]
    /\ replaced \in [Callers -> Limits \cup {NoLimit}]
    /\ ret \in [Callers -> {0, EPERM, ESRCH, EFAULT, EINVAL}]

Init ==
    /\ rlim = [r \in Resources |->
                 IF r = "RLIMIT_NOFILE" THEN [cur |-> sysctl_nr_open, max |-> sysctl_nr_open]
                 ELSE [cur |-> RLIM_INFINITY, max |-> RLIM_INFINITY]]
    /\ whole = rlim
    /\ task_lock = Nobody
    /\ nextevt = RLIM_INFINITY
    /\ pc = [c \in Callers |-> "idle"]
    /\ call = [c \in Callers |-> NoCall]
    /\ value = [c \in Callers |-> NoLimit] /\ replaced = value
    /\ ret = [c \in Callers |-> 0]
    /\ set32 = [r \in Resources |-> NoLimit]

-----------------------------------------------------------------------------
(***************************************************************************)
(* The 32-bit interfaces.                                                  *)
(***************************************************************************)

\* compat setrlimit
Widen(x) == IF x = COMPAT_RLIM_INFINITY THEN RLIM_INFINITY ELSE x

\* compat getrlimit
Narrow(x) == IF x > COMPAT_RLIM_INFINITY THEN COMPAT_RLIM_INFINITY ELSE x

\* old_getrlimit, for either width
NarrowOld(x) == IF x > OLD_MAX THEN OLD_MAX ELSE x

Widened(l) == [cur |-> Widen(l.cur), max |-> Widen(l.max)]
Narrowed(l) == [cur |-> Narrow(l.cur), max |-> Narrow(l.max)]
NarrowedOld(l) == [cur |-> NarrowOld(l.cur), max |-> NarrowOld(l.max)]

-----------------------------------------------------------------------------
Move(c, to) == pc' = [pc EXCEPT ![c] = to]

Done(c, v) == Move(c, "done") /\ ret' = [ret EXCEPT ![c] = v]

\* What is wrong with a new limit in itself.
BadNew(resource, new) ==
    IF new = NoLimit THEN 0
    ELSE IF new.cur > new.max THEN EINVAL
    ELSE IF resource = "RLIMIT_NOFILE" /\ new.max > sysctl_nr_open THEN EPERM
    ELSE 0

\* A call begins: arguments are copied in and converted; prlimit64 finds the
\* task and checks the caller's right to it.
Begin(c, q, errors) ==
    /\ pc[c] = "idle"
    /\ call' = [call EXCEPT ![c] = q]
    /\ \/ \E v \in errors : Done(c, v)
       \/ BadNew(q.resource, q.new) # 0 /\ Done(c, BadNew(q.resource, q.new))
       \/ BadNew(q.resource, q.new) = 0 /\ Move(c, "lock") /\ UNCHANGED ret
    /\ UNCHANGED <<rlim, task_lock, nextevt, value, whole, replaced, set32>>

\* EINVAL: a resource beyond RLIM_NLIMITS.
sys_prlimit64(c, r, new, old) ==
    Begin(c, [op |-> "prlimit64", resource |-> r, new |-> new, old |-> old, raw |-> new],
          {EINVAL, ESRCH, EPERM} \cup (IF new = NoLimit THEN {} ELSE {EFAULT}))

sys_setrlimit(c, r, new) ==
    Begin(c, [op |-> "setrlimit", resource |-> r, new |-> new, old |-> FALSE, raw |-> new],
          {EINVAL, EFAULT})

compat_setrlimit(c, r, new) ==
    Begin(c, [op |-> "compat_setrlimit", resource |-> r, new |-> Widened(new), old |-> FALSE,
              raw |-> new],
          {EINVAL, EFAULT})

sys_getrlimit(c, r, op) ==
    Begin(c, [op |-> op, resource |-> r, new |-> NoLimit, old |-> TRUE, raw |-> NoLimit], {EINVAL})

Lock(c) ==
    /\ pc[c] = "lock" /\ task_lock = Nobody
    /\ task_lock' = c
    /\ Move(c, "check")
    /\ UNCHANGED <<rlim, nextevt, call, value, ret, whole, replaced, set32>>

Raises(c) == call[c].new # NoLimit /\ call[c].new.max > rlim[call[c].resource].max

\* The capability, and security_task_setrlimit, which may refuse any change.
Check(c) ==
    /\ pc[c] = "check"
    /\ \/ /\ call[c].new # NoLimit
          /\ Move(c, "unlock") /\ ret' = [ret EXCEPT ![c] = EPERM]
       \/ /\ ~(Raises(c) /\ c \notin privileged)
          /\ Move(c, "copy") /\ ret' = [ret EXCEPT ![c] = 0]
    /\ UNCHANGED <<rlim, task_lock, nextevt, call, value, whole, replaced, set32>>

CopyOld(c) ==
    /\ pc[c] = "copy"
    /\ value' = IF call[c].old THEN [value EXCEPT ![c] = rlim[call[c].resource]] ELSE value
    /\ Move(c, IF call[c].new = NoLimit THEN "unlock" ELSE "write_cur")
    /\ UNCHANGED <<rlim, task_lock, nextevt, call, ret, whole, replaced, set32>>

WriteCur(c) ==
    LET r == call[c].resource IN
    /\ pc[c] = "write_cur"
    /\ rlim' = [rlim EXCEPT ![r].cur = call[c].new.cur]
    /\ Move(c, "write_max")
    /\ UNCHANGED <<task_lock, nextevt, call, value, ret, whole, replaced, set32>>

\* Faulty: the old limit is copied when the new one is in place.
WriteMaxCopies(c) ==
    LET r == call[c].resource IN
    /\ pc[c] = "write_max"
    /\ rlim' = [rlim EXCEPT ![r].max = call[c].new.max]
    /\ value' = IF call[c].old THEN [value EXCEPT ![c] = rlim'[r]] ELSE value
    /\ replaced' = [replaced EXCEPT ![c] = whole[r]]
    /\ whole' = [whole EXCEPT ![r] = rlim'[r]]
    /\ set32' = [set32 EXCEPT ![r] = NoLimit]
    /\ Move(c, "unlock")
    /\ UNCHANGED <<task_lock, nextevt, call, ret>>

WriteMax(c) ==
    LET r == call[c].resource IN
    /\ pc[c] = "write_max"
    /\ rlim' = [rlim EXCEPT ![r].max = call[c].new.max]
    /\ replaced' = [replaced EXCEPT ![c] = whole[r]]
    /\ whole' = [whole EXCEPT ![r] = rlim'[r]]
    /\ set32' = [set32 EXCEPT ![r] = IF call[c].op = "compat_setrlimit"
                                      THEN call[c].raw ELSE NoLimit]
    /\ Move(c, "unlock")
    /\ UNCHANGED <<task_lock, nextevt, call, value, ret>>

Arms(c) ==
    /\ ret[c] = 0 /\ call[c].new # NoLimit
    /\ call[c].resource = "RLIMIT_CPU" /\ call[c].new.cur # RLIM_INFINITY

Unlock(c) ==
    /\ pc[c] = "unlock"
    /\ task_lock' = Nobody
    /\ Move(c, IF Arms(c) THEN "arm" ELSE "answer")
    /\ UNCHANGED <<rlim, nextevt, call, value, ret, whole, replaced, set32>>

\* update_rlimit_cpu (external): the timer goes off no later than the limit.
Arm(c) ==
    /\ pc[c] = "arm"
    /\ nextevt' = IF call[c].new.cur < nextevt THEN call[c].new.cur ELSE nextevt
    /\ Move(c, "answer")
    /\ UNCHANGED <<rlim, task_lock, call, value, ret, whole, replaced, set32>>

Told(op, l) ==
    CASE op = "compat_getrlimit" -> Narrowed(l)
      [] op = "old_getrlimit" -> NarrowedOld(l)
      [] OTHER -> l

\* The old limit is converted and copied out; that may fail after the change.
Answer(c) ==
    /\ pc[c] = "answer"
    /\ \/ /\ call[c].old /\ ret[c] = 0
          /\ Done(c, EFAULT)
          /\ UNCHANGED value
       \/ /\ Done(c, ret[c])
          /\ value' = IF call[c].old /\ ret[c] = 0
                       THEN [value EXCEPT ![c] = Told(call[c].op, @)] ELSE value
    /\ UNCHANGED <<rlim, task_lock, nextevt, call, whole, replaced, set32>>

Return(c) ==
    /\ pc[c] = "done"
    /\ Move(c, "idle")
    /\ call' = [call EXCEPT ![c] = NoCall]
    /\ value' = [value EXCEPT ![c] = NoLimit]
    /\ replaced' = [replaced EXCEPT ![c] = NoLimit]
    /\ ret' = [ret EXCEPT ![c] = 0]
    /\ UNCHANGED <<rlim, task_lock, nextevt, whole, set32>>

\* check_process_timers (external): the timer went off; it is set again for
\* the limit of now.
TimerFires ==
    /\ nextevt # RLIM_INFINITY
    /\ nextevt' = rlim["RLIMIT_CPU"].cur
    /\ UNCHANGED <<rlim, task_lock, pc, call, value, ret, whole, replaced, set32>>

Next ==
    \/ \E c \in Callers :
         \/ \E r \in Resources :
              \/ \E l \in NewLimits \cup {NoLimit}, b \in BOOLEAN : sys_prlimit64(c, r, l, b)
              \/ \E l \in NewLimits : sys_setrlimit(c, r, l)
              \/ \E l \in NewLimits32 : compat_setrlimit(c, r, l)
              \/ \E op \in {"getrlimit", "compat_getrlimit", "old_getrlimit"} : sys_getrlimit(c, r, op)
         \/ Lock(c) \/ Check(c) \/ CopyOld(c) \/ WriteCur(c) \/ WriteMax(c) \/ Unlock(c)
         \/ Arm(c) \/ Answer(c) \/ Return(c)
    \/ TimerFires

Spec == Init /\ [][Next]_vars

-----------------------------------------------------------------------------
(***************************************************************************)
(* Properties.                                                             *)
(***************************************************************************)

\* What a soft limit is: never above the hard one, as seen under the lock.
SoftWithinHard ==
    \A r \in Resources : task_lock = Nobody => rlim[r].cur <= rlim[r].max

\* An exchange by prlimit64 is atomic: the old limit it tells is the one that
\* its new limit replaced, and never half of two.
ExchangeIsAtomic ==
    \A c \in Callers :
        (pc[c] = "done" /\ call[c].op = "prlimit64" /\ ret[c] = 0 /\ call[c].old
         /\ call[c].new # NoLimit) => value[c] = replaced[c]

\* The comment in do_prlimit, sys.c:1495-1499: while no call is between its
\* change and its timer, a finite CPU limit has a timer that is not too late.
TimerNotLate ==
    (\A c \in Callers : pc[c] \in {"idle", "lock", "check", "answer", "done"}) =>
        nextevt <= rlim["RLIMIT_CPU"].cur

\* A 32-bit program that set a limit, by compat setrlimit, reads the same back
\* by compat getrlimit; and what it meant by infinity bounds nothing.
CompatReadsBack ==
    \A r \in Resources : (task_lock = Nobody /\ set32[r] # NoLimit) =>
        /\ Told("compat_getrlimit", rlim[r]) = set32[r]
        /\ set32[r].max = COMPAT_RLIM_INFINITY => rlim[r].max = RLIM_INFINITY

\* The two words of a limit and the timer that enforces it stay consistent
\* under exchanges by every interface at once.
LimitsConsistent ==
    /\ SoftWithinHard
    /\ ExchangeIsAtomic
    /\ TimerNotLate
    /\ CompatReadsBack

=============================================================================
