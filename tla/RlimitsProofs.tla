---------------------------- MODULE RlimitsProofs ----------------------------
(***************************************************************************)
(* Proofs about the resource limits (Rlimits): for any number of callers,  *)
(* any limits and any widths of the words, a limit is exchanged whole, its *)
(* CPU timer is not late, and a 32-bit program reads back what it set.     *)
(***************************************************************************)
EXTENDS Rlimits, TLAPS

Limits32 == [cur : 0 .. COMPAT_RLIM_INFINITY, max : 0 .. COMPAT_RLIM_INFINITY]

Ops == {"none", "prlimit64", "setrlimit", "compat_setrlimit", "getrlimit", "compat_getrlimit",
        "old_getrlimit"}
Calls == [op : Ops, resource : Resources, new : Limits \cup {NoLimit}, old : BOOLEAN,
          raw : Limits \cup {NoLimit}]

Typed ==
    /\ rlim \in [Resources -> Limits] /\ whole \in [Resources -> Limits]
    /\ nextevt \in 0 .. RLIM_INFINITY
    /\ pc \in [Callers -> PCs]
    /\ call \in [Callers -> Calls]
    /\ ret \in [Callers -> Int]
    /\ DOMAIN value = Callers /\ DOMAIN replaced = Callers /\ DOMAIN set32 = Resources

\* A call that got past the checks of its arguments.
GoodCall(q) == q.new # NoLimit =>
    /\ q.new \in Limits /\ q.new.cur <= q.new.max
    /\ q.op = "compat_setrlimit" => q.raw \in Limits32 /\ q.new = Widened(q.raw)

Exchanging(q) == q.op = "prlimit64" /\ q.old = TRUE /\ q.new # NoLimit

\* Where caller c is, what it holds and has seen.
CallerOK(c) ==
    /\ pc[c] \in {"check", "copy", "write_cur", "write_max", "unlock"} <=> task_lock = c
    /\ pc[c] \notin {"idle", "done"} => GoodCall(call[c])
    /\ pc[c] = "copy" => ret[c] = 0
    /\ pc[c] = "arm" => call[c].new # NoLimit
    /\ pc[c] \in {"write_cur", "write_max"} => call[c].new # NoLimit /\ ret[c] = 0
    /\ pc[c] \in {"write_cur", "write_max"} /\ Exchanging(call[c]) =>
         value[c] = whole[call[c].resource]
    /\ pc[c] \in {"unlock", "arm", "answer", "done"} /\ ret[c] = 0 /\ Exchanging(call[c]) =>
         value[c] = replaced[c]

\* Caller c is between the two words of limit r.
Halfway(c, r) == pc[c] = "write_max" /\ call[c].resource = r

WordsOK(r) ==
    /\ (\A c \in Callers : ~Halfway(c, r)) => rlim[r] = whole[r]
    /\ \A c \in Callers : Halfway(c, r) =>
         rlim[r].cur = call[c].new.cur /\ rlim[r].max = whole[r].max
    /\ whole[r].cur <= whole[r].max

\* Caller c has changed the CPU limit, and its timer is still to be set.
Owes(c) ==
    /\ pc[c] \in {"write_max", "unlock", "arm"} /\ ret[c] = 0 /\ call[c].new # NoLimit
    /\ call[c].resource = "RLIMIT_CPU" /\ call[c].new.cur = rlim["RLIMIT_CPU"].cur

TimerOK == nextevt <= rlim["RLIMIT_CPU"].cur \/ \E c \in Callers : Owes(c)

CompatOK(r) == set32[r] # NoLimit =>
    set32[r] \in Limits32 /\ whole[r] = Widened(set32[r])

IInv ==
    /\ Typed
    /\ \A c \in Callers : CallerOK(c)
    /\ \A r \in Resources : WordsOK(r)
    /\ TimerOK
    /\ \A r \in Resources : CompatOK(r)

USE RlimitsAssumption

-----------------------------------------------------------------------------
\* A pair with words of its range is not the absent one.
LEMMA LimitIsSome == \A l \in Limits : l # NoLimit /\ l.cur \in Nat /\ l.max \in Nat
  BY SMT DEF Limits, NoLimit

\* compat setrlimit and compat getrlimit convert each other's words back.
LEMMA NarrowWiden ==
    \A x \in 0 .. COMPAT_RLIM_INFINITY : Narrow(Widen(x)) = x /\ Widen(x) \in 0 .. RLIM_INFINITY
  BY SMT DEF Narrow, Widen

LEMMA WidenLimit == \A l \in Limits32 : Widened(l) \in Limits
  BY NarrowWiden, SMT DEF Limits, Limits32, Widened

LEMMA IInvInit == Init => IInv
<1> SUFFICES ASSUME Init PROVE IInv
  OBVIOUS
<1>1. Typed
  <2>1. NoCall \in Calls
    BY DEF NoCall, Calls, Resources, Ops
  <2>2. rlim \in [Resources -> Limits]
    BY SMT DEF Init, Resources, Limits
  <2> QED
    BY <2>1, <2>2, SMT DEF Init, Typed, PCs
<1>2. ASSUME NEW c \in Callers PROVE CallerOK(c)
  <2>1. pc[c] = "idle" /\ task_lock # c
    BY DEF Init
  <2> QED
    BY <2>1 DEF CallerOK
<1>3. \A r \in Resources : WordsOK(r)
  BY SMT DEF Init, WordsOK, Halfway, Resources
<1>4. TimerOK
  BY SMT DEF Init, TimerOK, Resources
<1>5. \A r \in Resources : CompatOK(r)
  BY DEF Init, CompatOK
<1> QED
  BY <1>1, <1>2, <1>3, <1>4, <1>5 DEF IInv

-----------------------------------------------------------------------------
\* Only caller c moves.
Only(c) ==
    /\ \A d \in Callers : d # c =>
         /\ pc'[d] = pc[d] /\ call'[d] = call[d] /\ value'[d] = value[d]
         /\ ret'[d] = ret[d] /\ replaced'[d] = replaced[d]
    /\ task_lock' \in {task_lock, c, Nobody}
    /\ task_lock' # task_lock => task_lock \in {c, Nobody}

\* What the others hold and have seen is not touched.
LEMMA OthersKeep ==
    ASSUME IInv, NEW c \in Callers, Only(c), whole' = whole \/ task_lock = c
    PROVE  \A d \in Callers : d # c => CallerOK(d)'
<1> SUFFICES ASSUME NEW d \in Callers, d # c PROVE CallerOK(d)'
  OBVIOUS
<1>1. CallerOK(d)
  BY DEF IInv
<1>2. /\ pc'[d] = pc[d] /\ call'[d] = call[d] /\ value'[d] = value[d]
      /\ ret'[d] = ret[d] /\ replaced'[d] = replaced[d]
  BY DEF Only
<1>3. task_lock' = d <=> task_lock = d
  BY DEF Only
<1>4. GoodCall(call[d]) => GoodCall(call[d])'
  BY <1>2 DEF GoodCall, Widened, Widen
<1>5. Exchanging(call[d])' <=> Exchanging(call[d])
  BY <1>2 DEF Exchanging
<1>6. whole' = whole \/ pc[d] \notin {"write_cur", "write_max"}
  BY <1>1 DEF CallerOK
<1> QED
  BY <1>1, <1>2, <1>3, <1>4, <1>5, <1>6, SMT DEF CallerOK

\* A step of caller c that changes no limit, is not in the middle of one, and
\* leaves no timer behind.
LEMMA QuietStep ==
    ASSUME IInv, NEW c \in Callers, Only(c), Typed', CallerOK(c)',
           UNCHANGED <<rlim, whole, set32, nextevt>>,
           pc[c] # "write_max", pc'[c] # "write_max",
           Owes(c) => Owes(c)' \/ nextevt <= rlim["RLIMIT_CPU"].cur
    PROVE  IInv'
<1>1. \A d \in Callers : CallerOK(d)'
  BY OthersKeep
<1>2. \A d \in Callers, r \in Resources : Halfway(d, r)' <=> Halfway(d, r)
  BY DEF Only, Halfway
<1>3. \A d \in Callers, r \in Resources : Halfway(d, r) => call'[d] = call[d]
  BY DEF Only, Halfway
<1>4. \A r \in Resources : WordsOK(r)'
  BY <1>2, <1>3 DEF IInv, WordsOK
<1>5. \A d \in Callers : d # c /\ Owes(d) => Owes(d)'
  BY DEF Only, Owes
<1>6. TimerOK'
  BY <1>5 DEF IInv, TimerOK
<1>7. \A r \in Resources : CompatOK(r)'
  BY DEF IInv, CompatOK, Widened, Widen
<1> QED
  BY <1>1, <1>4, <1>6, <1>7 DEF IInv

\* The types of what Move, Done and the like assign.
LEMMA MoveTyped ==
    ASSUME Typed, NEW c \in Callers, NEW to \in PCs, Move(c, to)
    PROVE  /\ pc' \in [Callers -> PCs] /\ pc'[c] = to
           /\ \A d \in Callers : d # c => pc'[d] = pc[d]
  BY DEF Typed, Move

LEMMA BeginStep ==
    ASSUME IInv, NEW c \in Callers, NEW q \in Calls, NEW errors, errors \subseteq Int \ {0},
           BadNew(q.resource, q.new) = 0 => GoodCall(q), Begin(c, q, errors)
    PROVE  IInv'
<1>1. call' \in [Callers -> Calls] /\ call'[c] = q /\ \A d \in Callers : d # c => call'[d] = call[d]
  BY DEF Begin, IInv, Typed
<1>2. /\ pc' \in [Callers -> PCs] /\ ret' \in [Callers -> Int]
      /\ \A d \in Callers : d # c => pc'[d] = pc[d] /\ ret'[d] = ret[d]
      /\ pc[c] = "idle" /\ task_lock # c
      /\ \/ pc'[c] = "done" /\ ret'[c] # 0
         \/ pc'[c] = "lock" /\ BadNew(q.resource, q.new) = 0
  <2>0. pc[c] = "idle" /\ task_lock # c
    BY DEF Begin, IInv, CallerOK
  <2>1. ASSUME NEW v \in Int \ {0}, Done(c, v)
        PROVE  /\ pc' \in [Callers -> PCs] /\ ret' \in [Callers -> Int]
               /\ \A d \in Callers : d # c => pc'[d] = pc[d] /\ ret'[d] = ret[d]
               /\ pc'[c] = "done" /\ ret'[c] # 0
    BY <2>1 DEF Done, Move, IInv, Typed, PCs
  <2>2. CASE \E v \in errors : Done(c, v)
    BY <2>0, <2>1, <2>2
  <2>3. CASE BadNew(q.resource, q.new) # 0 /\ Done(c, BadNew(q.resource, q.new))
    <3>1. BadNew(q.resource, q.new) \in Int \ {0}
      BY <2>3 DEF BadNew, EINVAL, EPERM
    <3> QED
      BY <2>0, <2>1, <2>3, <3>1
  <2>4. CASE BadNew(q.resource, q.new) = 0 /\ Move(c, "lock") /\ UNCHANGED ret
    BY <2>0, <2>4 DEF Move, IInv, Typed, PCs
  <2> QED
    BY <2>2, <2>3, <2>4 DEF Begin
<1>3. UNCHANGED <<rlim, task_lock, nextevt, value, whole, replaced, set32>>
  BY DEF Begin
<1>4. Typed'
  BY <1>1, <1>2, <1>3 DEF IInv, Typed
<1>5. Only(c)
  BY <1>1, <1>2, <1>3 DEF Only
<1>6. CallerOK(c)'
  <2>1. BadNew(q.resource, q.new) = 0 => GoodCall(call[c])'
    BY <1>1 DEF GoodCall, Widened, Widen
  <2> QED
    BY <1>2, <1>3, <2>1 DEF CallerOK
<1>7. ~Owes(c)
  BY <1>2 DEF Owes
<1> QED
  BY <1>2, <1>3, <1>4, <1>5, <1>6, <1>7, QuietStep

LEMMA LockStep ==
    ASSUME IInv, NEW c \in Callers, Lock(c)
    PROVE  IInv'
<1>1. /\ pc' \in [Callers -> PCs] /\ pc'[c] = "check"
      /\ \A d \in Callers : d # c => pc'[d] = pc[d]
  BY MoveTyped DEF Lock, IInv, PCs
<1>2. /\ pc[c] = "lock" /\ task_lock = Nobody /\ task_lock' = c
      /\ UNCHANGED <<rlim, nextevt, call, value, ret, whole, replaced, set32>>
  BY DEF Lock
<1>3. Typed' /\ Only(c)
  BY <1>1, <1>2 DEF IInv, Typed, Only
<1>4. CallerOK(c)'
  <2>1. GoodCall(call[c])'
    BY <1>2 DEF IInv, CallerOK, GoodCall, Widened, Widen
  <2> QED
    BY <1>1, <1>2, <2>1 DEF CallerOK
<1> QED
  BY <1>1, <1>2, <1>3, <1>4, QuietStep DEF Owes

LEMMA CheckStep ==
    ASSUME IInv, NEW c \in Callers, Check(c)
    PROVE  IInv'
<1>1. /\ pc' \in [Callers -> PCs] /\ ret' \in [Callers -> Int]
      /\ \A d \in Callers : d # c => pc'[d] = pc[d] /\ ret'[d] = ret[d]
      /\ \/ pc'[c] = "unlock" /\ ret'[c] = EPERM
         \/ pc'[c] = "copy" /\ ret'[c] = 0
  BY MoveTyped DEF Check, IInv, Typed, PCs, EPERM
<1>2. /\ pc[c] = "check" /\ task_lock = c
      /\ UNCHANGED <<rlim, task_lock, nextevt, call, value, whole, replaced, set32>>
  BY DEF Check, IInv, CallerOK
<1>3. Typed' /\ Only(c)
  BY <1>1, <1>2 DEF IInv, Typed, Only
<1>4. CallerOK(c)'
  <2>1. GoodCall(call[c])'
    BY <1>2 DEF IInv, CallerOK, GoodCall, Widened, Widen
  <2> QED
    BY <1>1, <1>2, <2>1 DEF CallerOK, EPERM
<1> QED
  BY <1>1, <1>2, <1>3, <1>4, QuietStep DEF Owes

LEMMA CopyOldStep ==
    ASSUME IInv, NEW c \in Callers, CopyOld(c)
    PROVE  IInv'
<1> DEFINE r == call[c].resource
<1>0. r \in Resources /\ call[c] \in Calls /\ call[c].old \in BOOLEAN
  BY DEF IInv, Typed, Calls
<1>1. /\ pc' \in [Callers -> PCs]
      /\ \A d \in Callers : d # c => pc'[d] = pc[d]
      /\ call[c].new = NoLimit => pc'[c] = "unlock"
      /\ call[c].new # NoLimit => pc'[c] = "write_cur"
  BY MoveTyped DEF CopyOld, IInv, PCs
<1>2. /\ pc[c] = "copy" /\ task_lock = c /\ ret[c] = 0
      /\ UNCHANGED <<rlim, task_lock, nextevt, call, ret, whole, replaced, set32>>
  BY DEF CopyOld, IInv, CallerOK
<1>3. /\ DOMAIN value' = Callers
      /\ \A d \in Callers : d # c => value'[d] = value[d]
      /\ call[c].old = TRUE => value'[c] = rlim[r]
  BY DEF CopyOld, IInv, Typed
<1>4. Typed' /\ Only(c)
  BY <1>1, <1>2, <1>3 DEF IInv, Typed, Only
<1>5. rlim[r] = whole[r]
  <2>1. \A d \in Callers : ~Halfway(d, r)
    BY <1>2 DEF IInv, CallerOK, Halfway
  <2> QED
    BY <1>0, <2>1 DEF IInv, WordsOK
<1>6. CallerOK(c)'
  <2>1. GoodCall(call[c])'
    BY <1>2 DEF IInv, CallerOK, GoodCall, Widened, Widen
  <2>2. Exchanging(call[c])' => value'[c] = whole'[call'[c].resource]
    BY <1>2, <1>3, <1>5 DEF Exchanging
  <2>3. Exchanging(call[c])' => call[c].new # NoLimit
    BY <1>2 DEF Exchanging
  <2> QED
    BY <1>1, <1>2, <2>1, <2>2, <2>3 DEF CallerOK
<1> QED
  BY <1>1, <1>2, <1>4, <1>6, QuietStep DEF Owes

LEMMA AnswerStep ==
    ASSUME IInv, NEW c \in Callers, Answer(c)
    PROVE  IInv'
<1>1. /\ pc' \in [Callers -> PCs] /\ pc'[c] = "done" /\ ret' \in [Callers -> Int]
      /\ \A d \in Callers : d # c => pc'[d] = pc[d] /\ ret'[d] = ret[d]
      /\ ret'[c] \in {ret[c], EFAULT}
  BY MoveTyped DEF Answer, Done, IInv, Typed, PCs, EFAULT
<1>2. /\ pc[c] = "answer" /\ task_lock # c
      /\ UNCHANGED <<rlim, task_lock, nextevt, call, whole, replaced, set32>>
  BY DEF Answer, IInv, CallerOK
<1>3. /\ DOMAIN value' = Callers
      /\ \A d \in Callers : d # c => value'[d] = value[d]
      /\ call[c].op = "prlimit64" => value'[c] = value[c]
  BY DEF Answer, IInv, Typed, Told
<1>4. Typed' /\ Only(c)
  BY <1>1, <1>2, <1>3 DEF IInv, Typed, Only
<1>5. CallerOK(c)'
  <2>1. Exchanging(call[c])' => Exchanging(call[c]) /\ value'[c] = value[c]
    BY <1>2, <1>3 DEF Exchanging
  <2>2. Exchanging(call[c]) /\ ret[c] = 0 => value[c] = replaced[c]
    BY <1>2 DEF IInv, CallerOK
  <2> QED
    BY <1>1, <1>2, <2>1, <2>2 DEF CallerOK, EFAULT
<1> QED
  BY <1>1, <1>2, <1>4, <1>5, QuietStep DEF Owes

LEMMA ReturnStep ==
    ASSUME IInv, NEW c \in Callers, Return(c)
    PROVE  IInv'
<1>1. /\ pc' \in [Callers -> PCs] /\ pc'[c] = "idle"
      /\ \A d \in Callers : d # c => pc'[d] = pc[d]
  BY MoveTyped DEF Return, IInv, PCs
<1>2. /\ pc[c] = "done" /\ task_lock # c
      /\ UNCHANGED <<rlim, task_lock, nextevt, whole, set32>>
  BY DEF Return, IInv, CallerOK
<1>3. NoCall \in Calls
  BY DEF NoCall, Calls, Resources, Ops
<1>4. /\ call' \in [Callers -> Calls] /\ ret' \in [Callers -> Int]
      /\ DOMAIN value' = Callers /\ DOMAIN replaced' = Callers
      /\ \A d \in Callers : d # c =>
           /\ call'[d] = call[d] /\ value'[d] = value[d]
           /\ ret'[d] = ret[d] /\ replaced'[d] = replaced[d]
  BY <1>3 DEF Return, IInv, Typed
<1>5. Typed' /\ Only(c)
  BY <1>1, <1>2, <1>4 DEF IInv, Typed, Only
<1>6. CallerOK(c)'
  BY <1>1, <1>2 DEF CallerOK
<1> QED
  BY <1>1, <1>2, <1>5, <1>6, QuietStep DEF Owes

LEMMA UnlockStep ==
    ASSUME IInv, NEW c \in Callers, Unlock(c)
    PROVE  IInv'
<1>1. /\ pc' \in [Callers -> PCs]
      /\ \A d \in Callers : d # c => pc'[d] = pc[d]
      /\ Arms(c) => pc'[c] = "arm"
      /\ ~Arms(c) => pc'[c] = "answer"
  BY MoveTyped DEF Unlock, IInv, PCs
<1>2. /\ pc[c] = "unlock" /\ task_lock = c /\ task_lock' = Nobody
      /\ UNCHANGED <<rlim, nextevt, call, value, ret, whole, replaced, set32>>
  BY DEF Unlock, IInv, CallerOK
<1>3. Typed' /\ Only(c)
  BY <1>1, <1>2 DEF IInv, Typed, Only
<1>4. CallerOK(c)'
  <2>1. GoodCall(call[c])'
    BY <1>2 DEF IInv, CallerOK, GoodCall, Widened, Widen
  <2>2. Exchanging(call[c])' => Exchanging(call[c])
    BY <1>2 DEF Exchanging
  <2>3. Exchanging(call[c]) /\ ret[c] = 0 => value[c] = replaced[c]
    BY <1>2 DEF IInv, CallerOK
  <2> QED
    BY <1>1, <1>2, <2>1, <2>2, <2>3 DEF CallerOK, Arms
<1>5. Owes(c) => Owes(c)' \/ nextevt <= rlim["RLIMIT_CPU"].cur
  <2> SUFFICES ASSUME Owes(c) PROVE Owes(c)' \/ nextevt <= rlim["RLIMIT_CPU"].cur
    OBVIOUS
  <2>1. CASE Arms(c)
    BY <1>1, <1>2, <2>1 DEF Owes
  <2>2. CASE ~Arms(c)
    <3>1. rlim["RLIMIT_CPU"].cur = RLIM_INFINITY
      BY <2>2 DEF Owes, Arms
    <3> QED
      BY <3>1, SMT DEF IInv, Typed
  <2> QED
    BY <2>1, <2>2
<1> QED
  BY <1>1, <1>2, <1>3, <1>4, <1>5, QuietStep

\* The timer is set for the limit of caller c; if that is no longer the limit,
\* whoever changed it has the timer still to set.
LEMMA ArmStep ==
    ASSUME IInv, NEW c \in Callers, Arm(c)
    PROVE  IInv'
<1>1. /\ pc' \in [Callers -> PCs] /\ pc'[c] = "answer"
      /\ \A d \in Callers : d # c => pc'[d] = pc[d]
  BY MoveTyped DEF Arm, IInv, PCs
<1>2. /\ pc[c] = "arm" /\ task_lock # c
      /\ UNCHANGED <<rlim, task_lock, call, value, ret, whole, replaced, set32>>
  BY DEF Arm, IInv, CallerOK
<1>3. call[c].new \in Limits \cup {NoLimit} /\ rlim["RLIMIT_CPU"] \in Limits
  BY DEF IInv, Typed, Calls, Resources
<1>4. /\ nextevt \in 0 .. RLIM_INFINITY
      /\ nextevt' = IF call[c].new.cur < nextevt THEN call[c].new.cur ELSE nextevt
  BY DEF Arm, IInv, Typed
<1>5. GoodCall(call[c]) /\ call[c].new # NoLimit
  BY <1>2 DEF IInv, CallerOK
<1>6. call[c].new.cur \in 0 .. RLIM_INFINITY /\ rlim["RLIMIT_CPU"].cur \in 0 .. RLIM_INFINITY
  BY <1>3, <1>5 DEF Limits
<1>7. nextevt' \in 0 .. RLIM_INFINITY /\ nextevt' <= nextevt /\ nextevt' <= call[c].new.cur
  BY <1>4, <1>6, SMT
<1>8. Typed' /\ Only(c)
  BY <1>1, <1>2, <1>7 DEF IInv, Typed, Only
<1>9. CallerOK(c)'
  <2>1. GoodCall(call[c])'
    BY <1>2, <1>5 DEF GoodCall, Widened, Widen
  <2>2. Exchanging(call[c])' => Exchanging(call[c])
    BY <1>2 DEF Exchanging
  <2>3. Exchanging(call[c]) /\ ret[c] = 0 => value[c] = replaced[c]
    BY <1>2 DEF IInv, CallerOK
  <2> QED
    BY <1>1, <1>2, <2>1, <2>2, <2>3 DEF CallerOK
<1>10. \A d \in Callers : CallerOK(d)'
  BY <1>2, <1>8, <1>9, OthersKeep
<1>11. \A d \in Callers, r \in Resources : Halfway(d, r)' <=> Halfway(d, r)
  BY <1>1, <1>2 DEF Halfway
<1>12. \A r \in Resources : WordsOK(r)'
  BY <1>2, <1>11 DEF IInv, WordsOK
<1>13. TimerOK'
  <2>1. CASE nextevt <= rlim["RLIMIT_CPU"].cur
    BY <1>2, <1>4, <1>6, <1>7, <2>1, SMT DEF TimerOK
  <2>2. CASE Owes(c)
    BY <1>2, <1>7, <2>2 DEF Owes, TimerOK
  <2>3. CASE \E d \in Callers : d # c /\ Owes(d)
    BY <1>1, <1>2, <2>3 DEF Owes, TimerOK
  <2> QED
    BY <2>1, <2>2, <2>3 DEF IInv, TimerOK
<1>14. \A r \in Resources : CompatOK(r)'
  BY <1>2 DEF IInv, CompatOK, Widened, Widen
<1> QED
  BY <1>8, <1>10, <1>12, <1>13, <1>14 DEF IInv

LEMMA FireStep ==
    ASSUME IInv, TimerFires
    PROVE  IInv'
<1>1. UNCHANGED <<rlim, task_lock, pc, call, value, ret, whole, replaced, set32>>
  BY DEF TimerFires
<1>2. rlim["RLIMIT_CPU"].cur \in 0 .. RLIM_INFINITY /\ nextevt' = rlim["RLIMIT_CPU"].cur
  BY SMT DEF TimerFires, IInv, Typed, Limits, Resources
<1>3. Typed'
  BY <1>1, <1>2 DEF IInv, Typed
<1>4. \A c \in Callers : CallerOK(c)'
  BY <1>1 DEF IInv, CallerOK, GoodCall, Exchanging, Widened, Widen
<1>5. \A r \in Resources : WordsOK(r)'
  BY <1>1 DEF IInv, WordsOK, Halfway
<1>6. TimerOK'
  BY <1>1, <1>2, SMT DEF TimerOK
<1>7. \A r \in Resources : CompatOK(r)'
  BY <1>1 DEF IInv, CompatOK, Widened, Widen
<1> QED
  BY <1>3, <1>4, <1>5, <1>6, <1>7 DEF IInv

LEMMA WriteCurStep ==
    ASSUME IInv, NEW c \in Callers, WriteCur(c)
    PROVE  IInv'
<1> DEFINE r == call[c].resource
           l == call[c].new
<1>1. /\ pc' \in [Callers -> PCs] /\ pc'[c] = "write_max"
      /\ \A d \in Callers : d # c => pc'[d] = pc[d]
  BY MoveTyped DEF WriteCur, IInv, PCs
<1>2. /\ pc[c] = "write_cur" /\ task_lock = c /\ ret[c] = 0 /\ l # NoLimit
      /\ UNCHANGED <<task_lock, nextevt, call, value, ret, whole, replaced, set32>>
  BY DEF WriteCur, IInv, CallerOK
<1>3. GoodCall(call[c]) /\ r \in Resources
  BY <1>2 DEF IInv, Typed, CallerOK, Calls
<1>4. l \in Limits
  BY <1>2, <1>3 DEF GoodCall
<1>5. rlim' = [rlim EXCEPT ![r] = [rlim[r] EXCEPT !.cur = l.cur]]
  BY DEF WriteCur
<1>6. /\ rlim' \in [Resources -> Limits]
      /\ rlim'[r].cur = l.cur /\ rlim'[r].max = rlim[r].max
      /\ \A s \in Resources : s # r => rlim'[s] = rlim[s]
  BY <1>3, <1>4, <1>5, SMT DEF IInv, Typed, Limits
<1>7. Typed' /\ Only(c)
  BY <1>1, <1>2, <1>6 DEF IInv, Typed, Only
<1>8. CallerOK(c)'
  <2>1. GoodCall(call[c])'
    BY <1>2, <1>3 DEF GoodCall, Widened, Widen
  <2>2. Exchanging(call[c])' => Exchanging(call[c])
    BY <1>2 DEF Exchanging
  <2>3. Exchanging(call[c]) => value[c] = whole[r]
    BY <1>2 DEF IInv, CallerOK
  <2> QED
    BY <1>1, <1>2, <2>1, <2>2, <2>3 DEF CallerOK
<1>9. \A d \in Callers : CallerOK(d)'
  BY <1>2, <1>7, <1>8, OthersKeep
<1>10. \A d \in Callers : pc[d] = "write_max" => FALSE
  BY <1>2 DEF IInv, CallerOK
<1>11. \A s \in Resources : rlim[s] = whole[s] /\ whole[s].cur <= whole[s].max
  BY <1>10 DEF IInv, WordsOK, Halfway
<1>12. \A d \in Callers, s \in Resources : Halfway(d, s)' <=> d = c /\ s = r
  BY <1>1, <1>2, <1>10 DEF Halfway
<1>13. ASSUME NEW s \in Resources PROVE WordsOK(s)'
  <2>1. CASE s = r
    BY <1>2, <1>6, <1>11, <1>12, <2>1 DEF WordsOK
  <2>2. CASE s # r
    BY <1>2, <1>6, <1>11, <1>12, <2>2 DEF WordsOK
  <2> QED
    BY <2>1, <2>2
<1>14. TimerOK'
  <2>1. CASE r = "RLIMIT_CPU"
    BY <1>1, <1>2, <1>6, <2>1 DEF TimerOK, Owes
  <2>2. CASE r # "RLIMIT_CPU"
    <3>1. rlim'["RLIMIT_CPU"] = rlim["RLIMIT_CPU"]
      BY <1>6, <2>2 DEF Resources
    <3>2. \A d \in Callers : Owes(d) => Owes(d)'
      BY <1>1, <1>2, <3>1 DEF Owes
    <3> QED
      BY <1>2, <3>1, <3>2 DEF IInv, TimerOK
  <2> QED
    BY <2>1, <2>2
<1>15. \A s \in Resources : CompatOK(s)'
  BY <1>2 DEF IInv, CompatOK, Widened, Widen
<1> QED
  BY <1>7, <1>9, <1>13, <1>14, <1>15 DEF IInv

LEMMA WriteMaxStep ==
    ASSUME IInv, NEW c \in Callers, WriteMax(c)
    PROVE  IInv'
<1> DEFINE r == call[c].resource
           l == call[c].new
<1>1. /\ pc' \in [Callers -> PCs] /\ pc'[c] = "unlock"
      /\ \A d \in Callers : d # c => pc'[d] = pc[d]
  BY MoveTyped DEF WriteMax, IInv, PCs
<1>2. /\ pc[c] = "write_max" /\ task_lock = c /\ ret[c] = 0 /\ l # NoLimit
      /\ UNCHANGED <<task_lock, nextevt, call, value, ret>>
  BY DEF WriteMax, IInv, CallerOK
<1>3. GoodCall(call[c]) /\ r \in Resources
  BY <1>2 DEF IInv, Typed, CallerOK, Calls
<1>4. l \in Limits /\ l.cur <= l.max
  BY <1>2, <1>3 DEF GoodCall
<1>5. rlim[r].cur = l.cur
  BY <1>2, <1>3 DEF IInv, WordsOK, Halfway
<1>6. rlim' = [rlim EXCEPT ![r] = [rlim[r] EXCEPT !.max = l.max]]
  BY DEF WriteMax
<1>7. rlim'[r] = l
  <2>1. rlim[r] \in Limits /\ rlim \in [Resources -> Limits]
    BY <1>3 DEF IInv, Typed
  <2>2. rlim'[r] = [rlim[r] EXCEPT !.max = l.max]
    BY <1>3, <1>6, <2>1
  <2>3. [rlim[r] EXCEPT !.max = l.max] = l
    BY <1>4, <1>5, <2>1, SMT DEF Limits
  <2> QED
    BY <2>2, <2>3
<1>8. /\ rlim' \in [Resources -> Limits] /\ whole' \in [Resources -> Limits]
      /\ whole'[r] = l
      /\ \A s \in Resources : s # r => rlim'[s] = rlim[s] /\ whole'[s] = whole[s]
  <2>1. whole' = [whole EXCEPT ![r] = l]
    BY <1>7 DEF WriteMax
  <2>2. rlim' = [rlim EXCEPT ![r] = l]
    BY <1>6, <1>7, <1>3 DEF IInv, Typed
  <2> QED
    BY <1>3, <1>4, <2>1, <2>2 DEF IInv, Typed
<1>9. /\ DOMAIN replaced' = Callers /\ replaced'[c] = whole[r]
      /\ \A d \in Callers : d # c => replaced'[d] = replaced[d]
  BY DEF WriteMax, IInv, Typed
<1>10. /\ DOMAIN set32' = Resources
       /\ call[c].op = "compat_setrlimit" => set32'[r] = call[c].raw
       /\ call[c].op # "compat_setrlimit" => set32'[r] = NoLimit
       /\ \A s \in Resources : s # r => set32'[s] = set32[s]
  BY <1>3 DEF WriteMax, IInv, Typed
<1>11. Typed' /\ Only(c)
  BY <1>1, <1>2, <1>8, <1>9, <1>10 DEF IInv, Typed, Only
<1>12. CallerOK(c)'
  <2>1. GoodCall(call[c])'
    BY <1>2, <1>3 DEF GoodCall, Widened, Widen
  <2>2. Exchanging(call[c])' => Exchanging(call[c])
    BY <1>2 DEF Exchanging
  <2>3. Exchanging(call[c]) => value[c] = whole[r]
    BY <1>2 DEF IInv, CallerOK
  <2> QED
    BY <1>1, <1>2, <1>9, <2>1, <2>2, <2>3 DEF CallerOK
<1>13. \A d \in Callers : CallerOK(d)'
  BY <1>2, <1>11, <1>12, OthersKeep
<1>14. \A d \in Callers : pc[d] = "write_max" => d = c
  BY <1>2 DEF IInv, CallerOK
<1>15. \A d \in Callers, s \in Resources : ~Halfway(d, s)'
  BY <1>1, <1>14 DEF Halfway
<1>16. ASSUME NEW s \in Resources PROVE WordsOK(s)'
  <2>1. CASE s = r
    BY <1>4, <1>7, <1>8, <1>15, <2>1 DEF WordsOK
  <2>2. CASE s # r
    <3>1. \A d \in Callers : ~Halfway(d, s)
      BY <1>14, <2>2 DEF Halfway
    <3> QED
      BY <1>8, <1>15, <2>2, <3>1 DEF IInv, WordsOK
  <2> QED
    BY <2>1, <2>2
<1>17. TimerOK'
  <2>1. rlim'["RLIMIT_CPU"].cur = rlim["RLIMIT_CPU"].cur
    BY <1>5, <1>7, <1>8 DEF Resources
  <2>2. \A d \in Callers : Owes(d) => Owes(d)'
    BY <1>1, <1>2, <2>1 DEF Owes
  <2> QED
    BY <1>2, <2>1, <2>2 DEF IInv, TimerOK
<1>18. ASSUME NEW s \in Resources PROVE CompatOK(s)'
  <2>1. CASE s = r
    <3>1. CASE call[c].op = "compat_setrlimit"
      BY <1>2, <1>3, <1>8, <1>10, <2>1, <3>1 DEF GoodCall, CompatOK, Widened, Widen
    <3>2. CASE call[c].op # "compat_setrlimit"
      BY <1>10, <2>1, <3>2 DEF CompatOK
    <3> QED
      BY <3>1, <3>2
  <2>2. CASE s # r
    <3>1. whole'[s] = whole[s] /\ set32'[s] = set32[s] /\ CompatOK(s)
      BY <1>8, <1>10, <2>2 DEF IInv
    <3> QED
      BY <3>1 DEF CompatOK, Widened, Widen
  <2> QED
    BY <2>1, <2>2
<1> QED
  BY <1>11, <1>13, <1>16, <1>17, <1>18 DEF IInv

-----------------------------------------------------------------------------
\* Each call begins with arguments that are good once they are let through.
LEMMA CallsStep ==
    ASSUME IInv, NEW c \in Callers, NEW r \in Resources,
           \/ \E l \in NewLimits \cup {NoLimit}, b \in BOOLEAN : sys_prlimit64(c, r, l, b)
           \/ \E l \in NewLimits : sys_setrlimit(c, r, l)
           \/ \E l \in NewLimits32 : compat_setrlimit(c, r, l)
           \/ \E op \in {"getrlimit", "compat_getrlimit", "old_getrlimit"} : sys_getrlimit(c, r, op)
    PROVE  IInv'
<1> USE DEF EPERM, ESRCH, EFAULT, EINVAL
<1>1. NewLimits \subseteq Limits /\ NewLimits32 \subseteq Limits32 /\ Limits32 \subseteq Limits
  BY SMT DEF Limits, Limits32
<1>2. ASSUME NEW q \in Calls, q.op # "compat_setrlimit", BadNew(q.resource, q.new) = 0
      PROVE  GoodCall(q)
  <2>1. CASE q.new = NoLimit
    BY <2>1 DEF GoodCall
  <2>2. CASE q.new # NoLimit
    <3>1. q.new \in Limits
      BY <2>2 DEF Calls
    <3>2. ~(q.new.cur > q.new.max)
      BY <1>2, <2>2 DEF BadNew
    <3>3. q.new.cur <= q.new.max
      BY <3>1, <3>2, LimitIsSome, SMT
    <3> QED
      BY <1>2, <3>1, <3>3 DEF GoodCall
  <2> QED
    BY <2>1, <2>2
<1>3. ASSUME NEW l \in NewLimits \cup {NoLimit}, NEW b \in BOOLEAN, sys_prlimit64(c, r, l, b)
      PROVE  IInv'
  <2> DEFINE q == [op |-> "prlimit64", resource |-> r, new |-> l, old |-> b, raw |-> l]
             e == {EINVAL, ESRCH, EPERM} \cup (IF l = NoLimit THEN {} ELSE {EFAULT})
  <2>1. q \in Calls /\ q.op # "compat_setrlimit"
    BY <1>1 DEF Calls, Ops
  <2>2. e \subseteq Int \ {0}
    OBVIOUS
  <2>3. Begin(c, q, e)
    BY <1>3 DEF sys_prlimit64
  <2>4. BadNew(q.resource, q.new) = 0 => GoodCall(q)
    BY <1>2, <2>1
  <2> HIDE DEF q, e
  <2> QED
    BY <2>1, <2>2, <2>3, <2>4, BeginStep
<1>4. ASSUME NEW l \in NewLimits, sys_setrlimit(c, r, l)
      PROVE  IInv'
  <2> DEFINE q == [op |-> "setrlimit", resource |-> r, new |-> l, old |-> FALSE, raw |-> l]
  <2>1. q \in Calls /\ q.op # "compat_setrlimit"
    BY <1>1 DEF Calls, Ops
  <2>2. Begin(c, q, {EINVAL, EFAULT}) /\ {EINVAL, EFAULT} \subseteq Int \ {0}
    BY <1>4 DEF sys_setrlimit
  <2>3. BadNew(q.resource, q.new) = 0 => GoodCall(q)
    BY <1>2, <2>1
  <2> HIDE DEF q
  <2> QED
    BY <2>1, <2>2, <2>3, BeginStep
<1>5. ASSUME NEW l \in NewLimits32, compat_setrlimit(c, r, l)
      PROVE  IInv'
  <2> DEFINE w == Widened(l)
             q == [op |-> "compat_setrlimit", resource |-> r, new |-> w, old |-> FALSE, raw |-> l]
  <2>1. w \in Limits /\ l \in Limits32 /\ l \in Limits
    BY <1>1, WidenLimit
  <2>2. Begin(c, q, {EINVAL, EFAULT}) /\ {EINVAL, EFAULT} \subseteq Int \ {0}
    BY <1>5 DEF compat_setrlimit
  <2>3. q.new = Widened(q.raw)
    OBVIOUS
  <2>4. q.raw = l /\ q.new = w /\ q.resource = r
    OBVIOUS
  <2> HIDE DEF w
  <2>5. q \in Calls
    BY <2>1 DEF Calls, Ops
  <2> HIDE DEF q
  <2>6. ASSUME BadNew(q.resource, q.new) = 0 PROVE GoodCall(q)
    <3>1. q.new # NoLimit
      BY <2>1, <2>4, LimitIsSome
    <3>2. ~(q.new.cur > q.new.max)
      BY <2>6, <3>1 DEF BadNew
    <3>3. q.new.cur <= q.new.max
      BY <2>1, <2>4, <3>2, LimitIsSome, SMT
    <3> QED
      BY <2>1, <2>3, <2>4, <3>3 DEF GoodCall
  <2> QED
    BY <2>2, <2>5, <2>6, BeginStep
<1>6. ASSUME NEW op \in {"getrlimit", "compat_getrlimit", "old_getrlimit"}, sys_getrlimit(c, r, op)
      PROVE  IInv'
  <2> DEFINE q == [op |-> op, resource |-> r, new |-> NoLimit, old |-> TRUE, raw |-> NoLimit]
  <2>1. q \in Calls /\ q.op # "compat_setrlimit"
    BY DEF Calls, Ops
  <2>2. Begin(c, q, {EINVAL}) /\ {EINVAL} \subseteq Int \ {0}
    BY <1>6 DEF sys_getrlimit
  <2>3. BadNew(q.resource, q.new) = 0 => GoodCall(q)
    BY <1>2, <2>1
  <2> HIDE DEF q
  <2> QED
    BY <2>1, <2>2, <2>3, BeginStep
<1> QED
  BY <1>3, <1>4, <1>5, <1>6

LEMMA IInvStep == IInv /\ [Next]_vars => IInv'
<1> SUFFICES ASSUME IInv, [Next]_vars PROVE IInv'
  OBVIOUS
<1>1. CASE UNCHANGED vars
  <2> USE <1>1 DEF vars
  <2>1. Typed'
    BY DEF IInv, Typed
  <2>2. \A c \in Callers : CallerOK(c)'
    BY DEF IInv, CallerOK, GoodCall, Exchanging, Widened, Widen
  <2>3. \A r \in Resources : WordsOK(r)'
    BY DEF IInv, WordsOK, Halfway
  <2>4. TimerOK'
    BY DEF IInv, TimerOK, Owes
  <2>5. \A r \in Resources : CompatOK(r)'
    BY DEF IInv, CompatOK, Widened, Widen
  <2> QED
    BY <2>1, <2>2, <2>3, <2>4, <2>5 DEF IInv
<1> QED
  BY <1>1, CallsStep, LockStep, CheckStep, CopyOldStep, WriteCurStep, WriteMaxStep, UnlockStep,
     ArmStep, AnswerStep, ReturnStep, FireStep DEF Next

LEMMA IInvImplies == IInv => LimitsConsistent
<1> SUFFICES ASSUME IInv PROVE LimitsConsistent
  OBVIOUS
<1>1. ASSUME NEW r \in Resources, task_lock = Nobody
      PROVE  rlim[r] = whole[r] /\ whole[r].cur <= whole[r].max
  <2>1. \A c \in Callers : ~Halfway(c, r)
    BY <1>1 DEF IInv, CallerOK, Halfway
  <2> QED
    BY <2>1 DEF IInv, WordsOK
<1>2. SoftWithinHard
  BY <1>1 DEF SoftWithinHard
<1>3. ExchangeIsAtomic
  BY DEF IInv, ExchangeIsAtomic, CallerOK, Exchanging, Typed, Calls
<1>4. TimerNotLate
  BY DEF IInv, TimerNotLate, TimerOK, Owes
<1>5. CompatReadsBack
  <2> SUFFICES ASSUME NEW r \in Resources, task_lock = Nobody, set32[r] # NoLimit
               PROVE  /\ Told("compat_getrlimit", rlim[r]) = set32[r]
                      /\ set32[r].max = COMPAT_RLIM_INFINITY => rlim[r].max = RLIM_INFINITY
    BY DEF CompatReadsBack
  <2>1. set32[r] \in Limits32 /\ rlim[r] = Widened(set32[r])
    BY <1>1 DEF IInv, CompatOK
  <2>2. Told("compat_getrlimit", rlim[r]) =
          [cur |-> Narrow(Widen(set32[r].cur)), max |-> Narrow(Widen(set32[r].max))]
    BY <2>1, SMT DEF Told, Narrowed, Widened
  <2>3. /\ Narrow(Widen(set32[r].cur)) = set32[r].cur
        /\ Narrow(Widen(set32[r].max)) = set32[r].max
    BY <2>1, NarrowWiden DEF Limits32
  <2>4. set32[r] = [cur |-> set32[r].cur, max |-> set32[r].max]
    BY <2>1 DEF Limits32
  <2>5. set32[r].max = COMPAT_RLIM_INFINITY => rlim[r].max = RLIM_INFINITY
    BY <2>1 DEF Widened, Widen
  <2> QED
    BY <2>2, <2>3, <2>4, <2>5
<1> QED
  BY <1>2, <1>3, <1>4, <1>5 DEF LimitsConsistent

\* Under any number of callers of every interface at once, do_prlimit keeps the
\* soft limit within the hard one, exchanges limits whole, leaves no finite CPU
\* limit with a late timer, and 32-bit programs read back what they set.
THEOREM Consistency == Spec => []LimitsConsistent
  BY IInvInit, IInvStep, IInvImplies, PTL DEF Spec

=============================================================================
