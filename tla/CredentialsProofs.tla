-------------------------- MODULE CredentialsProofs --------------------------
(***************************************************************************)
(* Proofs about the calls that change ids (Credentials): for any ids, any  *)
(* user namespace and either family of calls, privileges that were dropped *)
(* stay dropped, the process is accounted to its real user through every   *)
(* error path, and ids change only by the capability for it.               *)
(***************************************************************************)
EXTENDS Credentials, TLAPS

Typed ==
    /\ u \in Ids /\ g \in Ids
    /\ effective \subseteq permitted
    /\ refs \in [Kids -> Int]

IInv == Typed /\ IdsAccounted

\* What a step may do: the bodies of the action properties.
Shrinks ==
    /\ "CAP_SETUID" \notin permitted => All(u') \subseteq All(u)
    /\ "CAP_SETGID" \notin permitted => All(g') \subseteq All(g)
    /\ permitted' \subseteq permitted

Creds == <<u, g, permitted, effective, keepcaps, user, ucounts, refs, nproc_exceeded>>

Good == IInv' /\ Shrinks /\ (ret' \in Errors => UNCHANGED Creds)

USE CredentialsAssumption

-----------------------------------------------------------------------------
(***************************************************************************)
(* The user_structs.                                                       *)
(***************************************************************************)

\* What prepare_creds took, commit_creds or abort_creds gives back.
LEMMA GetPut == \A f \in [Kids -> Int], k \in Kids : Put(Get(f, k), k) = f
<1> SUFFICES ASSUME NEW f \in [Kids -> Int], NEW k \in Kids PROVE Put(Get(f, k), k) = f
  OBVIOUS
<1>1. Get(f, k) \in [Kids -> Int] /\ Get(f, k)[k] = f[k] + 1
  BY DEF Get
<1>2. \A x \in Kids : Put(Get(f, k), k)[x] = f[x]
  BY <1>1, SMT DEF Get, Put
<1> QED
  BY <1>1, <1>2, SMT DEF Put

\* set_user, and then the references of the copy or of the old credentials
\* are dropped.
LEMMA Exchange ==
    ASSUME NEW f \in [Kids -> Int], NEW x \in Kids, NEW y \in Kids, x # y
    PROVE  LET held == Put(Get(Get(f, x), y), x)
           IN  /\ Put(held, y) = f
               /\ Put(held, x) \in [Kids -> Int]
               /\ Put(held, x)[x] = f[x] - 1 /\ Put(held, x)[y] = f[y] + 1
               /\ \A k \in Kids \ {x, y} : Put(held, x)[k] = f[k]
<1> DEFINE a == Get(f, x)
           b == Get(a, y)
           held == Put(b, x)
<1>1. a \in [Kids -> Int] /\ \A k \in Kids : a[k] = IF k = x THEN f[k] + 1 ELSE f[k]
  BY SMT DEF Get
<1> HIDE DEF a
<1>2. b \in [Kids -> Int] /\ \A k \in Kids : b[k] = IF k = y THEN a[k] + 1 ELSE a[k]
  BY <1>1, SMT DEF Get
<1> HIDE DEF b
<1>3. held \in [Kids -> Int] /\ \A k \in Kids : held[k] = IF k = x THEN b[k] - 1 ELSE b[k]
  BY <1>2, SMT DEF Put
<1>4. \A k \in Kids : held[k] = IF k = y THEN f[k] + 1 ELSE f[k]
  BY <1>1, <1>2, <1>3, SMT
<1> HIDE DEF held
<1>5. Put(held, y) \in [Kids -> Int] /\ \A k \in Kids : Put(held, y)[k] = f[k]
  BY <1>3, <1>4, SMT DEF Put
<1>6. Put(held, y) = f
  BY <1>5
<1>7. /\ Put(held, x) \in [Kids -> Int]
      /\ \A k \in Kids : Put(held, x)[k] = IF k = x THEN held[k] - 1 ELSE held[k]
  BY <1>3, SMT DEF Put
<1>8. /\ Put(held, x)[x] = f[x] - 1 /\ Put(held, x)[y] = f[y] + 1
      /\ \A k \in Kids \ {x, y} : Put(held, x)[k] = f[k]
  BY <1>4, <1>7, SMT
<1> QED
  BY <1>6, <1>7, <1>8 DEF held, b, a

-----------------------------------------------------------------------------
LEMMA IInvInit == Init => IInv
<1> SUFFICES ASSUME Init PROVE IInv
  OBVIOUS
<1>1. PICK x \in Kids, y \in Kids :
        /\ u = [r |-> x, e |-> y, s |-> y, fs |-> y]
        /\ g = [r |-> x, e |-> y, s |-> y, fs |-> y]
        /\ user = x /\ ucounts = x
        /\ refs = [k \in Kids |-> IF k = x THEN 1 ELSE 0]
  BY DEF Init
<1>2. Typed
  BY <1>1, SMT DEF Init, Typed, Ids
<1>3. AccountedToRealUser
  BY <1>1, SMT DEF AccountedToRealUser
<1>4. DropIsFinal /\ FsuidShadowsEuid
  BY <1>1 DEF Init, DropIsFinal, FsuidShadowsEuid
<1> QED
  BY <1>2, <1>3, <1>4 DEF IInv, IdsAccounted

\* A step after which the credentials are what they were.
LEMMA NothingChanged ==
    ASSUME IInv, UNCHANGED Creds, UNCHANGED <<fs_explicit, dropped>>
    PROVE  Good
<1>1. IInv'
  BY DEF IInv, Typed, IdsAccounted, DropIsFinal, AccountedToRealUser, FsuidShadowsEuid, Creds, All
<1>2. Shrinks
  BY DEF Shrinks, Creds
<1> QED
  BY <1>1, <1>2 DEF Good

LEMMA ReturnStep == ASSUME IInv, NEW v, Return(v) PROVE Good
  BY NothingChanged DEF Return, Creds

\* A copy that nothing was done to is dropped.
LEMMA AbortStep == ASSUME IInv, NEW v, Abort(v, prepared, user) PROVE Good
<1>1. refs' = refs
  BY GetPut DEF Abort, prepared, IInv, Typed, IdsAccounted, AccountedToRealUser, Ids
<1> QED
  BY <1>1, NothingChanged DEF Abort, Creds

\* The end of a call for users, by a process that may give itself the ids new.
LEMMA CommitUidStep ==
    ASSUME IInv, NEW new \in Ids, NEW all \in BOOLEAN,
           new.fs = new.e, all => All(new) = {new.e},
           "CAP_SETUID" \notin permitted => All(new) \subseteq All(u),
           CommitUid(new, all)
    PROVE  Good
<1> DEFINE changed == new.r # u.r
           held == IF changed THEN set_user(new.r) ELSE prepared
<1>1. /\ u.r \in Kids /\ new.r \in Kids /\ new.e \in Kids /\ user = u.r
      /\ refs \in [Kids -> Int]
      /\ \A k \in Kids : refs[k] = IF k = u.r THEN 1 ELSE 0
  BY DEF IInv, Typed, IdsAccounted, AccountedToRealUser, Ids
<1>2. /\ Put(held, new.r) = refs
      /\ Put(held, user) \in [Kids -> Int]
      /\ \A k \in Kids : Put(held, user)[k] = IF k = new.r THEN 1 ELSE 0
  <2>1. CASE changed
    <3>1. held = Put(Get(Get(refs, u.r), new.r), u.r)
      BY <1>1, <2>1 DEF set_user, prepared
    <3>2. /\ Put(held, new.r) = refs /\ Put(held, u.r) \in [Kids -> Int]
          /\ Put(held, u.r)[u.r] = refs[u.r] - 1 /\ Put(held, u.r)[new.r] = refs[new.r] + 1
          /\ \A k \in Kids \ {u.r, new.r} : Put(held, u.r)[k] = refs[k]
      BY <1>1, <2>1, <3>1, Exchange
    <3> HIDE DEF held
    <3>3. \A k \in Kids : Put(held, u.r)[k] = IF k = new.r THEN 1 ELSE 0
      BY <1>1, <2>1, <3>2, SMT
    <3> QED
      BY <1>1, <3>2, <3>3
  <2>2. CASE ~changed
    BY <1>1, <2>2, GetPut DEF prepared
  <2> QED
    BY <2>1, <2>2
<1>3. CASE Return(ENOMEM)
  BY <1>3, ReturnStep
<1>4. CASE Abort(EAGAIN, prepared, user)
  BY <1>4, AbortStep
<1>5. CASE Abort(EPERM, held, new.r) \/ FailUcounts(new, held)
  BY <1>2, <1>5, NothingChanged DEF Abort, FailUcounts, Creds
<1>6. ASSUME /\ u' = new
             /\ permitted' = FixPermitted(new) /\ effective' = FixEffective(new)
             /\ user' = new.r /\ ucounts' = new.r
             /\ refs' = Put(held, user)
             /\ ret' = 0
             /\ fs_explicit' = FALSE
             /\ dropped' = IF all /\ permitted' = {} THEN new.e ELSE dropped
             /\ UNCHANGED <<g, keepcaps>>
      PROVE  Good
  <2>1. FixPermitted(new) \subseteq permitted /\ FixEffective(new) \subseteq FixPermitted(new)
    BY DEF FixPermitted, FixEffective
  <2>2. Typed'
    BY <1>2, <1>6, <2>1 DEF IInv, Typed
  <2>3. AccountedToRealUser'
    BY <1>2, <1>6 DEF AccountedToRealUser
  <2>4. DropIsFinal'
    <3>1. CASE all /\ permitted' = {}
      BY <1>6, <3>1 DEF DropIsFinal, All
    <3>2. CASE ~(all /\ permitted' = {})
      <4> SUFFICES ASSUME dropped # NONE PROVE All(u)' = {dropped} /\ permitted' = {}
        BY <1>6, <3>2 DEF DropIsFinal
      <4>1. All(u) = {dropped} /\ permitted = {}
        BY DEF IInv, IdsAccounted, DropIsFinal
      <4>2. All(new) \subseteq {dropped} /\ new.e \in All(new)
        BY <4>1 DEF All
      <4>3. All(new) = {dropped}
        BY <4>2
      <4> QED
        BY <1>6, <2>1, <4>1, <4>3 DEF All
    <3> QED
      BY <3>1, <3>2
  <2>5. FsuidShadowsEuid'
    BY <1>6 DEF FsuidShadowsEuid
  <2>6. Shrinks
    BY <1>6, <2>1 DEF Shrinks, All
  <2>7. ret' \notin Errors
    BY <1>6 DEF Errors, EPERM, EAGAIN, ENOMEM, EINVAL
  <2> QED
    BY <2>2, <2>3, <2>4, <2>5, <2>6, <2>7 DEF Good, IInv, IdsAccounted
<1> QED
  BY <1>3, <1>4, <1>5, <1>6 DEF CommitUid

\* The end of a call for groups.
LEMMA CommitGidStep ==
    ASSUME IInv, NEW new \in Ids,
           "CAP_SETGID" \notin permitted => All(new) \subseteq All(g),
           CommitGid(new)
    PROVE  Good
<1>1. CASE Return(ENOMEM)
  BY <1>1, ReturnStep
<1>2. CASE Abort(EPERM, prepared, user)
  BY <1>2, AbortStep
<1>3. ASSUME /\ g' = new /\ ret' = 0
             /\ refs' = Put(prepared, user)
             /\ UNCHANGED <<u, permitted, effective, keepcaps, user, ucounts, nproc_exceeded,
                            fs_explicit, dropped>>
      PROVE  Good
  <2>1. refs' = refs
    BY <1>3, GetPut DEF prepared, IInv, Typed, IdsAccounted, AccountedToRealUser, Ids
  <2>2. IInv'
    BY <1>3, <2>1 DEF IInv, Typed, IdsAccounted, DropIsFinal, AccountedToRealUser,
       FsuidShadowsEuid, All
  <2>3. Shrinks
    BY <1>3 DEF Shrinks, All
  <2>4. ret' \notin Errors
    BY <1>3 DEF Errors, EPERM, EAGAIN, ENOMEM, EINVAL
  <2> QED
    BY <2>2, <2>3, <2>4 DEF Good
<1> QED
  BY <1>1, <1>2, <1>3 DEF CommitGid

LEMMA RefuseStep == ASSUME IInv, Refuse PROVE Good
  BY ReturnStep, AbortStep DEF Refuse

-----------------------------------------------------------------------------
(***************************************************************************)
(* The rules of the calls, for users and for groups alike.                 *)
(***************************************************************************)
LEMMA KidType ==
    \A a \in ArgsOrNone : Kid(a) # INVALID => Kid(a) \in Kids \cup {NONE}
  BY DEF ArgsOrNone, Kid

LEMMA NameIsNoError == \A k : from_kid(k) \notin Errors
<1> SUFFICES ASSUME NEW k PROVE from_kid(k) \notin Errors
  OBVIOUS
<1>1. from_kid(k) \in Args \cup {OVERFLOW}
  BY DEF from_kid
<1> QED
  BY <1>1 DEF Errors, EPERM, EAGAIN, ENOMEM, EINVAL

\* setreuid and setregid.
LEMMA SetReRule ==
    ASSUME NEW id \in Ids, NEW r \in Kids \cup {NONE}, NEW e \in Kids \cup {NONE},
           NEW capable \in BOOLEAN, AllowedRe(id, r, e, capable)
    PROVE  /\ SetRe(id, r, e) \in Ids
           /\ SetRe(id, r, e).fs = SetRe(id, r, e).e
           /\ r = e /\ r # NONE => All(SetRe(id, r, e)) = {SetRe(id, r, e).e}
           /\ ~capable => All(SetRe(id, r, e)) \subseteq All(id)
<1>1. id.r \in Kids /\ id.e \in Kids /\ id.s \in Kids /\ id.fs \in Kids
  BY DEF Ids
<1> DEFINE x == Given(r, id.r)
           y == Given(e, id.e)
           z == IF r # NONE \/ (e # NONE /\ e # id.r) THEN Given(e, id.e) ELSE id.s
<1>2. SetRe(id, r, e) = [r |-> x, e |-> y, s |-> z, fs |-> y]
  BY DEF SetRe
<1>3. x \in Kids /\ y \in Kids /\ z \in Kids
  BY <1>1 DEF Given
<1>4. ~capable => {x, y, z} \subseteq All(id)
  BY DEF Given, AllowedRe, All
<1>5. r = e /\ r # NONE => x = y /\ z = y
  BY DEF Given
<1> HIDE DEF x, y, z
<1> QED
  BY <1>2, <1>3, <1>4, <1>5 DEF Ids, All

\* setuid and setgid.
LEMMA SetIdRule ==
    ASSUME NEW id \in Ids, NEW k \in Kids, NEW capable \in BOOLEAN, AllowedId(id, k, capable)
    PROVE  /\ SetId(id, k, capable) \in Ids
           /\ SetId(id, k, capable).fs = SetId(id, k, capable).e
           /\ capable => All(SetId(id, k, capable)) = {SetId(id, k, capable).e}
           /\ ~capable => All(SetId(id, k, capable)) \subseteq All(id)
<1>1. CASE capable
  BY <1>1 DEF SetId, Ids, All
<1>2. CASE ~capable
  BY <1>2 DEF SetId, Ids, All, AllowedId
<1> QED
  BY <1>1, <1>2

\* setresuid and setresgid.
LEMMA SetResRule ==
    ASSUME NEW id \in Ids, NEW r \in Kids \cup {NONE}, NEW e \in Kids \cup {NONE},
           NEW s \in Kids \cup {NONE}, NEW capable \in BOOLEAN, AllowedRes(id, r, e, s, capable)
    PROVE  /\ SetRes(id, r, e, s) \in Ids
           /\ SetRes(id, r, e, s).fs = SetRes(id, r, e, s).e
           /\ ~capable => All(SetRes(id, r, e, s)) \subseteq All(id)
<1>1. id.r \in Kids /\ id.e \in Kids /\ id.s \in Kids
  BY DEF Ids
<1> DEFINE x == Given(r, id.r)
           y == Given(e, id.e)
           z == Given(s, id.s)
<1>2. SetRes(id, r, e, s) = [r |-> x, e |-> y, s |-> z, fs |-> y]
  BY DEF SetRes
<1>3. x \in Kids /\ y \in Kids /\ z \in Kids
  BY <1>1 DEF Given
<1>4. ~capable => {x, y, z} \subseteq All(id)
  BY DEF Given, AllowedRes, All
<1> HIDE DEF x, y, z
<1> QED
  BY <1>2, <1>3, <1>4 DEF Ids, All

-----------------------------------------------------------------------------
LEMMA SetreuidStep ==
    ASSUME IInv, NEW r \in ArgsOrNone, NEW e \in ArgsOrNone, sys_setreuid(r, e)
    PROVE  Good
<1>1. CASE INVALID \in {Kid(r), Kid(e)} /\ Return(EINVAL)
  BY <1>1, ReturnStep
<1>2. CASE INVALID \notin {Kid(r), Kid(e)} /\ AllowedRe(u, Kid(r), Kid(e), capable_setuid)
  <2> DEFINE new == SetRe(u, Kid(r), Kid(e))
  <2>1. Kid(r) \in Kids \cup {NONE} /\ Kid(e) \in Kids \cup {NONE} /\ u \in Ids
    BY <1>2, KidType DEF IInv, Typed
  <2>2. capable_setuid \in BOOLEAN
    BY DEF capable_setuid
  <2>3. /\ new \in Ids /\ new.fs = new.e
        /\ Kid(r) = Kid(e) /\ Kid(r) # NONE => All(new) = {new.e}
        /\ ~capable_setuid => All(new) \subseteq All(u)
    BY <1>2, <2>1, <2>2, SetReRule
  <2>4. r = e /\ r # NONE => Kid(r) = Kid(e) /\ Kid(r) # NONE
    BY <1>2 DEF ArgsOrNone, Kid
  <2>5. "CAP_SETUID" \notin permitted => ~capable_setuid
    BY DEF capable_setuid, IInv, Typed
  <2>6. CommitUid(new, r = e /\ r # NONE)
    BY <1>2 DEF sys_setreuid
  <2> HIDE DEF new
  <2> QED
    BY <2>3, <2>4, <2>5, <2>6, CommitUidStep
<1>3. CASE Refuse
  BY <1>3, RefuseStep
<1> QED
  BY <1>1, <1>2, <1>3 DEF sys_setreuid

LEMMA SetregidStep ==
    ASSUME IInv, NEW r \in ArgsOrNone, NEW e \in ArgsOrNone, sys_setregid(r, e)
    PROVE  Good
<1>1. CASE INVALID \in {Kid(r), Kid(e)} /\ Return(EINVAL)
  BY <1>1, ReturnStep
<1>2. CASE INVALID \notin {Kid(r), Kid(e)} /\ AllowedRe(g, Kid(r), Kid(e), capable_setgid)
  <2> DEFINE new == SetRe(g, Kid(r), Kid(e))
  <2>1. Kid(r) \in Kids \cup {NONE} /\ Kid(e) \in Kids \cup {NONE} /\ g \in Ids
    BY <1>2, KidType DEF IInv, Typed
  <2>2. capable_setgid \in BOOLEAN
    BY DEF capable_setgid
  <2>3. new \in Ids /\ (~capable_setgid => All(new) \subseteq All(g))
    BY <1>2, <2>1, <2>2, SetReRule
  <2>4. "CAP_SETGID" \notin permitted => ~capable_setgid
    BY DEF capable_setgid, IInv, Typed
  <2>5. CommitGid(new)
    BY <1>2 DEF sys_setregid
  <2> HIDE DEF new
  <2> QED
    BY <2>3, <2>4, <2>5, CommitGidStep
<1>3. CASE Refuse
  BY <1>3, RefuseStep
<1> QED
  BY <1>1, <1>2, <1>3 DEF sys_setregid

LEMMA SetuidStep ==
    ASSUME IInv, NEW k \in Args, sys_setuid(k)
    PROVE  Good
<1>1. CASE Kid(k) = INVALID /\ Return(EINVAL)
  BY <1>1, ReturnStep
<1>2. CASE Kid(k) # INVALID /\ AllowedId(u, Kid(k), capable_setuid)
  <2> DEFINE new == SetId(u, Kid(k), capable_setuid)
  <2>1. Kid(k) \in Kids /\ u \in Ids
    BY <1>2 DEF Kid, IInv, Typed
  <2>2. capable_setuid \in BOOLEAN
    BY DEF capable_setuid
  <2>3. /\ new \in Ids
        /\ new.fs = new.e
        /\ capable_setuid => All(new) = {new.e}
        /\ ~capable_setuid => All(new) \subseteq All(u)
    BY <1>2, <2>1, <2>2, SetIdRule
  <2>4. "CAP_SETUID" \notin permitted => ~capable_setuid
    BY DEF capable_setuid, IInv, Typed
  <2>5. CommitUid(new, capable_setuid)
    BY <1>2 DEF sys_setuid
  <2> HIDE DEF new
  <2> QED
    BY <2>2, <2>3, <2>4, <2>5, CommitUidStep
<1>3. CASE Refuse
  BY <1>3, RefuseStep
<1> QED
  BY <1>1, <1>2, <1>3 DEF sys_setuid

LEMMA SetgidStep ==
    ASSUME IInv, NEW k \in Args, sys_setgid(k)
    PROVE  Good
<1>1. CASE Kid(k) = INVALID /\ Return(EINVAL)
  BY <1>1, ReturnStep
<1>2. CASE Kid(k) # INVALID /\ AllowedId(g, Kid(k), capable_setgid)
  <2> DEFINE new == SetId(g, Kid(k), capable_setgid)
  <2>1. Kid(k) \in Kids /\ g \in Ids
    BY <1>2 DEF Kid, IInv, Typed
  <2>2. capable_setgid \in BOOLEAN
    BY DEF capable_setgid
  <2>3. /\ new \in Ids
        /\ ~capable_setgid => All(new) \subseteq All(g)
    BY <1>2, <2>1, <2>2, SetIdRule
  <2>4. "CAP_SETGID" \notin permitted => ~capable_setgid
    BY DEF capable_setgid, IInv, Typed
  <2>5. CommitGid(new)
    BY <1>2 DEF sys_setgid
  <2> HIDE DEF new
  <2> QED
    BY <2>2, <2>3, <2>4, <2>5, CommitGidStep
<1>3. CASE Refuse
  BY <1>3, RefuseStep
<1> QED
  BY <1>1, <1>2, <1>3 DEF sys_setgid

LEMMA SetresuidStep ==
    ASSUME IInv, NEW r \in ArgsOrNone, NEW e \in ArgsOrNone, NEW s \in ArgsOrNone,
           sys_setresuid(r, e, s)
    PROVE  Good
<1>1. CASE Return(EINVAL) \/ Return(EPERM)
  BY <1>1, ReturnStep
<1>2. CASE /\ INVALID \notin {Kid(r), Kid(e), Kid(s)}
           /\ AllowedRes(u, Kid(r), Kid(e), Kid(s), capable_setuid)
           /\ CommitUid(SetRes(u, Kid(r), Kid(e), Kid(s)), FALSE)
  <2> DEFINE new == SetRes(u, Kid(r), Kid(e), Kid(s))
  <2>1. /\ Kid(r) \in Kids \cup {NONE} /\ Kid(e) \in Kids \cup {NONE}
        /\ Kid(s) \in Kids \cup {NONE} /\ u \in Ids
    BY <1>2, KidType DEF IInv, Typed
  <2>2. capable_setuid \in BOOLEAN
    BY DEF capable_setuid
  <2>3. /\ new \in Ids
        /\ new.fs = new.e
        /\ ~capable_setuid => All(new) \subseteq All(u)
    BY <1>2, <2>1, <2>2, SetResRule
  <2>4. "CAP_SETUID" \notin permitted => ~capable_setuid
    BY DEF capable_setuid, IInv, Typed
  <2>5. CommitUid(new, FALSE)
    BY <1>2
  <2> HIDE DEF new
  <2> QED
    BY <2>3, <2>4, <2>5, CommitUidStep
<1>3. ASSUME INVALID \notin {Kid(r), Kid(e), Kid(s)}, NoOpRes(u, Kid(r), Kid(e), Kid(s)),
             ret' = 0, fs_explicit' = (fs_explicit /\ e = NONE),
             UNCHANGED <<u, g, permitted, effective, keepcaps, user, ucounts, refs,
                         nproc_exceeded, dropped>>
      PROVE  Good
  <2>1. e # NONE => u.fs = u.e
    BY <1>3 DEF NoOpRes, Kid, ArgsOrNone
  <2>2. FsuidShadowsEuid'
    BY <1>3, <2>1 DEF FsuidShadowsEuid, IInv, IdsAccounted
  <2>3. IInv'
    BY <1>3, <2>2 DEF IInv, Typed, IdsAccounted, DropIsFinal, AccountedToRealUser, All
  <2>4. Shrinks
    BY <1>3 DEF Shrinks
  <2> QED
    BY <1>3, <2>3, <2>4 DEF Good, Creds
<1> QED
  BY <1>1, <1>2, <1>3 DEF sys_setresuid

LEMMA SetresgidStep ==
    ASSUME IInv, NEW r \in ArgsOrNone, NEW e \in ArgsOrNone, NEW s \in ArgsOrNone,
           sys_setresgid(r, e, s)
    PROVE  Good
<1>1. CASE Return(EINVAL) \/ Return(EPERM)
  BY <1>1, ReturnStep
<1>2. CASE /\ INVALID \notin {Kid(r), Kid(e), Kid(s)}
           /\ AllowedRes(g, Kid(r), Kid(e), Kid(s), capable_setgid)
           /\ CommitGid(SetRes(g, Kid(r), Kid(e), Kid(s)))
  <2> DEFINE new == SetRes(g, Kid(r), Kid(e), Kid(s))
  <2>1. /\ Kid(r) \in Kids \cup {NONE} /\ Kid(e) \in Kids \cup {NONE}
        /\ Kid(s) \in Kids \cup {NONE} /\ g \in Ids
    BY <1>2, KidType DEF IInv, Typed
  <2>2. capable_setgid \in BOOLEAN
    BY DEF capable_setgid
  <2>3. /\ new \in Ids
        /\ ~capable_setgid => All(new) \subseteq All(g)
    BY <1>2, <2>1, <2>2, SetResRule
  <2>4. "CAP_SETGID" \notin permitted => ~capable_setgid
    BY DEF capable_setgid, IInv, Typed
  <2>5. CommitGid(new)
    BY <1>2
  <2> HIDE DEF new
  <2> QED
    BY <2>3, <2>4, <2>5, CommitGidStep
<1>3. CASE Return(0)
  BY <1>3, ReturnStep
<1> QED
  BY <1>1, <1>2, <1>3 DEF sys_setresgid

LEMMA SetfsuidStep ==
    ASSUME IInv, NEW k \in Args, sys_setfsuid(k)
    PROVE  Good
<1>1. CASE Return(from_kid(u.fs))
  BY <1>1, ReturnStep
<1>2. CASE Abort(from_kid(u.fs), prepared, user)
  BY <1>2, AbortStep
<1>3. ASSUME Kid(k) # INVALID, Kid(k) \in All(u) \/ capable_setuid,
             u' = [u EXCEPT !.fs = Kid(k)], fs_explicit' = TRUE, ret' = from_kid(u.fs),
             refs' = Put(prepared, user),
             UNCHANGED <<g, permitted, effective, keepcaps, user, ucounts, nproc_exceeded, dropped>>
      PROVE  Good
  <2>1. refs' = refs
    BY <1>3, GetPut DEF prepared, IInv, Typed, IdsAccounted, AccountedToRealUser, Ids
  <2>2. Kid(k) \in Kids /\ u' \in Ids /\ u'.r = u.r
    BY <1>3 DEF Kid, IInv, Typed, Ids
  <2>3. "CAP_SETUID" \notin permitted => All(u') \subseteq All(u)
    BY <1>3 DEF All, capable_setuid, IInv, Typed, Ids
  <2>4. DropIsFinal'
    <3> SUFFICES ASSUME dropped # NONE PROVE All(u)' = {dropped} /\ permitted' = {}
      BY <1>3 DEF DropIsFinal
    <3>1. All(u) = {dropped} /\ permitted = {}
      BY DEF IInv, IdsAccounted, DropIsFinal
    <3>2. All(u') \subseteq {dropped} /\ u'.e \in All(u')
      BY <2>3, <3>1 DEF All
    <3> QED
      BY <1>3, <3>1, <3>2 DEF All
  <2>5. IInv'
    BY <1>3, <2>1, <2>2, <2>4 DEF IInv, Typed, IdsAccounted, AccountedToRealUser, FsuidShadowsEuid
  <2>6. Shrinks
    BY <1>3, <2>3 DEF Shrinks
  <2>7. ret' \notin Errors
    BY <1>3, NameIsNoError
  <2> QED
    BY <2>5, <2>6, <2>7 DEF Good
<1> QED
  BY <1>1, <1>2, <1>3 DEF sys_setfsuid

LEMMA SetfsgidStep ==
    ASSUME IInv, NEW k \in Args, sys_setfsgid(k)
    PROVE  Good
<1>1. CASE Return(from_kid(g.fs))
  BY <1>1, ReturnStep
<1>2. CASE Abort(from_kid(g.fs), prepared, user)
  BY <1>2, AbortStep
<1>3. ASSUME Kid(k) # INVALID, Kid(k) \in All(g) \/ capable_setgid,
             g' = [g EXCEPT !.fs = Kid(k)], ret' = from_kid(g.fs),
             refs' = Put(prepared, user),
             UNCHANGED <<u, permitted, effective, keepcaps, user, ucounts, nproc_exceeded,
                         fs_explicit, dropped>>
      PROVE  Good
  <2>1. refs' = refs
    BY <1>3, GetPut DEF prepared, IInv, Typed, IdsAccounted, AccountedToRealUser, Ids
  <2>2. Kid(k) \in Kids /\ g' \in Ids
    BY <1>3 DEF Kid, IInv, Typed, Ids
  <2>3. "CAP_SETGID" \notin permitted => All(g') \subseteq All(g)
    BY <1>3 DEF All, capable_setgid, IInv, Typed, Ids
  <2>5. IInv'
    BY <1>3, <2>1, <2>2 DEF IInv, Typed, IdsAccounted, DropIsFinal, AccountedToRealUser,
       FsuidShadowsEuid, All
  <2>6. Shrinks
    BY <1>3, <2>3 DEF Shrinks
  <2>7. ret' \notin Errors
    BY <1>3, NameIsNoError
  <2> QED
    BY <2>5, <2>6, <2>7 DEF Good
<1> QED
  BY <1>1, <1>2, <1>3 DEF sys_setfsgid

LEMMA SetCapsStep == ASSUME IInv, SetCaps PROVE Good
<1>1. permitted' \subseteq permitted /\ effective' \subseteq permitted' /\ ret' = 0
  BY DEF SetCaps
<1>2. UNCHANGED <<u, g, user, ucounts, refs, nproc_exceeded, fs_explicit, dropped>>
  BY DEF SetCaps
<1>3. IInv'
  BY <1>1, <1>2 DEF IInv, Typed, IdsAccounted, DropIsFinal, AccountedToRealUser,
     FsuidShadowsEuid, All
<1>4. Shrinks
  BY <1>1, <1>2 DEF Shrinks
<1>5. ret' \notin Errors
  BY <1>1 DEF Errors, EPERM, EAGAIN, ENOMEM, EINVAL
<1> QED
  BY <1>3, <1>4, <1>5 DEF Good

LEMMA NextGood == IInv /\ Next => Good
<1> SUFFICES ASSUME IInv, Next PROVE Good
  OBVIOUS
<1>1. CASE UidCall
  BY <1>1, SetuidStep, SetfsuidStep, SetreuidStep, SetresuidStep DEF UidCall
<1>2. CASE GidCall
  BY <1>2, SetgidStep, SetfsgidStep, SetregidStep, SetresgidStep DEF GidCall
<1> QED
  BY <1>1, <1>2, SetCapsStep DEF Next

LEMMA IInvStep == IInv /\ [Next]_vars => IInv'
<1>1. IInv /\ UNCHANGED vars => IInv'
  BY NothingChanged DEF vars, Creds, Good
<1> QED
  BY <1>1, NextGood DEF Good

-----------------------------------------------------------------------------
\* After any sequence of the eight calls, failed ones included: privileges
\* dropped by setuid or setreuid stay dropped, set_user and set_cred_ucounts
\* account the process to its real user exactly once, and fsuid shadows euid.
THEOREM Accounted == Spec => []IdsAccounted
<1>1. IInv => IdsAccounted
  BY DEF IInv
<1> QED
  BY <1>1, IInvInit, IInvStep, PTL DEF Spec

\* A process without the capability for it finds no id that it had not, no
\* call gives a capability, and a call that fails changes nothing.
THEOREM ChangeByRight == Spec => IdsChangeByRight
<1>1. IInv /\ [Next]_vars => [Shrinks]_vars /\ [ret' \in Errors => UNCHANGED Creds]_vars
  BY NextGood DEF Good
<1>2. Spec => [][Shrinks]_vars /\ [][ret' \in Errors => UNCHANGED Creds]_vars
  BY <1>1, IInvInit, IInvStep, PTL DEF Spec
<1> QED
  BY <1>2 DEF IdsChangeByRight, UnprivilegedIdsShrink, FailureChangesNothing, Shrinks, Creds

=============================================================================
