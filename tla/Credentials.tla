----------------------------- MODULE Credentials -----------------------------
(***************************************************************************)
(* The system calls by which a process changes its user and group ids      *)
(* (kernel/sys.c): setreuid, setuid, setresuid, setfsuid and their four    *)
(* counterparts for groups.  Each copies the credentials (prepare_creds),  *)
(* changes the copy and either commits or aborts it; the process alone     *)
(* changes its credentials, so a call is one step.                         *)
(***************************************************************************)
EXTENDS Integers, FiniteSets

CONSTANTS
    Kids,         \* ids as the kernel keeps them, of users and of groups
    Args,         \* ids as programs name them, without -1
    ROOT,         \* the argument 0
    make_kid,     \* what an argument means in the user namespace: a Kid, or INVALID
    INVALID,
    OVERFLOW,     \* what a program is told of a Kid that its namespace does not map
    Families      \* the calls the process makes: a subset of {"uid", "gid"}

NONE == -1        \* (uid_t)-1, "do not change"

ASSUME CredentialsAssumption ==
    /\ INVALID \notin Kids /\ NONE \notin Kids /\ NONE \notin Args /\ ROOT \in Args
    /\ make_kid \in [Args -> Kids \cup {INVALID}]
    /\ make_kid[ROOT] \in Kids
    /\ \A a \in Args, b \in Args : make_kid[a] = make_kid[b] /\ make_kid[a] # INVALID => a = b
    /\ (Args \cup {OVERFLOW}) \cap {-1, -11, -12, -22} = {}
    /\ Families \subseteq {"uid", "gid"}

EPERM == -1
EAGAIN == -11
ENOMEM == -12
EINVAL == -22
Errors == {EPERM, EAGAIN, ENOMEM, EINVAL}

root_uid == make_kid[ROOT]
\* Of the capabilities, those that the calls made ask for.
Caps == {"CAP_SETUID" : f \in Families \cap {"uid"}} \cup {"CAP_SETGID" : f \in Families \cap {"gid"}}

VARIABLES
    u, g,         \* the ids: records [r, e, s, fs]
    permitted, effective, \* capabilities
    keepcaps,     \* SECURE_KEEP_CAPS
    user,         \* whose user_struct the credentials hold
    ucounts,      \* whose processes the process counts among
    refs,         \* references to each user_struct that the process accounts for
    nproc_exceeded,
    ret,
    \* history
    fs_explicit,  \* the last change of u.fs was by setfsuid
    dropped       \* the id given to a setuid or setreuid that was to drop all others
                  \* and left no capability, or NONE

vars == <<u, g, permitted, effective, keepcaps, user, ucounts, refs,
          nproc_exceeded, ret, fs_explicit, dropped>>

Ids == [r : Kids, e : Kids, s : Kids, fs : Kids]
All(id) == {id.r, id.e, id.s, id.fs}

TypeOK ==
    /\ u \in Ids /\ g \in Ids
    /\ permitted \subseteq Caps /\ effective \subseteq Caps
    /\ keepcaps \in BOOLEAN /\ nproc_exceeded \in BOOLEAN /\ fs_explicit \in BOOLEAN
    /\ user \in Kids /\ ucounts \in Kids
    /\ refs \in [Kids -> Nat]
    /\ ret \in Errors \cup {0, OVERFLOW} \cup Args
    /\ dropped \in Kids \cup {NONE}

\* A login of any user, or a set-user-id program: euid and suid differ from uid.
Init ==
    /\ \E x \in Kids, y \in Kids :
         /\ u = [r |-> x, e |-> y, s |-> y, fs |-> y]
         /\ g = [r |-> x, e |-> y, s |-> y, fs |-> y]
         /\ permitted = IF y = root_uid THEN Caps ELSE {}
         /\ user = x /\ ucounts = x
         /\ refs = [k \in Kids |-> IF k = x THEN 1 ELSE 0]
    /\ effective = permitted
    /\ keepcaps = FALSE /\ nproc_exceeded = FALSE
    /\ ret = 0 /\ fs_explicit = FALSE /\ dropped = NONE

-----------------------------------------------------------------------------
(***************************************************************************)
(* The rules of each call, the same for users and groups.  Arguments are   *)
(* already translated; NONE stays NONE.                                    *)
(***************************************************************************)

Kid(a) == IF a = NONE THEN NONE ELSE make_kid[a]

\* from_kuid_munged
from_kid(k) == IF \E a \in Args : make_kid[a] = k THEN CHOOSE a \in Args : make_kid[a] = k ELSE OVERFLOW

Given(k, old) == IF k = NONE THEN old ELSE k

AllowedRe(id, r, e, capable) ==
    /\ r = NONE \/ r \in {id.r, id.e} \/ capable
    /\ e = NONE \/ e \in {id.r, id.e, id.s} \/ capable

\* Faulty: the saved id stays when only the real one is given.
SetReKeeps(id, r, e) ==
    [r |-> Given(r, id.r), e |-> Given(e, id.e), s |-> id.s, fs |-> Given(e, id.e)]

SetRe(id, r, e) ==
    [r |-> Given(r, id.r), e |-> Given(e, id.e),
     s |-> IF r # NONE \/ (e # NONE /\ e # id.r) THEN Given(e, id.e) ELSE id.s,
     fs |-> Given(e, id.e)]

AllowedId(id, k, capable) == capable \/ k \in {id.r, id.s}

SetId(id, k, capable) ==
    IF capable THEN [r |-> k, e |-> k, s |-> k, fs |-> k] ELSE [id EXCEPT !.e = k, !.fs = k]

NoOpRes(id, r, e, s) ==
    /\ r \in {NONE, id.r}
    /\ e = NONE \/ (e = id.e /\ e = id.fs)
    /\ s \in {NONE, id.s}

AllowedRes(id, r, e, s, capable) == {r, e, s} \subseteq {NONE, id.r, id.e, id.s} \/ capable

SetRes(id, r, e, s) ==
    [r |-> Given(r, id.r), e |-> Given(e, id.e), s |-> Given(s, id.s), fs |-> Given(e, id.e)]

-----------------------------------------------------------------------------
Get(f, k) == [f EXCEPT ![k] = @ + 1]
Put(f, k) == [f EXCEPT ![k] = @ - 1]

\* prepare_creds (external): the copy holds the user_struct too.
prepared == Get(refs, user)

\* set_user exchanges the copy's user_struct for that of the new real id.
set_user(k) == Put(Get(prepared, k), user)

\* A call that returns before it has a copy.
Return(v) ==
    /\ ret' = v
    /\ UNCHANGED <<u, g, permitted, effective, keepcaps, user, ucounts, refs,
                   nproc_exceeded, fs_explicit, dropped>>

\* abort_creds (external) drops what the copy holds: a reference to whose.
Abort(v, held, whose) ==
    /\ ret' = v
    /\ refs' = Put(held, whose)
    /\ UNCHANGED <<u, g, permitted, effective, keepcaps, user, ucounts,
                   nproc_exceeded, fs_explicit, dropped>>

\* security_task_fix_setuid (external): who leaves root behind loses the
\* capabilities, and with the effective id the effective ones come and go.
Uids3(id) == {id.r, id.e, id.s}
FixPermitted(new) ==
    IF root_uid \in Uids3(u) /\ root_uid \notin Uids3(new) /\ ~keepcaps THEN {} ELSE permitted
FixEffective(new) ==
    IF u.e = root_uid /\ new.e # root_uid THEN {}
    ELSE IF u.e # root_uid /\ new.e = root_uid THEN FixPermitted(new)
    ELSE effective \cap FixPermitted(new)

\* Whether the new user has too many processes is theirs to know.
flag_nproc_exceeded(new) ==
    nproc_exceeded' \in IF new.r = ucounts THEN {nproc_exceeded} ELSE BOOLEAN

\* set_cred_ucounts cannot allocate the counters of the new real id.
FailUcounts(new, held) == new.r # u.r /\ Abort(EAGAIN, held, new.r)

\* The end of setreuid, setuid and setresuid: alloc_uid may fail, then the
\* security module refuse, then set_cred_ucounts fail; or commit_creds.
CommitUid(new, all) ==
    LET changed == new.r # u.r
        held == IF changed THEN set_user(new.r) ELSE prepared
    IN  \/ Return(ENOMEM)
        \/ changed /\ Abort(EAGAIN, prepared, user)
        \/ Abort(EPERM, held, new.r)
        \/ FailUcounts(new, held)
        \/ /\ u' = new
           /\ permitted' = FixPermitted(new) /\ effective' = FixEffective(new)
           /\ user' = new.r /\ ucounts' = new.r
           /\ refs' = Put(held, user)
           /\ flag_nproc_exceeded(new)
           /\ ret' = 0
           /\ fs_explicit' = FALSE
           /\ dropped' = IF all /\ permitted' = {} THEN new.e ELSE dropped
           /\ UNCHANGED <<g, keepcaps>>

\* The end of the calls for groups.
CommitGid(new) ==
    \/ Return(ENOMEM)
    \/ Abort(EPERM, prepared, user)
    \/ /\ g' = new /\ ret' = 0
       /\ refs' = Put(prepared, user)
       /\ UNCHANGED <<u, permitted, effective, keepcaps, user, ucounts, nproc_exceeded,
                      fs_explicit, dropped>>

\* The calls that copy before they look at permissions.
Refuse == Return(ENOMEM) \/ Abort(EPERM, prepared, user)

capable_setuid == "CAP_SETUID" \in effective
capable_setgid == "CAP_SETGID" \in effective

sys_setreuid(r, e) ==
    \/ INVALID \in {Kid(r), Kid(e)} /\ Return(EINVAL)
    \/ /\ INVALID \notin {Kid(r), Kid(e)}
       /\ IF AllowedRe(u, Kid(r), Kid(e), capable_setuid)
          THEN CommitUid(SetRe(u, Kid(r), Kid(e)), r = e /\ r # NONE)
          ELSE Refuse

sys_setregid(r, e) ==
    \/ INVALID \in {Kid(r), Kid(e)} /\ Return(EINVAL)
    \/ /\ INVALID \notin {Kid(r), Kid(e)}
       /\ IF AllowedRe(g, Kid(r), Kid(e), capable_setgid)
          THEN CommitGid(SetRe(g, Kid(r), Kid(e)))
          ELSE Refuse

sys_setuid(k) ==
    \/ Kid(k) = INVALID /\ Return(EINVAL)
    \/ /\ Kid(k) # INVALID
       /\ IF AllowedId(u, Kid(k), capable_setuid)
          THEN CommitUid(SetId(u, Kid(k), capable_setuid), capable_setuid)
          ELSE Refuse

sys_setgid(k) ==
    \/ Kid(k) = INVALID /\ Return(EINVAL)
    \/ /\ Kid(k) # INVALID
       /\ IF AllowedId(g, Kid(k), capable_setgid)
          THEN CommitGid(SetId(g, Kid(k), capable_setgid))
          ELSE Refuse

\* A call that names the effective id settles the file-system id, also when
\* there is nothing to change.
sys_setresuid(r, e, s) ==
    \/ INVALID \in {Kid(r), Kid(e), Kid(s)} /\ Return(EINVAL)
    \/ /\ INVALID \notin {Kid(r), Kid(e), Kid(s)}
       /\ IF NoOpRes(u, Kid(r), Kid(e), Kid(s))
          THEN /\ ret' = 0
               /\ fs_explicit' = (fs_explicit /\ e = NONE)
               /\ UNCHANGED <<u, g, permitted, effective, keepcaps, user, ucounts, refs,
                              nproc_exceeded, dropped>>
          ELSE IF AllowedRes(u, Kid(r), Kid(e), Kid(s), capable_setuid)
          THEN CommitUid(SetRes(u, Kid(r), Kid(e), Kid(s)), FALSE)
          ELSE Return(EPERM)

sys_setresgid(r, e, s) ==
    \/ INVALID \in {Kid(r), Kid(e), Kid(s)} /\ Return(EINVAL)
    \/ /\ INVALID \notin {Kid(r), Kid(e), Kid(s)}
       /\ IF NoOpRes(g, Kid(r), Kid(e), Kid(s)) THEN Return(0)
          ELSE IF AllowedRes(g, Kid(r), Kid(e), Kid(s), capable_setgid)
          THEN CommitGid(SetRes(g, Kid(r), Kid(e), Kid(s)))
          ELSE Return(EPERM)

\* Faulty: no test of the ids that the process has.
sys_setfsuidAny(k) ==
    /\ Kid(k) # INVALID
    /\ u' = [u EXCEPT !.fs = Kid(k)] /\ fs_explicit' = TRUE
    /\ ret' = from_kid(u.fs)
    /\ UNCHANGED <<g, permitted, effective, keepcaps, user, ucounts, refs, nproc_exceeded, dropped>>

\* setfsuid answers with the old id, whatever happens.
sys_setfsuid(k) ==
    \/ Return(from_kid(u.fs))
    \/ Abort(from_kid(u.fs), prepared, user)
    \/ /\ Kid(k) # INVALID
       /\ Kid(k) \in All(u) \/ capable_setuid
       /\ Kid(k) # u.fs
       /\ u' = [u EXCEPT !.fs = Kid(k)] /\ fs_explicit' = TRUE
       /\ ret' = from_kid(u.fs)
       /\ refs' = Put(prepared, user)
       /\ UNCHANGED <<g, permitted, effective, keepcaps, user, ucounts, nproc_exceeded, dropped>>

sys_setfsgid(k) ==
    \/ Return(from_kid(g.fs))
    \/ Abort(from_kid(g.fs), prepared, user)
    \/ /\ Kid(k) # INVALID
       /\ Kid(k) \in All(g) \/ capable_setgid
       /\ Kid(k) # g.fs
       /\ g' = [g EXCEPT !.fs = Kid(k)]
       /\ ret' = from_kid(g.fs)
       /\ refs' = Put(prepared, user)
       /\ UNCHANGED <<u, permitted, effective, keepcaps, user, ucounts, nproc_exceeded,
                      fs_explicit, dropped>>

\* capset and prctl(PR_SET_KEEPCAPS) (external): capabilities may be given up,
\* and taken back into the effective set while permitted.
SetCaps ==
    /\ permitted' \in SUBSET permitted
    /\ effective' \in SUBSET permitted'
    /\ keepcaps' \in BOOLEAN
    /\ ret' = 0
    /\ UNCHANGED <<u, g, user, ucounts, refs, nproc_exceeded, fs_explicit, dropped>>

ArgsOrNone == Args \cup {NONE}

UidCall ==
    /\ "uid" \in Families
    /\ \/ \E k \in Args : sys_setuid(k) \/ sys_setfsuid(k)
       \/ \E r \in ArgsOrNone, e \in ArgsOrNone : sys_setreuid(r, e)
       \/ \E r \in ArgsOrNone, e \in ArgsOrNone, s \in ArgsOrNone : sys_setresuid(r, e, s)

GidCall ==
    /\ "gid" \in Families
    /\ \/ \E k \in Args : sys_setgid(k) \/ sys_setfsgid(k)
       \/ \E r \in ArgsOrNone, e \in ArgsOrNone : sys_setregid(r, e)
       \/ \E r \in ArgsOrNone, e \in ArgsOrNone, s \in ArgsOrNone : sys_setresgid(r, e, s)

Next == UidCall \/ GidCall \/ SetCaps

Spec == Init /\ [][Next]_vars

-----------------------------------------------------------------------------
(***************************************************************************)
(* Properties.                                                             *)
(***************************************************************************)

\* A process without CAP_SETUID never has a user id it did not have before,
\* in whichever order it makes the calls, and one without CAP_SETGID no new
\* group id; nor does a call give it a capability.
UnprivilegedIdsShrink ==
    [][/\ "CAP_SETUID" \notin permitted => All(u') \subseteq All(u)
       /\ "CAP_SETGID" \notin permitted => All(g') \subseteq All(g)
       /\ permitted' \subseteq permitted]_vars

\* sys.c:521-522 and :602-605: setreuid lets a program drop its privileges
\* completely, and who gives up root by setuid cannot switch back: once such
\* a call left no capability, no later call finds another id than that one.
DropIsFinal == dropped # NONE => All(u) = {dropped} /\ permitted = {}

\* set_user, set_cred_ucounts, commit_creds and abort_creds: the process
\* holds the user_struct of its real uid, exactly once, and counts among that
\* user's processes, also after calls that failed halfway.
AccountedToRealUser ==
    /\ user = u.r /\ ucounts = u.r
    /\ \A k \in Kids : refs[k] = IF k = u.r THEN 1 ELSE 0

\* sys.c:858-861: fsuid shadows euid, except when explicitly set by setfsuid;
\* a setresuid that names an effective uid ends the exception.
FsuidShadowsEuid == ~fs_explicit => u.fs = u.e

\* After any sequence of calls, failed ones included, the ids agree with each
\* other, with who pays for the process, and with what it gave up.
IdsAccounted == DropIsFinal /\ AccountedToRealUser /\ FsuidShadowsEuid

\* The error paths of the calls: one that fails leaves the credentials, the
\* accounting and PF_NPROC_EXCEEDED as they were.
FailureChangesNothing ==
    [][ret' \in Errors => UNCHANGED <<u, g, permitted, effective, keepcaps, user, ucounts, refs,
                                      nproc_exceeded>>]_vars

\* A call changes the ids only by the capability for it, and only if it
\* succeeds.
IdsChangeByRight == UnprivilegedIdsShrink /\ FailureChangesNothing

=============================================================================
