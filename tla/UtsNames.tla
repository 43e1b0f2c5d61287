------------------------------ MODULE UtsNames ------------------------------
(***************************************************************************)
(* The host and domain name of a system (kernel/sys.c): sethostname,       *)
(* setdomainname, gethostname and the uname calls, by several processes    *)
(* at once.  A name is LEN + 1 bytes, of which 0 ends it.                  *)
(***************************************************************************)
EXTENDS Integers, Sequences, FiniteSetsExt

CONSTANTS
    Callers,
    LEN,           \* __NEW_UTS_LEN
    OLD_LEN,       \* __OLD_UTS_LEN, of struct oldold_utsname
    Bytes          \* what names are made of

\* What an instance gives the constants.
UtsNamesAssumption ==
    /\ LEN \in Nat \ {0} /\ OLD_LEN \in 1 .. LEN
    /\ 0 \in Bytes /\ Bytes \subseteq Nat

Names == [1 .. LEN + 1 -> Bytes]

\* The names that can be set.
Given == UNION {[1 .. n -> Bytes] : n \in 0 .. LEN}
Fields == {"nodename", "domainname"}

\* The calls; old is olduname, which truncates, and reads no domain name.
Setters == {"sethostname", "setdomainname"}
Getters == {"gethostname", "newuname", "olduname"}
FieldOf(op) == IF op = "setdomainname" THEN "domainname" ELSE "nodename"

VARIABLES
    utsname,       \* the two names
    uts_sem,       \* [readers, writer]: who holds it
    pc, op, len,
    tmp,           \* the caller's name, or the names copied
    \* history
    whole,         \* the names when a reader took the semaphore
    last           \* the names last set, with zeros after them

vars == <<utsname, uts_sem, pc, op, len, tmp, whole, last>>

Nobody == "nobody"
Blank == [f \in Fields |-> [i \in 1 .. LEN + 1 |-> 0]]
PCs == {"idle", "memcpy", "memset", "read", "read_domain", "user"}

Init ==
    /\ utsname = Blank /\ last = Blank /\ whole = [c \in Callers |-> Blank]
    /\ uts_sem = [readers |-> {}, writer |-> Nobody]
    /\ pc = [c \in Callers |-> "idle"]
    /\ op = [c \in Callers |-> "none"]
    /\ len = [c \in Callers |-> 0]
    /\ tmp = [c \in Callers |-> Blank]

Move(c, to) == pc' = [pc EXCEPT ![c] = to]
FreeForWriting == uts_sem.readers = {} /\ uts_sem.writer = Nobody

-----------------------------------------------------------------------------
\* sethostname and setdomainname up to down_write; without the capability,
\* with a bad length or buffer they change nothing.
SetName(c, o, name) ==
    /\ pc[c] = "idle" /\ FreeForWriting
    /\ uts_sem' = [uts_sem EXCEPT !.writer = c]
    /\ op' = [op EXCEPT ![c] = o]
    /\ len' = [len EXCEPT ![c] = Len(name)]
    /\ tmp' = [tmp EXCEPT ![c] = [Blank EXCEPT ![FieldOf(o)] =
                 [i \in 1 .. LEN + 1 |-> IF i <= Len(name) THEN name[i] ELSE 0]]]
    /\ last' = [last EXCEPT ![FieldOf(o)] = tmp'[c][FieldOf(o)]]
    /\ Move(c, "memcpy")
    /\ UNCHANGED <<utsname, whole>>

Overlay(old, new, from, to) ==
    [i \in 1 .. LEN + 1 |-> IF i \in from .. to THEN new[i] ELSE old[i]]

Memcpy(c) ==
    /\ pc[c] = "memcpy" /\ Move(c, "memset")
    /\ LET f == FieldOf(op[c]) IN
       utsname' = [utsname EXCEPT ![f] = Overlay(@, tmp[c][f], 1, len[c])]
    /\ UNCHANGED <<uts_sem, op, len, tmp, whole, last>>

Return(c) ==
    /\ Move(c, "idle")
    /\ op' = [op EXCEPT ![c] = "none"]
    /\ len' = [len EXCEPT ![c] = 0]
    /\ tmp' = [tmp EXCEPT ![c] = Blank]
    /\ whole' = [whole EXCEPT ![c] = Blank]

ClearFrom(n) == n + 1 .. LEN + 1

\* memset of the rest, and up_write.
Memset(c) ==
    /\ pc[c] = "memset" /\ Return(c)
    /\ LET f == FieldOf(op[c]) IN
       utsname' = [utsname EXCEPT ![f] =
         [i \in 1 .. LEN + 1 |-> IF i \in ClearFrom(len[c]) THEN 0 ELSE @[i]]]
    /\ uts_sem' = [uts_sem EXCEPT !.writer = Nobody]
    /\ UNCHANGED last

-----------------------------------------------------------------------------
\* Faulty: read without the semaphore.
DownReadNone(c, o, n) ==
    /\ pc[c] = "idle"
    /\ op' = [op EXCEPT ![c] = o] /\ len' = [len EXCEPT ![c] = n]
    /\ whole' = [whole EXCEPT ![c] = utsname]
    /\ Move(c, "read")
    /\ UNCHANGED <<utsname, uts_sem, tmp, last>>

DownRead(c, o, n) ==
    /\ pc[c] = "idle" /\ uts_sem.writer = Nobody
    /\ uts_sem' = [uts_sem EXCEPT !.readers = @ \cup {c}]
    /\ op' = [op EXCEPT ![c] = o] /\ len' = [len EXCEPT ![c] = n]
    /\ whole' = [whole EXCEPT ![c] = utsname]
    /\ Move(c, "read")
    /\ UNCHANGED <<utsname, tmp, last>>

Strlen(s) == Min({i \in 1 .. LEN + 1 : s[i] = 0}) - 1

\* How many bytes of the host name a call copies.
Copied(c) ==
    CASE op[c] = "gethostname" -> LET i == 1 + Strlen(utsname["nodename"]) IN
                                  IF i > len[c] THEN len[c] ELSE i
      [] op[c] = "newuname"    -> LEN + 1
      [] op[c] = "olduname"    -> OLD_LEN

UpRead(c) == uts_sem' = [uts_sem EXCEPT !.readers = @ \ {c}]

ReadNodename(c) ==
    /\ pc[c] = "read"
    /\ tmp' = [tmp EXCEPT ![c]["nodename"] = Overlay(@, utsname["nodename"], 1, Copied(c))]
    /\ len' = [len EXCEPT ![c] = Copied(c)]
    /\ IF op[c] = "newuname" THEN Move(c, "read_domain") /\ UNCHANGED uts_sem
                             ELSE Move(c, "user") /\ UpRead(c)
    /\ UNCHANGED <<utsname, op, whole, last>>

ReadDomainname(c) ==
    /\ pc[c] = "read_domain"
    /\ tmp' = [tmp EXCEPT ![c]["domainname"] = utsname["domainname"]]
    /\ Move(c, "user") /\ UpRead(c)
    /\ UNCHANGED <<utsname, op, len, whole, last>>

\* copy_to_user, which may fail.
CopyToUser(c) == pc[c] = "user" /\ Return(c) /\ UNCHANGED <<utsname, uts_sem, last>>

Next == \E c \in Callers :
    \/ \E o \in Setters, name \in Given : SetName(c, o, name)
    \/ \E o \in Getters, n \in 0 .. LEN + 2 :
         (o # "gethostname" => n = 0) /\ DownRead(c, o, n)
    \/ Memcpy(c) \/ Memset(c) \/ ReadNodename(c) \/ ReadDomainname(c) \/ CopyToUser(c)

Spec == Init /\ [][Next]_vars

-----------------------------------------------------------------------------
(***************************************************************************)
(* Properties.                                                             *)
(***************************************************************************)

TypeOK ==
    /\ utsname \in [Fields -> Names]
    /\ uts_sem \in [readers : SUBSET Callers, writer : Callers \cup {Nobody}]
    /\ pc \in [Callers -> PCs]
    /\ op \in [Callers -> Setters \cup Getters \cup {"none"}]
    /\ len \in [Callers -> 0 .. LEN + 2]
    /\ \A c \in Callers : pc[c] = "user" => len[c] <= LEN + 1
    /\ tmp \in [Callers -> [Fields -> Names]]
    /\ whole \in [Callers -> [Fields -> Names]] /\ last \in [Fields -> Names]

\* uname tells both names as they were at one instant, gethostname and
\* olduname the beginning of a name that was set, never a mix of two names.
NamesWhole ==
    \A c \in Callers : pc[c] = "user" =>
        /\ \A i \in 1 .. len[c] : tmp[c]["nodename"][i] = whole[c]["nodename"][i]
        /\ op[c] = "newuname" => tmp[c] = whole[c]

\* A shorter name leaves nothing of a longer one before it: when no change is
\* under way, each field holds the name last set, and zeros.
NoResidue == uts_sem.writer = Nobody => utsname = last

\* Readers and later names alike see a name that was set, whole.
NamesKept == NamesWhole /\ NoResidue

=============================================================================
