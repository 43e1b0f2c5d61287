--------------------------- MODULE TaskResources ---------------------------
(***************************************************************************)
(* copy_process, its long chain of error labels, exit and unshare          *)
(* (kernel/fork.c): which structures a new task shares with its creator,   *)
(* which it gets of its own, and how every reference taken is given back   *)
(* wherever the creation fails.  Several tasks create, unshare and exit    *)
(* at once.                                                                *)
(***************************************************************************)
EXTENDS Integers, Sequences, FiniteSets, FiniteSetsExt

CONSTANTS
    Tasks,         \* task_structs
    First,         \* the processes there are at first
    CloneFlags,    \* the sets of flags given to clone
    UnshareFlags,  \* the sets of flags given to unshare
    RLIMIT_NPROC, max_threads,
    MaxUnshares    \* bound: calls of unshare

\* What an instance gives the constants.
TaskResourcesAssumption ==
    /\ Tasks \subseteq Nat \ {0} /\ 1 \in First /\ First \subseteq Tasks
    /\ RLIMIT_NPROC \in Nat /\ max_threads \in Nat /\ MaxUnshares \in Nat

\* Structures with a count, which tasks point to; 0 is NULL.
Shared == {"cred", "files", "fs", "sighand", "signal", "mm", "nsproxy"}
Ids == 1 .. Cardinality(Tasks) + 2

\* What a task has alone.
Own == {"stack", "delayacct", "policy", "perf", "audit", "security", "semundo",
        "io", "thread", "pid", "pidfd", "cgroup"}

VARIABLES
    state,         \* of a task: "none", "new", "alive" or "dead"
    flags,         \* clone_flags of the new task, or what its creator unshares
    creator,       \* of a new task
    at,            \* the step a creation, or an unsharing, is at
    failing,       \* the new tasks whose creation has failed
    ptr,           \* ptr[t][r]: the structure task t points to
    count,         \* count[r][id]: references to a structure
    own,           \* what of Own a task has
    new,           \* what unshare has prepared
    nproc,         \* the user's processes
    nr_threads,
    \* history
    held,          \* the structures a new task has really a reference to
    unshares,      \* calls of unshare so far
    twice          \* something was given back that was not had

vars == <<state, flags, creator, at, failing, ptr, count, own, new, nproc, nr_threads, held,
          unshares, twice>>

Alive == {t \in Tasks : state[t] = "alive"}
New == {t \in Tasks : state[t] = "new"}
Nothing == [r \in Shared |-> 0]

\* Processes that share nothing.
Init ==
    /\ state = [t \in Tasks |-> IF t \in First THEN "alive" ELSE "none"]
    /\ flags = [t \in Tasks |-> {}]
    /\ creator = [t \in Tasks |-> 0]
    /\ at = [t \in Tasks |-> "user"] /\ failing = {}
    /\ ptr = [t \in Tasks |-> [r \in Shared |-> IF t \in First THEN t ELSE 0]]
    /\ count = [r \in Shared |-> [i \in Ids |-> IF i \in First THEN 1 ELSE 0]]
    /\ own = [t \in Tasks |-> IF t \in First THEN Own \ {"pidfd"} ELSE {}]
    /\ new = [t \in Tasks |-> Nothing]
    /\ nproc = Cardinality(First) /\ nr_threads = Cardinality(First)
    /\ held = [t \in Tasks |-> {}]
    /\ unshares = 0 /\ twice = FALSE

-----------------------------------------------------------------------------
(***************************************************************************)
(* The steps of copy_process that can fail, in their order, each with the  *)
(* label that it jumps to; and what stands at the labels, in their order.  *)
(***************************************************************************)

Steps == <<"cred", "limit", "policy", "sched", "perf", "audit", "security", "semundo", "files",
           "fs", "sighand", "signal", "mm", "nsproxy", "io", "thread", "pid", "pidfd",
           "put_user", "cgroup", "link">>

Labels == <<"cgroup", "pidfd", "pid", "thread", "io", "nsproxy", "mm", "signal", "sighand",
            "fs", "files", "semundo", "security", "audit", "perf", "policy", "delayacct",
            "count", "free">>

\* Where a failure at a step starts to clean up.
Label ==
    [s \in {Steps[i] : i \in 1 .. Len(Steps)} |->
       CASE s = "cred"                  -> "free"
         [] s = "limit"                 -> "count"
         [] s = "policy"                -> "delayacct"
         [] s \in {"sched", "perf"}     -> "policy"
         [] s = "audit"                 -> "perf"
         [] s = "security"              -> "audit"
         [] s = "semundo"               -> "security"
         [] s = "files"                 -> "semundo"
         [] s = "fs"                    -> "files"
         [] s = "sighand"               -> "fs"
         [] s = "signal"                -> "sighand"
         [] s = "mm"                    -> "signal"
         [] s = "nsproxy"               -> "mm"
         [] s = "io"                    -> "nsproxy"
         [] s = "thread"                -> "io"
         [] s = "pid"                   -> "thread"
         [] s = "pidfd"                 -> "pid"
         [] s \in {"put_user", "cgroup"} -> "pidfd"
         [] s = "link"                  -> "cgroup"]

Index(seq, x) == CHOOSE i \in 1 .. Len(seq) : seq[i] = x
After(seq, x) == seq[Index(seq, x) + 1]

\* Flags that copy_process turns down.
BadFlags(f) ==
    \/ {"NEWNS", "FS"} \subseteq f
    \/ "THREAD" \in f /\ "SIGHAND" \notin f
    \/ "SIGHAND" \in f /\ "VM" \notin f
    \/ {"PIDFD", "THREAD"} \subseteq f

\* dup_task_struct: a copy of every pointer, of which none is counted yet.
copy_process(c, p, f) ==
    /\ c \in Alive /\ at[c] = "user" /\ state[p] = "none"
    /\ ~BadFlags(f)
    /\ state' = [state EXCEPT ![p] = "new"]
    /\ flags' = [flags EXCEPT ![p] = f]
    /\ creator' = [creator EXCEPT ![p] = c]
    /\ at' = [at EXCEPT ![p] = "cred", ![c] = "clone"]
    /\ ptr' = [ptr EXCEPT ![p] = ptr[c]]
    /\ own' = [own EXCEPT ![p] = {"stack"}]
    /\ UNCHANGED <<failing, count, new, nproc, nr_threads, held, unshares, twice>>

\* Whether the new task shares the structure of its creator.
Shares(r, f) ==
    CASE r = "cred"    -> "THREAD" \in f
      [] r = "files"   -> "FILES" \in f
      [] r = "fs"      -> "FS" \in f
      [] r = "sighand" -> "SIGHAND" \in f
      [] r = "signal"  -> "THREAD" \in f
      [] r = "mm"      -> "VM" \in f
      [] r = "nsproxy" -> "NEWNS" \notin f

Free(r) == {i \in Ids : count[r][i] = 0}

Goto(p, s) == at' = [at EXCEPT ![p] = s] /\ UNCHANGED failing
Fail(p, l) == at' = [at EXCEPT ![p] = l] /\ failing' = failing \cup {p}
Doing(p, s) == p \in New \ failing /\ at[p] = s

Inc(r, i) == count' = [count EXCEPT ![r][i] = @ + 1]
Dec(r, i) == count' = [count EXCEPT ![r][i] = @ - 1]

\* copy_creds, copy_files, copy_fs, copy_sighand, copy_signal, copy_mm and
\* copy_namespaces.  A thread's signal_struct is counted when it is linked.
CopyShared(p, r) ==
    /\ Doing(p, r) /\ r \in Shared
    /\ IF Shares(r, flags[p])
       THEN /\ UNCHANGED ptr
            /\ IF r = "signal" THEN UNCHANGED <<count, held>>
               ELSE Inc(r, ptr[p][r]) /\ held' = [held EXCEPT ![p] = @ \cup {r}]
       ELSE LET i == Min(Free(r)) IN
            /\ ptr' = [ptr EXCEPT ![p][r] = i]
            /\ Inc(r, i) /\ held' = [held EXCEPT ![p] = @ \cup {r}]
    /\ nproc' = IF r = "cred" THEN nproc + 1 ELSE nproc
    /\ Goto(p, After(Steps, r))
    /\ UNCHANGED <<state, flags, creator, own, new, nr_threads, unshares, twice>>

\* Faulty: the label of the step itself, not of what was done before it.
FailSharedOwnLabel(p, r) ==
    /\ Doing(p, r) /\ r \in Shared \ {"cred"}
    /\ Shares(r, flags[p]) => r = "fs"
    /\ ptr' = [ptr EXCEPT ![p][r] =
         IF r \in {"fs", "sighand", "signal", "mm"} /\ ~Shares(r, flags[p]) THEN 0 ELSE @]
    /\ Fail(p, r)
    /\ UNCHANGED <<state, flags, creator, count, own, new, nproc, nr_threads, held, unshares, twice>>

\* No memory, or a fs_struct whose users are being counted by an exec.  The
\* pointer is then the creator's still, or NULL.
FailShared(p, r) ==
    /\ Doing(p, r) /\ r \in Shared
    /\ Shares(r, flags[p]) => r = "fs"
    /\ ptr' = [ptr EXCEPT ![p][r] =
         IF r \in {"fs", "sighand", "signal", "mm"} /\ ~Shares(r, flags[p]) THEN 0 ELSE @]
    /\ Fail(p, Label[r])
    /\ UNCHANGED <<state, flags, creator, count, own, new, nproc, nr_threads, held, unshares, twice>>

\* Faulty: a process that is exactly at the limit is let through.
OverLimitOff == nproc > RLIMIT_NPROC + 1 \/ nr_threads >= max_threads

\* RLIMIT_NPROC, for a user without capabilities, and max_threads.
OverLimit == nproc > RLIMIT_NPROC \/ nr_threads >= max_threads

CheckLimit(p) ==
    /\ Doing(p, "limit")
    /\ IF OverLimit
       THEN Fail(p, Label["limit"]) /\ UNCHANGED own
       ELSE Goto(p, "policy") /\ own' = [own EXCEPT ![p] = @ \cup {"delayacct"}]
    /\ UNCHANGED <<state, flags, creator, ptr, count, new, nproc, nr_threads, held, unshares, twice>>

\* The last of the elements of R that follow the i-th of a sequence.
RunEnd(seq, i, R) == Max({j \in i .. Len(seq) : \A k \in i .. j : seq[k] \in R})

\* What a task gets of its own at a step.
Gets(p, s) == IF s = "pidfd" /\ "PIDFD" \notin flags[p] THEN {} ELSE {s} \cap Own

\* What the new task has alone; any of it may fail to be had.  No other task
\* sees these steps, so those between two others are taken together.
CopyOwn(p, s) ==
    LET Alone == Range(Steps) \ (Shared \cup {"limit", "link"})
        i == Index(Steps, s)
        end == RunEnd(Steps, i, Alone) IN
    /\ Doing(p, s) /\ s \in Alone
    /\ \E k \in i .. end + 1 :
         /\ own' = [own EXCEPT ![p] = @ \cup UNION {Gets(p, Steps[j]) : j \in i .. k - 1}]
         /\ \/ k = end + 1 /\ Goto(p, Steps[k])
            \/ /\ k <= end /\ (Steps[k] \in {"pidfd", "put_user"} => "PIDFD" \in flags[p])
               /\ Fail(p, Label[Steps[k]])
    /\ UNCHANGED <<state, flags, creator, ptr, count, new, nproc, nr_threads, held, unshares, twice>>

\* Under tasklist_lock and siglock: a dying namespace or a fatal signal, or
\* the new task is made visible.
Link(p) ==
    /\ Doing(p, "link")
    /\ \/ /\ Fail(p, Label["link"])
          /\ UNCHANGED <<state, flags, creator, count, nr_threads, held>>
       \/ /\ state' = [state EXCEPT ![p] = "alive"] /\ UNCHANGED failing
          /\ IF "THREAD" \in flags[p] THEN Inc("signal", ptr[p]["signal"]) ELSE UNCHANGED count
          /\ at' = [at EXCEPT ![p] = "user", ![creator[p]] = "user"]
          /\ flags' = [flags EXCEPT ![p] = {}]
          /\ creator' = [creator EXCEPT ![p] = 0]
          /\ nr_threads' = nr_threads + 1
          /\ held' = [held EXCEPT ![p] = {}]
    /\ UNCHANGED <<ptr, own, new, nproc, unshares, twice>>

\* The labels that put what may be shared, one after the other.
UndoShared(p, l) ==
    /\ p \in failing /\ at[p] = l /\ l \in Shared
    /\ IF ptr[p][l] = 0 \/ (l = "signal" /\ "THREAD" \in flags[p])
       THEN UNCHANGED <<ptr, count, held>>
       ELSE /\ Dec(l, ptr[p][l])
            /\ held' = [held EXCEPT ![p] = @ \ {l}]
            /\ ptr' = [ptr EXCEPT ![p][l] = 0]
    /\ Goto(p, After(Labels, l))
    /\ UNCHANGED <<state, flags, creator, own, new, nproc, nr_threads, unshares, twice>>

\* The labels between them, which no other task sees.
UndoOwn(p, l) ==
    LET i == Index(Labels, l)
        end == RunEnd(Labels, i, Own)
        back == UNION {Gets(p, Labels[j]) : j \in i .. end} IN
    /\ p \in failing /\ at[p] = l /\ l \in Own
    /\ own' = [own EXCEPT ![p] = @ \ back]
    /\ twice' = (twice \/ ~(back \subseteq own[p]))
    /\ Goto(p, Labels[end + 1])
    /\ UNCHANGED <<state, flags, creator, ptr, count, new, nproc, nr_threads, held, unshares>>

\* bad_fork_cleanup_count: the user's count, then exit_creds.
UndoCount(p) ==
    /\ p \in failing /\ at[p] = "count"
    /\ nproc' = nproc - 1
    /\ Dec("cred", ptr[p]["cred"])
    /\ held' = [held EXCEPT ![p] = @ \ {"cred"}]
    /\ Goto(p, "free")
    /\ UNCHANGED <<state, flags, creator, ptr, own, new, nr_threads, unshares, twice>>

\* bad_fork_free: the stack and the task_struct.
FreeTask(p) ==
    /\ p \in failing /\ at[p] = "free"
    /\ failing' = failing \ {p}
    /\ state' = [state EXCEPT ![p] = "none"]
    /\ flags' = [flags EXCEPT ![p] = {}]
    /\ at' = [at EXCEPT ![p] = "user", ![creator[p]] = "user"]
    /\ creator' = [creator EXCEPT ![p] = 0]
    /\ ptr' = [ptr EXCEPT ![p] = Nothing]
    /\ own' = [own EXCEPT ![p] = @ \ {"stack"}]
    /\ UNCHANGED <<count, new, nproc, nr_threads, held, unshares, twice>>


\* The end of a task (external: do_exit and __put_task_struct).
exit(t) ==
    /\ t \in Alive \ {1} /\ at[t] = "user"
    /\ state' = [state EXCEPT ![t] = "dead"]
    /\ count' = [r \in Shared |-> [i \in Ids |->
         IF ptr[t][r] = i THEN count[r][i] - 1 ELSE count[r][i]]]
    /\ ptr' = [ptr EXCEPT ![t] = Nothing]
    /\ own' = [own EXCEPT ![t] = {}]
    /\ nproc' = nproc - 1 /\ nr_threads' = nr_threads - 1
    /\ UNCHANGED <<flags, creator, at, failing, new, held, unshares, twice>>

-----------------------------------------------------------------------------
(***************************************************************************)
(* ksys_unshare.                                                           *)
(***************************************************************************)

\* The flags that the given ones imply.
Implied(f) ==
    LET v == f \cup (IF "NEWUSER" \in f THEN {"THREAD", "FS"} ELSE {})
               \cup (IF "VM" \in f THEN {"SIGHAND", "THREAD"} ELSE {})
    IN v \cup (IF "SIGHAND" \in v THEN {"THREAD"} ELSE {})
         \cup (IF "NEWNS" \in v THEN {"FS"} ELSE {})

\* There is nothing to unshare of what cannot be unshared.
check_unshare_flags(t, f) ==
    /\ f \cap {"THREAD", "SIGHAND", "VM"} # {} =>
         \A u \in Alive \ {t} : ptr[u]["signal"] # ptr[t]["signal"]
    /\ f \cap {"SIGHAND", "VM"} # {} => count["sighand"][ptr[t]["sighand"]] = 1
    /\ "VM" \in f => count["mm"][ptr[t]["mm"]] = 1

UnshareSteps == <<"fs", "files", "cred", "nsproxy", "ucounts", "switch_ns", "swap",
                  "commit_creds", "put_old">>
ksys_unshare(t, f) ==
    /\ t \in Alive /\ at[t] = "user"
    /\ unshares < MaxUnshares /\ unshares' = unshares + 1
    /\ check_unshare_flags(t, Implied(f))
    /\ at' = [at EXCEPT ![t] = "fs"]
    /\ flags' = [flags EXCEPT ![t] = Implied(f)]
    /\ UNCHANGED <<state, creator, failing, ptr, count, own, new, nproc, nr_threads, held, twice>>

Unsharing(t, s) == t \in Alive /\ at[t] = s

\* Whether unshare gives the task a structure of its own.
Wanted(t, r) ==
    CASE r = "fs"      -> "FS" \in flags[t] /\ count["fs"][ptr[t]["fs"]] > 1
      [] r = "files"   -> "FILES" \in flags[t] /\ count["files"][ptr[t]["files"]] > 1
      [] r = "cred"    -> "NEWUSER" \in flags[t]
      [] r = "nsproxy" -> "NEWNS" \in flags[t]

Rest == <<state, creator, own, nproc, nr_threads, held, unshares, twice>>

Prepare(t, r) ==
    /\ Unsharing(t, r) /\ r \in {"fs", "files", "cred", "nsproxy"}
    /\ Goto(t, After(UnshareSteps, r))
    /\ IF Wanted(t, r)
       THEN Inc(r, Min(Free(r))) /\ new' = [new EXCEPT ![t][r] = Min(Free(r))]
       ELSE UNCHANGED <<count, new>>
    /\ UNCHANGED <<flags, ptr>> /\ UNCHANGED Rest

\* The labels at the end of ksys_unshare put what is left in its variables.
\* There is none for new_nsproxy.
GiveBack(t) ==
    count' = [r \in Shared |-> [i \in Ids |->
                IF r # "nsproxy" /\ new[t][r] = i THEN count[r][i] - 1 ELSE count[r][i]]]

EndUnshare(t) ==
    /\ Goto(t, "user")
    /\ flags' = [flags EXCEPT ![t] = {}]
    /\ new' = [new EXCEPT ![t] = Nothing]

PrepareFails(t, r) ==
    /\ Unsharing(t, r) /\ r \in {"fs", "files", "cred", "nsproxy", "ucounts"}
    /\ r # "ucounts" => Wanted(t, r)
    /\ r = "ucounts" => new[t]["cred"] # 0
    /\ EndUnshare(t) /\ GiveBack(t)
    /\ UNCHANGED ptr /\ UNCHANGED Rest

SetCredUcounts(t) ==
    /\ Unsharing(t, "ucounts") /\ Goto(t, "switch_ns")
    /\ UNCHANGED <<flags, ptr, count, new>> /\ UNCHANGED Rest

\* The task points to the new structure; the old one is put at once, or left
\* in new for the end.
Switch(t, s, to, R, put) ==
    /\ Unsharing(t, s) /\ Goto(t, to)
    /\ ptr' = [ptr EXCEPT ![t] = [r \in Shared |->
                 IF r \in R /\ new[t][r] # 0 THEN new[t][r] ELSE ptr[t][r]]]
    /\ LET done == {r \in R : new[t][r] # 0} IN
       /\ new' = [new EXCEPT ![t] = [r \in Shared |->
                    IF r \in done THEN (IF r \in put THEN 0 ELSE ptr[t][r]) ELSE new[t][r]]]
       /\ count' = [r \in Shared |-> [i \in Ids |->
                    IF r \in done \cap put /\ ptr[t][r] = i THEN count[r][i] - 1 ELSE count[r][i]]]
    /\ UNCHANGED flags /\ UNCHANGED Rest

SwitchNamespaces(t) == Switch(t, "switch_ns", "swap", {"nsproxy"}, {"nsproxy"})
SwapFsAndFiles(t) == Switch(t, "swap", "commit_creds", {"fs", "files"}, {"fs"})
CommitCreds(t) == Switch(t, "commit_creds", "put_old", {"cred"}, {"cred"})

PutOld(t) ==
    /\ Unsharing(t, "put_old")
    /\ EndUnshare(t) /\ GiveBack(t)
    /\ UNCHANGED ptr /\ UNCHANGED Rest

-----------------------------------------------------------------------------
Next ==
    \/ \E c, p \in Tasks, f \in CloneFlags : copy_process(c, p, f)
    \/ \E p \in Tasks :
         \/ \E r \in Shared : CopyShared(p, r) \/ FailShared(p, r)
         \/ \E s \in Range(Steps) : CopyOwn(p, s)
         \/ \E l \in Shared : UndoShared(p, l)
         \/ \E l \in Own : UndoOwn(p, l)
         \/ UndoCount(p) \/ CheckLimit(p) \/ Link(p) \/ FreeTask(p)
    \/ \E t \in Tasks :
         \/ exit(t)
         \/ \E f \in UnshareFlags : ksys_unshare(t, f)
         \/ \E r \in Shared : Prepare(t, r)
         \/ \E r \in Range(UnshareSteps) : PrepareFails(t, r)
         \/ SetCredUcounts(t) \/ SwitchNamespaces(t) \/ SwapFsAndFiles(t) \/ CommitCreds(t)
         \/ PutOld(t)

Spec == Init /\ [][Next]_vars

-----------------------------------------------------------------------------
(***************************************************************************)
(* Properties.                                                             *)
(***************************************************************************)

\* Every count is the number of references there are, at every step of every
\* creation, unsharing and exit, and of every way they fail: nothing leaks,
\* and nothing that others use is freed.
CountsExact ==
    \A r \in Shared, i \in Ids :
        count[r][i] = Cardinality({t \in Alive : ptr[t][r] = i})
                      + Cardinality({p \in New : r \in held[p] /\ ptr[p][r] = i})
                      + Cardinality({t \in Tasks : new[t][r] = i})

\* A failed creation gives back everything that the new task had alone, in
\* whatever step it failed, and nothing it did not have.
OwnGivenBack == ~twice /\ \A t \in Tasks : state[t] \in {"none", "dead"} => own[t] = {}

\* "Thread groups must share signals as well", "Shared signal handlers imply
\* shared VM": through any sequence of clone and unshare.
GroupsShare ==
    \A t, u \in Alive :
        /\ ptr[t]["signal"] = ptr[u]["signal"] => ptr[t]["sighand"] = ptr[u]["sighand"]
        /\ ptr[t]["sighand"] = ptr[u]["sighand"] => ptr[t]["mm"] = ptr[u]["mm"]

\* However creations, unsharings and exits interleave and wherever they fail,
\* what tasks share and what they have alone is accounted for.
ResourcesExact == CountsExact /\ OwnGivenBack /\ GroupsShare

\* RLIMIT_NPROC holds though many create at once: the count is raised before it
\* is compared.
NprocRespected == Cardinality(Alive) <= RLIMIT_NPROC

=============================================================================
