------------------------------- MODULE Rusage -------------------------------
(***************************************************************************)
(* getrusage (kernel/sys.c): a sum over the threads of a process, of what  *)
(* its dead threads left in the signal_struct, and of what its reaped      *)
(* children left there.  The first pass takes no lock and watches the      *)
(* sequence count of stats_lock; if a thread was released or a child       *)
(* reaped meanwhile, a second pass holds the lock.  Of the counters that   *)
(* are all treated alike, two stand for the ones of the children, and the  *)
(* first of them for the ones of the threads; maxrss and the times are     *)
(* left out.                                                               *)
(***************************************************************************)
EXTENDS Integers, FiniteSets, FiniteSetsExt

CONSTANTS
    Threads,      \* the threads there can be
    MaxCount,     \* bound: what a thread counts up to
    MaxWrites     \* bound: threads released and children reaped

\* What an instance gives the constants.
RusageAssumption == MaxCount \in Nat /\ MaxWrites \in Nat /\ IsFiniteSet(Threads)

VARIABLES
    live,         \* the linked threads
    min_flt,      \* of each thread
    sig_flt,      \* sig->min_flt, of threads released
    cmin, cmaj,   \* sig->cmin_flt and sig->cmaj_flt, of children reaped
    seqcount, holder, \* stats_lock
    writer,       \* the holder's next step, and the thread it releases
    pc, who, seq, \* the reader
    flt,          \* r->ru_minflt, from sig and from threads
    ccmin, ccmaj, \* what it took from the children
    visited,      \* the threads it has come to
    due,          \* those linked since the walk began, which it will come to
    \* history
    before        \* what the threads had counted when the call began

kernel == <<live, min_flt, sig_flt, cmin, cmaj, seqcount, writer>>
reader == <<pc, who, seq, flt, ccmin, ccmaj, visited, due, before>>
vars == <<kernel, holder, reader>>

None == "none"
Idle == [op |-> None, task |-> None]
Whos == {"RUSAGE_SELF", "RUSAGE_CHILDREN", "RUSAGE_BOTH", "RUSAGE_THREAD"}

\* What the threads of the process, dead or alive, have counted.
Total ==
    LET added == IF writer.op = "unlink" THEN {writer.task} ELSE {}
    IN  sig_flt + MapThenSumSet(LAMBDA t : min_flt[t], live \ added)

TypeOK ==
    /\ live \subseteq Threads
    /\ min_flt \in [Threads -> 0 .. MaxCount]
    /\ sig_flt \in Nat /\ cmin \in Nat /\ cmaj \in Nat
    /\ seqcount \in Nat /\ holder \in {None, "writer", "reader"}
    /\ writer \in [op : {None, "add", "unlink", "reap", "reap2", "end"}, task : Threads \cup {None}]
    /\ pc \in {"idle", "begin", "cmin", "cmaj", "sig", "walk", "check", "done"}
    /\ who \in Whos \cup {None} /\ seq \in Nat
    /\ flt \in Nat /\ ccmin \in Nat /\ ccmaj \in Nat
    /\ visited \subseteq Threads /\ due \subseteq Threads /\ before \in Nat

Init ==
    /\ live \in {T \in SUBSET Threads : T # {}}
    /\ min_flt = [t \in Threads |-> 0]
    /\ sig_flt = 0 /\ cmin = 0 /\ cmaj = 0
    /\ seqcount = 0 /\ holder = None /\ writer = Idle
    /\ pc = "idle" /\ who = None /\ seq = 0
    /\ flt = 0 /\ ccmin = 0 /\ ccmaj = 0 /\ visited = {} /\ due = {} /\ before = 0

-----------------------------------------------------------------------------
(***************************************************************************)
(* The process (external): threads start and count; __exit_signal adds a   *)
(* dead thread's counters and unlinks it, wait_task_zombie adds a child's, *)
(* both under stats_lock.                                                  *)
(***************************************************************************)

Fault(t) ==
    /\ t \in live /\ t # writer.task /\ min_flt[t] < MaxCount
    /\ min_flt' = [min_flt EXCEPT ![t] = @ + 1]
    /\ UNCHANGED <<live, sig_flt, cmin, cmaj, seqcount, writer, holder, reader>>

Clone(t) ==
    /\ t \notin live
    /\ live' = live \cup {t}
    /\ min_flt' = [min_flt EXCEPT ![t] = 0]
    /\ visited' = visited \ {t}
    /\ UNCHANGED <<sig_flt, cmin, cmaj, seqcount, writer, holder, pc, who, seq, flt, ccmin, ccmaj, due, before>>

WriteBegin(w) ==
    /\ holder = None /\ seqcount < 2 * MaxWrites
    /\ holder' = "writer" /\ seqcount' = seqcount + 1 /\ writer' = w
    /\ UNCHANGED <<live, min_flt, sig_flt, cmin, cmaj, reader>>

Release(t) == t \in live /\ live # {t} /\ WriteBegin([op |-> "add", task |-> t])

Reap == WriteBegin([op |-> "reap", task |-> None])

Then(op) ==
    /\ writer' = [writer EXCEPT !.op = op]
    /\ UNCHANGED <<min_flt, seqcount, holder, pc, who, seq, flt, ccmin, ccmaj, visited, before>>

AddThread ==
    /\ writer.op = "add" /\ Then("unlink")
    /\ sig_flt' = sig_flt + min_flt[writer.task]
    /\ UNCHANGED <<live, cmin, cmaj, due>>

Unlink ==
    /\ writer.op = "unlink" /\ Then("end")
    /\ live' = live \ {writer.task} /\ due' = due \ {writer.task}
    /\ UNCHANGED <<sig_flt, cmin, cmaj>>

AddChild ==
    /\ \/ writer.op = "reap" /\ Then("reap2") /\ cmin' = cmin + 1 /\ UNCHANGED cmaj
       \/ writer.op = "reap2" /\ Then("end") /\ cmaj' = cmaj + 1 /\ UNCHANGED cmin
    /\ UNCHANGED <<live, sig_flt, due>>

WriteEnd ==
    /\ writer.op = "end"
    /\ holder' = None /\ seqcount' = seqcount + 1 /\ writer' = Idle
    /\ UNCHANGED <<live, min_flt, sig_flt, cmin, cmaj, reader>>

-----------------------------------------------------------------------------
\* A thread asks; RUSAGE_THREAD is about itself only and needs no sum.
getrusage(w) ==
    /\ pc = "idle"
    /\ who' = w /\ seq' = 0 /\ before' = Total
    /\ IF w = "RUSAGE_THREAD"
       THEN pc' = "done" /\ flt' \in {min_flt[t] : t \in live}
       ELSE pc' = "begin" /\ flt' = 0
    /\ UNCHANGED <<kernel, holder, ccmin, ccmaj, visited, due>>

\* The retry label: all sums are cleared.
\* read_seqbegin_or_lock: with an even seq, wait until nobody writes and note
\* the count; with an odd one, take the lock.
SeqBegin ==
    /\ pc = "begin"
    /\ IF seq % 2 = 0
       THEN seqcount % 2 = 0 /\ seq' = seqcount /\ UNCHANGED holder
       ELSE holder = None /\ holder' = "reader" /\ UNCHANGED seq
    /\ pc' = IF who = "RUSAGE_SELF" THEN "sig" ELSE "cmin"
    /\ flt' = 0 /\ ccmin' = 0 /\ ccmaj' = 0 /\ visited' = {} /\ due' = {}
    /\ UNCHANGED <<kernel, who, before>>

ReadChildren ==
    /\ \/ pc = "cmin" /\ pc' = "cmaj" /\ ccmin' = cmin /\ UNCHANGED ccmaj
       \/ /\ pc = "cmaj" /\ ccmaj' = cmaj /\ UNCHANGED ccmin
          /\ pc' = IF who = "RUSAGE_CHILDREN" THEN "check" ELSE "sig"
    /\ UNCHANGED <<kernel, holder, who, seq, flt, visited, due, before>>

ReadSig ==
    /\ pc = "sig"
    /\ flt' = flt + sig_flt /\ pc' = "walk" /\ due' = live
    /\ UNCHANGED <<kernel, holder, who, seq, ccmin, ccmaj, visited, before>>

accumulate_thread_rusage(t) ==
    /\ pc = "walk" /\ t \in live \ visited
    /\ flt' = flt + min_flt[t]
    /\ visited' = visited \cup {t}
    /\ UNCHANGED <<kernel, holder, pc, who, seq, ccmin, ccmaj, due, before>>

\* A thread that starts during the walk may be missed.
WalkEnds ==
    /\ pc = "walk" /\ due \subseteq visited
    /\ pc' = "check"
    /\ UNCHANGED <<kernel, holder, who, seq, flt, ccmin, ccmaj, visited, due, before>>

\* Faulty: asks whether somebody writes now, not whether anybody has.
need_seqretryNow == seq % 2 = 0 /\ seqcount % 2 = 1

need_seqretry == seq % 2 = 0 /\ seq # seqcount

SeqRetry ==
    /\ pc = "check" /\ need_seqretry
    /\ seq' = 1 /\ pc' = "begin"
    /\ UNCHANGED <<kernel, holder, who, flt, ccmin, ccmaj, visited, due, before>>

\* done_seqretry; then the children's sums are added in.
SeqDone ==
    /\ pc = "check" /\ ~need_seqretry
    /\ holder' = IF seq % 2 = 1 THEN None ELSE holder
    /\ pc' = "done"
    /\ UNCHANGED <<kernel, who, seq, flt, ccmin, ccmaj, visited, due, before>>

Return ==
    /\ pc = "done"
    /\ pc' = "idle" /\ who' = None /\ seq' = 0 /\ before' = 0
    /\ flt' = 0 /\ ccmin' = 0 /\ ccmaj' = 0 /\ visited' = {} /\ due' = {}
    /\ UNCHANGED <<kernel, holder>>

Reader ==
    \/ SeqBegin \/ ReadChildren \/ ReadSig \/ WalkEnds \/ SeqRetry \/ SeqDone \/ Return
    \/ \E t \in Threads : accumulate_thread_rusage(t)
Writer == AddThread \/ Unlink \/ AddChild \/ WriteEnd

Next ==
    \/ \E t \in Threads : Fault(t) \/ Clone(t) \/ Release(t)
    \/ Reap \/ Writer \/ Reader
    \/ \E w \in Whos : getrusage(w)

\* A task in the kernel runs on: neither the reader nor who holds the lock stops.
Spec == Init /\ [][Next]_vars /\ WF_vars(Reader) /\ WF_vars(Writer)

-----------------------------------------------------------------------------
(***************************************************************************)
(* Properties.                                                             *)
(***************************************************************************)

\* getrusage of a process: threads that count, start or are released during
\* the call are neither lost nor counted twice, so the sum lies between what
\* was true when the call began and what is true now.
SumWasTrue ==
    (pc = "done" /\ who \in {"RUSAGE_SELF", "RUSAGE_BOTH"}) => before <= flt /\ flt <= Total

\* The comment at sys.c:1753-1754: a sample gets all the additions of a
\* reaped child, or none.
ChildrenWhole == pc = "done" => ccmin = ccmaj

\* A sample of getrusage, taken without the lock while threads exit and
\* children are reaped, is one that could have been taken at an instant.
SampleConsistent == SumWasTrue /\ ChildrenWhole

\* Every getrusage ends: it retries once at most, with the lock held.
GetrusageEnds == pc = "begin" ~> pc = "done"

=============================================================================
