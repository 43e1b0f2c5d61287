--------------------------- MODULE MemorySnapshot ---------------------------
(***************************************************************************)
(* luis_capture_memory_snapshot (kernel/usac/syscall1.c): six fields, read *)
(* one after another from the kernel's page counters while pages move      *)
(* between the lists they count.                                           *)
(***************************************************************************)
EXTENDS Integers, FiniteSets

CONSTANTS
    TOTAL,        \* totalram_pages()
    Words,        \* what may lie in memory behind the array of node counters
    MaxInstants   \* bound: different counters during one call

\* What an instance gives the constants.
MemorySnapshotAssumption == TOTAL \in Nat /\ Words \subseteq Nat /\ Words # {}
                                   /\ MaxInstants \in Nat

\* Where a page is.  NR_FILE_PAGES counts the two file lists.
NodeItems == {"inactive_anon", "active_anon", "inactive_file", "active_file"}
Places == NodeItems \cup {"free"}

EFAULT == -14
Fields == {"total_memory", "free_memory", "used_memory", "active_pages", "cache_pages", "swap_pages"}

VARIABLES
    counter,          \* pages per place
    pc,
    kernel_snapshot,  \* in pages
    user_snapshot, ret,
    instants          \* history: the counters at every instant of the call

vars == <<counter, pc, kernel_snapshot, user_snapshot, ret, instants>>

Blank == [f \in Fields |-> 0]
Counters == [Places -> 0 .. TOTAL]

TypeOK ==
    /\ counter \in Counters
    /\ pc \in {"idle", "free", "active", "cache", "swap", "copy", "done"}
    /\ kernel_snapshot \in [Fields -> Int] /\ user_snapshot \in [Fields -> Int]
    /\ ret \in {0, EFAULT}
    /\ instants \subseteq Counters

Init ==
    /\ counter = [l \in Places |-> IF l = "free" THEN TOTAL ELSE 0]
    /\ pc = "idle" /\ kernel_snapshot = Blank /\ user_snapshot = Blank /\ ret = 0
    /\ instants = {}

-----------------------------------------------------------------------------
\* The memory manager (external): a page is allocated, moved between the
\* active and the inactive list of its kind, or freed.
Moves == {<<"free", "inactive_anon">>, <<"free", "inactive_file">>}
         \cup {<<l, "free">> : l \in NodeItems}
         \cup {<<"inactive_anon", "active_anon">>, <<"active_anon", "inactive_anon">>,
               <<"inactive_file", "active_file">>, <<"active_file", "inactive_file">>}

MovePage ==
    \E m \in Moves :
        /\ counter[m[1]] > 0 /\ Cardinality(instants) <= MaxInstants
        /\ counter' = [counter EXCEPT ![m[1]] = @ - 1, ![m[2]] = @ + 1]
        /\ instants' = IF pc \in {"idle", "done"} THEN instants ELSE instants \cup {counter'}
        /\ UNCHANGED <<pc, kernel_snapshot, user_snapshot, ret>>

\* global_node_page_state indexes the counters of the node by number.
NR_FREE_PAGES == 0
NR_INACTIVE_FILE == 2
NodeStat == <<"inactive_anon", "active_anon", "inactive_file", "active_file">>
global_node_page_state(item) == counter[NodeStat[item + 1]]
FilePages == counter["inactive_file"] + counter["active_file"]

Store(f, v, then) ==
    /\ kernel_snapshot' = [kernel_snapshot EXCEPT ![f] = v]
    /\ pc' = then
    /\ UNCHANGED <<counter, user_snapshot, ret, instants>>

CaptureEnter ==
    /\ pc = "idle"
    /\ kernel_snapshot' = [Blank EXCEPT !["total_memory"] = TOTAL]
    /\ instants' = {counter}
    /\ pc' = "free"
    /\ UNCHANGED <<counter, user_snapshot, ret>>

\* NR_FREE_PAGES numbers a counter of zones; used as a number of the node's
\* counters it names the first of those, the inactive anonymous pages.
ReadFree ==
    /\ pc = "free"
    /\ LET free == global_node_page_state(NR_FREE_PAGES) IN
       kernel_snapshot' = [kernel_snapshot EXCEPT !["free_memory"] = free,
                                                  !["used_memory"] = TOTAL - free]
    /\ pc' = "active"
    /\ UNCHANGED <<counter, user_snapshot, ret, instants>>

ReadActive == pc = "active" /\ Store("active_pages", global_node_page_state(NR_INACTIVE_FILE), "cache")

\* Faulty: the cache is the sum of what was read and what is read now.
ReadCacheSum ==
    /\ pc = "cache"
    /\ Store("cache_pages", kernel_snapshot["active_pages"] + counter["active_file"], "swap")

ReadCache == pc = "cache" /\ Store("cache_pages", FilePages, "swap")

\* ZSWPIN and ZSWPOUT number events, beyond the last of the node's counters.
ReadSwap ==
    /\ pc = "swap"
    /\ \E in \in Words, out \in Words : Store("swap_pages", in + out, "copy")

CopyToUser ==
    /\ pc = "copy"
    /\ \/ ret' = 0 /\ user_snapshot' = kernel_snapshot
       \/ ret' = EFAULT /\ UNCHANGED user_snapshot
    /\ pc' = "done"
    /\ UNCHANGED <<counter, kernel_snapshot, instants>>

\* The program calls again.
Return ==
    /\ pc = "done"
    /\ pc' = "idle" /\ kernel_snapshot' = Blank /\ user_snapshot' = Blank /\ ret' = 0
    /\ instants' = {}
    /\ UNCHANGED counter

Next ==
    \/ CaptureEnter \/ ReadFree \/ ReadActive \/ ReadCache \/ ReadSwap \/ CopyToUser
    \/ Return \/ MovePage

Spec == Init /\ [][Next]_vars

-----------------------------------------------------------------------------
(***************************************************************************)
(* Properties.                                                             *)
(***************************************************************************)

Answered == pc = "done" /\ ret = 0

\* Though the fields are read one by one, each of them was true at some
\* instant of the call, and what is reported free and used adds up to the
\* whole, with neither above it.
EachFieldHeld ==
    Answered =>
        /\ \E c \in instants : user_snapshot["free_memory"] = c["inactive_anon"]
        /\ \E c \in instants : user_snapshot["active_pages"] = c["inactive_file"]
        /\ \E c \in instants : user_snapshot["cache_pages"] = c["inactive_file"] + c["active_file"]
        /\ user_snapshot["used_memory"] \in 0 .. TOTAL
        /\ user_snapshot["free_memory"] + user_snapshot["used_memory"] = user_snapshot["total_memory"]

=============================================================================
