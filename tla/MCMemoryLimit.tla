--------------------------- MODULE MCMemoryLimit ---------------------------
(***************************************************************************)
(* Instances of MemoryLimit for TLC, and the refinement of LimitRegistry.  *)
(***************************************************************************)
EXTENDS MemoryLimit, TLC

\* Two processes; limits that a page of 4 KB exceeds, and one that arrives as
\* SIZE_MOD - 1.
MCPids == {1, 2}
MCPidArgs == {0, 1, 2}
MCLimitArgs == {-1, 3}
MCMaxArgs == {1, 2}

\* Processes are added with the smaller limit and moved to the larger, so that
\* an update shows.
Asked(q) == (q.op = "add" => q.limit = 3) /\ (q.op = "update" => q.limit = 4)
MCNext == Next /\ \A c \in Callers : Asked(call'[c])
MCSpec == Init /\ [][MCNext]_vars

CallerSymmetry == Permutations(Callers)

-----------------------------------------------------------------------------
\* A call is decided when its return value, and for get its entries, are
\* fixed: at the end of the work under the mutex, or at an early return.
Decided(c) == pc[c] \in {"unlock", "copy_to_user", "put_user", "done"}

Undecided == [ret |-> 1, entries |-> <<>>]

Entries(c) ==
    IF call[c].op # "get" \/ ret[c] # 0 THEN <<>>
    ELSE IF pc[c] = "done" THEN u_processes_buffer[c] ELSE kernel_buffer[c].data

Registry == INSTANCE LimitRegistry WITH
    registry <- memory_limit_list,
    request <- call,
    reply <- [c \in Callers |->
                IF Decided(c) THEN [ret |-> ret[c], entries |-> Entries(c)] ELSE Undecided],
    Requests <- [op : {"add", "update"}, pid : PidArgs,
                 limit : {size_t(x) : x \in LimitArgs}, max : {0}]
                \cup [op : {"get"}, pid : {0}, limit : {0}, max : MaxArgs],
    NoRequest <- NoCall,
    NoReply <- Undecided

\* The system calls implement the registry: each takes effect at one instant,
\* a refused call leaves the list alone, an update changes its own entry
\* only, and a get answers with a prefix of the list at that instant.
RefinesRegistry == Registry!RSpec

-----------------------------------------------------------------------------
(***************************************************************************)
(* What the manual and the tests of the repository say of the calls.       *)
(***************************************************************************)

\* ManualProyecto3.md:218, :458 and test_syscall7.c:45-51: a negative amount
\* of memory is refused with -EINVAL, so none is ever registered.
NoNegativeLimit ==
    \A i \in 1 .. Len(memory_limit_list) :
        memory_limit_list[i].memory_limit < SIZE_MOD \div 2

=============================================================================
