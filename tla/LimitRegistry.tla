--------------------------- MODULE LimitRegistry ---------------------------
(***************************************************************************)
(* What the memory-limit system calls promise, without mutex, task         *)
(* pointers or buffers: a registry on which every call takes effect, or is *)
(* refused, in one instant between its invocation and its reply.           *)
(***************************************************************************)
EXTENDS Integers, Sequences

CONSTANTS
    Callers,
    Requests,     \* records [op, pid, limit, max]
    NoRequest,
    NoReply

VARIABLES
    registry,     \* the entries, latest first
    request,      \* what each caller asked, or NoRequest
    reply         \* what was decided: [ret, entries], or NoReply

rvars == <<registry, request, reply>>

Present(pid) == \E i \in 1 .. Len(registry) : registry[i].pid = pid

\* Arguments every implementation must turn down with -EINVAL.
Invalid(q) == IF q.op = "get" THEN q.max = 0 ELSE q.pid <= 0 \/ q.limit = 0

\* Answers that refuse q: for its arguments, or for reasons of the system
\* (capability, process, memory in use, allocation) beyond the registry.
Refusals(q) ==
    IF Invalid(q) THEN {-22}
    ELSE CASE q.op = "add"    -> {-1, -3, -100, -12}
           [] q.op = "update" -> {-1, -3, -100}
           [] q.op = "get"    -> {-22, -12}

Answer(c, v, entries) ==
    reply' = [reply EXCEPT ![c] = [ret |-> v, entries |-> entries]]

RInit ==
    /\ registry = <<>>
    /\ request = [c \in Callers |-> NoRequest]
    /\ reply = [c \in Callers |-> NoReply]

Invoke(c) ==
    /\ request[c] = NoRequest /\ request'[c] # NoRequest
    /\ \E q \in Requests :
         /\ request' = [request EXCEPT ![c] = q]
         /\ \/ UNCHANGED reply
            \/ \E v \in Refusals(q) : Answer(c, v, <<>>)
    /\ UNCHANGED registry

\* The step gives an answer to a call that waits for one.
Decides(c) == request[c] # NoRequest /\ reply[c] = NoReply /\ reply'[c] # NoReply

Refuse(c) ==
    /\ Decides(c)
    /\ \E v \in Refusals(request[c]) : Answer(c, v, <<>>)
    /\ UNCHANGED <<registry, request>>

Add(c) ==
    /\ Decides(c)
    /\ request[c].op = "add" /\ ~Invalid(request[c])
    /\ IF Present(request[c].pid)
       THEN Answer(c, -101, <<>>) /\ UNCHANGED registry
       ELSE /\ registry' = <<[pid |-> request[c].pid,
                              memory_limit |-> request[c].limit]>> \o registry
            /\ Answer(c, 0, <<>>)
    /\ UNCHANGED request

Update(c) ==
    /\ Decides(c)
    /\ request[c].op = "update" /\ ~Invalid(request[c])
    /\ IF Present(request[c].pid)
       THEN /\ registry' = [i \in 1 .. Len(registry) |->
                 IF registry[i].pid = request[c].pid
                 THEN [registry[i] EXCEPT !.memory_limit = request[c].limit]
                 ELSE registry[i]]
            /\ Answer(c, 0, <<>>)
       ELSE Answer(c, -102, <<>>) /\ UNCHANGED registry
    /\ UNCHANGED request

Get(c) ==
    /\ Decides(c)
    /\ request[c].op = "get" /\ ~Invalid(request[c])
    /\ \E n \in 0 .. Len(registry) :
         /\ n = Len(registry) \/ n = request[c].max
         /\ n <= request[c].max
         /\ Answer(c, 0, SubSeq(registry, 1, n))
    /\ UNCHANGED <<registry, request>>

\* The entries were taken, but the caller's memory cannot be written.
Undeliverable(c) ==
    /\ request[c].op = "get"
    /\ reply[c] # NoReply /\ reply[c].ret = 0
    /\ Answer(c, -14, <<>>)
    /\ UNCHANGED <<registry, request>>

Forget(c) ==
    /\ request' = [request EXCEPT ![c] = NoRequest]
    /\ reply[c] # NoReply
    /\ reply' = [reply EXCEPT ![c] = NoReply]
    /\ UNCHANGED registry

RNext == \E c \in Callers :
    \/ Invoke(c) \/ Refuse(c) \/ Add(c) \/ Update(c) \/ Get(c)
    \/ Undeliverable(c) \/ Forget(c)

RSpec == RInit /\ [][RNext]_rvars

=============================================================================
