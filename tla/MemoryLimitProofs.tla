------------------------- MODULE MemoryLimitProofs -------------------------
(***************************************************************************)
(* Proofs about MemoryLimit, for any number of callers, pids and limits.   *)
(***************************************************************************)
EXTENDS MemoryLimit, TLAPS

\* A caller about to insert holds the result of its walk, and callers that
\* passed the lookup name a pid of the system.
Walked ==
    \A c \in Callers :
        /\ pc[c] = "alloc" => call[c].pid \notin PidsOf(memory_limit_list)
        /\ pc[c] \in {"mm", "rss", "scan", "alloc"} => call[c].pid \in Pids
        /\ pc[c] = "lock" /\ call[c].op # "get" => call[c].pid \in Pids
        /\ pc[c] = "alloc" => call[c].op = "add"

\* Who has a kernel buffer, and how large it is.
Buffered ==
    \A c \in Callers :
        /\ kernel_buffer[c].live =>
             /\ pc[c] \in {"copy", "unlock", "copy_to_user", "put_user"}
             /\ call[c].op = "get"
        /\ pc[c] \in {"copy", "copy_to_user", "put_user"} => kernel_buffer[c].live
        /\ pc[c] = "count" => call[c].op = "get"
        /\ pc[c] = "copy" =>
             kernel_buffer[c].cap = Minimum(Len(memory_limit_list), call[c].max)
        /\ Len(kernel_buffer[c].data) <= kernel_buffer[c].cap

\* AnswersHold from the moment the answer is fixed, under the mutex.
AnswersFixed ==
    \A c \in Callers :
        (pc[c] \in {"unlock", "done"} /\ \/ call[c].op = "add" /\ ret[c] \in {0, PRESENT}
                                         \/ call[c].op = "update" /\ ret[c] = 0)
        => call[c].pid \in PidsOf(memory_limit_list)

IInv ==
    /\ TypeOK
    /\ LockDiscipline
    /\ PidsUnique
    /\ Walked
    /\ Buffered
    /\ AnswersFixed

-----------------------------------------------------------------------------
\* A size_t parameter holds a natural number whatever was passed.
LEMMA SizeTIsNat == \A x \in Int : size_t(x) \in Nat
BY MemoryLimitAssumption, SMT DEF size_t

\* list_add at the head keeps every entry, and adds just the new pid.
LEMMA ListAddFacts ==
    ASSUME NEW list \in Seq(memory_limitation), NEW e \in memory_limitation
    PROVE  /\ <<e>> \o list \in Seq(memory_limitation)
           /\ Len(<<e>> \o list) = Len(list) + 1
           /\ (<<e>> \o list)[1] = e
           /\ \A i \in 1 .. Len(list) : (<<e>> \o list)[i + 1] = list[i]
           /\ \A i \in 2 .. Len(list) + 1 : (<<e>> \o list)[i] = list[i - 1]
           /\ PidsOf(<<e>> \o list) = PidsOf(list) \cup {e.pid}
<1>1. /\ <<e>> \o list \in Seq(memory_limitation)
      /\ Len(<<e>> \o list) = Len(list) + 1
      /\ (<<e>> \o list)[1] = e
  OBVIOUS
<1>2. \A i \in 1 .. Len(list) : (<<e>> \o list)[i + 1] = list[i]
  OBVIOUS
<1>3. \A i \in 2 .. Len(list) + 1 : (<<e>> \o list)[i] = list[i - 1]
  OBVIOUS
<1>4. PidsOf(<<e>> \o list) \subseteq PidsOf(list) \cup {e.pid}
  <2> SUFFICES ASSUME NEW i \in 1 .. Len(list) + 1
               PROVE  (<<e>> \o list)[i].pid \in PidsOf(list) \cup {e.pid}
    BY <1>1 DEF PidsOf
  <2>1. CASE i = 1
    BY <2>1, <1>1
  <2>2. CASE i # 1
    <3>1. i - 1 \in 1 .. Len(list) /\ (<<e>> \o list)[i] = list[i - 1]
      BY <2>2, <1>3
    <3> QED BY <3>1 DEF PidsOf
  <2> QED BY <2>1, <2>2
<1>5. PidsOf(list) \cup {e.pid} \subseteq PidsOf(<<e>> \o list)
  <2>1. e.pid \in PidsOf(<<e>> \o list)
    <3>1. 1 \in 1 .. Len(<<e>> \o list) /\ (<<e>> \o list)[1].pid = e.pid
      BY <1>1
    <3> QED BY <3>1 DEF PidsOf
  <2>2. ASSUME NEW i \in 1 .. Len(list)
        PROVE  list[i].pid \in PidsOf(<<e>> \o list)
    <3>1. i + 1 \in 1 .. Len(<<e>> \o list) /\ (<<e>> \o list)[i + 1].pid = list[i].pid
      BY <1>1, <1>2
    <3> QED BY <3>1 DEF PidsOf
  <2>3. PidsOf(list) \subseteq PidsOf(<<e>> \o list)
    BY <2>2 DEF PidsOf
  <2> QED BY <2>1, <2>3
<1> QED BY <1>1, <1>2, <1>3, <1>4, <1>5

\* A change of one limit keeps the length, and the pid at every place.
LEMMA SetLimitFacts ==
    ASSUME NEW list \in Seq(memory_limitation), NEW i \in 1 .. Len(list), NEW v \in Nat
    PROVE  LET new == [list EXCEPT ![i].memory_limit = v] IN
           /\ new \in Seq(memory_limitation)
           /\ Len(new) = Len(list)
           /\ \A j \in 1 .. Len(list) : new[j].pid = list[j].pid
           /\ PidsOf(new) = PidsOf(list)
<1> DEFINE new == [list EXCEPT ![i].memory_limit = v]
<1>1. /\ DOMAIN new = 1 .. Len(list)
      /\ \A j \in 1 .. Len(list) : new[j] \in memory_limitation /\ new[j].pid = list[j].pid
  <2>1. list \in [1 .. Len(list) -> memory_limitation]
    OBVIOUS
  <2>2. [list[i] EXCEPT !.memory_limit = v] \in memory_limitation
    BY <2>1 DEF memory_limitation
  <2>3. [list[i] EXCEPT !.memory_limit = v].pid = list[i].pid
    BY <2>1 DEF memory_limitation
  <2>4. /\ DOMAIN new = DOMAIN list
        /\ \A j \in 1 .. Len(list) :
             new[j] = IF j = i THEN [list[i] EXCEPT !.memory_limit = v] ELSE list[j]
    BY <2>1
  <2> QED BY <2>1, <2>2, <2>3, <2>4
<1>2. new \in Seq(memory_limitation) /\ Len(new) = Len(list)
  BY <1>1
<1>3. PidsOf(new) = PidsOf(list)
  BY <1>1, <1>2 DEF PidsOf
<1> QED BY <1>1, <1>2, <1>3

\* Every step keeps the types; an insertion needs Walked, which makes the
\* pid of the new entry a natural number.
LEMMA TypeStep == TypeOK /\ Walked /\ [Next]_vars => TypeOK'
<1> SUFFICES ASSUME TypeOK, Walked, [Next]_vars PROVE TypeOK'
  OBVIOUS
<1>1. ASSUME NEW p \in Pids, Spawn(p) PROVE TypeOK'
  <2>1. task' \in [Pids -> {"none", "nomm", "user"}]
    BY <1>1 DEF Spawn, TypeOK
  <2> QED BY <1>1, <2>1 DEF Spawn, TypeOK, listVars, procVars, userVars
<1>2. ASSUME NEW p \in Pids, Fault(p) PROVE TypeOK'
  <2>1. rss' \in [Pids -> 0 .. MaxPages]
    BY <1>2 DEF Fault, TypeOK
  <2> QED BY <1>2, <2>1 DEF Fault, TypeOK, listVars, procVars, userVars
<1>3. ASSUME NEW p \in Pids, ExitMm(p) PROVE TypeOK'
  <2>1. task' \in [Pids -> {"none", "nomm", "user"}]
    BY <1>3 DEF ExitMm, TypeOK
  <2>2. rss' \in [Pids -> 0 .. MaxPages]
    BY <1>3, MemoryLimitAssumption DEF ExitMm, TypeOK
  <2>3. dangling' \in [Callers -> BOOLEAN]
    BY <1>3 DEF ExitMm, Invalidate, TypeOK
  <2> QED BY <1>3, <2>1, <2>2, <2>3 DEF ExitMm, TypeOK, listVars, procVars, userVars
<1>4. ASSUME NEW p \in Pids, Reap(p) PROVE TypeOK'
  <2>1. task' \in [Pids -> {"none", "nomm", "user"}]
    BY <1>4 DEF Reap, TypeOK
  <2>2. dangling' \in [Callers -> BOOLEAN]
    BY <1>4 DEF Reap, Invalidate, TypeOK
  <2> QED BY <1>4, <2>1, <2>2 DEF Reap, TypeOK, listVars, procVars, userVars
<1>5. ASSUME NEW c \in Callers, AddEnter(c) PROVE TypeOK'
  <2>1. pc' \in [Callers -> PCs]
    <3>1. \E w \in PCs : pc' = [pc EXCEPT ![c] = w]
      BY <1>5 DEF AddEnter, LimitEnter, Goto, Return, PCs
    <3> QED BY <3>1 DEF TypeOK
  <2>2. call' \in [Callers -> Calls]
    BY <1>5, SizeTIsNat, MemoryLimitAssumption DEF AddEnter, LimitEnter, Calls, Ops, TypeOK
  <2>3. ret' \in [Callers -> Int]
    BY <1>5 DEF AddEnter, LimitEnter, Return, Rejection, EINVAL, EPERM, ESRCH, TypeOK
  <2> QED BY <1>5, <2>1, <2>2, <2>3 DEF LimitEnter, AddEnter, TypeOK, listVars, procVars, userVars
<1>6. ASSUME NEW c \in Callers, UpdateEnter(c) PROVE TypeOK'
  <2>1. pc' \in [Callers -> PCs]
    <3>1. \E w \in PCs : pc' = [pc EXCEPT ![c] = w]
      BY <1>6 DEF UpdateEnter, LimitEnter, Goto, Return, PCs
    <3> QED BY <3>1 DEF TypeOK
  <2>2. call' \in [Callers -> Calls]
    BY <1>6, SizeTIsNat, MemoryLimitAssumption DEF UpdateEnter, LimitEnter, Calls, Ops, TypeOK
  <2>3. ret' \in [Callers -> Int]
    BY <1>6 DEF UpdateEnter, LimitEnter, Return, Rejection, EINVAL, EPERM, ESRCH, TypeOK
  <2> QED BY <1>6, <2>1, <2>2, <2>3 DEF LimitEnter, UpdateEnter, TypeOK, listVars, procVars, userVars
<1>7. ASSUME NEW c \in Callers, GetEnter(c) PROVE TypeOK'
  <2>1. pc' \in [Callers -> PCs]
    <3>1. \E w \in PCs : pc' = [pc EXCEPT ![c] = w]
      BY <1>7 DEF GetEnter, Goto, Return, PCs
    <3> QED BY <3>1 DEF TypeOK
  <2>2. call' \in [Callers -> Calls]
    BY <1>7, MemoryLimitAssumption DEF GetEnter, Calls, Ops, TypeOK
  <2>3. ret' \in [Callers -> Int]
    BY <1>7 DEF GetEnter, Return, EINVAL, TypeOK
  <2> QED BY <1>7, <2>1, <2>2, <2>3 DEF GetEnter, TypeOK, listVars, procVars, userVars
<1>8. ASSUME NEW c \in Callers, mutex_lock(c) PROVE TypeOK'
  <2>1. memory_limit_lock' \in Callers \cup {NoOwner}
    BY <1>8 DEF mutex_lock, TypeOK
  <2>2. pc' \in [Callers -> PCs]
    BY <1>8 DEF mutex_lock, Goto, PCs, TypeOK
  <2> QED BY <1>8, <2>1, <2>2 DEF mutex_lock, TypeOK, listVars, procVars, userVars
<1>9. ASSUME NEW c \in Callers, ReadMm(c) PROVE TypeOK'
  <2>1. pc' \in [Callers -> PCs]
    <3>1. \E w \in PCs : pc' = [pc EXCEPT ![c] = w]
      BY <1>9 DEF ReadMm, Goto, Return, PCs
    <3> QED BY <3>1 DEF TypeOK
  <2>2. ret' \in [Callers -> Int]
    BY <1>9 DEF ReadMm, Return, ESRCH, TypeOK
  <2>3. dangling' \in [Callers -> BOOLEAN]
    BY <1>9 DEF ReadMm, TypeOK
  <2> QED BY <1>9, <2>1, <2>2, <2>3 DEF ReadMm, TypeOK, listVars, procVars, userVars
<1>10. ASSUME NEW c \in Callers, CheckRss(c) PROVE TypeOK'
  <2>1. pc' \in [Callers -> PCs]
    <3>1. \E w \in PCs : pc' = [pc EXCEPT ![c] = w]
      BY <1>10 DEF CheckRss, Goto, Return, PCs
    <3> QED BY <3>1 DEF TypeOK
  <2>2. ret' \in [Callers -> Int]
    BY <1>10 DEF CheckRss, Return, EXCEEDS, TypeOK
  <2>3. dangling' \in [Callers -> BOOLEAN]
    BY <1>10 DEF CheckRss, TypeOK
  <2> QED BY <1>10, <2>1, <2>2, <2>3 DEF CheckRss, TypeOK, listVars, procVars, userVars
<1>11. ASSUME NEW c \in Callers, Oops(c) PROVE TypeOK'
  <2>1. pc' \in [Callers -> PCs]
    BY <1>11 DEF Oops, Goto, PCs, TypeOK
  <2>2. dangling' \in [Callers -> BOOLEAN]
    BY <1>11 DEF Oops, TypeOK
  <2> QED BY <1>11, <2>1, <2>2 DEF Oops, TypeOK, listVars, procVars, userVars
<1>12. ASSUME NEW c \in Callers, AddScan(c) PROVE TypeOK'
  <2>1. pc' \in [Callers -> PCs]
    <3>1. \E w \in PCs : pc' = [pc EXCEPT ![c] = w]
      BY <1>12 DEF AddScan, Goto, UnlockAndReturn, PCs
    <3> QED BY <3>1 DEF TypeOK
  <2>2. ret' \in [Callers -> Int]
    BY <1>12 DEF AddScan, UnlockAndReturn, PRESENT, TypeOK
  <2> QED BY <1>12, <2>1, <2>2 DEF AddScan, TypeOK, listVars, procVars, userVars
<1>13. ASSUME NEW c \in Callers, AddInsert(c) PROVE TypeOK'
  <2>1. [pid |-> call[c].pid, memory_limit |-> call[c].limit] \in memory_limitation
    BY <1>13, MemoryLimitAssumption DEF AddInsert, Walked, TypeOK, Calls, memory_limitation
  <2>2. memory_limit_list' \in Seq(memory_limitation)
    <3>1. CASE UNCHANGED memory_limit_list
      BY <3>1 DEF TypeOK
    <3>2. CASE memory_limit_list' =
                 <<[pid |-> call[c].pid, memory_limit |-> call[c].limit]>> \o memory_limit_list
      BY <2>1, <3>2, ListAddFacts DEF TypeOK
    <3> QED BY <1>13, <3>1, <3>2 DEF AddInsert
  <2>3. pc' \in [Callers -> PCs]
    <3>1. \E w \in PCs : pc' = [pc EXCEPT ![c] = w]
      BY <1>13 DEF AddInsert, Goto, UnlockAndReturn, PCs
    <3> QED BY <3>1 DEF TypeOK
  <2>4. ret' \in [Callers -> Int]
    BY <1>13 DEF AddInsert, UnlockAndReturn, ENOMEM, TypeOK
  <2> QED BY <1>13, <2>1, <2>2, <2>3, <2>4 DEF AddInsert, TypeOK, listVars, procVars, userVars
<1>14. ASSUME NEW c \in Callers, UpdateScan(c) PROVE TypeOK'
  <2>1. call[c].limit \in Nat
    BY DEF TypeOK, Calls
  <2>2. memory_limit_list' \in Seq(memory_limitation)
    <3>1. CASE UNCHANGED memory_limit_list
      BY <3>1 DEF TypeOK
    <3>2. ASSUME NEW i \in 1 .. Len(memory_limit_list),
                 memory_limit_list' =
                   [memory_limit_list EXCEPT ![i].memory_limit = call[c].limit]
          PROVE  memory_limit_list' \in Seq(memory_limitation)
      BY <2>1, <3>2, SetLimitFacts DEF TypeOK
    <3> QED BY <1>14, <3>1, <3>2 DEF UpdateScan
  <2>3. pc' \in [Callers -> PCs]
    <3>1. \E w \in PCs : pc' = [pc EXCEPT ![c] = w]
      BY <1>14 DEF UpdateScan, Goto, UnlockAndReturn, PCs
    <3> QED BY <3>1 DEF TypeOK
  <2>4. ret' \in [Callers -> Int]
    BY <1>14 DEF UpdateScan, UnlockAndReturn, ABSENT, TypeOK
  <2> QED BY <1>14, <2>1, <2>2, <2>3, <2>4 DEF UpdateScan, TypeOK, listVars, procVars, userVars
<1>15. ASSUME NEW c \in Callers, GetCount(c) PROVE TypeOK'
  <2>1. Minimum(Len(memory_limit_list), call[c].max) \in Nat
    BY DEF TypeOK, Calls, Minimum
  <2>2. \A n \in Nat : [live |-> TRUE, cap |-> n, data |-> <<>>] \in Buffers
    BY DEF Buffers
  <2>3. kernel_buffer' \in [Callers -> Buffers]
    BY <1>15, <2>1, <2>2 DEF GetCount, TypeOK
  <2>4. pc' \in [Callers -> PCs]
    <3>1. \E w \in PCs : pc' = [pc EXCEPT ![c] = w]
      BY <1>15 DEF GetCount, Goto, UnlockAndReturn, PCs
    <3> QED BY <3>1 DEF TypeOK
  <2>5. ret' \in [Callers -> Int]
    BY <1>15 DEF GetCount, UnlockAndReturn, ENOMEM, TypeOK
  <2> QED BY <1>15, <2>1, <2>2, <2>3, <2>4, <2>5 DEF GetCount, TypeOK, listVars, procVars, userVars
<1>16. ASSUME NEW c \in Callers, GetCopy(c) PROVE TypeOK'
  <2>1. SubSeq(memory_limit_list, 1, Minimum(Len(memory_limit_list), call[c].max))
          \in Seq(memory_limitation)
    BY DEF TypeOK, Calls, Minimum
  <2>2. kernel_buffer' \in [Callers -> Buffers]
    <3>1. kernel_buffer \in [Callers -> Buffers]
      BY DEF TypeOK
    <3> QED BY <1>16, <2>1, <3>1 DEF GetCopy, Buffers
  <2>3. pc' \in [Callers -> PCs]
    <3>1. \E w \in PCs : pc' = [pc EXCEPT ![c] = w]
      BY <1>16 DEF GetCopy, Goto, UnlockAndReturn, PCs
    <3> QED BY <3>1 DEF TypeOK
  <2>4. ret' \in [Callers -> Int]
    BY <1>16 DEF GetCopy, UnlockAndReturn, TypeOK
  <2> QED BY <1>16, <2>1, <2>2, <2>3, <2>4 DEF GetCopy, TypeOK, listVars, procVars, userVars
<1>17. ASSUME NEW c \in Callers, mutex_unlock(c) PROVE TypeOK'
  <2>1. memory_limit_lock' \in Callers \cup {NoOwner}
    BY <1>17 DEF mutex_unlock, TypeOK
  <2>2. pc' \in [Callers -> PCs]
    BY <1>17 DEF mutex_unlock, Goto, PCs, TypeOK
  <2> QED BY <1>17, <2>1, <2>2 DEF mutex_unlock, TypeOK, listVars, procVars, userVars
<1>18. ASSUME NEW c \in Callers, CopyToUser(c) PROVE TypeOK'
  <2>1. kernel_buffer[c].data \in Seq(memory_limitation) /\ NoBuffer \in Buffers
    BY DEF TypeOK, Buffers, NoBuffer
  <2>2. \A n \in 0 .. Len(kernel_buffer[c].data) - 1 :
          SubSeq(kernel_buffer[c].data, 1, n) \in Seq(memory_limitation)
    BY <2>1
  <2>3. u_processes_buffer' \in [Callers -> Seq(memory_limitation)]
    <3>1. ASSUME NEW b \in Seq(memory_limitation),
                 u_processes_buffer' = [u_processes_buffer EXCEPT ![c] = b]
          PROVE  u_processes_buffer' \in [Callers -> Seq(memory_limitation)]
      BY <3>1 DEF TypeOK
    <3> QED BY <1>18, <2>1, <2>2, <3>1 DEF CopyToUser
  <2>4. kernel_buffer' \in [Callers -> Buffers]
    BY <1>18, <2>1 DEF CopyToUser, kfree, TypeOK
  <2>5. pc' \in [Callers -> PCs]
    <3>1. \E w \in PCs : pc' = [pc EXCEPT ![c] = w]
      BY <1>18 DEF CopyToUser, Goto, Return, PCs
    <3> QED BY <3>1 DEF TypeOK
  <2>6. ret' \in [Callers -> Int]
    BY <1>18 DEF CopyToUser, Return, EFAULT, TypeOK
  <2> QED BY <1>18, <2>1, <2>2, <2>3, <2>4, <2>5, <2>6 DEF CopyToUser, TypeOK, listVars, procVars, userVars
<1>19. ASSUME NEW c \in Callers, PutUser(c) PROVE TypeOK'
  <2>1. Len(kernel_buffer[c].data) \in Nat /\ NoBuffer \in Buffers
    BY DEF TypeOK, Buffers, NoBuffer
  <2>2. processes_returned' \in [Callers -> Nat \cup {-1}]
    BY <1>19, <2>1 DEF PutUser, TypeOK
  <2>3. kernel_buffer' \in [Callers -> Buffers]
    BY <1>19, <2>1 DEF PutUser, kfree, TypeOK
  <2>4. pc' \in [Callers -> PCs]
    BY <1>19 DEF PutUser, Goto, Return, PCs, TypeOK
  <2>5. ret' \in [Callers -> Int]
    BY <1>19 DEF PutUser, Return, EFAULT, TypeOK
  <2> QED BY <1>19, <2>1, <2>2, <2>3, <2>4, <2>5 DEF PutUser, TypeOK, listVars, procVars, userVars
<1>20. ASSUME NEW c \in Callers, Collect(c) PROVE TypeOK'
  <2>1. pc' \in [Callers -> PCs]
    BY <1>20 DEF Collect, Goto, PCs, TypeOK
  <2>2. call' \in [Callers -> Calls]
    BY <1>20 DEF Collect, NoCall, Calls, Ops, TypeOK
  <2>3. ret' \in [Callers -> Int]
    BY <1>20 DEF Collect, TypeOK
  <2>4. u_processes_buffer' \in [Callers -> Seq(memory_limitation)]
    BY <1>20 DEF Collect, TypeOK
  <2>5. processes_returned' \in [Callers -> Nat \cup {-1}]
    BY <1>20 DEF Collect, TypeOK
  <2> QED BY <1>20, <2>1, <2>2, <2>3, <2>4, <2>5 DEF Collect, TypeOK, listVars, procVars, userVars
<1>21. CASE UNCHANGED vars
  BY <1>21 DEF vars, TypeOK
<1> QED
  BY <1>1, <1>2, <1>3, <1>4, <1>5, <1>6, <1>7, <1>8, <1>9, <1>10, <1>11,
     <1>12, <1>13, <1>14, <1>15, <1>16, <1>17, <1>18, <1>19, <1>20, <1>21
     DEF Next, Enter, Proceed

\* What entering a call leaves behind: a refusal, or a call on its way to the
\* task's mm (add, update) or to the mutex (get); nothing else moves.
LEMMA EnterFacts ==
    ASSUME TypeOK, NEW c \in Callers, Enter(c)
    PROVE  /\ pc[c] = "idle"
           /\ UNCHANGED <<listVars, procVars, dangling, kernel_buffer, userVars>>
           /\ \E q \in Calls :
                /\ call' = [call EXCEPT ![c] = q]
                /\ \/ /\ pc' = [pc EXCEPT ![c] = "done"]
                      /\ \E v \in {EINVAL, EPERM, ESRCH} : ret' = [ret EXCEPT ![c] = v]
                   \/ /\ pc' = [pc EXCEPT ![c] = "mm"]
                      /\ q.pid \in Pids
                      /\ ret' = ret
                   \/ /\ pc' = [pc EXCEPT ![c] = "lock"]
                      /\ q.op = "get"
                      /\ ret' = ret
<1>1. ASSUME NEW op \in {"add", "update"}, LimitEnter(c, op)
      PROVE  \E q \in Calls :
                /\ call' = [call EXCEPT ![c] = q]
                /\ \/ /\ pc' = [pc EXCEPT ![c] = "done"]
                      /\ \E v \in {EINVAL, EPERM, ESRCH} : ret' = [ret EXCEPT ![c] = v]
                   \/ /\ pc' = [pc EXCEPT ![c] = "mm"]
                      /\ q.pid \in Pids
                      /\ ret' = ret
  <2>1. PICK pid \in PidArgs, arg \in LimitArgs, capable \in BOOLEAN :
          /\ call' = [call EXCEPT ![c] =
                        [op |-> op, pid |-> pid, limit |-> size_t(arg), max |-> 0]]
          /\ IF Rejection(pid, size_t(arg), capable) # 0
             THEN Return(c, Rejection(pid, size_t(arg), capable))
             ELSE Goto(c, "mm") /\ UNCHANGED ret
    BY <1>1 DEF LimitEnter
  <2> DEFINE q == [op |-> op, pid |-> pid, limit |-> size_t(arg), max |-> 0]
  <2>2. q \in Calls
    BY SizeTIsNat, MemoryLimitAssumption DEF Calls, Ops
  <2>3. \/ Rejection(pid, size_t(arg), capable) \in {EINVAL, EPERM, ESRCH}
        \/ Rejection(pid, size_t(arg), capable) = 0 /\ pid \in Pids
    BY DEF Rejection
  <2>4. call' = [call EXCEPT ![c] = q]
    BY <2>1
  <2>5. CASE Rejection(pid, size_t(arg), capable) \in {EINVAL, EPERM, ESRCH}
    <3>1. Return(c, Rejection(pid, size_t(arg), capable))
      BY <2>1, <2>5 DEF EINVAL, EPERM, ESRCH
    <3> QED BY <2>2, <2>4, <2>5, <3>1 DEF Return, Goto
  <2>6. CASE Rejection(pid, size_t(arg), capable) = 0 /\ pid \in Pids
    <3>1. Goto(c, "mm") /\ UNCHANGED ret /\ q.pid \in Pids
      BY <2>1, <2>6
    <3> QED BY <2>2, <2>4, <3>1 DEF Goto
  <2> QED BY <2>3, <2>5, <2>6
<1>2. ASSUME GetEnter(c)
      PROVE  \E q \in Calls :
                /\ call' = [call EXCEPT ![c] = q]
                /\ \/ /\ pc' = [pc EXCEPT ![c] = "done"]
                      /\ \E v \in {EINVAL, EPERM, ESRCH} : ret' = [ret EXCEPT ![c] = v]
                   \/ /\ pc' = [pc EXCEPT ![c] = "lock"]
                      /\ q.op = "get"
                      /\ ret' = ret
  <2>1. PICK max \in MaxArgs, null \in BOOLEAN :
          /\ call' = [call EXCEPT ![c] = [op |-> "get", pid |-> 0, limit |-> 0, max |-> max]]
          /\ IF max <= 0 \/ null THEN Return(c, EINVAL)
             ELSE Goto(c, "lock") /\ UNCHANGED ret
    BY <1>2 DEF GetEnter
  <2>2. [op |-> "get", pid |-> 0, limit |-> 0, max |-> max] \in Calls
    BY MemoryLimitAssumption DEF Calls, Ops
  <2> QED BY <2>1, <2>2 DEF Return, Goto
<1>3. /\ pc[c] = "idle"
      /\ UNCHANGED <<listVars, procVars, dangling, kernel_buffer, userVars>>
  BY DEF Enter, AddEnter, UpdateEnter, LimitEnter, GetEnter
<1> QED BY <1>1, <1>2, <1>3 DEF Enter, AddEnter, UpdateEnter

\* No step takes or gives up the mutex but at the ends of a critical section.
LEMMA LockStep == TypeOK /\ LockDiscipline /\ [Next]_vars => LockDiscipline'
<1> SUFFICES ASSUME TypeOK, LockDiscipline, [Next]_vars PROVE LockDiscipline'
  OBVIOUS
<1> USE MemoryLimitAssumption DEF TypeOK, LockDiscipline, Locked, listVars
<1>1. ASSUME NEW p \in Pids, Spawn(p) \/ Fault(p) \/ ExitMm(p) \/ Reap(p) PROVE LockDiscipline'
  BY <1>1 DEF Spawn, Fault, ExitMm, Reap
<1>2. ASSUME NEW c \in Callers, Enter(c) PROVE LockDiscipline'
  <2>1. /\ pc[c] = "idle" /\ UNCHANGED memory_limit_lock
        /\ \E to \in {"done", "mm", "lock"} : pc' = [pc EXCEPT ![c] = to]
    BY <1>2, EnterFacts
  <2> QED BY <2>1
<1>3. ASSUME NEW c \in Callers, mutex_lock(c) PROVE LockDiscipline'
  BY <1>3 DEF mutex_lock, Goto
<1>4. ASSUME NEW c \in Callers, ReadMm(c) PROVE LockDiscipline'
  <2>1. /\ pc[c] = "mm" /\ UNCHANGED memory_limit_lock
        /\ \E to \in {"mm", "rss", "lock", "done"} : pc' = [pc EXCEPT ![c] = to]
    BY <1>4 DEF ReadMm, Goto, Return
  <2> QED BY <2>1
<1>5. ASSUME NEW c \in Callers, CheckRss(c) PROVE LockDiscipline'
  <2>1. /\ pc[c] = "rss" /\ UNCHANGED memory_limit_lock
        /\ \E to \in {"rss", "lock", "done"} : pc' = [pc EXCEPT ![c] = to]
    BY <1>5 DEF CheckRss, Goto, Return
  <2> QED BY <2>1
<1>6. ASSUME NEW c \in Callers, Oops(c) PROVE LockDiscipline'
  BY <1>6 DEF Oops, Goto
<1>7. ASSUME NEW c \in Callers, AddScan(c) PROVE LockDiscipline'
  BY <1>7 DEF AddScan, Goto, UnlockAndReturn
<1>8. ASSUME NEW c \in Callers, AddInsert(c) PROVE LockDiscipline'
  BY <1>8 DEF AddInsert, Goto, UnlockAndReturn
<1>9. ASSUME NEW c \in Callers, UpdateScan(c) PROVE LockDiscipline'
  BY <1>9 DEF UpdateScan, Goto, UnlockAndReturn
<1>10. ASSUME NEW c \in Callers, GetCount(c) PROVE LockDiscipline'
  BY <1>10 DEF GetCount, Goto, UnlockAndReturn
<1>11. ASSUME NEW c \in Callers, GetCopy(c) PROVE LockDiscipline'
  BY <1>11 DEF GetCopy, Goto, UnlockAndReturn
<1>12. ASSUME NEW c \in Callers, mutex_unlock(c) PROVE LockDiscipline'
  BY <1>12 DEF mutex_unlock, Goto
<1>13. ASSUME NEW c \in Callers, CopyToUser(c) PROVE LockDiscipline'
  <2>1. /\ pc[c] = "copy_to_user" /\ UNCHANGED memory_limit_lock
        /\ \E to \in {"put_user", "done"} : pc' = [pc EXCEPT ![c] = to]
    BY <1>13 DEF CopyToUser, Goto, Return
  <2> QED BY <2>1
<1>14. ASSUME NEW c \in Callers, PutUser(c) PROVE LockDiscipline'
  <2>1. /\ pc[c] = "put_user" /\ UNCHANGED memory_limit_lock
        /\ \E to \in {"done"} : pc' = [pc EXCEPT ![c] = to]
    BY <1>14 DEF PutUser, Goto, Return
  <2> QED BY <2>1
<1>15. ASSUME NEW c \in Callers, Collect(c) PROVE LockDiscipline'
  BY <1>15 DEF Collect, Goto
<1>16. CASE UNCHANGED vars
  BY <1>16 DEF vars
<1> QED
  BY <1>1, <1>2, <1>3, <1>4, <1>5, <1>6, <1>7, <1>8, <1>9, <1>10, <1>11,
     <1>12, <1>13, <1>14, <1>15, <1>16
     DEF Next, Proceed

\* A step of caller c.
Step(c) == Enter(c) \/ mutex_lock(c) \/ Proceed(c) \/ Collect(c)

\* A caller's step touches no other caller's call or buffer.
LEMMA FrameFacts ==
    ASSUME TypeOK, NEW c \in Callers, Step(c), NEW d \in Callers \ {c}
    PROVE  /\ pc'[d] = pc[d]
           /\ call'[d] = call[d]
           /\ ret'[d] = ret[d]
           /\ kernel_buffer'[d] = kernel_buffer[d]
<1> USE DEF TypeOK, Goto, Return, UnlockAndReturn
<1>1. CASE Enter(c)
  <2>1. /\ \E to \in {"done", "mm", "lock"} : pc' = [pc EXCEPT ![c] = to]
        /\ \E q \in Calls : call' = [call EXCEPT ![c] = q]
        /\ \/ UNCHANGED ret
           \/ \E v \in {EINVAL, EPERM, ESRCH} : ret' = [ret EXCEPT ![c] = v]
        /\ UNCHANGED kernel_buffer
    BY <1>1, EnterFacts
  <2> QED BY <2>1
<1>2. CASE mutex_lock(c) \/ mutex_unlock(c) \/ Oops(c) \/ Collect(c)
  BY <1>2 DEF mutex_lock, mutex_unlock, Oops, Collect
<1>3. CASE ReadMm(c) \/ CheckRss(c)
  BY <1>3 DEF ReadMm, CheckRss
<1>4. CASE AddScan(c) \/ AddInsert(c)
  BY <1>4 DEF AddScan, AddInsert
<1>5. CASE UpdateScan(c)
  BY <1>5 DEF UpdateScan
<1>6. CASE GetCount(c) \/ GetCopy(c)
  BY <1>6 DEF GetCount, GetCopy
<1>7. CASE CopyToUser(c)
  BY <1>7 DEF CopyToUser, kfree
<1>8. CASE PutUser(c)
  BY <1>8 DEF PutUser, kfree
<1> QED BY <1>1, <1>2, <1>3, <1>4, <1>5, <1>6, <1>7, <1>8 DEF Step, Proceed

\* A caller changes the list only by its insertion or its update, while it
\* owns the mutex, and no pid leaves the list.
LEMMA ListStep ==
    ASSUME TypeOK, LockDiscipline, Walked, NEW c \in Callers, Step(c)
    PROVE  \/ UNCHANGED memory_limit_list
           \/ /\ AddInsert(c) \/ UpdateScan(c)
              /\ memory_limit_lock = c
              /\ PidsOf(memory_limit_list) \subseteq PidsOf(memory_limit_list')
<1>1. ASSUME AddInsert(c)
      PROVE  /\ memory_limit_lock = c
             /\ PidsOf(memory_limit_list) \subseteq PidsOf(memory_limit_list')
  <2>1. [pid |-> call[c].pid, memory_limit |-> call[c].limit] \in memory_limitation
    BY <1>1, MemoryLimitAssumption DEF AddInsert, Walked, TypeOK, Calls, memory_limitation
  <2>2. CASE UNCHANGED memory_limit_list
    BY <1>1, <2>2 DEF AddInsert, LockDiscipline, Locked, PidsOf
  <2>3. CASE memory_limit_list' =
               <<[pid |-> call[c].pid, memory_limit |-> call[c].limit]>> \o memory_limit_list
    <3>1. memory_limit_lock = c
      BY <1>1 DEF AddInsert, LockDiscipline, Locked
    <3>2. memory_limit_list \in Seq(memory_limitation)
      BY DEF TypeOK
    <3>3. PidsOf(memory_limit_list') = PidsOf(memory_limit_list) \cup {call[c].pid}
      BY <2>1, <2>3, <3>2, ListAddFacts
    <3> QED BY <3>1, <3>3
  <2> QED BY <1>1, <2>2, <2>3 DEF AddInsert
<1>2. ASSUME UpdateScan(c)
      PROVE  /\ memory_limit_lock = c
             /\ PidsOf(memory_limit_list) \subseteq PidsOf(memory_limit_list')
  <2>1. call[c].limit \in Nat /\ memory_limit_lock = c
    BY <1>2 DEF UpdateScan, TypeOK, Calls, LockDiscipline, Locked
  <2>2. CASE UNCHANGED memory_limit_list
    BY <2>1, <2>2 DEF PidsOf
  <2>3. ASSUME NEW i \in 1 .. Len(memory_limit_list),
               memory_limit_list' =
                 [memory_limit_list EXCEPT ![i].memory_limit = call[c].limit]
        PROVE  PidsOf(memory_limit_list) \subseteq PidsOf(memory_limit_list')
    BY <2>1, <2>3, SetLimitFacts DEF TypeOK
  <2> QED BY <1>2, <2>1, <2>2, <2>3 DEF UpdateScan
<1>3. CASE Enter(c)
  BY <1>3, EnterFacts DEF listVars
<1>4. CASE mutex_lock(c) \/ ReadMm(c) \/ CheckRss(c) \/ Oops(c) \/ AddScan(c)
           \/ GetCount(c) \/ GetCopy(c) \/ mutex_unlock(c) \/ CopyToUser(c)
           \/ PutUser(c) \/ Collect(c)
  BY <1>4 DEF mutex_lock, ReadMm, CheckRss, Oops, AddScan, GetCount, GetCopy, mutex_unlock,
              CopyToUser, PutUser, Collect, listVars
<1> QED BY <1>1, <1>2, <1>3, <1>4 DEF Step, Proceed

\* Steps of the processes leave the registry and its callers alone.
LEMMA ProcessStep ==
    ASSUME NEW p \in Pids, Spawn(p) \/ Fault(p) \/ ExitMm(p) \/ Reap(p)
    PROVE  UNCHANGED <<listVars, pc, call, ret, kernel_buffer, userVars>>
BY DEF Spawn, Fault, ExitMm, Reap

-----------------------------------------------------------------------------
\* No step gives a pid a second entry: an insertion was preceded by a walk
\* that did not find the pid, and the mutex kept the list as it was since.
LEMMA UniqueStep ==
    TypeOK /\ LockDiscipline /\ Walked /\ PidsUnique /\ [Next]_vars => PidsUnique'
<1> SUFFICES ASSUME TypeOK, LockDiscipline, Walked, PidsUnique, [Next]_vars PROVE PidsUnique'
  OBVIOUS
<1>1. CASE UNCHANGED memory_limit_list
  BY <1>1 DEF PidsUnique
<1>2. ASSUME NEW c \in Callers, AddInsert(c) PROVE PidsUnique'
  <2> DEFINE e == [pid |-> call[c].pid, memory_limit |-> call[c].limit]
  <2>1. e \in memory_limitation
    BY <1>2, MemoryLimitAssumption DEF AddInsert, Walked, TypeOK, Calls, memory_limitation
  <2>2. call[c].pid \notin PidsOf(memory_limit_list)
    BY <1>2 DEF AddInsert, Walked
  <2>3. CASE memory_limit_list' = <<e>> \o memory_limit_list
    <3>1. /\ Len(memory_limit_list') = Len(memory_limit_list) + 1
          /\ memory_limit_list'[1].pid = call[c].pid
          /\ \A i \in 2 .. Len(memory_limit_list) + 1 :
               memory_limit_list'[i] = memory_limit_list[i - 1]
      <4>1. memory_limit_list \in Seq(memory_limitation)
        BY DEF TypeOK
      <4> QED BY <2>1, <2>3, <4>1, ListAddFacts
    <3>2. \A i \in 2 .. Len(memory_limit_list) + 1 :
            /\ i - 1 \in 1 .. Len(memory_limit_list)
            /\ memory_limit_list'[i].pid # call[c].pid
      <4> TAKE i \in 2 .. Len(memory_limit_list) + 1
      <4>1. i - 1 \in 1 .. Len(memory_limit_list)
        BY DEF TypeOK
      <4>2. memory_limit_list[i - 1].pid \in PidsOf(memory_limit_list)
        BY <4>1 DEF PidsOf
      <4> QED BY <2>2, <3>1, <4>1, <4>2
    <3> SUFFICES ASSUME NEW i \in 1 .. Len(memory_limit_list) + 1,
                        NEW j \in 1 .. Len(memory_limit_list) + 1,
                        memory_limit_list'[i].pid = memory_limit_list'[j].pid
                 PROVE  i = j
      BY <3>1 DEF PidsUnique
    <3>3. CASE i = 1 \/ j = 1
      BY <3>1, <3>2, <3>3 DEF TypeOK
    <3>4. CASE i # 1 /\ j # 1
      <4>1. i \in 2 .. Len(memory_limit_list) + 1 /\ j \in 2 .. Len(memory_limit_list) + 1
        BY <3>4 DEF TypeOK
      <4>2. i - 1 = j - 1
        BY <3>1, <3>2, <4>1 DEF PidsUnique
      <4> QED BY <4>2
    <3> QED BY <3>3, <3>4
  <2> QED BY <1>1, <1>2, <2>3 DEF AddInsert
<1>3. ASSUME NEW c \in Callers, UpdateScan(c) PROVE PidsUnique'
  <2>1. call[c].limit \in Nat
    BY DEF TypeOK, Calls
  <2>2. ASSUME NEW i \in 1 .. Len(memory_limit_list),
               memory_limit_list' =
                 [memory_limit_list EXCEPT ![i].memory_limit = call[c].limit]
        PROVE  PidsUnique'
    <3>1. /\ Len(memory_limit_list') = Len(memory_limit_list)
          /\ \A j \in 1 .. Len(memory_limit_list) :
               memory_limit_list'[j].pid = memory_limit_list[j].pid
      BY <2>1, <2>2, SetLimitFacts DEF TypeOK
    <3> QED BY <3>1 DEF PidsUnique
  <2> QED BY <1>1, <1>3, <2>2 DEF UpdateScan
<1>4. ASSUME NEW c \in Callers, Step(c) PROVE PidsUnique'
  BY <1>1, <1>2, <1>3, <1>4, ListStep
<1>5. ASSUME NEW p \in Pids, Spawn(p) \/ Fault(p) \/ ExitMm(p) \/ Reap(p) PROVE PidsUnique'
  BY <1>1, <1>5, ProcessStep DEF listVars
<1> QED BY <1>1, <1>4, <1>5 DEF Next, Step, vars

\* Every step keeps the facts about callers that passed the lookup.
LEMMA WalkedStep == TypeOK /\ LockDiscipline /\ Walked /\ [Next]_vars => Walked'
<1> SUFFICES ASSUME TypeOK, LockDiscipline, Walked, [Next]_vars PROVE Walked'
  OBVIOUS
<1> DEFINE W(d) ==
      /\ pc[d] = "alloc" => call[d].pid \notin PidsOf(memory_limit_list)
      /\ pc[d] \in {"mm", "rss", "scan", "alloc"} => call[d].pid \in Pids
      /\ pc[d] = "lock" /\ call[d].op # "get" => call[d].pid \in Pids
      /\ pc[d] = "alloc" => call[d].op = "add"
<1>1. ASSUME NEW c \in Callers, Step(c) PROVE Walked'
  <2>1. ASSUME NEW d \in Callers \ {c} PROVE W(d)'
    <3>1. pc'[d] = pc[d] /\ call'[d] = call[d] /\ W(d)
      BY <1>1, FrameFacts DEF Walked
    <3>2. pc[d] = "alloc" => UNCHANGED memory_limit_list
      BY <1>1, ListStep DEF LockDiscipline, Locked
    <3> QED BY <3>1, <3>2
  <2>2. W(c)'
    <3>0. W(c)
      BY DEF Walked
    <3>t. /\ pc \in [Callers -> PCs] /\ call \in [Callers -> Calls]
          /\ ret \in [Callers -> Int] /\ kernel_buffer \in [Callers -> Buffers]
          /\ memory_limit_list \in Seq(memory_limitation)
      BY DEF TypeOK
    <3> USE <3>0, <3>t DEF Goto, Return, UnlockAndReturn
    <3>1. CASE Enter(c)
      BY <3>1, EnterFacts
    <3>2. CASE mutex_lock(c)
      BY <3>2 DEF mutex_lock
    <3>3. CASE ReadMm(c)
      BY <3>3 DEF ReadMm
    <3>4. CASE CheckRss(c)
      BY <3>4 DEF CheckRss
    <3>5. CASE AddScan(c)
      BY <3>5 DEF AddScan, listVars
    <3>6. CASE AddInsert(c) \/ UpdateScan(c) \/ GetCount(c) \/ GetCopy(c)
      <4>1. pc'[c] \in {"unlock", "copy"}
        BY <3>6 DEF AddInsert, UpdateScan, GetCount, GetCopy
      <4> QED BY <4>1
    <3>7. CASE mutex_unlock(c) \/ CopyToUser(c) \/ PutUser(c) \/ Collect(c) \/ Oops(c)
      <4>1. pc'[c] \in {"done", "copy_to_user", "put_user", "idle", "dead"}
        BY <3>7 DEF mutex_unlock, CopyToUser, PutUser, Collect, Oops
      <4> QED BY <4>1
    <3> QED BY <1>1, <3>1, <3>2, <3>3, <3>4, <3>5, <3>6, <3>7 DEF Step, Proceed
  <2> QED BY <2>1, <2>2 DEF Walked
<1>2. ASSUME NEW p \in Pids, Spawn(p) \/ Fault(p) \/ ExitMm(p) \/ Reap(p) PROVE Walked'
  BY <1>2, ProcessStep DEF Walked, listVars
<1>3. CASE UNCHANGED vars
  BY <1>3 DEF Walked, vars
<1> QED BY <1>1, <1>2, <1>3 DEF Next, Step

\* A minimum is one of the two, and at most each.
LEMMA MinimumFacts ==
    ASSUME NEW a \in Nat, NEW b \in Nat
    PROVE  Minimum(a, b) \in Nat /\ Minimum(a, b) <= a /\ Minimum(a, b) <= b
BY DEF Minimum

\* Every step keeps the facts about kernel buffers: between the two walks of
\* a get the list does not change, so the second finds the array it needs.
LEMMA BufferedStep ==
    TypeOK /\ LockDiscipline /\ Walked /\ Buffered /\ [Next]_vars => Buffered'
<1> SUFFICES ASSUME TypeOK, LockDiscipline, Walked, Buffered, [Next]_vars PROVE Buffered'
  OBVIOUS
<1> DEFINE B(d) ==
      /\ kernel_buffer[d].live =>
           /\ pc[d] \in {"copy", "unlock", "copy_to_user", "put_user"}
           /\ call[d].op = "get"
      /\ pc[d] \in {"copy", "copy_to_user", "put_user"} => kernel_buffer[d].live
      /\ pc[d] = "count" => call[d].op = "get"
      /\ pc[d] = "copy" =>
           kernel_buffer[d].cap = Minimum(Len(memory_limit_list), call[d].max)
      /\ Len(kernel_buffer[d].data) <= kernel_buffer[d].cap
<1>1. ASSUME NEW c \in Callers, Step(c) PROVE Buffered'
  <2>1. ASSUME NEW d \in Callers \ {c} PROVE B(d)'
    <3>1. pc'[d] = pc[d] /\ call'[d] = call[d] /\ kernel_buffer'[d] = kernel_buffer[d] /\ B(d)
      BY <1>1, FrameFacts DEF Buffered
    <3>2. pc[d] = "copy" => UNCHANGED memory_limit_list
      BY <1>1, ListStep DEF LockDiscipline, Locked
    <3> QED BY <3>1, <3>2
  <2>2. B(c)'
    <3>0. B(c)
      BY DEF Buffered
    <3>t. /\ pc \in [Callers -> PCs] /\ call \in [Callers -> Calls]
          /\ ret \in [Callers -> Int] /\ kernel_buffer \in [Callers -> Buffers]
          /\ memory_limit_list \in Seq(memory_limitation)
      BY DEF TypeOK
    <3> USE <3>0, <3>t DEF Goto, Return, UnlockAndReturn
    <3>1. CASE Enter(c)
      BY <3>1, EnterFacts
    <3>2. CASE mutex_lock(c) \/ ReadMm(c) \/ CheckRss(c) \/ Oops(c) \/ Collect(c) \/ AddScan(c)
      <4>1. /\ pc[c] \notin {"copy", "unlock", "copy_to_user", "put_user"}
            /\ kernel_buffer'[c] = kernel_buffer[c]
            /\ pc'[c] \notin {"copy", "copy_to_user", "put_user"}
            /\ pc'[c] = "count" => call'[c].op = "get"
        BY <3>2 DEF mutex_lock, ReadMm, CheckRss, Oops, Collect, AddScan
      <4> QED BY <4>1
    <3>3. CASE AddInsert(c) \/ UpdateScan(c)
      <4>1. /\ kernel_buffer'[c] = kernel_buffer[c]
            /\ pc'[c] = "unlock"
            /\ pc[c] \in {"scan", "alloc"}
        BY <3>3 DEF AddInsert, UpdateScan
      <4> QED BY <4>1
    <3>4. CASE GetCount(c)
      <4>1. Minimum(Len(memory_limit_list), call[c].max) \in Nat
        <5>1. Len(memory_limit_list) \in Nat /\ call[c].max \in Nat
          BY DEF Calls
        <5> QED BY <5>1, MinimumFacts
      <4>2. CASE UnlockAndReturn(c, ENOMEM) /\ UNCHANGED kernel_buffer
        BY <3>4, <4>2 DEF GetCount
      <4>3. CASE /\ kernel_buffer' = [kernel_buffer EXCEPT ![c] =
                       [live |-> TRUE, cap |-> Minimum(Len(memory_limit_list), call[c].max),
                        data |-> <<>>]]
                 /\ Goto(c, "copy")
        <5>1. /\ pc'[c] = "copy"
              /\ kernel_buffer'[c].live
              /\ kernel_buffer'[c].cap = Minimum(Len(memory_limit_list), call[c].max)
              /\ kernel_buffer'[c].data = <<>>
          BY <4>3
        <5>2. UNCHANGED <<memory_limit_list, call>> /\ call[c].op = "get"
          BY <3>4 DEF GetCount, listVars
        <5> HIDE <3>0, <3>t DEF Goto, Return, UnlockAndReturn
        <5>3. Len(kernel_buffer'[c].data) <= kernel_buffer'[c].cap
          <6>1. Len(kernel_buffer'[c].data) = 0
            BY <5>1
          <6>2. kernel_buffer'[c].cap \in Nat
            BY <4>1, <5>1
          <6> QED BY <6>1, <6>2
        <5> QED BY <5>1, <5>2, <5>3
      <4> QED BY <3>4, <4>2, <4>3 DEF GetCount
    <3>5. CASE GetCopy(c)
      <4> DEFINE n == Minimum(Len(memory_limit_list), call[c].max)
      <4>1. n \in Nat /\ n <= Len(memory_limit_list) /\ kernel_buffer[c].cap = n
        <5>1. Len(memory_limit_list) \in Nat /\ call[c].max \in Nat
          BY DEF Calls
        <5>2. kernel_buffer[c].cap = n
          BY <3>5 DEF GetCopy
        <5> QED BY <5>1, <5>2, MinimumFacts
      <4>2. Len(SubSeq(memory_limit_list, 1, n)) = n
        BY <4>1
      <4>3. /\ kernel_buffer'[c].data = SubSeq(memory_limit_list, 1, n)
            /\ kernel_buffer'[c].cap = kernel_buffer[c].cap
            /\ kernel_buffer[c].live /\ call' = call
            /\ pc'[c] = "unlock"
        <5>1. kernel_buffer[c] \in Buffers
          OBVIOUS
        <5> QED BY <3>5, <5>1 DEF GetCopy, Buffers
      <4> HIDE DEF n
      <4>4. Len(kernel_buffer'[c].data) <= kernel_buffer'[c].cap
        <5>1. n <= n
          BY <4>1
        <5> QED BY <4>1, <4>2, <4>3, <5>1
      <4>5. call'[c].op = "get"
        BY <4>3
      <4> HIDE <3>t DEF n, Goto, Return, UnlockAndReturn
      <4> QED BY <4>3, <4>4, <4>5
    <3>6. CASE mutex_unlock(c)
      BY <3>6 DEF mutex_unlock
    <3>7. CASE CopyToUser(c)
      <4>1. \/ /\ kernel_buffer'[c] = kernel_buffer[c] /\ pc'[c] = "put_user"
               /\ call' = call /\ kernel_buffer[c].live
            \/ kernel_buffer'[c] = NoBuffer /\ pc'[c] = "done"
        BY <3>7 DEF CopyToUser, kfree
      <4>2. CASE kernel_buffer'[c] = kernel_buffer[c] /\ pc'[c] = "put_user"
                 /\ call' = call /\ kernel_buffer[c].live
        BY <4>2
      <4>3. CASE kernel_buffer'[c] = NoBuffer /\ pc'[c] = "done"
        <5>1. ~NoBuffer.live /\ Len(NoBuffer.data) <= NoBuffer.cap
          BY DEF NoBuffer
        <5> QED BY <4>3, <5>1
      <4> QED BY <4>1, <4>2, <4>3
    <3>8. CASE PutUser(c)
      <4>1. kernel_buffer'[c] = NoBuffer /\ pc'[c] = "done"
        BY <3>8 DEF PutUser, kfree
      <4> QED BY <4>1 DEF NoBuffer
    <3> QED BY <1>1, <3>1, <3>2, <3>3, <3>4, <3>5, <3>6, <3>7, <3>8 DEF Step, Proceed
  <2> QED BY <2>1, <2>2 DEF Buffered
<1>2. ASSUME NEW p \in Pids, Spawn(p) \/ Fault(p) \/ ExitMm(p) \/ Reap(p) PROVE Buffered'
  BY <1>2, ProcessStep DEF Buffered, listVars
<1>3. CASE UNCHANGED vars
  BY <1>3 DEF Buffered, vars
<1> QED BY <1>1, <1>2, <1>3 DEF Next, Step

\* Every step keeps the answers given true: no step takes a pid out.
LEMMA AnswersStep ==
    TypeOK /\ LockDiscipline /\ Walked /\ Buffered /\ AnswersFixed /\ [Next]_vars
      => AnswersFixed'
<1> SUFFICES ASSUME TypeOK, LockDiscipline, Walked, Buffered, AnswersFixed, [Next]_vars
             PROVE  AnswersFixed'
  OBVIOUS
<1> DEFINE Told(d) == \/ call[d].op = "add" /\ ret[d] \in {0, PRESENT}
                      \/ call[d].op = "update" /\ ret[d] = 0
           K(d) == (pc[d] \in {"unlock", "done"} /\ Told(d))
                     => call[d].pid \in PidsOf(memory_limit_list)
<1>1. ASSUME NEW c \in Callers, Step(c) PROVE AnswersFixed'
  <2>0. PidsOf(memory_limit_list) \subseteq PidsOf(memory_limit_list')
    BY <1>1, ListStep DEF PidsOf
  <2>1. ASSUME NEW d \in Callers \ {c} PROVE K(d)'
    <3>1. pc'[d] = pc[d] /\ call'[d] = call[d] /\ ret'[d] = ret[d] /\ K(d)
      BY <1>1, FrameFacts DEF AnswersFixed
    <3> QED BY <2>0, <3>1
  <2>2. K(c)'
    <3>0. K(c)
      BY DEF AnswersFixed
    <3>t. pc \in [Callers -> PCs] /\ call \in [Callers -> Calls] /\ ret \in [Callers -> Int]
          /\ memory_limit_list \in Seq(memory_limitation)
      BY DEF TypeOK
    <3> USE <3>t DEF Goto, Return, UnlockAndReturn
    <3>1. CASE Enter(c)
      <4>1. \/ pc'[c] \in {"mm", "lock"}
            \/ pc'[c] = "done" /\ ret'[c] \in {EINVAL, EPERM, ESRCH}
        BY <3>1, EnterFacts
      <4> QED BY <4>1 DEF EINVAL, EPERM, ESRCH, PRESENT
    <3>2. CASE mutex_lock(c) \/ Oops(c) \/ Collect(c)
      <4>1. pc'[c] \notin {"unlock", "done"}
        BY <3>2 DEF mutex_lock, Oops, Collect
      <4> QED BY <4>1
    <3>3. CASE ReadMm(c) \/ CheckRss(c)
      <4>1. \/ pc'[c] \in {"rss", "lock"}
            \/ pc'[c] = "done" /\ ret'[c] \in {ESRCH, EXCEEDS}
        BY <3>3 DEF ReadMm, CheckRss
      <4> QED BY <4>1 DEF ESRCH, EXCEEDS, PRESENT
    <3>4. CASE AddScan(c)
      BY <3>4 DEF AddScan, listVars
    <3>5. CASE AddInsert(c)
      <4>1. [pid |-> call[c].pid, memory_limit |-> call[c].limit] \in memory_limitation
        BY <3>5, MemoryLimitAssumption DEF AddInsert, Walked, Calls, memory_limitation
      <4>2. CASE UnlockAndReturn(c, ENOMEM)
        <5>1. ret'[c] = ENOMEM /\ call' = call /\ call[c].op = "add"
          BY <3>5, <4>2 DEF AddInsert, Walked
        <5> QED BY <5>1 DEF ENOMEM, PRESENT
      <4>3. CASE memory_limit_list' =
                   <<[pid |-> call[c].pid, memory_limit |-> call[c].limit]>> \o memory_limit_list
        <5>1. call[c].pid \in PidsOf(memory_limit_list')
          <6>1. PidsOf(memory_limit_list') = PidsOf(memory_limit_list) \cup {call[c].pid}
            BY <4>1, <4>3, ListAddFacts
          <6> QED BY <6>1
        <5> QED BY <3>5, <5>1 DEF AddInsert
      <4> QED BY <3>5, <4>2, <4>3 DEF AddInsert
    <3>6. CASE UpdateScan(c)
      <4>1. \/ ret'[c] = ABSENT
            \/ call[c].pid \in PidsOf(memory_limit_list)
        BY <3>6 DEF UpdateScan, PidsOf
      <4>2. call' = call /\ call[c].op = "update"
        BY <3>6 DEF UpdateScan
      <4> QED BY <2>0, <4>1, <4>2 DEF ABSENT, PRESENT
    <3>7. CASE mutex_unlock(c)
      BY <3>0, <3>7 DEF mutex_unlock
    <3>8. CASE GetCount(c) \/ GetCopy(c) \/ CopyToUser(c) \/ PutUser(c)
      <4>1. call[c].op = "get" /\ call' = call
        BY <3>8 DEF GetCount, GetCopy, CopyToUser, PutUser, Buffered
      <4> QED BY <4>1
    <3> QED BY <1>1, <3>1, <3>2, <3>3, <3>4, <3>5, <3>6, <3>7, <3>8 DEF Step, Proceed
  <2> QED BY <2>1, <2>2 DEF AnswersFixed
<1>2. ASSUME NEW p \in Pids, Spawn(p) \/ Fault(p) \/ ExitMm(p) \/ Reap(p) PROVE AnswersFixed'
  BY <1>2, ProcessStep DEF AnswersFixed, listVars
<1>3. CASE UNCHANGED vars
  BY <1>3 DEF AnswersFixed, vars
<1> QED BY <1>1, <1>2, <1>3 DEF Next, Step

-----------------------------------------------------------------------------
\* The inductive invariant holds throughout every execution of the calls.
THEOREM Invariance == Spec => []IInv
<1>1. Init => IInv
  <2> SUFFICES ASSUME Init PROVE IInv
    OBVIOUS
  <2>1. TypeOK
    <3>1. NoCall \in Calls /\ NoBuffer \in Buffers /\ "idle" \in PCs
      BY DEF NoCall, Calls, Ops, NoBuffer, Buffers, PCs
    <3>2. memory_limit_list \in Seq(memory_limitation) /\ rss \in [Pids -> 0 .. MaxPages]
      BY MemoryLimitAssumption DEF Init
    <3>3. /\ pc \in [Callers -> PCs] /\ call \in [Callers -> Calls]
          /\ kernel_buffer \in [Callers -> Buffers]
      BY <3>1 DEF Init
    <3>4. /\ dangling \in [Callers -> BOOLEAN] /\ ret \in [Callers -> Int]
          /\ u_processes_buffer \in [Callers -> Seq(memory_limitation)]
          /\ processes_returned \in [Callers -> Nat \cup {-1}]
      BY DEF Init
    <3> QED BY <3>2, <3>3, <3>4 DEF Init, TypeOK
  <2>2. LockDiscipline /\ PidsUnique
    BY MemoryLimitAssumption DEF Init, LockDiscipline, Locked, PidsUnique
  <2>3. Walked /\ AnswersFixed
    BY DEF Init, Walked, AnswersFixed
  <2>4. Buffered
    BY DEF Init, Buffered, NoBuffer
  <2> QED BY <2>1, <2>2, <2>3, <2>4 DEF IInv
<1>2. IInv /\ [Next]_vars => IInv'
  BY TypeStep, LockStep, UniqueStep, WalkedStep, BufferedStep, AnswersStep DEF IInv
<1> QED BY <1>1, <1>2, PTL DEF Spec

\* The variables keep their types, so every entry of the list has a natural
\* pid and a natural limit whatever arguments were passed.
THEOREM TypeCorrect == Spec => []TypeOK
BY Invariance, PTL DEF IInv

\* For any number of racing so2_add_memory_limit calls, no pid ever has two
\* entries.
THEOREM NoDuplicatePids == Spec => []PidsUnique
BY Invariance, PTL DEF IInv

\* Every return path of the three calls releases memory_limit_lock exactly
\* when it took it.
THEOREM LockIsDisciplined == Spec => []LockDiscipline
BY Invariance, PTL DEF IInv

\* so2_get_memory_limits never writes past the array it allocated.
THEOREM BufferNeverOverrun == Spec => []BufferFits
<1>1. IInv => BufferFits
  BY DEF IInv, Buffered, BufferFits
<1> QED BY <1>1, Invariance, PTL

\* so2_get_memory_limits frees its array on every path.
THEOREM BufferNeverLeaks == Spec => []NoBufferLeak
<1>1. IInv => NoBufferLeak
  BY DEF IInv, Buffered, NoBufferLeak
<1> QED BY <1>1, Invariance, PTL

\* A pid reported as added, updated or already present stays in the list.
THEOREM AnswersStayTrue == Spec => []AnswersHold
<1>1. IInv => AnswersHold
  BY DEF IInv, AnswersFixed, AnswersHold
<1> QED BY <1>1, Invariance, PTL

\* The list is changed by the mutex's owner only, one head insertion or one
\* new limit at a time; entries are never lost, reordered or renamed.
THEOREM ListChangesAreSafe == Spec => ListSteps
<1> DEFINE Good ==
      memory_limit_list' # memory_limit_list =>
         /\ memory_limit_lock # NoOwner
         /\ memory_limit_lock' = memory_limit_lock
         /\ LET old == Len(memory_limit_list)
                new == Len(memory_limit_list')
            IN /\ new \in {old, old + 1}
               /\ \A i \in 1 .. old :
                    memory_limit_list'[new - old + i].pid = memory_limit_list[i].pid
               /\ new = old + 1 => \A i \in 1 .. old :
                    memory_limit_list'[1 + i] = memory_limit_list[i]
<1>1. ASSUME IInv, [Next]_vars PROVE [Good]_vars
  <2> USE <1>1 DEF IInv
  <2>1. ASSUME NEW c \in Callers, AddInsert(c), memory_limit_lock = c PROVE Good
    <3> DEFINE e == [pid |-> call[c].pid, memory_limit |-> call[c].limit]
    <3>1. e \in memory_limitation
      BY <2>1, MemoryLimitAssumption DEF AddInsert, Walked, TypeOK, Calls, memory_limitation
    <3>2. memory_limit_lock # NoOwner /\ memory_limit_lock' = memory_limit_lock
      BY <2>1, MemoryLimitAssumption DEF AddInsert
    <3>3. CASE memory_limit_list' = <<e>> \o memory_limit_list
      <4>1. /\ Len(memory_limit_list') = Len(memory_limit_list) + 1
            /\ \A i \in 1 .. Len(memory_limit_list) :
                 memory_limit_list'[i + 1] = memory_limit_list[i]
        BY <3>1, <3>3, ListAddFacts DEF TypeOK
      <4>2. Len(memory_limit_list) \in Nat
        BY DEF TypeOK
      <4>3. /\ Len(memory_limit_list') - Len(memory_limit_list) = 1
            /\ \A i \in 1 .. Len(memory_limit_list) : 1 + i = i + 1
        BY <4>1, <4>2
      <4> QED BY <3>2, <4>1, <4>3
    <3> QED BY <2>1, <3>3 DEF AddInsert
  <2>2. ASSUME NEW c \in Callers, UpdateScan(c), memory_limit_lock = c PROVE Good
    <3>1. call[c].limit \in Nat /\ Len(memory_limit_list) \in Nat
      BY DEF TypeOK, Calls
    <3>2. memory_limit_lock # NoOwner /\ memory_limit_lock' = memory_limit_lock
      BY <2>2, MemoryLimitAssumption DEF UpdateScan
    <3>3. ASSUME NEW i \in 1 .. Len(memory_limit_list),
                 memory_limit_list' =
                   [memory_limit_list EXCEPT ![i].memory_limit = call[c].limit]
          PROVE  Good
      <4>1. /\ Len(memory_limit_list') = Len(memory_limit_list)
            /\ \A j \in 1 .. Len(memory_limit_list) :
                 memory_limit_list'[j].pid = memory_limit_list[j].pid
        BY <3>1, <3>3, SetLimitFacts DEF TypeOK
      <4>2. \A j \in 1 .. Len(memory_limit_list) :
              Len(memory_limit_list') - Len(memory_limit_list) + j = j
        BY <3>1, <4>1
      <4>3. Len(memory_limit_list') # Len(memory_limit_list) + 1
        BY <3>1, <4>1
      <4> QED BY <3>2, <4>1, <4>2, <4>3
    <3> QED BY <2>2, <3>3 DEF UpdateScan
  <2>3. ASSUME NEW c \in Callers, Step(c) PROVE Good
    <3>1. CASE UNCHANGED memory_limit_list
      BY <3>1
    <3> QED BY <2>1, <2>2, <2>3, <3>1, ListStep
  <2>4. ASSUME NEW p \in Pids, Spawn(p) \/ Fault(p) \/ ExitMm(p) \/ Reap(p) PROVE Good
    BY <2>4, ProcessStep DEF listVars
  <2>5. CASE Next
    BY <2>3, <2>4, <2>5 DEF Next, Step
  <2> QED BY <2>5
<1>2. IInv /\ [Next]_vars => [Good]_vars
  BY <1>1
<1> QED BY <1>2, Invariance, PTL DEF Spec, ListSteps

=============================================================================
