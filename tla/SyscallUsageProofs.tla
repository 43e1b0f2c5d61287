------------------------- MODULE SyscallUsageProofs -------------------------
(***************************************************************************)
(* Proofs about SyscallUsage, for any number of tasks, ids, tables and     *)
(* calls.                                                                  *)
(***************************************************************************)
EXTENDS SyscallUsage, FiniteSetTheorems, TLAPS

-----------------------------------------------------------------------------
(***************************************************************************)
(* Arithmetic of the wrapping counter.                                     *)
(***************************************************************************)

\* A number below the modulus is its own remainder.
LEMMA SmallRemainder ==
    ASSUME NEW m \in Nat \ {0}, NEW x \in Nat, x < m PROVE x % m = x
BY SMT

\* A remainder is a natural number no greater than what it is taken of.
LEMMA RemainderBound ==
    ASSUME NEW m \in Nat \ {0}, NEW x \in Nat PROVE x % m \in Nat /\ x % m <= x
<1>1. x % m \in Nat
  BY SMT
<1>2. x % m <= x
  BY SMT
<1> QED BY <1>1, <1>2

\* The remainder of a number is unique.
LEMMA UniqueRemainder ==
    ASSUME NEW m \in Nat \ {0}, NEW q \in Nat, NEW r \in 0 .. m - 1
    PROVE  (m * q + r) % m = r
BY SMT

\* Incrementing a wrapped counter is wrapping the incremented one.
LEMMA WrapIncrement ==
    ASSUME NEW m \in Nat \ {0}, NEW x \in Nat PROVE ((x % m) + 1) % m = (x + 1) % m
<1> DEFINE q == x \div m
           r == x % m
<1>1. q \in Nat /\ r \in 0 .. m - 1 /\ x = m * q + r
  BY SMT
<1> HIDE DEF q, r
<1>2. CASE r + 1 < m
  <2>1. x + 1 = m * q + (r + 1) /\ r + 1 \in 0 .. m - 1
    BY <1>1, <1>2
  <2>2. (x + 1) % m = r + 1
    BY <2>1, <1>1, UniqueRemainder
  <2> QED BY <1>1, <1>2, <2>2, SmallRemainder DEF r
<1>3. CASE r + 1 = m
  <2>1. x + 1 = m * (q + 1) + 0
    BY <1>1, <1>3
  <2>2. (x + 1) % m = 0
    BY <2>1, <1>1, UniqueRemainder
  <2>3. m = m * 1 + 0
    OBVIOUS
  <2>4. m % m = 0
    BY <2>3, UniqueRemainder
  <2> QED BY <1>1, <1>3, <2>2, <2>4 DEF r
<1> QED BY <1>1, <1>2, <1>3

\* One word stored in one table: the result is a heap, and every other word
\* is as it was.
LEMMA HeapStore ==
    ASSUME heap \in [Arrays -> Table], NEW a \in Arrays, NEW i \in Slots,
           NEW f \in Fields, NEW v \in Nat
    PROVE  LET h2 == Stored(a, i, f, v) IN
           /\ h2 \in [Arrays -> Table]
           /\ h2[a][i][f] = v
           /\ \A b \in Arrays, s \in Slots, g \in Fields :
                 b # a \/ s # i \/ g # f => h2[b][s][g] = heap[b][s][g]
           /\ \A b \in Arrays : b # a => h2[b] = heap[b]
<1>1. heap[a] \in Table /\ heap[a][i] \in syscall_usage
  BY DEF Table
<1> DEFINE h2 == Stored(a, i, f, v)
           u == [heap[a][i] EXCEPT ![f] = v]
           b2 == [heap[a] EXCEPT ![i] = u]
<1>2. u \in syscall_usage /\ u[f] = v /\ \A g \in Fields : g # f => u[g] = heap[a][i][g]
  BY <1>1 DEF syscall_usage
<1>3. b2 \in Table /\ b2[i] = u /\ \A s \in Slots : s # i => b2[s] = heap[a][s]
  BY <1>1, <1>2 DEF Table
<1>4. h2 = [heap EXCEPT ![a] = b2]
  BY DEF Stored
<1> HIDE DEF b2, u, h2
<1>5. h2 \in [Arrays -> Table] /\ h2[a] = b2 /\ \A b \in Arrays : b # a => h2[b] = heap[b]
  BY <1>3, <1>4
<1> QED BY <1>2, <1>3, <1>5 DEF h2

\* A store to a time leaves every count alone; a store to a count changes no
\* other one.
LEMMA CountsAfterStore ==
    ASSUME heap \in [Arrays -> Table], NEW a \in Arrays, NEW i \in Slots, NEW v \in Nat
    PROVE  /\ \A f \in Fields : f # "count" =>
                \A b \in Arrays, s \in Slots :
                    Stored(a, i, f, v)[b][s]["count"] = heap[b][s]["count"]
           /\ Stored(a, i, "count", v)[a][i]["count"] = v
           /\ \A b \in Arrays, s \in Slots : b # a \/ s # i =>
                    Stored(a, i, "count", v)[b][s]["count"] = heap[b][s]["count"]
<1>0. "count" \in Fields
  BY DEF Fields
<1>1. ASSUME NEW f \in Fields, f # "count", NEW b \in Arrays, NEW s \in Slots
      PROVE  Stored(a, i, f, v)[b][s]["count"] = heap[b][s]["count"]
  <2> DEFINE h2 == Stored(a, i, f, v)
  <2>1. \A c \in Arrays, r \in Slots, g \in Fields :
           c # a \/ r # i \/ g # f => h2[c][r][g] = heap[c][r][g]
    BY HeapStore
  <2> HIDE DEF h2
  <2>2. h2[b][s]["count"] = heap[b][s]["count"]
    BY <1>0, <1>1, <2>1
  <2> QED BY <2>2 DEF h2
<1>2. Stored(a, i, "count", v)[a][i]["count"] = v
  BY <1>0, HeapStore
<1>3. ASSUME NEW b \in Arrays, NEW s \in Slots, b # a \/ s # i
      PROVE  Stored(a, i, "count", v)[b][s]["count"] = heap[b][s]["count"]
  <2> DEFINE h2 == Stored(a, i, "count", v)
  <2>1. \A c \in Arrays, r \in Slots, g \in Fields :
           c # a \/ r # i \/ g # "count" => h2[c][r][g] = heap[c][r][g]
    BY <1>0, HeapStore
  <2> HIDE DEF h2
  <2>2. h2[b][s]["count"] = heap[b][s]["count"]
    BY <1>0, <1>3, <2>1
  <2> QED BY <2>2 DEF h2
<1> QED BY <1>1, <1>2, <1>3

\* The same two facts, of a step that makes such a store.
LEMMA TimeStoreStep ==
    ASSUME heap \in [Arrays -> Table], NEW a \in Arrays, NEW i \in Slots, NEW v \in Nat,
           NEW f \in Fields, f # "count", heap' = Stored(a, i, f, v)
    PROVE  \A b \in Arrays, s \in Slots : heap'[b][s]["count"] = heap[b][s]["count"]
BY CountsAfterStore

LEMMA CountStoreStep ==
    ASSUME heap \in [Arrays -> Table], NEW a \in Arrays, NEW i \in Slots, NEW v \in Nat,
           heap' = Stored(a, i, "count", v)
    PROVE  /\ heap'[a][i]["count"] = v
           /\ \A b \in Arrays, s \in Slots : b # a \/ s # i =>
                    heap'[b][s]["count"] = heap[b][s]["count"]
BY CountsAfterStore

\* A word of the copy lies in a slot of the table.
LEMMA WordInTable ==
    ASSUME NEW w \in 0 .. WORDS, w < WORDS
    PROVE  SlotOf(w) \in Slots /\ FieldOf(w) \in Fields
<1>1. MAX_SYS_CALLS \in Nat \ {0} /\ w \in Nat /\ w < 3 * MAX_SYS_CALLS
  BY SyscallUsageAssumption DEF WORDS
<1>2. w \div 3 \in Nat /\ w \div 3 < MAX_SYS_CALLS
  BY <1>1
<1> QED BY <1>1, <1>2 DEF SlotOf, FieldOf, Slots, Fields

-----------------------------------------------------------------------------
(***************************************************************************)
(* Type correctness needs to know that a task never uses a pointer that    *)
(* was NULL when it was loaded.                                            *)
(***************************************************************************)
Using == {"load", "store", "sec", "copy"}

Pointers ==
    /\ \A t \in Tasks : pc[t] \in Using => ptr[t] \in 1 .. allocated
    /\ syscall_counters <= allocated

TInv == TypeOK /\ Pointers

\* Every step keeps the types and the pointers.
LEMMA TypeStep == TInv /\ [Next]_vars => TInv'
<1> SUFFICES ASSUME TInv, [Next]_vars PROVE TInv'
  OBVIOUS
<1> USE DEF TInv, TypeOK, Pointers, Using
<1>1. ASSUME NEW t \in Tasks, TrackEnter(t) PROVE TInv'
  <2>1. PICK id \in Hooks :
          /\ syscall_counters # NULL /\ id < MAX_SYS_CALLS
          /\ syscall_id' = [syscall_id EXCEPT ![t] = id]
          /\ ptr' = [ptr EXCEPT ![t] = syscall_counters]
          /\ entered' = [entered EXCEPT ![id] = @ + 1]
          /\ raced' = (raced \/ \E u \in Tasks : pc[u] \in Tracking /\ syscall_id[u] = id)
    BY <1>1 DEF TrackEnter
  <2>2. id \in Slots
    BY <2>1, SyscallUsageAssumption DEF Slots
  <2>3. pc' = [pc EXCEPT ![t] = "load"] /\ pc' \in [Tasks -> PCs]
    BY <1>1 DEF TrackEnter, Goto, PCs
  <2>4. UNCHANGED <<tableVars, clock, loaded, now, word, estatic, ret, stored, failed>>
    BY <1>1 DEF TrackEnter
  <2>5. syscall_id' \in [Tasks -> Slots] /\ ptr' \in [Tasks -> Arrays \cup {NULL}]
    BY <2>1, <2>2
  <2>6. entered' \in [Slots -> Nat]
    BY <2>1, <2>2
  <2>7. raced' \in BOOLEAN
    BY <2>1
  <2>8. TypeOK'
    BY <2>3, <2>4, <2>5, <2>6, <2>7 DEF tableVars
  <2>9. syscall_counters \in 1 .. allocated
    BY <2>1 DEF Arrays, NULL
  <2>10. Pointers'
    BY <2>1, <2>3, <2>4, <2>9 DEF tableVars
  <2> QED BY <2>8, <2>10
<1>2. ASSUME NEW t \in Tasks, CountLoad(t) PROVE TInv'
  <2>1. ptr[t] \in Arrays /\ syscall_id[t] \in Slots
    BY <1>2, SyscallUsageAssumption DEF CountLoad, Arrays
  <2>2. heap[ptr[t]][syscall_id[t]]["count"] \in Nat
    BY <2>1 DEF Table, syscall_usage, Fields
  <2>3. loaded' \in [Tasks -> Nat] /\ pc' \in [Tasks -> PCs] /\ pc' = [pc EXCEPT ![t] = "store"]
    BY <1>2, <2>2 DEF CountLoad, Goto, PCs
  <2> QED BY <1>2, <2>3 DEF CountLoad, tableVars, history
<1>3. ASSUME NEW t \in Tasks, CountStore(t) PROVE TInv'
  <2>1. ptr[t] \in Arrays /\ syscall_id[t] \in Slots /\ "count" \in Fields
    BY <1>3, SyscallUsageAssumption DEF CountStore, Arrays, Fields
  <2>2. (loaded[t] + 1) % ULONG_MOD \in Nat
    BY RemainderBound, SyscallUsageAssumption
  <2>3. heap' \in [Arrays -> Table]
    BY <1>3, <2>1, <2>2, HeapStore DEF CountStore
  <2>4. stored' \in [Slots -> Nat] /\ pc' \in [Tasks -> PCs] /\ pc' = [pc EXCEPT ![t] = "clock"]
    BY <1>3, <2>1 DEF CountStore, Goto, PCs
  <2> QED BY <1>3, <2>3, <2>4 DEF CountStore
<1>4. ASSUME NEW t \in Tasks, ktime_get_real_ts64(t) PROVE TInv'
  <2>1. pc' \in [Tasks -> PCs] /\ pc' = [pc EXCEPT ![t] = "reload"]
    BY <1>4 DEF ktime_get_real_ts64, Goto, PCs
  <2> QED BY <1>4, <2>1 DEF ktime_get_real_ts64, tableVars, history
<1>5. ASSUME NEW t \in Tasks, NsecStore(t) PROVE TInv'
  <2>1. ptr' = [ptr EXCEPT ![t] = syscall_counters] /\ ptr' \in [Tasks -> Arrays \cup {NULL}]
    BY <1>5 DEF NsecStore
  <2>2. UNCHANGED <<syscall_counters, allocated, clock, syscall_id, loaded, now, word,
                    estatic, ret, entered, stored, raced, failed>>
    BY <1>5 DEF NsecStore, history
  <2>3. CASE syscall_counters = NULL
    <3>1. pc' = [pc EXCEPT ![t] = "dead"] /\ pc' \in [Tasks -> PCs] /\ heap' = heap
      BY <1>5, <2>3 DEF NsecStore, Goto, PCs
    <3> QED BY <2>1, <2>2, <3>1
  <2>4. CASE syscall_counters # NULL
    <3>1. pc' = [pc EXCEPT ![t] = "sec"] /\ pc' \in [Tasks -> PCs]
      BY <1>5, <2>4 DEF NsecStore, Goto, PCs
    <3>2. syscall_counters \in Arrays /\ syscall_id[t] \in Slots /\ now[t] \in Nat
          /\ "tv_nsec" \in Fields
      BY <2>4 DEF Fields
    <3>3. heap' \in [Arrays -> Table]
      BY <1>5, <2>4, <3>2, HeapStore DEF NsecStore
    <3>4. syscall_counters \in 1 .. allocated
      BY <3>2 DEF Arrays
    <3>5. TypeOK'
      BY <2>1, <2>2, <3>1, <3>3
    <3>6. Pointers'
      BY <2>1, <2>2, <3>1, <3>4
    <3> QED BY <3>5, <3>6
  <2> QED BY <2>3, <2>4
<1>6. ASSUME NEW t \in Tasks, SecStore(t) PROVE TInv'
  <2>1. ptr[t] \in Arrays /\ syscall_id[t] \in Slots /\ now[t] \in Nat /\ "tv_sec" \in Fields
    BY <1>6, SyscallUsageAssumption DEF SecStore, Arrays, Fields
  <2>2. heap' \in [Arrays -> Table]
    BY <1>6, <2>1, HeapStore DEF SecStore
  <2>3. pc' \in [Tasks -> PCs] /\ pc' = [pc EXCEPT ![t] = "idle"]
    BY <1>6 DEF SecStore, Goto, PCs
  <2> QED BY <1>6, <2>2, <2>3 DEF SecStore, history
<1>7. ASSUME NEW t \in Tasks, UsageEnter(t) PROVE TInv'
  <2>1. 0 \in 0 .. WORDS
    BY SyscallUsageAssumption DEF WORDS
  <2>2. ptr' = [ptr EXCEPT ![t] = syscall_counters] /\ ptr' \in [Tasks -> Arrays \cup {NULL}]
    BY <1>7 DEF UsageEnter
  <2>3. word' \in [Tasks -> 0 .. WORDS]
    BY <1>7, <2>1 DEF UsageEnter
  <2>4. raced' \in BOOLEAN
    BY <1>7 DEF UsageEnter
  <2>5. UNCHANGED <<tableVars, clock, syscall_id, loaded, now, estatic, ret, entered, stored, failed>>
    BY <1>7 DEF UsageEnter
  <2>6. pc' \in [Tasks -> PCs]
    BY <1>7 DEF UsageEnter, Goto, PCs
  <2>7. syscall_counters # NULL => syscall_counters \in 1 .. allocated
    BY DEF Arrays, NULL
  <2>8. \/ syscall_counters # NULL
        \/ pc' = [pc EXCEPT ![t] = "alloc"]
    BY <1>7 DEF UsageEnter, Goto
  <2>9. \A u \in Tasks : u # t => pc'[u] = pc[u] /\ ptr'[u] = ptr[u]
    BY <1>7, <2>2 DEF UsageEnter, Goto
  <2>10. pc'[t] \in Using => ptr'[t] \in 1 .. allocated
    BY <2>2, <2>7, <2>8
  <2>11. Pointers'
    BY <2>5, <2>9, <2>10 DEF tableVars
  <2> QED BY <2>2, <2>3, <2>4, <2>5, <2>6, <2>11 DEF tableVars
<1>8. ASSUME NEW t \in Tasks, init_syscall_counters(t) PROVE TInv'
  <2>1. UNCHANGED <<heap, clock, syscall_id, loaded, now, word, estatic, entered, stored, raced>>
    BY <1>8 DEF init_syscall_counters
  <2>2. CASE /\ syscall_counters' = NULL
             /\ failed' = TRUE
             /\ ret' = [ret EXCEPT ![t] = ENOMEM]
             /\ Goto(t, "idle")
             /\ UNCHANGED <<allocated, ptr>>
    <3>1. pc' \in [Tasks -> PCs] /\ pc' = [pc EXCEPT ![t] = "idle"]
      BY <2>2 DEF Goto, PCs
    <3>2. ret' \in [Tasks -> {0, ENOMEM, EFAULT}]
      BY <2>2
    <3> QED BY <2>1, <2>2, <3>1, <3>2 DEF NULL
  <2>3. CASE /\ allocated < MaxArrays
             /\ allocated' = allocated + 1
             /\ syscall_counters' = allocated + 1
             /\ ptr' = [ptr EXCEPT ![t] = allocated + 1]
             /\ Goto(t, "copy")
             /\ UNCHANGED <<failed, ret>>
    <3>1. allocated + 1 \in Arrays /\ allocated + 1 \in 1 .. allocated + 1
          /\ allocated' \in 0 .. MaxArrays
      BY <2>3, SyscallUsageAssumption DEF Arrays
    <3>2. pc' \in [Tasks -> PCs] /\ pc' = [pc EXCEPT ![t] = "copy"]
      BY <2>3 DEF Goto, PCs
    <3>3. ptr' \in [Tasks -> Arrays \cup {NULL}]
      BY <2>3, <3>1
    <3>4. \A u \in Tasks : pc'[u] \in Using => ptr'[u] \in 1 .. allocated + 1
      BY <2>3, <3>1, <3>2
    <3>5. TypeOK'
      BY <2>1, <2>3, <3>1, <3>2, <3>3
    <3>6. Pointers'
      BY <2>3, <3>4
    <3> QED BY <3>5, <3>6
  <2> QED BY <1>8, <2>2, <2>3 DEF init_syscall_counters
<1>9. ASSUME NEW t \in Tasks, CopyToUser(t) PROVE TInv'
  <2>1. UNCHANGED <<tableVars, clock, ptr, syscall_id, loaded, now, history>>
    BY <1>9 DEF CopyToUser
  <2>2. CASE word[t] < WORDS /\ UNCHANGED <<pc, ret>>
             /\ word' = [word EXCEPT ![t] = @ + 1]
             /\ estatic' = [estatic EXCEPT ![t][SlotOf(word[t])][FieldOf(word[t])] =
                              heap[ptr[t]][SlotOf(word[t])][FieldOf(word[t])]]
    <3> DEFINE s == SlotOf(word[t])
               f == FieldOf(word[t])
    <3>1. s \in Slots /\ f \in Fields
      BY <2>2, WordInTable
    <3>2. ptr[t] \in Arrays
      BY <1>9, SyscallUsageAssumption DEF CopyToUser, Arrays
    <3> HIDE DEF s, f
    <3>3. heap[ptr[t]][s][f] \in Nat
      BY <3>1, <3>2 DEF Table, syscall_usage
    <3>4. estatic[t] \in Table /\ estatic[t][s] \in syscall_usage
      BY <3>1 DEF Table
    <3>5. [estatic[t][s] EXCEPT ![f] = heap[ptr[t]][s][f]] \in syscall_usage
      BY <3>1, <3>3, <3>4 DEF syscall_usage
    <3>6. [estatic[t] EXCEPT ![s] = [estatic[t][s] EXCEPT ![f] = heap[ptr[t]][s][f]]] \in Table
      BY <3>1, <3>4, <3>5 DEF Table
    <3>7. estatic' = [estatic EXCEPT ![t] =
             [estatic[t] EXCEPT ![s] = [estatic[t][s] EXCEPT ![f] = heap[ptr[t]][s][f]]]]
      BY <2>2 DEF s, f
    <3>8. estatic' \in [Tasks -> Table]
      BY <3>6, <3>7
    <3>9. word' \in [Tasks -> 0 .. WORDS]
      BY <2>2, SyscallUsageAssumption DEF WORDS
    <3> QED BY <2>1, <2>2, <3>8, <3>9 DEF tableVars, history
  <2>3. CASE pc' = [pc EXCEPT ![t] = "idle"] /\ UNCHANGED <<estatic, word>>
             /\ (ret' = [ret EXCEPT ![t] = EFAULT] \/ ret' = [ret EXCEPT ![t] = 0])
    <3>1. pc' \in [Tasks -> PCs] /\ ret' \in [Tasks -> {0, ENOMEM, EFAULT}]
      BY <2>3 DEF PCs
    <3> QED BY <2>1, <2>3, <3>1 DEF tableVars, history
  <2> QED BY <1>9, <2>2, <2>3 DEF CopyToUser, Goto
<1>10. CASE UNCHANGED vars
  BY <1>10 DEF vars, tableVars, taskVars, history
<1> QED BY <1>1, <1>2, <1>3, <1>4, <1>5, <1>6, <1>7, <1>8, <1>9, <1>10 DEF Next

-----------------------------------------------------------------------------
(***************************************************************************)
(* Counted calls: those begun are those stored and those under way, and no *)
(* count, loaded, stored or reported, exceeds the counts stored.           *)
(***************************************************************************)
Unstored(s) == {t \in Tasks : pc[t] \in {"load", "store"} /\ syscall_id[t] = s}

Counting == \A s \in Slots : entered[s] = stored[s] + Cardinality(Unstored(s))

Bounded ==
    \A s \in Slots :
        /\ \A a \in Arrays : heap[a][s]["count"] <= stored[s]
        /\ \A t \in Tasks : estatic[t][s]["count"] <= stored[s]
        /\ \A t \in Tasks : pc[t] = "store" /\ syscall_id[t] = s => loaded[t] <= stored[s]

\* The set of calls under way is finite, so it can be counted.
LEMMA UnstoredFinite ==
    \A s : IsFiniteSet(Unstored(s)) /\ Cardinality(Unstored(s)) \in Nat
<1> SUFFICES ASSUME NEW s PROVE IsFiniteSet(Unstored(s)) /\ Cardinality(Unstored(s)) \in Nat
  OBVIOUS
<1>1. Unstored(s) \subseteq Tasks
  BY DEF Unstored
<1>2. IsFiniteSet(Unstored(s))
  BY <1>1, SyscallUsageAssumption, FS_Subset
<1> QED BY <1>2, FS_CardinalityType

\* Every step keeps the tally of the calls under way.
LEMMA CountingStep == TInv /\ Counting /\ [Next]_vars => Counting'
<1> SUFFICES ASSUME TInv, Counting, [Next]_vars PROVE Counting'
  OBVIOUS
<1> USE DEF Counting
<1> DEFINE U(s) == Unstored(s)
<1>0. pc \in [Tasks -> PCs] /\ syscall_id \in [Tasks -> Slots]
      /\ entered \in [Slots -> Nat] /\ stored \in [Slots -> Nat]
  BY DEF TInv, TypeOK
<1>1. ASSUME NEW t \in Tasks, TrackEnter(t) PROVE Counting'
  <2>1. PICK id \in Hooks :
          /\ id < MAX_SYS_CALLS
          /\ syscall_id' = [syscall_id EXCEPT ![t] = id]
          /\ entered' = [entered EXCEPT ![id] = @ + 1]
    BY <1>1 DEF TrackEnter
  <2>2. id \in Slots
    BY <2>1, SyscallUsageAssumption DEF Slots
  <2>3. pc[t] = "idle" /\ pc' = [pc EXCEPT ![t] = "load"] /\ stored' = stored
    BY <1>1 DEF TrackEnter, Goto
  <2>4. t \notin Unstored(id) /\ Unstored(id)' = Unstored(id) \cup {t}
    BY <1>0, <2>1, <2>3 DEF Unstored
  <2>5. Cardinality(Unstored(id)') = Cardinality(Unstored(id)) + 1
    BY <2>4, UnstoredFinite, FS_AddElement
  <2>6. \A s \in Slots : s # id => Unstored(s)' = Unstored(s)
    BY <1>0, <2>1, <2>3 DEF Unstored
  <2>7. entered'[id] = stored'[id] + Cardinality(Unstored(id)')
    BY <1>0, <2>1, <2>2, <2>3, <2>5, UnstoredFinite
  <2>8. \A s \in Slots : s # id => entered'[s] = stored'[s] + Cardinality(Unstored(s)')
    BY <1>0, <2>1, <2>2, <2>3, <2>6
  <2> QED BY <2>7, <2>8
<1>2. ASSUME NEW t \in Tasks, CountStore(t) PROVE Counting'
  <2>1. pc[t] = "store" /\ pc' = [pc EXCEPT ![t] = "clock"]
        /\ syscall_id' = syscall_id /\ entered' = entered
        /\ stored' = [stored EXCEPT ![syscall_id[t]] = @ + 1]
    BY <1>2 DEF CountStore, Goto
  <2>2. PICK id \in Slots : id = syscall_id[t]
    BY <1>0
  <2>3. t \in Unstored(id) /\ Unstored(id)' = Unstored(id) \ {t}
    BY <1>0, <2>1, <2>2 DEF Unstored
  <2>4. Cardinality(Unstored(id)') = Cardinality(Unstored(id)) - 1
    BY <2>3, UnstoredFinite, FS_RemoveElement
  <2>5. \A s \in Slots : s # id => Unstored(s)' = Unstored(s)
    BY <1>0, <2>1, <2>2 DEF Unstored
  <2>6. entered'[id] = stored'[id] + Cardinality(Unstored(id)')
    BY <1>0, <2>1, <2>2, <2>4, UnstoredFinite
  <2>7. \A s \in Slots : s # id => entered'[s] = stored'[s] + Cardinality(Unstored(s)')
    BY <1>0, <2>1, <2>2, <2>5
  <2> QED BY <2>6, <2>7
<1>3. ASSUME UNCHANGED <<syscall_id, entered, stored>>,
             \A u \in Tasks : pc'[u] \in {"load", "store"} <=> pc[u] \in {"load", "store"}
      PROVE  Counting'
  <2>1. \A s \in Slots : Unstored(s)' = Unstored(s)
    BY <1>3 DEF Unstored
  <2> QED BY <1>3, <2>1
<1>4. ASSUME NEW t \in Tasks,
             CountLoad(t) \/ ktime_get_real_ts64(t) \/ NsecStore(t) \/ SecStore(t)
             \/ UsageEnter(t) \/ init_syscall_counters(t) \/ CopyToUser(t)
      PROVE  Counting'
  <2>1. UNCHANGED <<syscall_id, entered, stored>>
    BY <1>4 DEF CountLoad, ktime_get_real_ts64, NsecStore, SecStore, UsageEnter,
                init_syscall_counters, CopyToUser, history
  <2>2. \A u \in Tasks : pc'[u] \in {"load", "store"} <=> pc[u] \in {"load", "store"}
    <3>1. CASE CountLoad(t)
      BY <1>0, <3>1 DEF CountLoad, Goto
    <3>2. CASE ktime_get_real_ts64(t) \/ SecStore(t)
      BY <1>0, <3>2 DEF ktime_get_real_ts64, SecStore, Goto
    <3>3. CASE NsecStore(t)
      BY <1>0, <3>3 DEF NsecStore, Goto
    <3>4. CASE UsageEnter(t)
      BY <1>0, <3>4 DEF UsageEnter, Goto
    <3>5. CASE init_syscall_counters(t)
      BY <1>0, <3>5 DEF init_syscall_counters, Goto
    <3>6. CASE CopyToUser(t)
      BY <1>0, <3>6 DEF CopyToUser, Goto
    <3> QED BY <1>4, <3>1, <3>2, <3>3, <3>4, <3>5, <3>6
  <2> QED BY <1>3, <2>1, <2>2
<1>5. CASE UNCHANGED vars
  BY <1>3, <1>5 DEF vars, taskVars, history
<1> QED BY <1>1, <1>2, <1>4, <1>5 DEF Next

\* Every step keeps the bounds on the counts.
LEMMA BoundedStep == TInv /\ Bounded /\ [Next]_vars => Bounded'
<1> SUFFICES ASSUME TInv, Bounded, [Next]_vars PROVE Bounded'
  OBVIOUS
<1>0. /\ pc \in [Tasks -> PCs] /\ syscall_id \in [Tasks -> Slots]
      /\ stored \in [Slots -> Nat] /\ loaded \in [Tasks -> Nat] /\ now \in [Tasks -> Nat]
      /\ heap \in [Arrays -> Table] /\ estatic \in [Tasks -> Table]
      /\ syscall_counters \in Arrays \cup {NULL}
      /\ \A t \in Tasks : pc[t] \in Using => ptr[t] \in Arrays
  <2>1. \A t \in Tasks : pc[t] \in Using => ptr[t] \in Arrays
    BY SyscallUsageAssumption DEF TInv, TypeOK, Pointers, Arrays
  <2> QED BY <2>1 DEF TInv, TypeOK
<1>h. \A a \in Arrays, s \in Slots : heap[a][s]["count"] \in Nat
  BY <1>0 DEF Table, syscall_usage, Fields
<1>e. \A t \in Tasks, s \in Slots : estatic[t][s]["count"] \in Nat
  BY <1>0 DEF Table, syscall_usage, Fields
<1>1. ASSUME UNCHANGED <<stored, estatic, loaded, syscall_id>>,
             \A a \in Arrays, s \in Slots : heap'[a][s]["count"] = heap[a][s]["count"],
             \A u \in Tasks : pc'[u] = "store" => pc[u] = "store"
      PROVE  Bounded'
  BY <1>1 DEF Bounded
<1>2. ASSUME NEW t \in Tasks, TrackEnter(t) PROVE Bounded'
  <2>1. UNCHANGED <<stored, estatic, loaded, heap>>
        /\ pc' = [pc EXCEPT ![t] = "load"]
        /\ \A u \in Tasks : u # t => syscall_id'[u] = syscall_id[u]
    BY <1>0, <1>2 DEF TrackEnter, Goto, tableVars
  <2> QED BY <1>0, <2>1 DEF Bounded
<1>3. ASSUME NEW t \in Tasks, CountLoad(t) PROVE Bounded'
  <2>1. ptr[t] \in Arrays /\ syscall_id[t] \in Slots
    BY <1>0, <1>3 DEF CountLoad, Using
  <2>2. UNCHANGED <<stored, estatic, heap, syscall_id>> /\ pc' = [pc EXCEPT ![t] = "store"]
        /\ loaded' = [loaded EXCEPT ![t] = heap[ptr[t]][syscall_id[t]]["count"]]
    BY <1>3 DEF CountLoad, Goto, tableVars, history
  <2>3. loaded'[t] <= stored[syscall_id[t]]
    BY <1>0, <2>1, <2>2 DEF Bounded
  <2> QED BY <1>0, <2>2, <2>3 DEF Bounded
<1>4. ASSUME NEW t \in Tasks, CountStore(t) PROVE Bounded'
  <2> DEFINE id == syscall_id[t]
             n == (loaded[t] + 1) % ULONG_MOD
  <2>1. ptr[t] \in Arrays /\ id \in Slots /\ "count" \in Fields
    BY <1>0, <1>4 DEF CountStore, Using, Fields
  <2>2. UNCHANGED <<estatic, loaded, syscall_id>>
        /\ pc[t] = "store" /\ pc' = [pc EXCEPT ![t] = "clock"]
        /\ stored' = [stored EXCEPT ![id] = @ + 1]
        /\ heap' = Stored(ptr[t], id, "count", n)
    BY <1>4 DEF CountStore, Goto
  <2>3. loaded[t] <= stored[id]
    BY <2>1, <2>2 DEF Bounded
  <2>4. n \in Nat /\ n <= loaded[t] + 1
    <3>1. loaded[t] + 1 \in Nat
      BY <1>0
    <3> QED BY <3>1, RemainderBound, SyscallUsageAssumption
  <2> HIDE DEF n, id
  <2>5. heap'[ptr[t]][id]["count"] = n
        /\ \A b \in Arrays, s \in Slots :
              b # ptr[t] \/ s # id => heap'[b][s]["count"] = heap[b][s]["count"]
    BY <1>0, <2>1, <2>2, <2>4, CountStoreStep
  <2>6. stored'[id] = stored[id] + 1 /\ \A s \in Slots : s # id => stored'[s] = stored[s]
    BY <1>0, <2>1, <2>2
  <2>7. \A s \in Slots : stored[s] \in Nat /\ stored'[s] \in Nat /\ stored[s] <= stored'[s]
    BY <1>0, <2>6
  <2>8. \A s \in Slots, a \in Arrays : heap'[a][s]["count"] <= stored'[s]
    <3> SUFFICES ASSUME NEW s \in Slots, NEW a \in Arrays
                 PROVE  heap'[a][s]["count"] <= stored'[s]
      OBVIOUS
    <3>1. CASE a = ptr[t] /\ s = id
      BY <1>0, <2>1, <2>3, <2>4, <2>5, <2>6, <3>1
    <3>2. CASE ~(a = ptr[t] /\ s = id)
      <4>1. heap'[a][s]["count"] = heap[a][s]["count"] /\ heap[a][s]["count"] <= stored[s]
        BY <2>5, <3>2 DEF Bounded
      <4> QED BY <1>h, <2>6, <2>7, <4>1
    <3> QED BY <3>1, <3>2
  <2>9. \A s \in Slots, u \in Tasks : estatic'[u][s]["count"] <= stored'[s]
    <3> SUFFICES ASSUME NEW s \in Slots, NEW u \in Tasks
                 PROVE  estatic'[u][s]["count"] <= stored'[s]
      OBVIOUS
    <3>1. estatic'[u][s]["count"] = estatic[u][s]["count"] /\ estatic[u][s]["count"] <= stored[s]
      BY <2>2 DEF Bounded
    <3>2. estatic[u][s]["count"] \in Nat /\ stored[s] \in Nat /\ stored'[s] \in Nat
          /\ stored[s] <= stored'[s]
      BY <1>e, <2>7
    <3> QED BY <3>1, <3>2
  <2>10. \A s \in Slots, u \in Tasks :
            pc'[u] = "store" /\ syscall_id'[u] = s => loaded'[u] <= stored'[s]
    <3> SUFFICES ASSUME NEW s \in Slots, NEW u \in Tasks, pc'[u] = "store", syscall_id'[u] = s
                 PROVE  loaded'[u] <= stored'[s]
      OBVIOUS
    <3>1. pc[u] = "store" /\ syscall_id[u] = s /\ loaded'[u] = loaded[u]
      BY <1>0, <2>2
    <3>2. loaded[u] <= stored[s] /\ loaded[u] \in Nat
      BY <1>0, <3>1 DEF Bounded
    <3> QED BY <2>7, <3>1, <3>2
  <2> QED BY <2>8, <2>9, <2>10 DEF Bounded
<1>5. ASSUME NEW t \in Tasks, NsecStore(t) PROVE Bounded'
  <2>1. UNCHANGED <<stored, estatic, loaded, syscall_id>>
        /\ \A u \in Tasks : pc'[u] = "store" => pc[u] = "store"
    BY <1>0, <1>5 DEF NsecStore, Goto, history
  <2>2. CASE syscall_counters = NULL
    BY <1>1, <1>5, <2>1, <2>2 DEF NsecStore
  <2>3. CASE syscall_counters # NULL
    <3>1. heap' = Stored(syscall_counters, syscall_id[t], "tv_nsec", now[t])
      BY <1>5, <2>3 DEF NsecStore
    <3>2. syscall_counters \in Arrays /\ syscall_id[t] \in Slots /\ now[t] \in Nat
          /\ "tv_nsec" \in Fields /\ "count" \in Fields
      BY <1>0, <2>3 DEF Fields
    <3>3. \A a \in Arrays, s \in Slots : heap'[a][s]["count"] = heap[a][s]["count"]
      BY <1>0, <3>1, <3>2, TimeStoreStep
    <3> QED BY <1>1, <2>1, <3>3
  <2> QED BY <2>2, <2>3
<1>6. ASSUME NEW t \in Tasks, SecStore(t) PROVE Bounded'
  <2>1. UNCHANGED <<stored, estatic, loaded, syscall_id>>
        /\ \A u \in Tasks : pc'[u] = "store" => pc[u] = "store"
    BY <1>0, <1>6 DEF SecStore, Goto, history
  <2>2. heap' = Stored(ptr[t], syscall_id[t], "tv_sec", now[t])
    BY <1>6 DEF SecStore
  <2>3. ptr[t] \in Arrays /\ syscall_id[t] \in Slots /\ now[t] \in Nat
        /\ "tv_sec" \in Fields /\ "count" \in Fields
    BY <1>0, <1>6 DEF SecStore, Using, Fields
  <2>4. \A a \in Arrays, s \in Slots : heap'[a][s]["count"] = heap[a][s]["count"]
    BY <1>0, <2>2, <2>3, TimeStoreStep
  <2> QED BY <1>1, <2>1, <2>4
<1>7. ASSUME NEW t \in Tasks, ktime_get_real_ts64(t) \/ UsageEnter(t) \/ init_syscall_counters(t)
      PROVE  Bounded'
  <2>1. UNCHANGED <<stored, estatic, loaded, syscall_id, heap>>
    BY <1>7 DEF ktime_get_real_ts64, UsageEnter, init_syscall_counters, tableVars, history
  <2>2. \A u \in Tasks : pc'[u] = "store" => pc[u] = "store"
    BY <1>0, <1>7 DEF ktime_get_real_ts64, UsageEnter, init_syscall_counters, Goto
  <2> QED BY <1>1, <2>1, <2>2
<1>8. ASSUME NEW t \in Tasks, CopyToUser(t) PROVE Bounded'
  <2>1. UNCHANGED <<stored, loaded, syscall_id, heap>>
        /\ \A u \in Tasks : pc'[u] = "store" => pc[u] = "store"
    BY <1>0, <1>8 DEF CopyToUser, Goto, tableVars, history
  <2>2. CASE estatic' = estatic
    BY <1>1, <2>1, <2>2
  <2>3. CASE word[t] < WORDS
             /\ estatic' = [estatic EXCEPT ![t][SlotOf(word[t])][FieldOf(word[t])] =
                              heap[ptr[t]][SlotOf(word[t])][FieldOf(word[t])]]
    <3> DEFINE s == SlotOf(word[t])
               f == FieldOf(word[t])
               v == heap[ptr[t]][s][f]
    <3>1. s \in Slots /\ f \in Fields
      BY <2>3, WordInTable DEF TInv, TypeOK
    <3>2. ptr[t] \in Arrays
      BY <1>0, <1>8 DEF CopyToUser, Using
    <3>3. estatic' = [estatic EXCEPT ![t] =
                        [estatic[t] EXCEPT ![s] = [estatic[t][s] EXCEPT ![f] = v]]]
      BY <2>3
    <3>4. v \in Nat
      <4>1. heap[ptr[t]] \in Table
        BY <1>0, <3>2
      <4>2. heap[ptr[t]][s] \in syscall_usage
        BY <3>1, <4>1 DEF Table
      <4> QED BY <3>1, <4>2 DEF syscall_usage
    <3>5. f = "count" => v <= stored[s]
      BY <3>1, <3>2 DEF Bounded
    <3> HIDE DEF s, f, v
    <3>6. estatic[t] \in Table /\ estatic[t][s] \in syscall_usage
      BY <1>0, <3>1 DEF Table
    <3>7. [estatic[t][s] EXCEPT ![f] = v]["count"] =
             IF f = "count" THEN v ELSE estatic[t][s]["count"]
      BY <3>1, <3>6 DEF syscall_usage, Fields
    <3>8. estatic'[t][s]["count"] = IF f = "count" THEN v ELSE estatic[t][s]["count"]
      BY <1>0, <3>1, <3>3, <3>6, <3>7 DEF Table
    <3>9. \A u \in Tasks, i \in Slots :
             u # t \/ i # s => estatic'[u][i]["count"] = estatic[u][i]["count"]
      BY <1>0, <3>1, <3>3, <3>6 DEF Table
    <3>10. \A u \in Tasks, i \in Slots : estatic'[u][i]["count"] <= stored[i]
      BY <3>5, <3>8, <3>9 DEF Bounded
    <3> QED BY <2>1, <3>10 DEF Bounded
  <2> QED BY <1>8, <2>2, <2>3 DEF CopyToUser
<1>9. CASE UNCHANGED vars
  <2>1. UNCHANGED <<stored, estatic, loaded, syscall_id, heap, pc>>
    BY <1>9 DEF vars, tableVars, taskVars, history
  <2> QED BY <1>1, <2>1
<1> QED BY <1>2, <1>3, <1>4, <1>5, <1>6, <1>7, <1>8, <1>9 DEF Next

-----------------------------------------------------------------------------
(***************************************************************************)
(* Calls that did not overlap.                                             *)
(***************************************************************************)
Fresh == \A a \in Arrays : a > allocated => \A s \in Slots : heap[a][s]["count"] = 0

SoloTrack == \A t, u \in Tasks :
    pc[t] \in Tracking /\ pc[u] \in Tracking /\ syscall_id[t] = syscall_id[u] => t = u
SoloInit == \A t, u \in Tasks : pc[t] = "alloc" /\ pc[u] = "alloc" => t = u
NoTable == syscall_counters = NULL => allocated = 0 /\ \A s \in Slots : stored[s] = 0
Unpublished == \A t \in Tasks : pc[t] = "alloc" => syscall_counters = NULL
InUse == \A t \in Tasks : pc[t] \in {"load", "store"} => ptr[t] = syscall_counters
LoadFresh == \A t \in Tasks :
    pc[t] = "store" => loaded[t] = heap[ptr[t]][syscall_id[t]]["count"]
Exact == syscall_counters # NULL =>
    \A s \in Slots : heap[syscall_counters][s]["count"] = stored[s] % ULONG_MOD

Alone == ~raced =>
    /\ SoloTrack /\ SoloInit /\ NoTable /\ Unpublished /\ InUse /\ LoadFresh /\ Exact

Deaths ==
    /\ \A t \in Tasks : pc[t] \in Tracking => allocated > 0
    /\ allocated > 0 /\ syscall_counters = NULL => failed /\ raced
    /\ \A t \in Tasks : pc[t] = "dead" => failed /\ raced

\* A task that uses its pointer has one of the tables allocated so far.
LEMMA PointerInArrays ==
    ASSUME TInv, NEW t \in Tasks, pc[t] \in Using
    PROVE  ptr[t] \in 1 .. allocated /\ ptr[t] \in Arrays
<1>1. ptr[t] \in 1 .. allocated
  BY DEF TInv, Pointers
<1>2. allocated \in 0 .. MaxArrays /\ MaxArrays \in Nat
  BY SyscallUsageAssumption DEF TInv, TypeOK
<1> QED BY <1>1, <1>2 DEF Arrays

\* What a step may do to pc, and to the counts of the heap.
LEMMA StepShape ==
    ASSUME TInv, NEW t \in Tasks,
           TrackEnter(t) \/ CountLoad(t) \/ CountStore(t) \/ ktime_get_real_ts64(t)
           \/ NsecStore(t) \/ SecStore(t) \/ UsageEnter(t) \/ init_syscall_counters(t)
           \/ CopyToUser(t)
    PROVE  /\ pc' \in [Tasks -> PCs] /\ \A u \in Tasks : u # t => pc'[u] = pc[u]
           /\ \A u \in Tasks : u # t => syscall_id'[u] = syscall_id[u]
           /\ \A u \in Tasks : u # t => ptr'[u] = ptr[u]
           /\ \A u \in Tasks : u # t => loaded'[u] = loaded[u]
           /\ raced => raced'
           /\ failed => failed'
<1>0. pc \in [Tasks -> PCs] /\ syscall_id \in [Tasks -> Slots] /\ loaded \in [Tasks -> Nat]
      /\ ptr \in [Tasks -> Arrays \cup {NULL}]
  BY DEF TInv, TypeOK
<1>1. CASE TrackEnter(t)
  BY <1>0, <1>1 DEF TrackEnter, Goto, PCs
<1>2. CASE CountLoad(t)
  BY <1>0, <1>2 DEF CountLoad, Goto, PCs, history
<1>3. CASE CountStore(t)
  BY <1>0, <1>3 DEF CountStore, Goto, PCs
<1>4. CASE ktime_get_real_ts64(t)
  BY <1>0, <1>4 DEF ktime_get_real_ts64, Goto, PCs, history
<1>5. CASE NsecStore(t)
  BY <1>0, <1>5 DEF NsecStore, Goto, PCs, history
<1>6. CASE SecStore(t)
  BY <1>0, <1>6 DEF SecStore, Goto, PCs, history
<1>7. CASE UsageEnter(t)
  <2>1. \E w \in PCs : pc' = [pc EXCEPT ![t] = w]
    BY <1>7 DEF UsageEnter, Goto, PCs
  <2>2. raced => raced'
    BY <1>7 DEF UsageEnter
  <2>3. UNCHANGED <<syscall_id, loaded, failed>> /\ ptr' = [ptr EXCEPT ![t] = syscall_counters]
    BY <1>7 DEF UsageEnter
  <2> QED BY <1>0, <2>1, <2>2, <2>3
<1>8. CASE init_syscall_counters(t)
  <2>1. \E w \in PCs : pc' = [pc EXCEPT ![t] = w]
    BY <1>8 DEF init_syscall_counters, Goto, PCs
  <2>2. raced' = raced /\ (failed => failed')
    BY <1>8 DEF init_syscall_counters
  <2>3. syscall_id' = syscall_id /\ loaded' = loaded
    BY <1>8 DEF init_syscall_counters
  <2>4. \E p : ptr' = [ptr EXCEPT ![t] = p] \/ ptr' = ptr
    BY <1>8 DEF init_syscall_counters
  <2> QED BY <1>0, <2>1, <2>2, <2>3, <2>4
<1>9. CASE CopyToUser(t)
  <2>1. \E w \in PCs : pc' = [pc EXCEPT ![t] = w] \/ pc' = pc
    BY <1>9 DEF CopyToUser, Goto, PCs
  <2>2. UNCHANGED <<syscall_id, loaded, ptr, raced, failed>>
    BY <1>9 DEF CopyToUser, history
  <2> QED BY <1>0, <2>1, <2>2
<1> QED BY <1>1, <1>2, <1>3, <1>4, <1>5, <1>6, <1>7, <1>8, <1>9

\* A step other than CountStore leaves the counts of every table alone.
LEMMA CountsKept ==
    ASSUME TInv, NEW t \in Tasks,
           TrackEnter(t) \/ CountLoad(t) \/ ktime_get_real_ts64(t)
           \/ NsecStore(t) \/ SecStore(t) \/ UsageEnter(t) \/ init_syscall_counters(t)
           \/ CopyToUser(t)
    PROVE  /\ \A a \in Arrays, s \in Slots : heap'[a][s]["count"] = heap[a][s]["count"]
           /\ stored' = stored
<1>0. /\ heap \in [Arrays -> Table] /\ syscall_id[t] \in Slots /\ now[t] \in Nat
      /\ "tv_sec" \in Fields /\ "tv_nsec" \in Fields
      /\ syscall_counters \in Arrays \cup {NULL}
  BY DEF TInv, TypeOK, Fields
<1>1. CASE NsecStore(t)
  <2>1. stored' = stored
    BY <1>1 DEF NsecStore, history
  <2>2. CASE syscall_counters = NULL
    BY <1>1, <2>1, <2>2 DEF NsecStore
  <2>3. CASE syscall_counters # NULL
    <3>1. heap' = Stored(syscall_counters, syscall_id[t], "tv_nsec", now[t])
      BY <1>1, <2>3 DEF NsecStore
    <3>2. syscall_counters \in Arrays
      BY <1>0, <2>3
    <3>3. \A a \in Arrays, s \in Slots : heap'[a][s]["count"] = heap[a][s]["count"]
      BY <1>0, <3>1, <3>2, TimeStoreStep
    <3> QED BY <2>1, <3>3
  <2> QED BY <2>2, <2>3
<1>2. CASE SecStore(t)
  <2>1. heap' = Stored(ptr[t], syscall_id[t], "tv_sec", now[t]) /\ stored' = stored
    BY <1>2 DEF SecStore, history
  <2>2. ptr[t] \in Arrays
    <3>1. pc[t] \in Using
      BY <1>2 DEF SecStore, Using
    <3> QED BY <3>1, PointerInArrays
  <2>3. \A a \in Arrays, s \in Slots : heap'[a][s]["count"] = heap[a][s]["count"]
    BY <1>0, <2>1, <2>2, TimeStoreStep
  <2> QED BY <2>1, <2>3
<1>3. CASE ~(NsecStore(t) \/ SecStore(t))
  BY <1>3 DEF TrackEnter, CountLoad, ktime_get_real_ts64, UsageEnter,
              init_syscall_counters, CopyToUser, tableVars, history
<1> QED BY <1>1, <1>2, <1>3

\* No count is stored in a table before it is allocated.
LEMMA FreshStep == TInv /\ Fresh /\ [Next]_vars => Fresh'
<1> SUFFICES ASSUME TInv, Fresh, [Next]_vars PROVE Fresh'
  OBVIOUS
<1>0. allocated \in Nat
  BY SyscallUsageAssumption DEF TInv, TypeOK
<1>1. ASSUME allocated' \in Nat, allocated' >= allocated,
             \A a \in Arrays, s \in Slots :
                 a > allocated' => heap'[a][s]["count"] = heap[a][s]["count"]
      PROVE  Fresh'
  BY <1>0, <1>1 DEF Fresh, Arrays
<1>2. ASSUME NEW t \in Tasks, CountStore(t) PROVE Fresh'
  <2> DEFINE n == (loaded[t] + 1) % ULONG_MOD
  <2>0. heap \in [Arrays -> Table] /\ syscall_id[t] \in Slots
    BY DEF TInv, TypeOK
  <2>1. heap' = Stored(ptr[t], syscall_id[t], "count", n) /\ allocated' = allocated
    BY <1>2 DEF CountStore
  <2>2. ptr[t] \in 1 .. allocated /\ ptr[t] \in Arrays
    <3>1. pc[t] \in Using
      BY <1>2 DEF CountStore, Using
    <3> QED BY <3>1, PointerInArrays
  <2>3. n \in Nat
    BY RemainderBound, SyscallUsageAssumption DEF TInv, TypeOK
  <2> HIDE DEF n
  <2>4. \A a \in Arrays, s \in Slots :
           a # ptr[t] => heap'[a][s]["count"] = heap[a][s]["count"]
    <3>1. heap'[ptr[t]][syscall_id[t]]["count"] = n
          /\ \A b \in Arrays, s \in Slots : b # ptr[t] \/ s # syscall_id[t] =>
                   heap'[b][s]["count"] = heap[b][s]["count"]
      BY <2>0, <2>1, <2>2, <2>3, CountStoreStep
    <3> QED BY <3>1
  <2>5. \A a \in Arrays : a > allocated => a # ptr[t]
    BY <1>0, <2>2 DEF Arrays
  <2>6. allocated' \in Nat /\ allocated' >= allocated
    <3>1. allocated' = allocated
      BY <2>1
    <3> QED BY <1>0, <3>1
  <2>7. \A a \in Arrays, s \in Slots :
           a > allocated' => heap'[a][s]["count"] = heap[a][s]["count"]
    BY <2>1, <2>4, <2>5
  <2> QED BY <1>1, <2>6, <2>7
<1>3. ASSUME NEW t \in Tasks,
             TrackEnter(t) \/ CountLoad(t) \/ ktime_get_real_ts64(t)
             \/ NsecStore(t) \/ SecStore(t) \/ UsageEnter(t) \/ init_syscall_counters(t)
             \/ CopyToUser(t)
      PROVE  Fresh'
  <2>1. allocated' \in Nat /\ allocated' >= allocated
    <3>1. allocated' = allocated \/ allocated' = allocated + 1
      BY <1>3 DEF TrackEnter, CountLoad, ktime_get_real_ts64, NsecStore, SecStore,
                  UsageEnter, init_syscall_counters, CopyToUser, tableVars
    <3> QED BY <1>0, <3>1
  <2> QED BY <1>1, <1>3, <2>1, CountsKept
<1>4. CASE UNCHANGED vars
  BY <1>0, <1>1, <1>4 DEF vars, tableVars
<1> QED BY <1>2, <1>3, <1>4 DEF Next

\* Every step keeps what holds while calls do not overlap.
LEMMA AloneStep == TInv /\ Fresh /\ Alone /\ Deaths /\ [Next]_vars => Alone'
<1> SUFFICES ASSUME TInv, Fresh, Alone, Deaths, [Next]_vars, ~raced' PROVE Alone'
  BY DEF Alone
<1>0. /\ pc \in [Tasks -> PCs] /\ syscall_id \in [Tasks -> Slots]
      /\ ptr \in [Tasks -> Arrays \cup {NULL}] /\ loaded \in [Tasks -> Nat]
      /\ allocated \in Nat /\ syscall_counters \in Arrays \cup {NULL}
      /\ heap \in [Arrays -> Table] /\ stored \in [Slots -> Nat]
  BY SyscallUsageAssumption DEF TInv, TypeOK
<1>a. ASSUME ~raced
      PROVE  SoloTrack /\ SoloInit /\ NoTable /\ Unpublished /\ InUse /\ LoadFresh /\ Exact
  BY <1>a DEF Alone
<1>g. NULL \notin Arrays
  BY DEF NULL, Arrays
<1>1. ASSUME NEW t \in Tasks, TrackEnter(t) PROVE Alone'
  <2>1. PICK id \in Hooks :
          /\ syscall_counters # NULL /\ id < MAX_SYS_CALLS
          /\ syscall_id' = [syscall_id EXCEPT ![t] = id]
          /\ ptr' = [ptr EXCEPT ![t] = syscall_counters]
          /\ raced' = (raced \/ \E u \in Tasks : pc[u] \in Tracking /\ syscall_id[u] = id)
    BY <1>1 DEF TrackEnter
  <2>2. pc[t] = "idle" /\ pc' = [pc EXCEPT ![t] = "load"]
        /\ UNCHANGED <<syscall_counters, heap, allocated, loaded, stored>>
    BY <1>1 DEF TrackEnter, Goto, tableVars
  <2>3. ~raced /\ \A u \in Tasks : pc[u] \in Tracking => syscall_id[u] # id
    BY <2>1
  <2>4. SoloTrack'
    BY <1>0, <1>a, <2>1, <2>2, <2>3 DEF SoloTrack
  <2>5. SoloInit' /\ Unpublished'
    BY <1>0, <1>a, <2>2, <2>3 DEF SoloInit, Unpublished
  <2>6. NoTable' /\ Exact'
    BY <1>a, <2>2, <2>3 DEF NoTable, Exact
  <2>7. InUse'
    BY <1>0, <1>a, <2>1, <2>2, <2>3 DEF InUse
  <2>8. LoadFresh'
    BY <1>0, <1>a, <2>1, <2>2, <2>3 DEF LoadFresh
  <2> QED BY <2>4, <2>5, <2>6, <2>7, <2>8 DEF Alone
<1>2. ASSUME NEW t \in Tasks, CountLoad(t) PROVE Alone'
  <2>1. pc[t] = "load" /\ pc' = [pc EXCEPT ![t] = "store"]
        /\ loaded' = [loaded EXCEPT ![t] = heap[ptr[t]][syscall_id[t]]["count"]]
        /\ UNCHANGED <<syscall_counters, heap, allocated, ptr, syscall_id, stored, raced>>
    BY <1>2 DEF CountLoad, Goto, tableVars, history
  <2>2. ~raced
    BY <2>1
  <2>3a. SoloTrack'
    <3>1. \A u \in Tasks : pc'[u] \in Tracking => pc[u] \in Tracking
      BY <1>0, <2>1 DEF Tracking
    <3> QED BY <1>a, <2>1, <2>2, <3>1 DEF SoloTrack
  <2>3b. SoloInit' /\ Unpublished'
    BY <1>0, <1>a, <2>1, <2>2 DEF SoloInit, Unpublished
  <2>3c. InUse'
    BY <1>0, <1>a, <2>1, <2>2 DEF InUse
  <2>4. LoadFresh'
    BY <1>0, <1>a, <2>1, <2>2 DEF LoadFresh
  <2>5. NoTable' /\ Exact'
    BY <1>a, <2>1, <2>2 DEF NoTable, Exact
  <2> QED BY <2>3a, <2>3b, <2>3c, <2>4, <2>5 DEF Alone
<1>3. ASSUME NEW t \in Tasks, CountStore(t) PROVE Alone'
  <2>1. PICK id \in Slots : id = syscall_id[t]
    BY <1>0
  <2>2. pc[t] = "store" /\ pc' = [pc EXCEPT ![t] = "clock"]
        /\ heap' = Stored(ptr[t], id, "count", (loaded[t] + 1) % ULONG_MOD)
        /\ stored' = [stored EXCEPT ![id] = @ + 1]
        /\ UNCHANGED <<syscall_counters, allocated, loaded, ptr, syscall_id, raced>>
    BY <1>3, <2>1 DEF CountStore, Goto
  <2>3. ~raced
    BY <2>2
  <2>4. ptr[t] = syscall_counters /\ ptr[t] \in Arrays
    <3>1. ptr[t] = syscall_counters
      BY <1>a, <2>2, <2>3 DEF InUse
    <3>2. ptr[t] \in 1 .. allocated
      BY <2>2 DEF TInv, Pointers, Using
    <3> QED BY <1>0, <3>1, <3>2 DEF NULL, Arrays
  <2> DEFINE n == (loaded[t] + 1) % ULONG_MOD
  <2>5. n \in Nat
    BY <1>0, RemainderBound, SyscallUsageAssumption
  <2>6. loaded[t] = stored[id] % ULONG_MOD
    BY <1>a, <1>g, <2>1, <2>2, <2>3, <2>4 DEF LoadFresh, Exact
  <2>2a. heap' = Stored(ptr[t], id, "count", n)
    BY <2>2
  <2>7. n = (stored[id] + 1) % ULONG_MOD
    BY <1>0, <2>6, WrapIncrement, SyscallUsageAssumption
  <2> HIDE DEF n
  <2>8. heap'[ptr[t]][id]["count"] = n
        /\ \A b \in Arrays, s \in Slots :
              b # ptr[t] \/ s # id => heap'[b][s]["count"] = heap[b][s]["count"]
    <3>1. heap \in [Arrays -> Table]
      BY <1>0
    <3> QED BY <2>2a, <2>4, <2>5, <3>1, CountStoreStep
  <2>9a. SoloTrack'
    <3>1. \A u \in Tasks : pc'[u] \in Tracking => pc[u] \in Tracking
      BY <1>0, <2>2 DEF Tracking
    <3> QED BY <1>a, <2>2, <2>3, <3>1 DEF SoloTrack
  <2>9b. SoloInit' /\ Unpublished'
    BY <1>0, <1>a, <2>2, <2>3 DEF SoloInit, Unpublished
  <2>9c. InUse'
    BY <1>0, <1>a, <2>2, <2>3 DEF InUse
  <2>9. SoloTrack' /\ SoloInit' /\ Unpublished' /\ InUse'
    BY <2>9a, <2>9b, <2>9c
  <2>10. Exact'
    <3> SUFFICES ASSUME NEW s \in Slots
                 PROVE  heap'[syscall_counters][s]["count"] = stored'[s] % ULONG_MOD
      BY <2>2 DEF Exact
    <3>1. CASE s = id
      BY <1>0, <2>2, <2>4, <2>7, <2>8, <3>1
    <3>2. CASE s # id
      BY <1>0, <1>a, <1>g, <2>2, <2>3, <2>4, <2>8, <3>2 DEF Exact
    <3> QED BY <3>1, <3>2
  <2>11. NoTable'
    BY <1>g, <2>2, <2>4 DEF NoTable
  <2>12. LoadFresh'
    <3> SUFFICES ASSUME NEW u \in Tasks, pc'[u] = "store"
                 PROVE  loaded[u] = heap'[ptr[u]][syscall_id[u]]["count"]
      BY <2>2 DEF LoadFresh
    <3>1. u # t /\ pc[u] = "store"
      BY <1>0, <2>2
    <3>2. syscall_id[u] # id /\ syscall_id[u] \in Slots
      BY <1>0, <1>a, <2>1, <2>2, <2>3, <3>1 DEF SoloTrack, Tracking
    <3>3. ptr[u] = syscall_counters
      BY <1>a, <2>3, <3>1 DEF InUse
    <3>4. loaded[u] = heap[ptr[u]][syscall_id[u]]["count"]
      BY <1>a, <2>3, <3>1 DEF LoadFresh
    <3> QED BY <2>4, <2>8, <3>2, <3>3, <3>4
  <2> QED BY <2>9, <2>10, <2>11, <2>12 DEF Alone
<1>4. ASSUME NEW t \in Tasks, ktime_get_real_ts64(t) \/ NsecStore(t) \/ SecStore(t) \/ CopyToUser(t)
      PROVE  Alone'
  <2>1. UNCHANGED <<syscall_counters, allocated, loaded, syscall_id, raced>>
        /\ pc[t] \notin {"load", "store"} /\ pc'[t] \notin {"load", "store", "alloc"}
    BY <1>0, <1>4 DEF ktime_get_real_ts64, NsecStore, SecStore, CopyToUser, Goto, tableVars, history
  <2>2. pc'[t] \in Tracking => pc[t] \in Tracking
    BY <1>0, <1>4 DEF ktime_get_real_ts64, NsecStore, SecStore, CopyToUser, Goto, Tracking
  <2>3. /\ \A u \in Tasks : u # t => pc'[u] = pc[u] /\ ptr'[u] = ptr[u]
        /\ \A a \in Arrays, s \in Slots : heap'[a][s]["count"] = heap[a][s]["count"]
        /\ stored' = stored
    BY <1>4, StepShape, CountsKept
  <2>4. ~raced
    BY <2>1
  <2>5. SoloTrack' /\ SoloInit' /\ Unpublished' /\ InUse'
    BY <1>a, <2>1, <2>2, <2>3, <2>4 DEF SoloTrack, SoloInit, Unpublished, InUse
  <2>6. NoTable' /\ Exact'
    BY <1>0, <1>a, <2>1, <2>3, <2>4 DEF NoTable, Exact
  <2>7. LoadFresh'
    <3> SUFFICES ASSUME NEW u \in Tasks, pc'[u] = "store"
                 PROVE  loaded[u] = heap'[ptr'[u]][syscall_id[u]]["count"]
      BY <2>1 DEF LoadFresh
    <3>1. u # t /\ pc[u] = "store" /\ ptr'[u] = ptr[u]
      BY <2>1, <2>3
    <3>2. ptr[u] \in Arrays /\ syscall_id[u] \in Slots
      <4>1. pc[u] \in Using
        BY <3>1 DEF Using
      <4> QED BY <1>0, <4>1, PointerInArrays
    <3> QED BY <1>a, <2>3, <2>4, <3>1, <3>2 DEF LoadFresh
  <2> QED BY <2>5, <2>6, <2>7 DEF Alone
<1>5. ASSUME NEW t \in Tasks, UsageEnter(t) PROVE Alone'
  <2>1. pc[t] = "idle"
        /\ UNCHANGED <<syscall_counters, heap, allocated, syscall_id, loaded, stored>>
        /\ ptr' = [ptr EXCEPT ![t] = syscall_counters]
    BY <1>5 DEF UsageEnter, tableVars
  <2>2. CASE /\ syscall_counters = NULL
             /\ raced' = (raced \/ \E u \in Tasks : pc[u] = "alloc")
             /\ pc' = [pc EXCEPT ![t] = "alloc"]
    <3>1. ~raced /\ \A u \in Tasks : pc[u] # "alloc"
      BY <2>2
    <3>2. SoloTrack' /\ InUse'
      BY <1>0, <1>a, <2>1, <2>2, <3>1 DEF SoloTrack, InUse, Tracking
    <3>3. SoloInit' /\ Unpublished'
      BY <1>0, <2>1, <2>2, <3>1 DEF SoloInit, Unpublished
    <3>4. NoTable' /\ Exact'
      BY <1>a, <2>1, <3>1 DEF NoTable, Exact
    <3>5. LoadFresh'
      BY <1>0, <1>a, <2>1, <2>2, <3>1 DEF LoadFresh
    <3> QED BY <3>2, <3>3, <3>4, <3>5 DEF Alone
  <2>3. CASE syscall_counters # NULL /\ raced' = raced /\ pc' = [pc EXCEPT ![t] = "copy"]
    <3>1. ~raced
      BY <2>3
    <3>2. SoloTrack' /\ InUse' /\ SoloInit' /\ Unpublished'
      BY <1>0, <1>a, <2>1, <2>3, <3>1 DEF SoloTrack, InUse, SoloInit, Unpublished, Tracking
    <3>4. NoTable' /\ Exact'
      BY <1>a, <2>1, <3>1 DEF NoTable, Exact
    <3>5. LoadFresh'
      BY <1>0, <1>a, <2>1, <2>3, <3>1 DEF LoadFresh
    <3> QED BY <3>2, <3>4, <3>5 DEF Alone
  <2> QED BY <1>5, <2>2, <2>3 DEF UsageEnter, Goto
<1>6. ASSUME NEW t \in Tasks, init_syscall_counters(t) PROVE Alone'
  <2>1. pc[t] = "alloc"
        /\ UNCHANGED <<heap, syscall_id, loaded, stored, raced>>
    BY <1>6 DEF init_syscall_counters
  <2>2. ~raced
    BY <2>1
  <2>3. syscall_counters = NULL /\ allocated = 0 /\ \A s \in Slots : stored[s] = 0
    BY <1>a, <2>1, <2>2 DEF Unpublished, NoTable
  <2>4. \A u \in Tasks : pc[u] \notin Tracking
    BY <2>3 DEF Deaths
  <2>5. \A u \in Tasks : u # t => pc'[u] = pc[u] /\ pc[u] # "alloc"
    BY <1>a, <1>6, <2>1, <2>2, StepShape DEF SoloInit
  <2>6. pc'[t] \in {"idle", "copy"}
    BY <1>0, <1>6 DEF init_syscall_counters, Goto
  <2>7. \A u \in Tasks : pc'[u] \notin Tracking /\ pc'[u] # "alloc"
    BY <2>4, <2>5, <2>6 DEF Tracking
  <2>8. SoloTrack' /\ SoloInit' /\ Unpublished' /\ InUse' /\ LoadFresh'
    BY <2>7 DEF SoloTrack, SoloInit, Unpublished, InUse, LoadFresh, Tracking
  <2>9. NoTable' /\ Exact'
    <3>1. CASE syscall_counters' = NULL /\ allocated' = allocated
      BY <2>1, <2>3, <3>1 DEF NoTable, Exact
    <3>2. CASE syscall_counters' = 1 /\ allocated < MaxArrays
      <4>1. 1 \in Arrays /\ 1 > allocated /\ 1 # NULL
        BY <2>3, <3>2, SyscallUsageAssumption DEF Arrays, NULL
      <4>2. \A s \in Slots : heap[1][s]["count"] = 0
        BY <4>1 DEF Fresh
      <4>3. 0 % ULONG_MOD = 0
        BY SmallRemainder, SyscallUsageAssumption
      <4> QED BY <2>1, <2>3, <3>2, <4>1, <4>2, <4>3 DEF NoTable, Exact
    <3> QED BY <1>6, <2>3, <3>1, <3>2 DEF init_syscall_counters
  <2> QED BY <2>8, <2>9 DEF Alone
<1>7. CASE UNCHANGED vars
  BY <1>7 DEF vars, tableVars, taskVars, history, Alone, SoloTrack, SoloInit, NoTable,
              Unpublished, InUse, LoadFresh, Exact
<1> QED BY <1>1, <1>2, <1>3, <1>4, <1>5, <1>6, <1>7 DEF Next

\* Every step keeps the conditions under which a task dies.
LEMMA DeathsStep == TInv /\ Alone /\ Deaths /\ [Next]_vars => Deaths'
<1> SUFFICES ASSUME TInv, Alone, Deaths, [Next]_vars PROVE Deaths'
  OBVIOUS
<1>0. pc \in [Tasks -> PCs] /\ allocated \in Nat /\ syscall_counters \in Arrays \cup {NULL}
      /\ syscall_counters <= allocated
  BY SyscallUsageAssumption DEF TInv, TypeOK, Pointers
<1>1. ASSUME NEW t \in Tasks,
             TrackEnter(t) \/ CountLoad(t) \/ CountStore(t) \/ ktime_get_real_ts64(t)
             \/ NsecStore(t) \/ SecStore(t) \/ UsageEnter(t) \/ CopyToUser(t)
      PROVE  Deaths'
  <2>1. UNCHANGED <<syscall_counters, allocated, failed>>
    BY <1>1 DEF TrackEnter, CountLoad, CountStore, ktime_get_real_ts64, NsecStore, SecStore,
                UsageEnter, CopyToUser, tableVars, history
  <2>2. raced => raced'
    BY <1>1, StepShape
  <2>3. \A u \in Tasks : u # t => pc'[u] = pc[u]
    BY <1>1, StepShape
  <2>4. pc'[t] \in Tracking => allocated > 0
    <3>1. CASE TrackEnter(t)
      <4>1. syscall_counters # NULL
        BY <3>1 DEF TrackEnter
      <4>2. allocated > 0
        BY <1>0, <4>1 DEF NULL, Arrays
      <4> QED BY <4>2
    <3>2. CASE CountLoad(t) \/ CountStore(t) \/ ktime_get_real_ts64(t) \/ NsecStore(t)
      BY <3>2 DEF CountLoad, CountStore, ktime_get_real_ts64, NsecStore, Tracking, Deaths
    <3>3. CASE SecStore(t) \/ UsageEnter(t) \/ CopyToUser(t)
      BY <1>0, <3>3 DEF SecStore, UsageEnter, CopyToUser, Goto, Tracking
    <3> QED BY <1>1, <3>1, <3>2, <3>3
  <2>5. pc'[t] = "dead" => failed /\ raced
    <3>1. CASE NsecStore(t)
      <4>1. allocated > 0
        BY <3>1 DEF NsecStore, Tracking, Deaths
      <4>2. pc'[t] = "dead" => syscall_counters = NULL
        BY <1>0, <3>1 DEF NsecStore, Goto
      <4> QED BY <4>1, <4>2 DEF Deaths
    <3>2. CASE ~NsecStore(t)
      BY <1>0, <1>1, <3>2 DEF TrackEnter, CountLoad, CountStore, ktime_get_real_ts64, SecStore,
                UsageEnter, CopyToUser, Goto
    <3> QED BY <3>1, <3>2
  <2> QED BY <2>1, <2>2, <2>3, <2>4, <2>5 DEF Deaths
<1>2. ASSUME NEW t \in Tasks, init_syscall_counters(t) PROVE Deaths'
  <2>1. pc[t] = "alloc" /\ raced' = raced
    BY <1>2 DEF init_syscall_counters
  <2>2. \A u \in Tasks : u # t => pc'[u] = pc[u]
    BY <1>2, StepShape
  <2>3. pc'[t] \in {"idle", "copy"} /\ (failed => failed')
    BY <1>0, <1>2 DEF init_syscall_counters, Goto
  <2>4. CASE syscall_counters' = NULL /\ failed' = TRUE /\ allocated' = allocated
    <3>1. allocated > 0 => raced
      <4> SUFFICES ASSUME ~raced PROVE ~(allocated > 0)
        OBVIOUS
      <4>1. allocated = 0
        BY <2>1 DEF Alone, Unpublished, NoTable
      <4> QED BY <4>1
    <3> QED BY <2>1, <2>2, <2>3, <2>4, <3>1 DEF Deaths, Tracking
  <2>5. CASE syscall_counters' = allocated + 1 /\ allocated' = allocated + 1
    <3>1. allocated' > 0 /\ syscall_counters' # NULL
      BY <1>0, <2>5 DEF NULL
    <3> QED BY <2>1, <2>2, <2>3, <3>1 DEF Deaths, Tracking
  <2> QED BY <1>2, <2>4, <2>5 DEF init_syscall_counters
<1>3. CASE UNCHANGED vars
  BY <1>3 DEF vars, tableVars, taskVars, history, Deaths
<1> QED BY <1>1, <1>2, <1>3 DEF Next

-----------------------------------------------------------------------------
IInv == TInv /\ Counting /\ Bounded /\ Fresh /\ Alone /\ Deaths

\* The inductive invariant holds throughout.
THEOREM Invariance == Spec => []IInv
<1>1. Init => IInv
  <2> SUFFICES ASSUME Init PROVE IInv
    OBVIOUS
  <2>1. Zeroed \in Table /\ \A s \in Slots : Zeroed[s]["count"] = 0
    BY DEF Zeroed, Table, syscall_usage, Fields
  <2>2. 0 \in Slots /\ 0 \in 0 .. WORDS
    BY SyscallUsageAssumption DEF Slots, WORDS
  <2>3. TypeOK
    <3>1. syscall_counters \in Arrays \cup {NULL} /\ allocated \in 0 .. MaxArrays /\ clock \in Nat
      BY SyscallUsageAssumption DEF Init
    <3>2. heap \in [Arrays -> Table] /\ estatic \in [Tasks -> Table]
      BY <2>1 DEF Init
    <3>3. pc \in [Tasks -> PCs] /\ ptr \in [Tasks -> Arrays \cup {NULL}]
      BY DEF Init, PCs
    <3>4. syscall_id \in [Tasks -> Slots] /\ word \in [Tasks -> 0 .. WORDS]
      BY <2>2 DEF Init
    <3>5. loaded \in [Tasks -> Nat] /\ now \in [Tasks -> Nat]
          /\ ret \in [Tasks -> {0, ENOMEM, EFAULT}]
      BY DEF Init
    <3>6. entered \in [Slots -> Nat] /\ stored \in [Slots -> Nat]
          /\ raced \in BOOLEAN /\ failed \in BOOLEAN
      BY DEF Init
    <3> QED BY <3>1, <3>2, <3>3, <3>4, <3>5, <3>6 DEF TypeOK
  <2>4. Pointers
    BY DEF Init, Pointers, Using, NULL
  <2>5. Counting
    <3>1. \A s \in Slots : Unstored(s) = {}
      BY DEF Init, Unstored
    <3>2. Cardinality({}) = 0
      BY FS_EmptySet
    <3> QED BY <3>1, <3>2 DEF Init, Counting
  <2>6. \A a \in Arrays, s \in Slots : heap[a][s]["count"] = 0 /\ stored[s] = 0
    BY <2>1 DEF Init
  <2>6a. \A t \in Tasks, s \in Slots : estatic[t][s]["count"] = 0 /\ stored[s] = 0
    BY <2>1 DEF Init
  <2>6b. Bounded /\ Fresh
    <3>1. pc = [t \in Tasks |-> "idle"]
      BY DEF Init
    <3>2. \A t \in Tasks : pc[t] # "store"
      BY <3>1
    <3>3. 0 <= 0
      OBVIOUS
    <3> QED BY <2>6, <2>6a, <3>2, <3>3 DEF Bounded, Fresh
  <2>7. Alone /\ Deaths
    <3>1. pc = [t \in Tasks |-> "idle"] /\ syscall_counters = NULL /\ allocated = 0
          /\ stored = [s \in Slots |-> 0]
      BY DEF Init
    <3>2. \A t \in Tasks : pc[t] = "idle"
      BY <3>1
    <3>3. Deaths
      BY <3>1, <3>2 DEF Deaths, Tracking
    <3>4. SoloTrack /\ SoloInit /\ Unpublished /\ InUse /\ LoadFresh
      BY <3>2 DEF SoloTrack, SoloInit, Unpublished, InUse, LoadFresh, Tracking
    <3>5. NoTable /\ Exact
      BY <3>1 DEF NoTable, Exact
    <3> QED BY <3>3, <3>4, <3>5 DEF Alone
  <2> QED BY <2>3, <2>4, <2>5, <2>6b, <2>7 DEF IInv, TInv
<1>2. IInv /\ [Next]_vars => IInv'
  BY TypeStep, CountingStep, BoundedStep, FreshStep, AloneStep, DeathsStep DEF IInv
<1> QED BY <1>1, <1>2, PTL DEF Spec

\* The types, for any number of tasks.
THEOREM TypeCorrect == Spec => []TypeOK
<1>1. IInv => TypeOK
  BY DEF IInv, TInv
<1> QED BY <1>1, Invariance, PTL

\* However the unlocked increments of track_syscall interleave, no count in
\* a table or in a report exceeds the calls that were let in.
THEOREM CountsNotInvented == Spec => []NoInventedCalls
<1>1. IInv => NoInventedCalls
  <2> SUFFICES ASSUME IInv, NEW s \in Slots
               PROVE  /\ \A a \in Arrays : heap[a][s]["count"] <= entered[s]
                      /\ \A t \in Tasks : estatic[t][s]["count"] <= entered[s]
    BY DEF NoInventedCalls
  <2>0. \A x, y, z \in Nat : x <= y /\ y <= z => x <= z
    OBVIOUS
  <2>1. stored[s] \in Nat /\ entered[s] \in Nat /\ stored[s] <= entered[s]
    <3>1. stored[s] \in Nat /\ entered[s] \in Nat
      BY DEF IInv, TInv, TypeOK
    <3>2. Cardinality(Unstored(s)) \in Nat
      BY UnstoredFinite
    <3> QED BY <3>1, <3>2 DEF IInv, Counting
  <2>2. \A a \in Arrays : heap[a][s]["count"] \in Nat /\ heap[a][s]["count"] <= stored[s]
    BY DEF IInv, TInv, TypeOK, Bounded, Table, syscall_usage, Fields
  <2>3. \A t \in Tasks : estatic[t][s]["count"] \in Nat /\ estatic[t][s]["count"] <= stored[s]
    BY DEF IInv, TInv, TypeOK, Bounded, Table, syscall_usage, Fields
  <2>4. ASSUME NEW a \in Arrays PROVE heap[a][s]["count"] <= entered[s]
    BY <2>0, <2>1, <2>2
  <2>5. ASSUME NEW t \in Tasks PROVE estatic[t][s]["count"] <= entered[s]
    BY <2>0, <2>1, <2>3
  <2> QED BY <2>4, <2>5
<1> QED BY <1>1, Invariance, PTL

\* Calls that never overlap are counted exactly, modulo unsigned long.
THEOREM ExactCounts == Spec => []ExactWhileAlone
<1>1. IInv => ExactWhileAlone
  BY DEF IInv, Alone, Exact, ExactWhileAlone
<1> QED BY <1>1, Invariance, PTL

\* A task can die on the reloaded pointer only after a failed initialisation
\* overlapped another.
THEOREM DeathExplained == Spec => []DeathNeedsFailedInit
<1>1. IInv => DeathNeedsFailedInit
  BY DEF IInv, Deaths, DeathNeedsFailedInit
<1> QED BY <1>1, Invariance, PTL

\* Without overlapping initialisations the first table stays for good.
THEOREM TableStays == Spec => OneTableWhileAlone
<1>1. IInv /\ [Next]_vars =>
        [(~raced /\ syscall_counters # NULL) => syscall_counters' = syscall_counters]_vars
  <2> SUFFICES ASSUME IInv, Next, ~raced, syscall_counters # NULL
               PROVE  syscall_counters' = syscall_counters
    OBVIOUS
  <2>1. \A t \in Tasks : pc[t] # "alloc"
    BY DEF IInv, Alone, Unpublished
  <2> QED BY <2>1 DEF Next, TrackEnter, CountLoad, CountStore, ktime_get_real_ts64, NsecStore,
                      SecStore, UsageEnter, init_syscall_counters, CopyToUser, tableVars
<1> QED BY <1>1, Invariance, PTL DEF Spec, OneTableWhileAlone

=============================================================================
