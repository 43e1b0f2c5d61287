--------------------------- MODULE TamallocProofs ---------------------------
(***************************************************************************)
(* Proofs about Tamalloc, for any page size, width of size_t, address      *)
(* space, number of frames and of processes.                               *)
(***************************************************************************)
EXTENDS Tamalloc, TLAPS

-----------------------------------------------------------------------------
(***************************************************************************)
(* The rounding.                                                           *)
(***************************************************************************)

\* Division by the page size, of a number written with it.
LEMMA Quotient ==
    ASSUME NEW p \in Nat \ {0}, NEW q \in Nat, NEW r \in 0 .. p - 1
    PROVE  (p * q + r) \div p = q
BY SMT

\* Every number is a multiple of the page size and a rest.
LEMMA Division ==
    ASSUME NEW p \in Nat \ {0}, NEW x \in Nat
    PROVE  x \div p \in Nat /\ x % p \in 0 .. p - 1 /\ x = p * (x \div p) + (x % p)
BY SMT

\* A number within one modulus of the first is its excess over it.
LEMMA WrapOnce ==
    ASSUME NEW m \in Nat \ {0}, NEW x \in Nat, x < 2 * m
    PROVE  x % m = IF x < m THEN x ELSE x - m
<1>1. CASE x < m
  BY <1>1, SMT
<1>2. CASE x >= m
  <2>1. x - m \in 0 .. m - 1 /\ x = m * 1 + (x - m)
    BY <1>2
  <2> QED BY <1>2, <2>1, SMT
<1> QED BY <1>1, <1>2

\* PAGE_ALIGN of a positive size is a number of whole pages that is either
\* none, when the addition wrapped, or enough for the size.
LEMMA AlignCovers ==
    ASSUME NEW size \in 1 .. SIZE_MOD - 1
    PROVE  \E n \in Nat : /\ PAGE_ALIGN(size) = n * PAGE_SIZE
                          /\ PAGE_ALIGN(size) \div PAGE_SIZE = n
                          /\ n = 0 \/ size <= n * PAGE_SIZE
<1> DEFINE P == PAGE_SIZE
           M == SIZE_MOD
           x == size + P - 1
           y == x % M
           n == y \div P
<1>1. P \in Nat \ {0} /\ SIZE_PAGES \in Nat \ {0} /\ M = SIZE_PAGES * P
  BY TamallocAssumption DEF SIZE_MOD
<1>2. M \in Nat \ {0} /\ P <= M
  BY <1>1
<1>3. size \in Nat /\ 1 <= size /\ size <= M - 1
  BY <1>2
<1>4. PAGE_ALIGN(size) = n * P
  BY DEF PAGE_ALIGN
<1> HIDE DEF M, P
<1>5. x \in Nat /\ x < 2 * M
  BY <1>1, <1>2, <1>3
<1>6. y = IF x < M THEN x ELSE x - M
  BY <1>2, <1>5, WrapOnce
<1>7. y \in Nat
  BY <1>2, <1>5, <1>6
<1>8. n \in Nat /\ y % P \in 0 .. P - 1 /\ y = P * n + (y % P)
  BY <1>1, <1>7, Division
<1>9. n = 0 \/ size <= n * P
  <2>1. CASE x < M
    <3>1. y = size + P - 1
      BY <1>6, <2>1
    <3> HIDE DEF x, y, n
    <3> QED BY <1>1, <1>3, <1>8, <3>1
  <2>2. CASE ~(x < M)
    <3>1. y < P
      BY <1>1, <1>2, <1>3, <1>6, <2>2
    <3> HIDE DEF x, y, n
    <3>2. y = P * 0 + y /\ y \in 0 .. P - 1
      BY <1>1, <1>7, <3>1
    <3>3. y \div P = 0
      BY <1>1, <3>2, Quotient
    <3> QED BY <3>3 DEF n
  <2> QED BY <2>1, <2>2
<1>10. (n * P) \div P = n
  <2> HIDE DEF n
  <2>1. n * P = P * n + 0 /\ 0 \in 0 .. P - 1
    BY <1>1, <1>8
  <2> QED BY <1>1, <1>8, <2>1, Quotient
<1> HIDE DEF n, x, y
<1> QED BY <1>4, <1>8, <1>9, <1>10 DEF P

-----------------------------------------------------------------------------
(***************************************************************************)
(* The inductive invariant: the three promises hold each other up.  A      *)
(* write reaches only the writer's page because frames are not shared, and *)
(* an unmapping spares the other regions because they are disjoint.        *)
(***************************************************************************)
IInv == TypeOK /\ CoversRequest /\ ResidentOnlyIfWritten /\ ZeroUntilWritten

Backing == Frames \cup {Untouched, Unmapped, ZeroPage}

\* luis_tamalloc fails and leaves everything, or the pages of a new region,
\* and nothing else, become untouched.
LEMMA TamallocFacts ==
    ASSUME TypeOK, NEW p \in Procs, luis_tamalloc(p)
    PROVE  /\ UNCHANGED <<content, written>>
           /\ \/ UNCHANGED <<page, regions>> /\ ret' \in {EINVAL, ENOMEM}
              \/ \E r \in Region :
                   /\ r.size <= r.pages * PAGE_SIZE
                   /\ PagesOf(r) \subseteq Pages
                   /\ \A g \in PagesOf(r) : page[p][g] = Unmapped
                   /\ page' = [page EXCEPT ![p] =
                        [g \in Pages |-> IF g \in PagesOf(r) THEN Untouched ELSE page[p][g]]]
                   /\ regions' = [regions EXCEPT ![p] = regions[p] \cup {r}]
                   /\ ret' = PAGE_SIZE * r.addr
<1> DEFINE Failed == UNCHANGED <<page, regions>> /\ ret' \in {EINVAL, ENOMEM}
           Mapped(r) ==
             /\ r.size <= r.pages * PAGE_SIZE
             /\ PagesOf(r) \subseteq Pages
             /\ \A g \in PagesOf(r) : page[p][g] = Unmapped
             /\ page' = [page EXCEPT ![p] =
                  [g \in Pages |-> IF g \in PagesOf(r) THEN Untouched ELSE page[p][g]]]
             /\ regions' = [regions EXCEPT ![p] = regions[p] \cup {r}]
             /\ ret' = PAGE_SIZE * r.addr
<1>0. UNCHANGED <<content, written>>
  BY DEF luis_tamalloc, vm_mmap
<1>1. PICK size \in Sizes :
        \/ size = 0 /\ Failed
        \/ size # 0 /\ vm_mmap(p, size, PAGE_ALIGN(size))
  BY DEF luis_tamalloc
<1>2. ASSUME size # 0, ~Failed PROVE \E r \in Region : Mapped(r)
  <2>1. size \in 1 .. SIZE_MOD - 1
    BY <1>2, TamallocAssumption DEF SIZE_MOD
  <2>2. PICK n \in Nat : /\ PAGE_ALIGN(size) = n * PAGE_SIZE
                         /\ PAGE_ALIGN(size) \div PAGE_SIZE = n
                         /\ n = 0 \/ size <= n * PAGE_SIZE
    BY <2>1, AlignCovers
  <2>3. PICK a \in Holes(p, n) :
          /\ PAGE_ALIGN(size) > 0
          /\ page' = [page EXCEPT ![p] = [g \in Pages |->
                        IF g \in a .. a + n - 1 THEN Untouched ELSE page[p][g]]]
          /\ regions' = [regions EXCEPT ![p] =
                           regions[p] \cup {[addr |-> a, pages |-> n, size |-> size]}]
          /\ ret' = a * PAGE_SIZE
    BY <1>1, <1>2, <2>2 DEF vm_mmap
  <2>4. a \in Pages /\ a + n <= NPages /\ \A g \in a .. a + n - 1 : page[p][g] = Unmapped
    BY DEF Holes
  <2>5. PAGE_SIZE \in Nat \ {0} /\ NPages \in Nat
    BY TamallocAssumption
  <2>6. n # 0
    <3>1. 0 * PAGE_SIZE = 0
      BY <2>5
    <3> QED BY <2>2, <2>3, <3>1
  <2>7. n \in 1 .. NPages /\ a .. a + n - 1 \subseteq Pages
    BY <2>4, <2>5, <2>6 DEF Pages
  <2> DEFINE r == [addr |-> a, pages |-> n, size |-> size]
  <2>8. r \in Region /\ PagesOf(r) = a .. a + n - 1 /\ r.size = size /\ r.pages = n /\ r.addr = a
    BY <2>1, <2>4, <2>7 DEF Region, PagesOf
  <2>9. ret' = PAGE_SIZE * a
    BY <2>3, <2>4, <2>5 DEF Pages
  <2> HIDE DEF r
  <2>10. regions' = [regions EXCEPT ![p] = regions[p] \cup {r}]
    BY <2>3 DEF r
  <2>11. Mapped(r)
    BY <2>2, <2>3, <2>4, <2>6, <2>7, <2>8, <2>9, <2>10
  <2> QED BY <2>8, <2>11
<1> QED BY <1>0, <1>1, <1>2

Lost(gone) == UNION {PagesOf(r) : r \in gone}

\* munmap gives up some regions of the process, with their pages.
LEMMA MunmapFacts ==
    ASSUME NEW p \in Procs, munmap(p)
    PROVE  \E gone \in SUBSET regions[p] :
             /\ page' = [page EXCEPT ![p] =
                  [g \in Pages |-> IF g \in Lost(gone) THEN Unmapped ELSE page[p][g]]]
             /\ regions' = [regions EXCEPT ![p] = regions[p] \ gone]
             /\ written' = [written EXCEPT ![p] = {w \in written[p] : w[1] \notin Lost(gone)}]
             /\ UNCHANGED <<content, ret>>
<1>1. PICK gone \in {{r} : r \in regions[p]} \cup {regions[p]} :
        LET pages == UNION {PagesOf(r) : r \in gone}
        IN  /\ page' = [page EXCEPT ![p] =
                 [g \in Pages |-> IF g \in pages THEN Unmapped ELSE page[p][g]]]
            /\ regions' = [regions EXCEPT ![p] = regions[p] \ gone]
            /\ written' = [written EXCEPT ![p] = {w \in written[p] : w[1] \notin pages}]
            /\ UNCHANGED <<content, ret>>
  BY DEF munmap
<1>2. gone \in SUBSET regions[p]
  OBVIOUS
<1> QED BY <1>1, <1>2 DEF Lost

\* Every step keeps the types.
LEMMA TypeStep == TypeOK /\ [Next]_vars => TypeOK'
<1> SUFFICES ASSUME TypeOK, [Next]_vars PROVE TypeOK'
  OBVIOUS
<1>0. /\ page \in [Procs -> [Pages -> Backing]] /\ content \in [Frames -> [Bytes -> {0, 1}]]
      /\ regions \in [Procs -> SUBSET Region]
      /\ written \in [Procs -> SUBSET (Pages \X Bytes)]
      /\ ret \in {EINVAL, ENOMEM} \cup {PAGE_SIZE * a : a \in Pages}
  BY DEF TypeOK, Backing
<1>1. ASSUME NEW p \in Procs, luis_tamalloc(p) PROVE TypeOK'
  <2>1. CASE UNCHANGED <<page, regions>> /\ ret' \in {EINVAL, ENOMEM}
    BY <1>1, <2>1, TamallocFacts DEF TypeOK
  <2>2. ASSUME NEW r \in Region,
               page' = [page EXCEPT ![p] =
                 [g \in Pages |-> IF g \in PagesOf(r) THEN Untouched ELSE page[p][g]]],
               regions' = [regions EXCEPT ![p] = regions[p] \cup {r}],
               ret' = PAGE_SIZE * r.addr
        PROVE  TypeOK'
    <3>1. UNCHANGED <<content, written>>
      BY <1>1, TamallocFacts
    <3>2. page' \in [Procs -> [Pages -> Backing]]
      BY <1>0, <2>2 DEF Backing
    <3>3. regions' \in [Procs -> SUBSET Region]
      BY <1>0, <2>2
    <3>4. ret' \in {PAGE_SIZE * a : a \in Pages}
      BY <2>2 DEF Region
    <3> QED BY <1>0, <3>1, <3>2, <3>3, <3>4 DEF TypeOK, Backing
  <2> QED BY <1>1, <2>1, <2>2, TamallocFacts
<1>2. ASSUME NEW p \in Procs, munmap(p) PROVE TypeOK'
  <2>1. PICK gone \in SUBSET regions[p] :
          /\ page' = [page EXCEPT ![p] =
               [g \in Pages |-> IF g \in Lost(gone) THEN Unmapped ELSE page[p][g]]]
          /\ regions' = [regions EXCEPT ![p] = regions[p] \ gone]
          /\ written' = [written EXCEPT ![p] = {w \in written[p] : w[1] \notin Lost(gone)}]
          /\ UNCHANGED <<content, ret>>
    BY <1>2, MunmapFacts
  <2>2. page' \in [Procs -> [Pages -> Backing]]
    BY <1>0, <2>1 DEF Backing
  <2>3. regions' \in [Procs -> SUBSET Region]
    BY <1>0, <2>1
  <2>4. written' \in [Procs -> SUBSET (Pages \X Bytes)]
    <3> DEFINE kept == {w \in written[p] : w[1] \notin Lost(gone)}
    <3>1. kept \in SUBSET (Pages \X Bytes)
      BY <1>0
    <3> HIDE DEF kept
    <3>2. written' = [written EXCEPT ![p] = kept]
      BY <2>1 DEF kept
    <3> QED BY <1>0, <3>1, <3>2
  <2> QED BY <1>0, <2>1, <2>2, <2>3, <2>4 DEF TypeOK, Backing
<1>3. ASSUME NEW p \in Procs, NEW g \in Pages, ReadFault(p, g) PROVE TypeOK'
  <2>1. page' \in [Procs -> [Pages -> Backing]]
    BY <1>0, <1>3 DEF ReadFault, Backing
  <2> QED BY <1>0, <1>3, <2>1 DEF ReadFault, TypeOK, Backing
<1>4. ASSUME NEW p \in Procs, NEW g \in Pages, WriteFault(p, g) PROVE TypeOK'
  <2>1. PICK f \in Frames, b \in Bytes :
          /\ page' = [page EXCEPT ![p][g] = f]
          /\ content' = [content EXCEPT ![f] = [c \in Bytes |-> IF c = b THEN 1 ELSE 0]]
          /\ written' = [written EXCEPT ![p] = @ \cup {<<g, b>>}]
          /\ UNCHANGED <<regions, ret>>
    BY <1>4 DEF WriteFault
  <2>2. page' \in [Procs -> [Pages -> Backing]]
    BY <1>0, <2>1 DEF Backing
  <2>3. content' \in [Frames -> [Bytes -> {0, 1}]]
    BY <1>0, <2>1
  <2>4. written' \in [Procs -> SUBSET (Pages \X Bytes)]
    BY <1>0, <2>1
  <2> QED BY <1>0, <2>1, <2>2, <2>3, <2>4 DEF TypeOK, Backing
<1>5. ASSUME NEW p \in Procs, NEW g \in Pages, Write(p, g) PROVE TypeOK'
  <2>1. PICK b \in Bytes, v \in {0, 1} :
          /\ content' = [content EXCEPT ![page[p][g]][b] = v]
          /\ written' = [written EXCEPT ![p] = @ \cup {<<g, b>>}]
          /\ UNCHANGED <<page, regions, ret>>
    BY <1>5 DEF Write
  <2>2. content' \in [Frames -> [Bytes -> {0, 1}]]
    BY <1>0, <2>1
  <2>3. written' \in [Procs -> SUBSET (Pages \X Bytes)]
    BY <1>0, <2>1
  <2> QED BY <1>0, <2>1, <2>2, <2>3 DEF TypeOK, Backing
<1>6. CASE UNCHANGED vars
  BY <1>6 DEF vars, TypeOK
<1> QED BY <1>1, <1>2, <1>3, <1>4, <1>5, <1>6 DEF Next

\* Every step keeps the regions long enough, mapped and disjoint.
LEMMA CoversStep == TypeOK /\ CoversRequest /\ [Next]_vars => CoversRequest'
<1> SUFFICES ASSUME TypeOK, CoversRequest, [Next]_vars PROVE CoversRequest'
  OBVIOUS
<1>0. page \in [Procs -> [Pages -> Backing]] /\ regions \in [Procs -> SUBSET Region]
  BY DEF TypeOK, Backing
<1>d. Untouched # Unmapped /\ ZeroPage # Unmapped /\ Unmapped \notin Frames
  BY TamallocAssumption
<1> DEFINE C(p) == \A r \in regions[p] :
      /\ r.size <= r.pages * PAGE_SIZE
      /\ \A g \in PagesOf(r) : g \in Pages /\ page[p][g] # Unmapped
      /\ \A q \in regions[p] : q = r \/ PagesOf(q) \cap PagesOf(r) = {}
<1>c. \A p \in Procs : C(p)
  BY DEF CoversRequest
<1>s. ASSUME NEW p \in Procs, C(p)', \A q \in Procs \ {p} : page'[q] = page[q] /\ regions'[q] = regions[q]
      PROVE  CoversRequest'
  <2> SUFFICES ASSUME NEW q \in Procs PROVE C(q)'
    BY DEF CoversRequest
  <2>1. CASE q = p
    BY <1>s, <2>1
  <2>2. CASE q # p
    <3>1. page'[q] = page[q] /\ regions'[q] = regions[q] /\ C(q)
      BY <1>c, <1>s, <2>2
    <3> QED BY <3>1
  <2> QED BY <2>1, <2>2
<1>1. ASSUME NEW p \in Procs, luis_tamalloc(p) PROVE CoversRequest'
  <2>1. CASE UNCHANGED <<page, regions>>
    BY <2>1 DEF CoversRequest
  <2>2. ASSUME NEW r \in Region,
               r.size <= r.pages * PAGE_SIZE,
               PagesOf(r) \subseteq Pages,
               \A g \in PagesOf(r) : page[p][g] = Unmapped,
               page' = [page EXCEPT ![p] =
                 [g \in Pages |-> IF g \in PagesOf(r) THEN Untouched ELSE page[p][g]]],
               regions' = [regions EXCEPT ![p] = regions[p] \cup {r}]
        PROVE  CoversRequest'
    <3>1. regions'[p] = regions[p] \cup {r}
      BY <1>0, <2>2
    <3>2. \A g \in Pages : page'[p][g] = IF g \in PagesOf(r) THEN Untouched ELSE page[p][g]
      BY <1>0, <2>2
    <3>3. \A q \in Procs \ {p} : page'[q] = page[q] /\ regions'[q] = regions[q]
      BY <1>0, <2>2
    <3>4. C(p)
      BY <1>c
    <3>5. \A q \in regions[p] : PagesOf(q) \cap PagesOf(r) = {}
      BY <2>2, <3>4
    <3>6. ASSUME NEW q \in regions'[p]
          PROVE  /\ q.size <= q.pages * PAGE_SIZE
                 /\ \A g \in PagesOf(q) : g \in Pages /\ page'[p][g] # Unmapped
      BY <1>d, <2>2, <3>1, <3>2, <3>4
    <3>7. ASSUME NEW q \in regions'[p], NEW u \in regions'[p]
          PROVE  u = q \/ PagesOf(u) \cap PagesOf(q) = {}
      BY <3>1, <3>4, <3>5
    <3>8. C(p)'
      BY <3>6, <3>7
    <3> QED BY <1>s, <3>3, <3>8
  <2> QED BY <1>1, <2>1, <2>2, TamallocFacts
<1>2. ASSUME NEW p \in Procs, munmap(p) PROVE CoversRequest'
  <2>1. PICK gone \in SUBSET regions[p] :
          /\ page' = [page EXCEPT ![p] =
               [g \in Pages |-> IF g \in Lost(gone) THEN Unmapped ELSE page[p][g]]]
          /\ regions' = [regions EXCEPT ![p] = regions[p] \ gone]
    BY <1>2, MunmapFacts
  <2>2. regions'[p] = regions[p] \ gone
    BY <1>0, <2>1
  <2>3. \A g \in Pages : page'[p][g] = IF g \in Lost(gone) THEN Unmapped ELSE page[p][g]
    BY <1>0, <2>1
  <2>4. \A q \in Procs \ {p} : page'[q] = page[q] /\ regions'[q] = regions[q]
    BY <1>0, <2>1
  <2>5. C(p)
    BY <1>c
  <2>6. \A q \in regions'[p] : PagesOf(q) \cap Lost(gone) = {}
    <3> SUFFICES ASSUME NEW q \in regions'[p], NEW r \in gone
                 PROVE  PagesOf(q) \cap PagesOf(r) = {}
      BY DEF Lost
    <3> QED BY <2>2, <2>5
  <2>7. C(p)'
    BY <2>2, <2>3, <2>5, <2>6
  <2> QED BY <1>s, <2>4, <2>7
<1>3. ASSUME NEW p \in Procs, NEW g \in Pages, ReadFault(p, g) \/ WriteFault(p, g) \/ Write(p, g)
      PROVE  CoversRequest'
  <2>1. UNCHANGED regions
    BY <1>3 DEF ReadFault, WriteFault, Write
  <2>2. \A q \in Procs, h \in Pages : page'[q][h] = page[q][h] \/ page'[q][h] # Unmapped
    BY <1>0, <1>3, <1>d DEF ReadFault, WriteFault, Write
  <2> QED BY <2>1, <2>2 DEF CoversRequest
<1>4. CASE UNCHANGED vars
  BY <1>4 DEF vars, CoversRequest
<1> QED BY <1>1, <1>2, <1>3, <1>4 DEF Next

\* Every step keeps frames to pages that were written, one page each.
LEMMA ResidentStep ==
    TypeOK /\ ResidentOnlyIfWritten /\ [Next]_vars => ResidentOnlyIfWritten'
<1> SUFFICES ASSUME TypeOK, ResidentOnlyIfWritten, [Next]_vars PROVE ResidentOnlyIfWritten'
  OBVIOUS
<1>0. /\ page \in [Procs -> [Pages -> Backing]]
      /\ written \in [Procs -> SUBSET (Pages \X Bytes)]
  BY DEF TypeOK, Backing
<1>d. Untouched \notin Frames /\ Unmapped \notin Frames /\ ZeroPage \notin Frames
  BY TamallocAssumption
\* Pages that keep a frame keep what was written, and no frame is taken.
<1>s. ASSUME \A q \in Procs, h \in Pages : page'[q][h] \in Frames =>
               /\ page'[q][h] = page[q][h]
               /\ \A b \in Bytes : <<h, b>> \in written[q] => <<h, b>> \in written'[q]
      PROVE  ResidentOnlyIfWritten'
  BY <1>s DEF ResidentOnlyIfWritten
<1>1. ASSUME NEW p \in Procs, luis_tamalloc(p) PROVE ResidentOnlyIfWritten'
  <2>1. written' = written
    BY <1>1, TamallocFacts
  <2>2. \A q \in Procs, h \in Pages : page'[q][h] \in Frames => page'[q][h] = page[q][h]
    <3>1. CASE UNCHANGED page
      BY <3>1
    <3>2. ASSUME NEW r \in Region,
                 page' = [page EXCEPT ![p] =
                   [g \in Pages |-> IF g \in PagesOf(r) THEN Untouched ELSE page[p][g]]]
          PROVE  \A q \in Procs, h \in Pages : page'[q][h] \in Frames => page'[q][h] = page[q][h]
      BY <1>0, <1>d, <3>2
    <3> QED BY <1>1, <3>1, <3>2, TamallocFacts
  <2> QED BY <1>s, <2>1, <2>2
<1>2. ASSUME NEW p \in Procs, munmap(p) PROVE ResidentOnlyIfWritten'
  <2>1. PICK gone \in SUBSET regions[p] :
          /\ page' = [page EXCEPT ![p] =
               [g \in Pages |-> IF g \in Lost(gone) THEN Unmapped ELSE page[p][g]]]
          /\ written' = [written EXCEPT ![p] = {w \in written[p] : w[1] \notin Lost(gone)}]
    BY <1>2, MunmapFacts
  <2>2. \A q \in Procs, h \in Pages : page'[q][h] \in Frames =>
          page'[q][h] = page[q][h] /\ (q # p \/ h \notin Lost(gone))
    BY <1>0, <1>d, <2>1
  <2>3. \A q \in Procs, h \in Pages, b \in Bytes :
          (q # p \/ h \notin Lost(gone)) /\ <<h, b>> \in written[q] => <<h, b>> \in written'[q]
    BY <1>0, <2>1
  <2> QED BY <1>s, <2>2, <2>3
<1>3. ASSUME NEW p \in Procs, NEW g \in Pages, ReadFault(p, g) PROVE ResidentOnlyIfWritten'
  <2>1. written' = written
    BY <1>3 DEF ReadFault
  <2>2. \A q \in Procs, h \in Pages : page'[q][h] \in Frames => page'[q][h] = page[q][h]
    BY <1>0, <1>3, <1>d DEF ReadFault
  <2> QED BY <1>s, <2>1, <2>2
<1>4. ASSUME NEW p \in Procs, NEW g \in Pages, WriteFault(p, g) PROVE ResidentOnlyIfWritten'
  <2>1. PICK f \in Frames, b \in Bytes :
          /\ Free(f)
          /\ page' = [page EXCEPT ![p][g] = f]
          /\ written' = [written EXCEPT ![p] = @ \cup {<<g, b>>}]
    BY <1>4 DEF WriteFault
  <2>2. page'[p][g] = f /\ <<g, b>> \in written'[p]
    BY <1>0, <2>1
  <2>3. \A q \in Procs, h \in Pages : ~(q = p /\ h = g) =>
          page'[q][h] = page[q][h] /\ page[q][h] # f
    BY <1>0, <2>1 DEF Free
  <2>4. \A q \in Procs : written[q] \subseteq written'[q]
    BY <1>0, <2>1
  <2> QED BY <2>2, <2>3, <2>4 DEF ResidentOnlyIfWritten
<1>5. ASSUME NEW p \in Procs, NEW g \in Pages, Write(p, g) PROVE ResidentOnlyIfWritten'
  <2>1. page' = page /\ \A q \in Procs : written[q] \subseteq written'[q]
    BY <1>0, <1>5 DEF Write
  <2> QED BY <1>s, <2>1
<1>6. CASE UNCHANGED vars
  BY <1>6 DEF vars, ResidentOnlyIfWritten
<1> QED BY <1>1, <1>2, <1>3, <1>4, <1>5, <1>6 DEF Next

\* Every step keeps what was not written at 0.
LEMMA ZeroStep ==
    TypeOK /\ ResidentOnlyIfWritten /\ ZeroUntilWritten /\ [Next]_vars => ZeroUntilWritten'
<1> SUFFICES ASSUME TypeOK, ResidentOnlyIfWritten, ZeroUntilWritten, [Next]_vars
             PROVE  ZeroUntilWritten'
  OBVIOUS
<1>0. /\ page \in [Procs -> [Pages -> Backing]] /\ content \in [Frames -> [Bytes -> {0, 1}]]
      /\ written \in [Procs -> SUBSET (Pages \X Bytes)]
  BY DEF TypeOK, Backing
<1>d. Untouched \notin Frames /\ Unmapped \notin Frames /\ ZeroPage \notin Frames
  BY TamallocAssumption
<1>s. ASSUME content' = content,
             \A q \in Procs, h \in Pages : page'[q][h] \in Frames =>
               /\ page'[q][h] = page[q][h]
               /\ \A b \in Bytes : <<h, b>> \in written[q] => <<h, b>> \in written'[q]
      PROVE  ZeroUntilWritten'
  BY <1>s DEF ZeroUntilWritten
<1>1. ASSUME NEW p \in Procs, luis_tamalloc(p) PROVE ZeroUntilWritten'
  <2>1. written' = written /\ content' = content
    BY <1>1, TamallocFacts
  <2>2. \A q \in Procs, h \in Pages : page'[q][h] \in Frames => page'[q][h] = page[q][h]
    <3>1. CASE UNCHANGED page
      BY <3>1
    <3>2. ASSUME NEW r \in Region,
                 page' = [page EXCEPT ![p] =
                   [g \in Pages |-> IF g \in PagesOf(r) THEN Untouched ELSE page[p][g]]]
          PROVE  \A q \in Procs, h \in Pages : page'[q][h] \in Frames => page'[q][h] = page[q][h]
      BY <1>0, <1>d, <3>2
    <3> QED BY <1>1, <3>1, <3>2, TamallocFacts
  <2> QED BY <1>s, <2>1, <2>2
<1>2. ASSUME NEW p \in Procs, munmap(p) PROVE ZeroUntilWritten'
  <2>1. PICK gone \in SUBSET regions[p] :
          /\ page' = [page EXCEPT ![p] =
               [g \in Pages |-> IF g \in Lost(gone) THEN Unmapped ELSE page[p][g]]]
          /\ written' = [written EXCEPT ![p] = {w \in written[p] : w[1] \notin Lost(gone)}]
          /\ content' = content
    BY <1>2, MunmapFacts
  <2>2. \A q \in Procs, h \in Pages : page'[q][h] \in Frames =>
          page'[q][h] = page[q][h] /\ (q # p \/ h \notin Lost(gone))
    BY <1>0, <1>d, <2>1
  <2>3. \A q \in Procs, h \in Pages, b \in Bytes :
          (q # p \/ h \notin Lost(gone)) /\ <<h, b>> \in written[q] => <<h, b>> \in written'[q]
    BY <1>0, <2>1
  <2> QED BY <1>s, <2>1, <2>2, <2>3
<1>3. ASSUME NEW p \in Procs, NEW g \in Pages, ReadFault(p, g) PROVE ZeroUntilWritten'
  <2>1. written' = written /\ content' = content
    BY <1>3 DEF ReadFault
  <2>2. \A q \in Procs, h \in Pages : page'[q][h] \in Frames => page'[q][h] = page[q][h]
    BY <1>0, <1>3, <1>d DEF ReadFault
  <2> QED BY <1>s, <2>1, <2>2
<1>4. ASSUME NEW p \in Procs, NEW g \in Pages, WriteFault(p, g) PROVE ZeroUntilWritten'
  <2>1. PICK f \in Frames, b \in Bytes :
          /\ Free(f)
          /\ page' = [page EXCEPT ![p][g] = f]
          /\ content' = [content EXCEPT ![f] = [c \in Bytes |-> IF c = b THEN 1 ELSE 0]]
          /\ written' = [written EXCEPT ![p] = @ \cup {<<g, b>>}]
    BY <1>4 DEF WriteFault
  <2>2. page'[p][g] = f /\ <<g, b>> \in written'[p]
    BY <1>0, <2>1
  <2>3. \A c \in Bytes : c # b => content'[f][c] = 0
    BY <1>0, <2>1
  <2>4. \A q \in Procs, h \in Pages : ~(q = p /\ h = g) =>
          page'[q][h] = page[q][h] /\ page[q][h] # f
    BY <1>0, <2>1 DEF Free
  <2>5. \A e \in Frames : e # f => content'[e] = content[e]
    BY <1>0, <2>1
  <2>6. \A q \in Procs : written[q] \subseteq written'[q]
    BY <1>0, <2>1
  <2> QED BY <2>2, <2>3, <2>4, <2>5, <2>6 DEF ZeroUntilWritten
<1>5. ASSUME NEW p \in Procs, NEW g \in Pages, Write(p, g) PROVE ZeroUntilWritten'
  <2>1. PICK b \in Bytes, v \in {0, 1} :
          /\ page[p][g] \in Frames
          /\ content' = [content EXCEPT ![page[p][g]][b] = v]
          /\ written' = [written EXCEPT ![p] = @ \cup {<<g, b>>}]
          /\ page' = page
    BY <1>5 DEF Write
  <2>2. <<g, b>> \in written'[p] /\ \A q \in Procs : written[q] \subseteq written'[q]
    BY <1>0, <2>1
  <2>3. \A e \in Frames, c \in Bytes : ~(e = page[p][g] /\ c = b) => content'[e][c] = content[e][c]
    BY <1>0, <2>1
  <2>4. \A q \in Procs, h \in Pages : page[q][h] = page[p][g] => q = p /\ h = g
    BY <2>1 DEF ResidentOnlyIfWritten
  <2> QED BY <2>1, <2>2, <2>3, <2>4 DEF ZeroUntilWritten
<1>6. CASE UNCHANGED vars
  BY <1>6 DEF vars, ZeroUntilWritten
<1> QED BY <1>1, <1>2, <1>3, <1>4, <1>5, <1>6 DEF Next

-----------------------------------------------------------------------------
\* The inductive invariant holds throughout.
THEOREM Invariance == Spec => []IInv
<1>1. Init => IInv
  <2> SUFFICES ASSUME Init PROVE IInv
    OBVIOUS
  <2>1. page \in [Procs -> [Pages -> Backing]] /\ \A p \in Procs, g \in Pages : page[p][g] = Unmapped
    BY DEF Init, Backing
  <2>2. 0 \in {PAGE_SIZE * a : a \in Pages}
    <3>1. 0 \in Pages
      BY TamallocAssumption DEF Pages
    <3>2. PAGE_SIZE * 0 = 0
      BY TamallocAssumption
    <3> QED BY <3>1, <3>2
  <2>3. /\ content \in [Frames -> [Bytes -> {0, 1}]]
        /\ regions \in [Procs -> SUBSET Region] /\ \A p \in Procs : regions[p] = {}
        /\ written \in [Procs -> SUBSET (Pages \X Bytes)]
        /\ ret = 0
    BY DEF Init
  <2>4. TypeOK
    BY <2>1, <2>2, <2>3 DEF TypeOK, Backing
  <2>5. CoversRequest
    BY <2>3 DEF CoversRequest
  <2>6. ResidentOnlyIfWritten /\ ZeroUntilWritten
    BY <2>1, TamallocAssumption DEF ResidentOnlyIfWritten, ZeroUntilWritten
  <2> QED BY <2>4, <2>5, <2>6 DEF IInv
<1>2. IInv /\ [Next]_vars => IInv'
  BY TypeStep, CoversStep, ResidentStep, ZeroStep DEF IInv
<1> QED BY <1>1, <1>2, PTL DEF Spec

\* ManualProyecto2.md:215: whatever size is asked for, a region that
\* luis_tamalloc returned covers it, and shares nothing with another.
THEOREM RequestsCovered == Spec => []CoversRequest
<1>1. IInv => CoversRequest
  BY DEF IInv
<1> QED BY <1>1, Invariance, PTL

\* ManualProyecto2.md:216: the call takes no page frame.
THEOREM AllocationIsLazy == Spec => []ResidentOnlyIfWritten
<1>1. IInv => ResidentOnlyIfWritten
  BY DEF IInv
<1> QED BY <1>1, Invariance, PTL

\* ManualProyecto2.md:217: no byte shows what another process left.
THEOREM ReadsZeroFirst == Spec => []ZeroUntilWritten
<1>1. IInv => ZeroUntilWritten
  BY DEF IInv
<1> QED BY <1>1, Invariance, PTL

=============================================================================
