------------------------------ MODULE Tamalloc ------------------------------
(***************************************************************************)
(* luis_tamalloc (kernel/usac/syscall4.c) over the part of the memory      *)
(* manager it relies on: an address space per process, page frames that    *)
(* keep their contents when they are freed, and faults that bring a frame  *)
(* in at the first access of a page.                                       *)
(***************************************************************************)
EXTENDS Integers, FiniteSets

CONSTANTS
    Procs,        \* processes
    Frames,       \* physical page frames
    PAGE_SIZE,    \* bytes in a page
    SIZE_PAGES,   \* pages a size_t can count: size_t wraps at SIZE_PAGES * PAGE_SIZE
    NPages,       \* pages of an address space that mmap may use
    Sizes,        \* arguments of the system call
    Untouched, Unmapped, ZeroPage

SIZE_MOD == SIZE_PAGES * PAGE_SIZE
Pages == 0 .. NPages - 1
Bytes == 0 .. PAGE_SIZE - 1

ASSUME TamallocAssumption ==
    /\ PAGE_SIZE \in Nat \ {0} /\ SIZE_PAGES \in Nat \ {0} /\ NPages \in Nat \ {0}
    /\ NPages < SIZE_PAGES
    /\ Sizes \subseteq 0 .. SIZE_MOD - 1
    /\ {Untouched, Unmapped, ZeroPage} \cap Frames = {}
    /\ Untouched # Unmapped /\ Untouched # ZeroPage /\ Unmapped # ZeroPage

EINVAL == -22
ENOMEM == -12

VARIABLES
    page,         \* what each page of each address space is backed by
    content,      \* the bytes of each frame: 0, or 1 for any other value
    regions,      \* what luis_tamalloc returned and is still mapped, per process
    ret,          \* the return value of the last call
    written       \* history: bytes a process wrote since their page was mapped

vars == <<page, content, regions, ret, written>>

Region == [addr : Pages, pages : 1 .. NPages, size : 1 .. SIZE_MOD - 1]
PagesOf(r) == r.addr .. r.addr + r.pages - 1

TypeOK ==
    /\ page \in [Procs -> [Pages -> Frames \cup {Untouched, Unmapped, ZeroPage}]]
    /\ content \in [Frames -> [Bytes -> {0, 1}]]
    /\ regions \in [Procs -> SUBSET Region]
    /\ ret \in {EINVAL, ENOMEM} \cup {PAGE_SIZE * a : a \in Pages}
    /\ written \in [Procs -> SUBSET (Pages \X Bytes)]

\* Frames hold what their former users left in them.
Init ==
    /\ page = [p \in Procs |-> [g \in Pages |-> Unmapped]]
    /\ content \in [Frames -> [Bytes -> {0, 1}]]
    /\ regions = [p \in Procs |-> {}]
    /\ ret = 0
    /\ written = [p \in Procs |-> {}]

-----------------------------------------------------------------------------
(***************************************************************************)
(* The system call.                                                        *)
(***************************************************************************)

\* Faulty: rounds down.
PAGE_ALIGNDown(size) == (size \div PAGE_SIZE) * PAGE_SIZE

\* PAGE_ALIGN (include/linux/mm.h), in the width of size_t: the addition wraps.
PAGE_ALIGN(size) == (((size + PAGE_SIZE - 1) % SIZE_MOD) \div PAGE_SIZE) * PAGE_SIZE

\* The places where n pages fit.
Holes(p, n) == {a \in Pages : a + n <= NPages /\ \A g \in a .. a + n - 1 : page[p][g] = Unmapped}

Free(f) == \A p \in Procs, g \in Pages : page[p][g] # f

\* vm_mmap (external) of len bytes of private anonymous memory, not reserved:
\* refused for an empty length and where nothing fits; otherwise address
\* space only.
vm_mmap(p, size, len) ==
    LET n == len \div PAGE_SIZE
    IN  /\ \/ /\ ret' = (IF len = 0 THEN EINVAL ELSE ENOMEM)
              /\ UNCHANGED <<page, regions>>
           \/ /\ len > 0
              /\ \E a \in Holes(p, n) :
                   /\ page' = [page EXCEPT ![p] = [g \in Pages |->
                                 IF g \in a .. a + n - 1 THEN Untouched ELSE @[g]]]
                   /\ regions' = [regions EXCEPT ![p] =
                                    @ \cup {[addr |-> a, pages |-> n, size |-> size]}]
                   /\ ret' = a * PAGE_SIZE
        /\ UNCHANGED <<content, written>>

luis_tamalloc(p) ==
    \E size \in Sizes :
        \/ /\ size = 0
           /\ ret' = EINVAL
           /\ UNCHANGED <<page, content, regions, written>>
        \/ /\ size # 0
           /\ vm_mmap(p, size, PAGE_ALIGN(size))

-----------------------------------------------------------------------------
(***************************************************************************)
(* The process uses the memory, and gives it back (external).              *)
(***************************************************************************)

\* A read of a page not yet touched maps the shared page of zeros.
ReadFault(p, g) ==
    /\ page[p][g] = Untouched
    /\ page' = [page EXCEPT ![p][g] = ZeroPage]
    /\ UNCHANGED <<content, regions, ret, written>>

\* Faulty: the frame is handed over as it is.
WriteFaultDirty(p, g) ==
    /\ page[p][g] \in {Untouched, ZeroPage}
    /\ \E f \in Frames, b \in Bytes :
         /\ Free(f)
         /\ page' = [page EXCEPT ![p][g] = f]
         /\ content' = [content EXCEPT ![f][b] = 1]
         /\ written' = [written EXCEPT ![p] = @ \cup {<<g, b>>}]
    /\ UNCHANGED <<regions, ret>>

\* The first write takes a frame and clears it.
WriteFault(p, g) ==
    /\ page[p][g] \in {Untouched, ZeroPage}
    /\ \E f \in Frames, b \in Bytes :
         /\ Free(f)
         /\ page' = [page EXCEPT ![p][g] = f]
         /\ content' = [content EXCEPT ![f] = [c \in Bytes |-> IF c = b THEN 1 ELSE 0]]
         /\ written' = [written EXCEPT ![p] = @ \cup {<<g, b>>}]
    /\ UNCHANGED <<regions, ret>>

Write(p, g) ==
    /\ page[p][g] \in Frames
    /\ \E b \in Bytes, v \in {0, 1} :
         /\ content' = [content EXCEPT ![page[p][g]][b] = v]
         /\ written' = [written EXCEPT ![p] = @ \cup {<<g, b>>}]
    /\ UNCHANGED <<page, regions, ret>>

\* munmap of a whole region, or the exit of the process, frees the frames
\* and leaves their contents.
munmap(p) ==
    \E gone \in {{r} : r \in regions[p]} \cup {regions[p]} :
        LET pages == UNION {PagesOf(r) : r \in gone}
        IN  /\ gone # {}
            /\ page' = [page EXCEPT ![p] = [g \in Pages |-> IF g \in pages THEN Unmapped ELSE @[g]]]
            /\ regions' = [regions EXCEPT ![p] = @ \ gone]
            /\ written' = [written EXCEPT ![p] = {w \in @ : w[1] \notin pages}]
            /\ UNCHANGED <<content, ret>>

Next == \E p \in Procs :
    \/ luis_tamalloc(p)
    \/ munmap(p)
    \/ \E g \in Pages : ReadFault(p, g) \/ WriteFault(p, g) \/ Write(p, g)

Spec == Init /\ [][Next]_vars

-----------------------------------------------------------------------------
(***************************************************************************)
(* Properties.                                                             *)
(***************************************************************************)

\* ManualProyecto2.md:215, "memory enough to cover the request": a region
\* that luis_tamalloc returned is at least as long as the size asked for,
\* whatever its rounding did at either end of size_t, every page of it is
\* mapped, and no two regions of a process share one.
CoversRequest ==
    \A p \in Procs : \A r \in regions[p] :
        /\ r.size <= r.pages * PAGE_SIZE
        /\ \A g \in PagesOf(r) : g \in Pages /\ page[p][g] # Unmapped
        /\ \A q \in regions[p] : q = r \/ PagesOf(q) \cap PagesOf(r) = {}

\* ManualProyecto2.md:216, "no page faults when this memory is allocated":
\* only pages the process wrote have a frame, so neither the call nor a read
\* consumes memory, and no two pages have the same one.
ResidentOnlyIfWritten ==
    \A p \in Procs, g \in Pages : page[p][g] \in Frames =>
        /\ \E b \in Bytes : <<g, b>> \in written[p]
        /\ \A q \in Procs, h \in Pages : page[q][h] = page[p][g] => q = p /\ h = g

\* ManualProyecto2.md:217, "each page 0 until its first access": a byte that
\* the process did not write itself since the page was mapped reads 0,
\* whoever had the frame before.
ZeroUntilWritten ==
    \A p \in Procs, g \in Pages, b \in Bytes :
        page[p][g] \in Frames /\ <<g, b>> \notin written[p] => content[page[p][g]][b] = 0

=============================================================================
