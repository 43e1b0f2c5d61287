------------------------------- MODULE Sysinfo -------------------------------
(***************************************************************************)
(* sysinfo (kernel/sys.c): memory sizes come in pages, and are given in    *)
(* bytes if all of them fit a word, with the unit saying which; the        *)
(* 32-bit call scales them down again.                                     *)
(***************************************************************************)
EXTENDS Integers

CONSTANTS
    BITS,          \* of an unsigned long
    COMPAT_BITS,   \* of an u32
    PAGE_SHIFT,
    RamPages,      \* sizes of memory that machines have
    SwapPages

\* What an instance gives the constants.
SysinfoAssumption ==
    /\ COMPAT_BITS \in Nat /\ BITS \in Nat /\ COMPAT_BITS <= BITS
    /\ PAGE_SHIFT \in 0 .. COMPAT_BITS
    /\ RamPages \subseteq 0 .. 2 ^ BITS - 1 /\ SwapPages \subseteq 0 .. 2 ^ BITS - 1

PAGE_SIZE == 2 ^ PAGE_SHIFT
Sizes == {"totalram", "freeram", "totalswap", "freeswap"}

VARIABLES
    machine,       \* the sizes in pages
    info,          \* the sizes as they are told
    mem_unit,      \* info->mem_unit
    unit,          \* the local mem_unit
    mem_total, bitcount,
    pc

vars == <<machine, info, mem_unit, unit, mem_total, bitcount, pc>>

Word(x) == x % 2 ^ BITS

\* The other sizes (shared, buffer and high memory) are parts of totalram, and
\* are treated as freeram is.
Machines == {m \in [Sizes -> RamPages \cup SwapPages] :
    /\ m["totalram"] \in RamPages /\ m["freeram"] <= m["totalram"]
    /\ m["totalswap"] \in SwapPages /\ m["freeswap"] <= m["totalswap"]}

\* si_meminfo and si_swapinfo.
Init ==
    /\ machine \in Machines
    /\ info = machine /\ mem_unit = PAGE_SIZE
    /\ unit = PAGE_SIZE /\ mem_total = 0 /\ bitcount = 0
    /\ pc = "sum"

-----------------------------------------------------------------------------
SumTotal ==
    /\ pc = "sum"
    /\ mem_total' = Word(info["totalram"] + info["totalswap"])
    /\ pc' = IF mem_total' < info["totalram"] \/ mem_total' < info["totalswap"]
             THEN "out" ELSE "loop"
    /\ UNCHANGED <<machine, info, mem_unit, unit, bitcount>>

\* Faulty: the overflow is looked for once, before the doubling.
DoubleUnchecked ==
    /\ pc = "loop" /\ unit > 1
    /\ bitcount' = bitcount + 1
    /\ unit' = unit \div 2
    /\ mem_total' = Word(mem_total * 2)
    /\ UNCHANGED <<machine, info, mem_unit, pc>>

Double ==
    /\ pc = "loop" /\ unit > 1
    /\ bitcount' = bitcount + 1
    /\ unit' = unit \div 2
    /\ mem_total' = Word(mem_total * 2)
    /\ pc' = IF mem_total' < mem_total THEN "out" ELSE "loop"
    /\ UNCHANGED <<machine, info, mem_unit>>

Scale ==
    /\ pc = "loop" /\ unit <= 1
    /\ mem_unit' = 1
    /\ info' = [s \in Sizes |-> Word(info[s] * 2 ^ bitcount)]
    /\ pc' = "out"
    /\ UNCHANGED <<machine, unit, mem_total, bitcount>>

UpperBits(x) == x \div 2 ^ COMPAT_BITS

\* The number of doublings of x below PAGE_SIZE.
BitsBelow(x) == CHOOSE n \in 0 .. PAGE_SHIFT : x * 2 ^ n = PAGE_SIZE

\* compat_sysinfo, after do_sysinfo.
Compat ==
    /\ pc = "out"
    /\ LET large == UpperBits(info["totalram"]) # 0 \/ UpperBits(info["totalswap"]) # 0
           n == IF large THEN BitsBelow(mem_unit) ELSE 0
       IN /\ info' = [s \in Sizes |-> (info[s] \div 2 ^ n) % 2 ^ COMPAT_BITS]
          /\ mem_unit' = mem_unit * 2 ^ n
    /\ pc' = "compat"
    /\ UNCHANGED <<machine, unit, mem_total, bitcount>>

Next == SumTotal \/ Double \/ Scale \/ Compat

Spec == Init /\ [][Next]_vars

-----------------------------------------------------------------------------
(***************************************************************************)
(* Properties.                                                             *)
(***************************************************************************)

\* "If mem_total did not overflow, multiply all memory values by
\* info->mem_unit and set it to 1": the sizes told, in the unit told, are the
\* sizes of the machine, at every combination of sizes where a sum, a
\* doubling or a shift can wrap.
SizesKept == pc = "out" => \A s \in Sizes : info[s] * mem_unit = machine[s] * PAGE_SIZE

\* A unit of one byte is told whenever ram and swap in bytes fit a word
\* together: programs of 2.2 that ignore the unit work then.
BytesWhenTheyFit ==
    (pc = "out" /\ (machine["totalram"] + machine["totalswap"]) * PAGE_SIZE < 2 ^ BITS) =>
        mem_unit = 1

\* "Check to see if any memory value is too large for 32-bit and scale down if
\* needed": the 32-bit sizes are those of the machine, up to 2^32 pages.
CompatSizesKept ==
    (pc = "compat" /\ \A s \in Sizes : machine[s] < 2 ^ COMPAT_BITS) =>
        \A s \in Sizes : info[s] * mem_unit = machine[s] * PAGE_SIZE

\* What sysinfo tells, natively and to 32-bit programs, are the machine's
\* sizes in the finest unit that fits.
SizesTold == SizesKept /\ BytesWhenTheyFit /\ CompatSizesKept

=============================================================================
