---------------------------- MODULE MemoryRegions ----------------------------
(***************************************************************************)
(* The constructor of kernel_memory, which collects the memory from blocks *)
(* the kernel has left, and what is built on its regions: address_checker, *)
(* the translation of physical_adapter and the random addresses of         *)
(* uniform_address_distribution.                                           *)
(*                                                                         *)
(* Sizes and addresses count pages.  The kernel maps its memory linearly,  *)
(* so that a virtual address is the physical one plus VirtualOffset.       *)
(***************************************************************************)
EXTENDS Integers, Sequences, FiniteSets, SequencesExt, Loops

CONSTANTS Frames,         \* the physical pages are 0..(Frames - 1)
          Busy,           \* the ones that others hold
          VirtualOffset,
          MinSize,        \* min_size
          MaxOrder,       \* max_order
          Alignment       \* the alignments of the distributions, in bits above a page's

\* The linear map keeps the alignment of every block, and powers of two are as the
\* arithmetic has them.
ASSUME RegionsAssumption ==
    /\ Frames \in Nat /\ MaxOrder \in Nat /\ MinSize \in Nat \ {0}
    /\ VirtualOffset \in Nat /\ Busy \subseteq 0..(Frames - 1)
    /\ Alignment \subseteq Nat
    /\ VirtualOffset % 2^MaxOrder = 0
    /\ \A bits \in (0..MaxOrder) \cup Alignment : 2^bits \in Nat \ {0}
    /\ \A bits \in 0..MaxOrder : \A o \in bits..MaxOrder : 2^o = 2^(o - bits) * 2^bits

VARIABLES pc, order, min_size, regions,
          fd,          \* is the device open?
          checker,     \* address_checker::regions_, from a base to a size
          drawn,       \* the last random address, and the alignment it was drawn with
          allocated    \* history: the physical pages the device gave out

vars == <<pc, order, min_size, regions, fd, checker, drawn, allocated>>

None == -1
Smaller(a, b) == IF a < b THEN a ELSE b
Region(base, physical_base, size) ==
    [base |-> base, physical_base |-> physical_base, size |-> size]
Pages(region) == region.base..(region.base + region.size - 1)

-----------------------------------------------------------------------------
(* The constructor.                                                        *)

Init == /\ pc = "alloc" /\ order = MaxOrder /\ min_size = MinSize /\ regions = <<>>
        /\ fd = TRUE /\ checker = <<>>
        /\ drawn = [address |-> None, bits |-> 0]
        /\ allocated = {}

\* The kernel finds a free block of 2^order pages, which is aligned to its size.
Alloc(frame) ==
    LET size == 2^order
    IN  /\ pc = "alloc" /\ min_size > 0
        /\ frame % size = 0
        /\ frame..(frame + size - 1) \subseteq (0..(Frames - 1)) \ (allocated \cup Busy)
        /\ regions' = Append(regions, Region(frame + VirtualOffset, frame, size))
        /\ min_size' = min_size - Smaller(min_size, size)
        /\ allocated' = allocated \cup frame..(frame + size - 1)
        /\ UNCHANGED <<pc, order, fd, checker, drawn>>

\* The catch block: the device is closed, the exception goes on.
Throw == /\ pc' = "thrown" /\ fd' = FALSE
         /\ UNCHANGED <<order, min_size, regions, checker, drawn, allocated>>

\* No block of that order is to be had; a smaller one is tried.
AllocFails ==
    /\ pc = "alloc" /\ min_size > 0
    /\ \/ order = 0 /\ Throw
       \/ /\ order > 0 /\ order' = order - 1
          /\ UNCHANGED <<pc, min_size, regions, fd, checker, drawn, allocated>>

\* A block that continues the last region, virtually and physically, joins it.
Join(acc, region) ==
    LET last == acc[Len(acc)]
    IN  IF /\ last.base + last.size = region.base
           /\ last.physical_base + last.size = region.physical_base
        THEN [acc EXCEPT ![Len(acc)].size = @ + region.size]
        ELSE Append(acc, region)

\* The loop over the blocks.
Joined(blocks) ==
    LET joined[n \in 1..Len(blocks)] ==
          IF n = 1 THEN <<blocks[1]>>
          ELSE Bind(joined[n - 1], LAMBDA acc : Join(acc, blocks[n]))
    IN  joined[Len(blocks)]

\* Sorted by the base, which no two blocks share: so many bases come up to the n-th.
Sorted(blocks) ==
    [n \in 1..Len(blocks) |-> CHOOSE b \in Range(blocks) :
        Cardinality({c \in Range(blocks) : c.base <= b.base}) = n]

\* Mutant: the blocks are joined in the order in which they came.
defragment_regionsUnsorted(blocks) == Joined(blocks)
defragment_regions(blocks) == Bind(Sorted(blocks), Joined)

\* address_checker::add_region for every region; emplace keeps the first of a base.
Defragment ==
    /\ pc = "alloc" /\ min_size = 0
    /\ regions' = defragment_regions(regions)
    /\ checker' = [b \in {regions'[i].base : i \in 1..Len(regions')} |->
                     (CHOOSE r \in Range(regions') : r.base = b).size]
    /\ pc' = "cache_info"
    /\ UNCHANGED <<order, min_size, fd, drawn, allocated>>

\* The contents of the cache information are not used here.
ReadCacheInfo ==
    /\ pc = "cache_info" /\ pc' = "start"
    /\ UNCHANGED <<order, min_size, regions, fd, checker, drawn, allocated>>

StartAgent ==
    /\ pc = "start" /\ pc' = "mmap"
    /\ UNCHANGED <<order, min_size, regions, fd, checker, drawn, allocated>>

\* The channels are mapped; the mapping outlives the descriptor.
MmapChannels ==
    /\ pc = "mmap" /\ pc' = "constructed" /\ fd' = FALSE
    /\ UNCHANGED <<order, min_size, regions, checker, drawn, allocated>>

\* Mutant: an error does not close the device.
IoctlFailsOpen ==
    /\ pc \in {"cache_info", "start", "mmap"} /\ pc' = "thrown"
    /\ UNCHANGED <<order, min_size, regions, fd, checker, drawn, allocated>>
\* read_cache_info, start_agent or mmap_channels throws.
IoctlFails == pc \in {"cache_info", "start", "mmap"} /\ Throw

-----------------------------------------------------------------------------
(* What is built on the regions.                                           *)

\* address_checker::operator(): the last region that begins at or below address.
Check(map, address) ==
    LET below == {b \in DOMAIN map : b <= address}
    IN  below # {} /\ address < Max(below) + map[Max(below)]

\* physical_adapter::translate; address_translation_ maps physical bases to bases.
translate(address) ==
    LET below == {r \in Range(regions) : r.physical_base <= address}
        it    == CHOOSE r \in below : \A q \in below : q.physical_base <= r.physical_base
    IN  IF below = {} THEN 0 ELSE it.base + (address - it.physical_base)

\* The bounds of a region's distribution, in multiples of the alignment.
Lowest(region, bits) == region.base \div 2^bits
\* Mutant: the end of the region is included.
HighestInclusive(region, bits) == (region.base + region.size) \div 2^bits
Highest(region, bits) == (region.base + region.size) \div 2^bits - 1

\* uniform_address_distribution with an alignment and an offset below it.  With
\* bounds in the wrong order the standard library may return anything.
Draw(i, bits, n, offset) ==
    /\ pc = "constructed"
    /\ \/ Highest(regions[i], bits) < Lowest(regions[i], bits)
       \/ n \in Lowest(regions[i], bits)..Highest(regions[i], bits)
    /\ drawn' = [address |-> n * 2^bits + offset, bits |-> bits]
    /\ UNCHANGED <<pc, order, min_size, regions, fd, checker, allocated>>

Next == \/ \E frame \in 0..(Frames - 1) : Alloc(frame)
        \/ AllocFails \/ Defragment
        \/ ReadCacheInfo \/ StartAgent \/ MmapChannels \/ IoctlFails
        \/ \E i \in 1..Len(regions) : \E bits \in Alignment : \E n \in 0..(Frames + VirtualOffset) :
              \E offset \in 0..(2^bits - 1) : Draw(i, bits, n, offset)

\* The constructor is sequential code.
Spec == Init /\ [][Next]_vars /\ WF_vars(Next)
-----------------------------------------------------------------------------
(* Properties.                                                             *)

Built == pc \notin {"alloc", "thrown"}
Mapping(region) == {<<region.base + i, region.physical_base + i>> : i \in 0..(region.size - 1)}

\* The regions are exactly the memory the device gave out, at least what was asked
\* for, every page once and with its physical address; none continues another, so
\* that a search sees the longest contiguous memory there is.  address_checker
\* accepts exactly their addresses, and physical_adapter translates the physical
\* address of every page to its virtual one.
RegionsExact ==
    Built =>
        /\ UNION {Mapping(r) : r \in Range(regions)} = {<<p + VirtualOffset, p>> : p \in allocated}
        /\ Cardinality(allocated) >= MinSize
        /\ \A i, j \in 1..Len(regions) : i # j =>
              /\ Pages(regions[i]) \cap Pages(regions[j]) = {}
              /\ regions[i].base + regions[i].size # regions[j].base
        /\ \A a \in 0..(Frames + VirtualOffset) :
              Check(checker, a) <=> a - VirtualOffset \in allocated
        /\ \A p \in allocated : translate(p) = p + VirtualOffset

\* A random address is an address of the memory as long as the constructor never had
\* to fall below the order of the distribution's alignment: the blocks are aligned to
\* their size, and however they are joined, rounding the bounds loses nothing.  With a
\* smaller block somewhere it may be no address of the memory, or the bounds of a
\* region may be in the wrong order.
DrawsValid ==
    (drawn.address # None /\ drawn.bits <= order) => Check(checker, drawn.address)

\* The constructor ends, however often the kernel has no block left, and on every
\* way out of it the device is closed.
ConstructorEnds == <>[](pc \in {"constructed", "thrown"} /\ ~fd)
=============================================================================
