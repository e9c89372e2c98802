------------------------------- MODULE Memory -------------------------------
(***************************************************************************)
(* Physical frames (mm/frame.rs), the kernel heap (mm/heap.rs) and the     *)
(* part of main.rs that starts them.  Both allocators only move a pointer  *)
(* upwards; the heap moves it back when its last block is returned.        *)
(* Addresses are bytes of a word that ends at WordMax.  hhdm_offset shifts *)
(* all heap addresses alike and is taken as 0.                             *)
(***************************************************************************)
EXTENDS Integers, Sequences, FiniteSets, FiniteSetsExt

CONSTANTS
    MemoryMaps,     \* what Limine may report: sequences of [base, length, usable]
    WordMax,        \* u64::MAX
    PageSize,       \* PAGE_SIZE, 4096 in the code
    ReservedEnd,    \* BOOTSTRAP_RESERVED_END
    MaxRegions,     \* MAX_USABLE_REGIONS, 64 in the code
    HeapPages,      \* HEAP_PAGES, 2048 in the code
    Sizes, Aligns   \* of the layouts that are asked for

saturating_add(a, b) == IF a + b > WordMax THEN WordMax ELSE a + b

\* A memory map is a list of ranges of which the usable ones do not overlap.
Entry == [base : 0 .. WordMax, length : 0 .. WordMax, usable : BOOLEAN]
EntryEnd(e) == saturating_add(e.base, e.length)
Apart(from1, to1, from2, to2) == to1 =< from2 \/ to2 =< from1

ASSUME WordAssumption ==
    /\ WordMax \in Nat /\ PageSize \in Nat \ {0, 1} /\ ReservedEnd \in 0 .. WordMax /\ HeapPages \in Nat \ {0}
    /\ MaxRegions \in Nat /\ (WordMax + 1) % PageSize = 0
    /\ Sizes \subseteq Nat \ {0} /\ Aligns \subseteq 1 .. PageSize
ASSUME MapAssumption ==
    \A m \in MemoryMaps :
        /\ m \in Seq(Entry)
        /\ \A i, j \in DOMAIN m :
               i # j /\ m[i].usable /\ m[j].usable
                   => Apart(m[i].base, EntryEnd(m[i]), m[j].base, EntryEnd(m[j]))

VARIABLES
    memory_map,
    phase,              \* where main.rs is
    entry,              \* the entry FrameAllocator::initialize looks at
    regions,            \* FrameAllocator.regions up to region_count, each with its entry
    allocatable_bytes,
    allocated_frames,
    grants,             \* history: the ranges handed out, each with its region
    heap,               \* BumpAllocator: start, end, next, allocations
    live                \* history: the blocks not yet returned

frameVars == <<regions, allocatable_bytes, allocated_frames, grants>>
vars == <<memory_map, phase, entry, frameVars, heap, live>>

NoHeap == [start |-> 0, end |-> 0, next |-> 0, allocations |-> 0]

Init ==
    /\ memory_map \in MemoryMaps
    /\ phase = "scan" /\ entry = 1
    /\ regions = <<>> /\ allocatable_bytes = 0 /\ allocated_frames = 0 /\ grants = <<>>
    /\ heap = NoHeap /\ live = {}

-----------------------------------------------------------------------------
align_down(value, alignment) == value - (value % alignment)

\* Mutant: rounds down.
align_up_low(value, alignment) == align_down(value, alignment)

\* The alignment is a power of two in the code, so the mask is a remainder.
align_up(value, alignment) == align_down(saturating_add(value, alignment - 1), alignment)

\* Mutant: the start is not rounded.
region_start_raw(e) == IF e.base > ReservedEnd THEN e.base ELSE ReservedEnd

region_start(e) == align_up(IF e.base > ReservedEnd THEN e.base ELSE ReservedEnd, PageSize)

region_end(e) == align_down(EntryEnd(e), PageSize)

\* One round of the loop in FrameAllocator::initialize.
ScanEntry ==
    LET e == memory_map[entry]
        r == [start |-> region_start(e), end |-> region_end(e), next |-> region_start(e), entry |-> entry]
    IN  /\ phase = "scan" /\ entry <= Len(memory_map)
        /\ entry' = entry + 1
        /\ \/ /\ ~e.usable \/ region_end(e) <= region_start(e)
              /\ UNCHANGED <<phase, regions, allocatable_bytes>>
           \/ /\ e.usable /\ region_end(e) > region_start(e)
              /\ Len(regions) >= MaxRegions
              /\ phase' = "halted"                              \* TooManyRegions
              /\ UNCHANGED <<regions, allocatable_bytes>>
           \/ /\ e.usable /\ region_end(e) > region_start(e)
              /\ Len(regions) < MaxRegions
              /\ regions' = Append(regions, r)
              /\ allocatable_bytes' = saturating_add(allocatable_bytes, r.end - r.start)
              /\ UNCHANGED phase
        /\ UNCHANGED <<memory_map, allocated_frames, grants, heap, live>>

EndScan ==
    /\ phase = "scan" /\ entry > Len(memory_map)
    /\ phase' = IF regions = <<>> THEN "halted" ELSE "bootstrap_frame"  \* NoUsableRegions
    /\ UNCHANGED <<memory_map, entry, frameVars, heap, live>>

WithRoom(bytes) == {i \in DOMAIN regions : regions[i].end - regions[i].next >= bytes}

\* Mutant: the region's pointer moves by one page whatever was asked for.
Advanced_one(r, bytes) == [r EXCEPT !.next = saturating_add(@, PageSize)]

Advanced(r, bytes) == [r EXCEPT !.next = saturating_add(@, bytes)]

\* allocate_contiguous from the first region with room; allocate is the case of
\* one frame.
allocate_contiguous(count) ==
    LET bytes == count * PageSize
    IN  \E i \in WithRoom(bytes) :
            /\ \A j \in WithRoom(bytes) : i <= j
            /\ regions' = [regions EXCEPT ![i] = Advanced(@, bytes)]
            /\ allocated_frames' = allocated_frames + count
            /\ grants' = Append(grants, [from   |-> regions[i].next,
                                        to     |-> regions[i].next + bytes,
                                        region |-> i])
            /\ UNCHANGED allocatable_bytes

-----------------------------------------------------------------------------
\* main.rs takes one frame to show that it can.
BootstrapFrame ==
    /\ phase = "bootstrap_frame"
    /\ IF WithRoom(PageSize) # {}
       THEN allocate_contiguous(1) /\ phase' = "heap"
       ELSE UNCHANGED frameVars /\ phase' = "no_frame"
    /\ UNCHANGED <<memory_map, entry, heap, live>>

\* BumpAllocator::initialize.
HeapAt(start, size) ==
    [start |-> start, end |-> saturating_add(start, size), next |-> start, allocations |-> 0]

\* heap::initialize.
InitHeap ==
    /\ phase = "heap"
    /\ \/ /\ allocate_contiguous(HeapPages)
          /\ heap' = HeapAt(grants'[Len(grants')].from, HeapPages * PageSize)
          /\ phase' = "run"
       \/ /\ WithRoom(HeapPages * PageSize) = {}
          /\ phase' = "halted"                                  \* OutOfFrames
          /\ UNCHANGED <<frameVars, heap>>
    /\ UNCHANGED <<memory_map, entry, live>>

\* allocate_frame by any part of the running kernel.
AllocateFrame ==
    /\ phase = "run"
    /\ allocate_contiguous(1)
    /\ UNCHANGED <<memory_map, phase, entry, heap, live>>

alloc(size, align) ==
    LET alloc_start == align_up(heap.next, align)
        alloc_end   == saturating_add(alloc_start, size)
    IN  /\ phase = "run"
        /\ alloc_end <= heap.end
        /\ heap' = [heap EXCEPT !.next = alloc_end, !.allocations = @ + 1]
        /\ live' = live \cup {[from |-> alloc_start, to |-> alloc_end]}
        /\ UNCHANGED <<memory_map, phase, entry, frameVars>>

\* Mutant: the heap starts over while one block is still in use.
Returned_early(h) ==
    [h EXCEPT !.allocations = @ - 1, !.next = IF h.allocations <= 2 THEN h.start ELSE @]

Returned(h) ==
    [h EXCEPT !.allocations = @ - 1, !.next = IF h.allocations = 1 THEN h.start ELSE @]

\* Every block is returned at most once, as the contract of GlobalAlloc asks.
dealloc(block) ==
    /\ phase = "run"
    /\ heap' = IF heap.allocations > 0 THEN Returned(heap) ELSE heap
    /\ live' = live \ {block}
    /\ UNCHANGED <<memory_map, phase, entry, frameVars>>

Next ==
    \/ ScanEntry \/ EndScan \/ BootstrapFrame \/ InitHeap \/ AllocateFrame
    \/ \E size \in Sizes, align \in Aligns : alloc(size, align)
    \/ \E block \in live : dealloc(block)

Spec == Init /\ [][Next]_vars

-----------------------------------------------------------------------------
Region == [start : 0 .. WordMax, end : 0 .. WordMax, next : 0 .. WordMax, entry : Nat]
Grant == [from : 0 .. WordMax, to : 0 .. WordMax, region : Nat]
Block == [from : Nat, to : Nat]

TypeOK ==
    /\ memory_map \in MemoryMaps
    /\ phase \in {"scan", "bootstrap_frame", "heap", "run", "halted", "no_frame"}
    /\ entry \in 1 .. Len(memory_map) + 1
    /\ regions \in Seq(Region) /\ Len(regions) <= MaxRegions
    /\ allocatable_bytes \in 0 .. WordMax
    /\ allocated_frames \in Nat
    /\ grants \in Seq(Grant)
    /\ heap \in [start : 0 .. WordMax, end : 0 .. WordMax, next : 0 .. WordMax, allocations : Nat]
    /\ live \subseteq Block

\* No byte of memory is handed out twice (allocate, allocate_contiguous).
GrantsDisjoint ==
    \A i, j \in DOMAIN grants :
        i # j => Apart(grants[i].from, grants[i].to, grants[j].from, grants[j].to)

\* What is handed out lies in an entry of the memory map that is usable, above
\* the reserved first megabyte, also where an entry ends at the top of the
\* address space (align_up, align_down, saturating_add in initialize).
GrantsUsable ==
    \A g \in DOMAIN grants :
        /\ grants[g].from >= ReservedEnd
        /\ \E k \in DOMAIN memory_map :
               /\ memory_map[k].usable
               /\ memory_map[k].base <= grants[g].from /\ grants[g].to <= EntryEnd(memory_map[k])

\* Only whole frames are handed out and counted: a grant starts on a page
\* boundary, a region that was kept has a frame to give, and the counters of
\* the frame allocator agree with its regions.
FramesAccounted ==
    /\ \A g \in DOMAIN grants : grants[g].from % PageSize = 0
    /\ phase # "no_frame"
    /\ allocated_frames * PageSize
           = MapThenSumSet(LAMBDA i : regions[i].next - regions[i].start, DOMAIN regions)
    /\ allocatable_bytes = MapThenSumSet(LAMBDA i : regions[i].end - regions[i].start, DOMAIN regions)

\* Blocks in use do not overlap and lie in the memory the heap was given, which
\* is nobody else's (alloc, dealloc, heap::initialize).
HeapSound ==
    /\ \A a, b \in live : a # b => Apart(a.from, a.to, b.from, b.to)
    /\ \A b \in live : heap.start <= b.from /\ b.from < b.to /\ b.to <= heap.end
    /\ phase = "run" => \E g \in DOMAIN grants :
                           grants[g].from = heap.start /\ grants[g].to = heap.end

\* The heap counts its blocks exactly, so it starts over only when it is empty,
\* and then it does (dealloc).
HeapCounted ==
    /\ heap.allocations = Cardinality(live)
    /\ live = {} => heap.next = heap.start
=============================================================================
