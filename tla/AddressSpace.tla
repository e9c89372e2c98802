---------------------------- MODULE AddressSpace ----------------------------
(***************************************************************************)
(* The page tables of arch/x86_64/early_map.rs and mm/vmm.rs and the calls *)
(* that change them: create_user_page_table, the loading of an image, brk, *)
(* mmap, native regions filled on page faults, and fork's clone_space.     *)
(*                                                                         *)
(* An address space is a tree of nodes <<k, i>>: <<0, p>> is the entry of  *)
(* page p, <<k, i>> the table k levels up that covers it, and the root is  *)
(* <<Levels, 0>>.  A node holds the frame it points at, or 0.  A call that *)
(* maps pages is a `job`; each of its steps takes at most one frame from   *)
(* the allocator, and nothing else runs until it ends (interrupts are off).*)
(* Frames come from module Memory's allocator, which never gives one out   *)
(* twice: `taken` counts them.  Flags are left out.                        *)
(*                                                                         *)
(* The upper half belongs to the kernel: its entries of the root are       *)
(* copied when a space is made, so spaces share the tables below them.     *)
(* map_native_region and fork are handlers no dispatch table names yet.    *)
(***************************************************************************)
EXTENDS Integers, Sequences, FiniteSets

CONSTANTS
    Spaces,               \* user address spaces, one per process
    NumFrames,            \* frames the allocator has
    Levels,               \* levels of tables above a page, root included (4 in the code)
    FanOut,               \* entries of a table (512)
    UserPages,            \* pages below the kernel's half
    KernelPages,          \* pages of the kernel's half that may be mapped
    BrkBase, MmapBase, NativeBase,  \* first page of each area
    AreaPages,            \* bound: pages of each area a call may reach
    PageCounts,           \* bound: pages one mmap or native call may ask for
    PageBytes,            \* 4096
    MaxVmmSlots,          \* MAX_PROCESSES, 64
    RegionsPerProcess     \* MAX_REGIONS_PER_PROCESS, 128

ASSUME SpaceAssumption ==
    /\ IsFiniteSet(Spaces) /\ "kernel" \notin Spaces
    /\ {NumFrames, Levels, FanOut, UserPages, KernelPages, PageBytes} \subseteq Nat \ {0}
    /\ {BrkBase, MmapBase, NativeBase, AreaPages, MaxVmmSlots, RegionsPerProcess} \subseteq Nat
    /\ PageCounts \subseteq Nat \ {0}
    /\ BrkBase + AreaPages <= UserPages /\ MmapBase + AreaPages <= UserPages
    /\ NativeBase + AreaPages <= UserPages
    /\ Levels >= 2 /\ UserPages + KernelPages <= FanOut^Levels
    /\ UserPages % FanOut^(Levels - 1) = 0   \* the halves part at an entry of the root

VARIABLES
    node_frame,  \* space -> node -> frame, 0 when not present
    shares,      \* space -> the kernel nodes below its root at its creation
    live_spaces, \* spaces whose root is in use
    taken,       \* frames given out
    program_break, next_mmap, \* CURRENT_BRK (bytes) and NEXT_MMAP_VADDR (a page): one of each
    starved,     \* some page of a call got no frame or no table
    map_job,     \* the call in progress
    vmm_table,   \* VMM_TABLE: processes with an active entry, and their regions
    panicked

asVars == <<node_frame, shares, live_spaces, taken, program_break, next_mmap, starved,
            map_job, vmm_table, panicked>>

AllSpaces == Spaces \cup {"kernel"}
AllPages == 0 .. UserPages + KernelPages - 1
Node(k, p) == <<k, p \div FanOut^k>>
Root == Node(Levels, 0)
Nodes == {Node(k, p) : k \in 0 .. Levels, p \in AllPages}
KernelTop == {Node(Levels - 1, p) : p \in UserPages .. UserPages + KernelPages - 1}

Device == -1   \* a physical page that is not the allocator's
NoJob == [op |-> "none", space |-> "kernel", from |-> "kernel", page |-> 0, past |-> 0, held |-> 0]
Job(op, s, first, past) ==
    [op |-> op, space |-> s, from |-> s, page |-> first, past |-> past, held |-> 0]

\* Limine's page tables have a root; the bootloader's own entries are not the
\* kernel's to change.
AsInit ==
    /\ node_frame = [s \in AllSpaces |-> [n \in Nodes |->
                        IF s = "kernel" /\ n = Root THEN Device ELSE 0]]
    /\ shares = [s \in Spaces |-> {}]
    /\ live_spaces = {}
    /\ taken = 0
    /\ program_break = BrkBase * PageBytes /\ next_mmap = MmapBase
    /\ starved = FALSE /\ panicked = FALSE
    /\ map_job = NoJob
    /\ vmm_table = [s \in {} |-> <<>>]

Idle == map_job = NoJob /\ ~ panicked
PagesUp(bytes) == (bytes + PageBytes - 1) \div PageBytes
FramesLeft == taken < NumFrames
Fill(s, n, f) == node_frame' = [node_frame EXCEPT ![s][n] = f]

-----------------------------------------------------------------------------
\* The calls.  Each starts a job; the job's steps follow.

\* ensure_region_mapped and map_kernel_region: the local APIC, the display and
\* the coprocessor's window, all mapped by main.rs before any process exists.
KernelMap(first, past) ==
    /\ Idle /\ live_spaces = {}
    /\ map_job' = Job("kernel", "kernel", first, past)
    /\ UNCHANGED <<node_frame, shares, live_spaces, taken, program_break, next_mmap, starved,
                   vmm_table, panicked>>

\* Mutant: the copy of the kernel's half misses its first entry.
CreateUserPageTableShort(s) ==
    /\ Idle /\ node_frame[s][Root] = 0 /\ FramesLeft
    /\ Fill(s, Root, taken + 1) /\ taken' = taken + 1
    /\ shares' = [shares EXCEPT ![s] = {n \in KernelTop : node_frame["kernel"][n] # 0}
                                          \ {Node(Levels - 1, UserPages)}]
    /\ live_spaces' = live_spaces \cup {s}
    /\ UNCHANGED <<program_break, next_mmap, starved, map_job, vmm_table, panicked>>

\* create_user_page_table: an empty lower half, the kernel's upper half.
CreateUserPageTable(s) ==
    /\ Idle /\ node_frame[s][Root] = 0 /\ FramesLeft
    /\ Fill(s, Root, taken + 1) /\ taken' = taken + 1
    /\ shares' = [shares EXCEPT ![s] = {n \in KernelTop : node_frame["kernel"][n] # 0}]
    /\ live_spaces' = live_spaces \cup {s}
    /\ UNCHANGED <<program_break, next_mmap, starved, map_job, vmm_table, panicked>>

\* The pages of an image, or of its stack; a page two segments share is mapped
\* once, because map_segment_pages keeps the last page's frame.
LoadImage(s, first, past) ==
    /\ Idle /\ s \in live_spaces
    /\ map_job' = Job("load", s, first, past)
    /\ UNCHANGED <<node_frame, shares, live_spaces, taken, program_break, next_mmap, starved,
                   vmm_table, panicked>>

\* Mutant: the last page is rounded down.
BrkRoundsDown(s, new) ==
    /\ Idle /\ s \in live_spaces
    /\ new > program_break
    /\ map_job' = Job("brk", s, PagesUp(program_break), new \div PageBytes)
    /\ program_break' = new
    /\ UNCHANGED <<node_frame, shares, live_spaces, taken, next_mmap, starved, vmm_table, panicked>>

\* sys_brk: one break for all processes; a request at or below it only reads it.
Brk(s, new) ==
    /\ Idle /\ s \in live_spaces
    /\ new > program_break
    /\ map_job' = Job("brk", s, PagesUp(program_break), PagesUp(new))
    /\ program_break' = new
    /\ UNCHANGED <<node_frame, shares, live_spaces, taken, next_mmap, starved, vmm_table, panicked>>

\* sys_mmap: a usable hint is taken as it is, else the next pages of the area.
Mmap(s, count, hint) ==
    /\ Idle /\ s \in live_spaces
    /\ LET start == IF hint # 0 THEN hint ELSE next_mmap
       IN  /\ start + count <= MmapBase + AreaPages
           /\ map_job' = Job("mmap", s, start, start + count)
    /\ next_mmap' = IF hint # 0 THEN next_mmap ELSE next_mmap + count
    /\ UNCHANGED <<node_frame, shares, live_spaces, taken, program_break, starved, vmm_table,
                   panicked>>

\* get_process_vmm: the process's entry, made when it has none; entries are
\* never given back, and the last one's loss is a panic.
VmmFull(s) == s \notin DOMAIN vmm_table /\ Cardinality(DOMAIN vmm_table) >= MaxVmmSlots
RegionsOf(s) == IF s \in DOMAIN vmm_table THEN vmm_table[s] ELSE <<>>
SetRegions(s, rs) ==
    vmm_table' = [t \in DOMAIN vmm_table \cup {s} |-> IF t = s THEN rs ELSE vmm_table[t]]

Overlaps(rs, first, past) == \E i \in DOMAIN rs : rs[i].first < past /\ rs[i].past > first

\* map_native_region's search, which starts again after the end of a region it
\* meets, stops at the first gap.
NativeGap(rs, count) ==
    CHOOSE a \in NativeBase .. NativeBase + AreaPages :
        /\ ~ Overlaps(rs, a, a + count)
        /\ \A b \in NativeBase .. a - 1 : Overlaps(rs, b, b + count)

MapNativeRegion(s, addr, count) ==
    LET rs    == RegionsOf(s)
        start == IF addr = 0 THEN NativeGap(rs, count) ELSE addr
    IN  /\ Idle /\ s \in live_spaces
        /\ start + count <= NativeBase + AreaPages
        /\ panicked' = VmmFull(s)
        /\ IF VmmFull(s) THEN UNCHANGED vmm_table
           ELSE SetRegions(s, IF Len(rs) < RegionsPerProcess
                              THEN Append(rs, [first |-> start, past |-> start + count]) ELSE rs)
        /\ UNCHANGED <<node_frame, shares, live_spaces, taken, program_break, next_mmap, starved,
                       map_job>>

\* handle_page_fault: a page of a region is mapped; any other fault goes on to
\* the exception handler and leaves only the process's entry behind.
HandlePageFault(s, p) ==
    /\ Idle /\ s \in live_spaces
    /\ panicked' = VmmFull(s)
    /\ IF VmmFull(s) THEN UNCHANGED <<vmm_table, map_job>>
       ELSE /\ SetRegions(s, RegionsOf(s))
            /\ map_job' = IF Overlaps(RegionsOf(s), p, p + 1)
                          THEN Job("fault", s, p, p + 1) ELSE map_job
    /\ UNCHANGED <<node_frame, shares, live_spaces, taken, program_break, next_mmap, starved>>

\* clone_space for fork: the root first, then the job copies the lower half.
CloneSpace(s, t) ==
    /\ Idle /\ s \in live_spaces /\ node_frame[t][Root] = 0 /\ FramesLeft
    /\ Fill(t, Root, taken + 1) /\ taken' = taken + 1
    /\ shares' = [shares EXCEPT ![t] = shares[s]]
    /\ map_job' = [Job("clone", t, 0, 0) EXCEPT !.from = s]
    /\ UNCHANGED <<live_spaces, program_break, next_mmap, starved, vmm_table, panicked>>

-----------------------------------------------------------------------------
\* The steps of a job.

callVars == <<shares, program_break, next_mmap, vmm_table>>
Missing(j) == {k \in 1 .. Levels - 1 : node_frame[j.space][Node(k, j.page)] = 0}
NextPage(j) == [j EXCEPT !.page = j.page + 1, !.held = 0]

\* brk and mmap ignore a page's failure; the other callers give up at the first.
AfterFailure(j) == IF j.op \in {"brk", "mmap"} THEN NextPage(j) ELSE NoJob

HoldsItsFrame(j) == j.op \in {"fault", "kernel"} \/ j.held # 0

\* allocate_frame for the page itself, before the tables are looked at.
JobFrame ==
    /\ map_job.op \in {"load", "brk", "mmap"} /\ map_job.page < map_job.past
    /\ map_job.held = 0
    /\ IF FramesLeft
       THEN taken' = taken + 1 /\ map_job' = [map_job EXCEPT !.held = taken + 1] /\ UNCHANGED starved
       ELSE starved' = TRUE /\ map_job' = AfterFailure(map_job) /\ UNCHANGED taken
    /\ UNCHANGED <<node_frame, live_spaces, panicked, callVars>>

\* next_table and next_table_user, top down, and the same walk in map_page.  A
\* held frame is lost with a table that cannot be had.
JobTable ==
    /\ map_job.op \in {"load", "brk", "mmap", "fault", "kernel"} /\ map_job.page < map_job.past
    /\ HoldsItsFrame(map_job) /\ Missing(map_job) # {}
    /\ IF FramesLeft
       THEN LET k == CHOOSE k \in Missing(map_job) : \A l \in Missing(map_job) : l <= k
            IN  /\ Fill(map_job.space, Node(k, map_job.page), taken + 1)
                /\ taken' = taken + 1 /\ UNCHANGED <<map_job, starved>>
       ELSE starved' = TRUE /\ map_job' = AfterFailure(map_job) /\ UNCHANGED <<taken, node_frame>>
    /\ UNCHANGED <<live_spaces, panicked, callVars>>

\* map_user_page: the entry of a page that is present keeps its frame, and the
\* new one is lost.
JobLeaf ==
    LET leaf == Node(0, map_job.page)
    IN  /\ map_job.op \in {"load", "brk", "mmap"} /\ map_job.page < map_job.past
        /\ map_job.held # 0 /\ Missing(map_job) = {}
        /\ IF node_frame[map_job.space][leaf] = 0
           THEN Fill(map_job.space, leaf, map_job.held) ELSE UNCHANGED node_frame
        /\ map_job' = NextPage(map_job)
        /\ UNCHANGED <<live_spaces, taken, starved, panicked, callVars>>

\* map_kernel_page and ensure_page_mapping: the caller names the physical page.
JobKernelLeaf ==
    LET leaf == Node(0, map_job.page)
    IN  /\ map_job.op = "kernel" /\ map_job.page < map_job.past /\ Missing(map_job) = {}
        /\ Fill("kernel", leaf, Device)
        /\ map_job' = NextPage(map_job)
        /\ UNCHANGED <<live_spaces, taken, starved, panicked, callVars>>

\* map_page takes a frame only for an entry that is not present.
JobFaultLeaf ==
    LET leaf == Node(0, map_job.page)
    IN  /\ map_job.op = "fault" /\ map_job.page < map_job.past /\ Missing(map_job) = {}
        /\ map_job' = NextPage(map_job)
        /\ IF node_frame[map_job.space][leaf] # 0 THEN UNCHANGED <<node_frame, taken, starved>>
           ELSE IF FramesLeft
                THEN Fill(map_job.space, leaf, taken + 1) /\ taken' = taken + 1 /\ UNCHANGED starved
                ELSE starved' = TRUE /\ UNCHANGED <<node_frame, taken>>
        /\ UNCHANGED <<live_spaces, panicked, callVars>>

\* The lower half's nodes that the child does not have yet.
Uncloned == {n \in Nodes : /\ n[1] < Levels
                           /\ node_frame[map_job.from][n] # 0 /\ node_frame[map_job.space][n] = 0}

\* Mutant: a page's entry is copied with the parent's frame in it.
JobCloneShares ==
    /\ map_job.op = "clone" /\ Uncloned # {}
    /\ LET n == CHOOSE n \in Uncloned : \A m \in Uncloned : m[1] <= n[1]
       IN  IF n[1] = 0
           THEN Fill(map_job.space, n, node_frame[map_job.from][n]) /\ UNCHANGED <<taken, panicked>>
           ELSE IF FramesLeft
                THEN Fill(map_job.space, n, taken + 1) /\ taken' = taken + 1 /\ UNCHANGED panicked
                ELSE panicked' = TRUE /\ UNCHANGED <<taken, node_frame>>
    /\ UNCHANGED <<live_spaces, starved, map_job, callVars>>

\* A frame for every table and every page of the parent, or a panic (unwrap).
JobClone ==
    /\ map_job.op = "clone" /\ Uncloned # {} /\ ~ panicked
    /\ LET n == CHOOSE n \in Uncloned : \A m \in Uncloned : m[1] <= n[1]
       IN  IF FramesLeft
           THEN Fill(map_job.space, n, taken + 1) /\ taken' = taken + 1 /\ UNCHANGED panicked
           ELSE panicked' = TRUE /\ UNCHANGED <<taken, node_frame>>
    /\ UNCHANGED <<live_spaces, starved, map_job, callVars>>

\* The call returns; a clone hands the child to the scheduler.
JobEnd ==
    /\ map_job.op # "none" /\ ~ panicked
    /\ IF map_job.op = "clone" THEN Uncloned = {} ELSE map_job.page >= map_job.past
    /\ live_spaces' = IF map_job.op = "clone" THEN live_spaces \cup {map_job.space} ELSE live_spaces
    /\ map_job' = NoJob
    /\ UNCHANGED <<node_frame, taken, starved, panicked, callVars>>

AsCalls ==
    \/ \E p \in UserPages .. UserPages + KernelPages - 1 : KernelMap(p, UserPages + KernelPages)
    \/ \E s \in Spaces :
          \/ CreateUserPageTable(s)
          \/ LoadImage(s, 0, BrkBase)
          \/ \E b \in BrkBase * PageBytes .. (BrkBase + AreaPages) * PageBytes : Brk(s, b)
          \/ \E n \in PageCounts, h \in {0, MmapBase} : Mmap(s, n, h)
          \/ \E n \in PageCounts, a \in {0, NativeBase} : MapNativeRegion(s, a, n)
          \/ \E p \in {0, NativeBase} : HandlePageFault(s, p)
          \/ \E t \in Spaces \ {s} : CloneSpace(s, t)

AsJobs == JobFrame \/ JobTable \/ JobLeaf \/ JobKernelLeaf \/ JobFaultLeaf \/ JobClone \/ JobEnd

AsNext == AsCalls \/ AsJobs
AsSpec == AsInit /\ [][AsNext]_asVars

-----------------------------------------------------------------------------
\* No frame serves two purposes: the tables and pages of all processes, and
\* the frame a call is about to map, are different frames, also after a call
\* failed half way, mapped a page again or copied a whole space.
FramesPrivate ==
    /\ \A s, t \in AllSpaces : \A n, m \in Nodes :
          node_frame[s][n] > 0 /\ node_frame[s][n] = node_frame[t][m] => s = t /\ n = m
    /\ \A s \in AllSpaces : \A n \in Nodes :
          node_frame[s][n] > 0 => node_frame[s][n] # map_job.held

\* Every process sees the whole of the kernel's half, for main.rs maps the
\* last of it before the first root is copied.
KernelHalfShared ==
    \A s \in live_spaces : shares[s] = {n \in KernelTop : node_frame["kernel"][n] # 0}

\* Unless frames ran out, every page below the break and below mmap's next
\* address is mapped in the space of the process that asked for it or of a
\* child of it: both marks are global, and a call may start in the middle of
\* a page another process owns.
MarksBacked ==
    (map_job = NoJob /\ ~ starved) =>
        \A p \in BrkBase .. PagesUp(program_break) - 1 \cup MmapBase .. next_mmap - 1 :
            \E s \in live_spaces : node_frame[s][Node(0, p)] # 0
=============================================================================
