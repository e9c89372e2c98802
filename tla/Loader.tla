------------------------------ MODULE Loader ------------------------------
(***************************************************************************)
(* From a file to a program that can run: exec.rs parses the image and     *)
(* plans its segments, vfs.rs prepares the load, init_exec.rs places the   *)
(* segments in the user half, maps and fills their pages, and builds the   *)
(* initial stack.                                                          *)
(*                                                                         *)
(* An image is a record: its format, its length in bytes, the fields of    *)
(* the ELF header and the program headers.  The byte at offset k of a file *)
(* is known by its number k + 1, so that a loaded page shows which file    *)
(* byte went where; 0 is a zero byte.                                      *)
(***************************************************************************)
EXTENDS FileTree

CONSTANTS
    AddressLimit,            \* addresses are below it (2^64)
    PageSize,
    UserSpaceBase, UserSpaceLimit,
    MaxProgramHeaders,
    HeaderSize,              \* ELF64_EHDR_SIZE
    ProgramHeaderSize        \* ELF64_PHDR_SIZE

ASSUME LoaderAssumption ==
    /\ PageSize > 0 /\ AddressLimit % PageSize = 0
    /\ UserSpaceBase % PageSize = 0 /\ UserSpaceBase < UserSpaceLimit

AlignDown(v, a) == v - (v % a)
AlignUp(v, a) == AlignDown(v + a - 1, a)

-----------------------------------------------------------------------------
(* exec.rs                                                                 *)

\* What parse_elf64 asks of each program header.
HeaderSound(image, header) ==
    /\ header.file_size <= header.memory_size
    /\ header.file_size > 0 => header.offset + header.file_size <= image.length
    /\ header.memory_size > 0 => header.address + header.memory_size < AddressLimit

\* The first program header that names an interpreter, or 0.
InterpreterOf(headers) ==
    LET named == {i \in DOMAIN headers : headers[i].type = "Interpreter" /\ headers[i].file_size > 0}
    IN  IF named = {} THEN 0 ELSE Min(named)

\* parse_elf64: the identification, the version, the sizes and the bounds of the
\* header table, then each header.
ParseElf64(image) ==
    LET count == Len(image.headers)
        sound == /\ image.length >= HeaderSize /\ image.ident_sound
                 /\ count <= MaxProgramHeaders
                 /\ count > 0 => /\ image.entry_size >= ProgramHeaderSize
                                 /\ image.table + image.entry_size * count <= image.length
                 /\ \A i \in DOMAIN image.headers : HeaderSound(image, image.headers[i])
    IN  IF sound THEN [format |-> "Elf", entry |-> image.entry, headers |-> image.headers]
        ELSE Nil

\* inspect, and detect_kind.  parse_shebang needs a token on the first line; a
\* script without one is plain text.
Inspect(image) ==
    CASE image.format = "Elf" -> ParseElf64(image)
      [] image.format = "Script" ->
             IF image.interpreter = Nil THEN [format |-> "Text"]
             ELSE [format |-> "Script", interpreter |-> image.interpreter]
      [] OTHER -> [format |-> image.format]

\* build_load_plan: one entry for each loadable header, or an overflow.
BuildLoadPlan(headers) ==
    LET loads == SelectSeq(headers, LAMBDA h : h.type = "Load")
        ends  == {h.address + h.memory_size : h \in ToSet(loads)}
    IN  IF \E end \in ends : end >= AddressLimit \/ end + PageSize - 1 >= AddressLimit THEN Nil
        ELSE [i \in DOMAIN loads |->
                 [offset    |-> loads[i].offset,
                  start     |-> loads[i].address,
                  end       |-> loads[i].address + loads[i].memory_size,
                  map_start |-> AlignDown(loads[i].address, PageSize),
                  map_end   |-> AlignUp(loads[i].address + loads[i].memory_size, PageSize),
                  bytes     |-> loads[i].file_size,
                  writable  |-> loads[i].writable, executable |-> loads[i].executable]]

-----------------------------------------------------------------------------
(* vfs.rs                                                                  *)

\* discover_executable and read_executable_bytes: a file of the archive whose
\* contents parse.  "images" gives the file at a path its contents.
DiscoverNode(images, node) ==
    IF \/ node = Nil \/ node.kind # "file" \/ node.mount # "initrd"
       \/ Inspect(images[node.path]) = Nil
    THEN Nil ELSE [node |-> node, image |-> Inspect(images[node.path])]

DiscoverExecutable(entries, images, path) == DiscoverNode(images, Lookup(entries, path))

\* The path of the interpreter that an ELF file or a script names, or Nil.
RuntimePathOf(image) ==
    CASE image.format = "Elf" /\ InterpreterOf(image.headers) # 0 ->
             image.headers[InterpreterOf(image.headers)].names
      [] image.format = "Script" -> image.interpreter
      [] OTHER -> Nil

\* prepare_executable_load, of the file that was found: the plan of an ELF file
\* and its interpreter, resolved.
PrepareFound(entries, found) ==
    LET image == found.image
        plan  == IF image.format = "Elf" THEN BuildLoadPlan(image.headers) ELSE <<>>
        asked == RuntimePathOf(image)
    IN  IF found = Nil THEN Nil
        ELSE IF plan = Nil THEN Nil
        ELSE [path    |-> found.node.path,
              format  |-> image.format,
              entry   |-> IF image.format = "Elf" THEN image.entry ELSE Nil,
              map     |-> plan,
              through |-> IF asked = Nil THEN Nil ELSE ResolveRuntimePath(entries, asked)]

PrepareExecutableLoad(entries, images, path) ==
    PrepareFound(entries, DiscoverExecutable(entries, images, path))

-----------------------------------------------------------------------------
(* init_exec.rs                                                            *)

\* The user address of an image address: an image linked above the user half is
\* moved down to USER_SPACE_BASE.
UserAddress(map, address) ==
    LET low == Min({map[i].map_start : i \in DOMAIN map})
    IN  (IF low < UserSpaceLimit THEN low ELSE UserSpaceBase) + (address - low)

\* build_activation.
BuildActivation(prep, length) ==
    LET map     == prep.map
        running == {i \in DOMAIN map : map[i].executable}
        entered == {i \in running : map[i].start <= prep.entry /\ prep.entry < map[i].end}
        U(a)    == UserAddress(map, a)
    IN  IF \/ prep.format # "Elf" \/ map = <<>> \/ entered = {}
           \/ \E i \in DOMAIN map : map[i].offset + map[i].bytes > length
        THEN Nil
        ELSE [entry    |-> U(prep.entry),
              vm_start |-> U(Min({map[i].map_start : i \in DOMAIN map})),
              vm_end   |-> U(Max({map[i].map_end : i \in DOMAIN map})),
              ph_addr  |-> U(Min({map[i].map_start : i \in DOMAIN map})) + HeaderSize,
              segments |-> [i \in DOMAIN map |->
                  [map[i] EXCEPT !.start = U(@), !.end = U(@), !.map_start = U(@), !.map_end = U(@)]]]

\* The address space being filled: the frame each page is mapped to, whether
\* that page may be written, the bytes of the frames, and the page mapped last.
EmptySpace == [frame_of |-> <<>>, writable |-> {}, frames |-> <<>>, last |-> Nil]

\* The byte that copying a segment leaves at offset k of a page, over "old".
Copied(segment, page, k, old) ==
    IF segment.start <= page + k /\ page + k < segment.start + segment.bytes
    THEN segment.offset + (page + k - segment.start) + 1
    ELSE old

\* A page that a segment shares with the one before it gets a frame of its own.
FrameForFresh(space, page) == Len(space.frames) + 1

\* map_segment_pages: only the page mapped last keeps its frame.
FrameFor(space, page) == IF page = space.last THEN Len(space.frames) ELSE Len(space.frames) + 1

\* A page of a segment gets a frame, fresh ones cleared, and the file bytes that
\* fall into it.  map_user_page and map_kernel_page leave a page that is mapped
\* as it is; the bytes go to the frame at hand all the same.
Place(space, segment, page, frame) ==
    LET old   == IF frame > Len(space.frames) THEN [k \in 0 .. PageSize - 1 |-> 0]
                 ELSE space.frames[frame]
        fill  == [k \in 0 .. PageSize - 1 |-> Copied(segment, page, k, old[k])]
        fresh == page \notin DOMAIN space.frame_of
    IN  [frame_of |-> IF fresh THEN (page :> frame) @@ space.frame_of ELSE space.frame_of,
         writable |-> IF fresh /\ segment.writable THEN space.writable \union {page}
                      ELSE space.writable,
         frames   |-> IF frame > Len(space.frames) THEN Append(space.frames, fill)
                      ELSE [space.frames EXCEPT ![frame] = fill],
         last     |-> page]

PagesOf(segment) ==
    [n \in 1 .. (segment.map_end - segment.map_start) \div PageSize |->
        segment.map_start + (n - 1) * PageSize]

\* map_segment_pages.
MapSegment(space, segment) ==
    FoldLeft(LAMBDA sp, page : Place(sp, segment, page, FrameFor(sp, page)), space, PagesOf(segment))

\* The loops of spawn_init_process and spawn_executable over the segments.
MapSegments(activation) == FoldLeft(MapSegment, EmptySpace, activation.segments)

\* load_modules of module_loader.rs, for a module whose load was prepared: each
\* page of each segment gets a frame of its own, where the module was linked.
LoadModule(prep) ==
    LET PlaceAll(space, segment) ==
            FoldLeft(LAMBDA sp, page : Place(sp, segment, page, Len(sp.frames) + 1),
                     space, PagesOf(segment))
    IN  IF prep.entry = Nil THEN EmptySpace ELSE FoldLeft(PlaceAll, EmptySpace, prep.map)

\* The byte a program reads at an address, Nil where nothing is mapped.
ByteAt(space, address) ==
    LET page == AlignDown(address, PageSize)
    IN  IF page \notin DOMAIN space.frame_of THEN Nil
        ELSE space.frames[space.frame_of[page]][address - page]

\* Spawning the program at a path: its memory and its first instruction.
Activate(activation) ==
    IF activation = Nil THEN Nil
    ELSE [activation |-> activation, space |-> MapSegments(activation)]

SpawnPrepared(prep, images) ==
    IF prep = Nil THEN Nil ELSE Activate(BuildActivation(prep, images[prep.path].length))

Spawn(entries, images, path) ==
    SpawnPrepared(PrepareExecutableLoad(entries, images, path), images)

\* The segments ascend without overlapping, as the ELF specification has them.
Ascending(map) ==
    \A i, j \in DOMAIN map : i < j => map[i].end <= map[j].start

\* No two segments touch the same page.
Apart(map) ==
    \A i, j \in DOMAIN map :
        i = j \/ map[i].map_end <= map[j].map_start \/ map[j].map_end <= map[i].map_start

\* Every byte of a segment reads as its file byte, and then as zeros.
ReadsAs(space, map, moved) ==
    \A i \in DOMAIN map : \A k \in 0 .. map[i].end - map[i].start - 1 :
        ByteAt(space, map[i].start + k + moved)
            = IF k < map[i].bytes THEN map[i].offset + k + 1 ELSE 0

\* A program finds its bytes at the place it was linked for, moved as a whole; a
\* page that only one segment touches can be written exactly if that segment
\* can; the entry is mapped.
LoadedAsLinked(image, loaded) ==
    LET map   == BuildLoadPlan(image.headers)
        moved == loaded.activation.vm_start - Min({map[i].map_start : i \in DOMAIN map})
        Users(page) == {i \in DOMAIN map : map[i].map_start <= page /\ page < map[i].map_end}
    IN  /\ Ascending(map) => ReadsAs(loaded.space, map, moved)
        /\ \A page \in DOMAIN loaded.space.frame_of : \A i \in DOMAIN map :
               Users(page - moved) = {i} => (page \in loaded.space.writable <=> map[i].writable)
        /\ moved % PageSize = 0
        /\ ByteAt(loaded.space, loaded.activation.entry) # Nil
=============================================================================
