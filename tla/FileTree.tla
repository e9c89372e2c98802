------------------------------ MODULE FileTree ------------------------------
(***************************************************************************)
(* The file tree: initrd.rs unpacks a cpio archive into a list of entries, *)
(* vfs.rs resolves the paths that programs name to nodes of that list, of  *)
(* the device and process file systems and of the HFS namespace.           *)
(*                                                                         *)
(* A path is the sequence of its segments, a slash between each two: "/a/" *)
(* is <<"", "a", "">>.  An archive is the sequence of its records and the  *)
(* bytes missing at its end; its bytes are known by the offset at which    *)
(* each record starts, so that a header read anywhere else is not one.     *)
(***************************************************************************)
EXTENDS Integers, SequencesExt

CONSTANTS
    DevNodes,                \* the names under /dev
    ProcFiles,               \* the names under /proc
    Nil                      \* None, and every error

NewcHeader == 110            \* NEWC_HEADER_LEN
Trailer == <<"TRAILER!!!">>
DefaultMode == "default"     \* DEFAULT_DIRECTORY_MODE
Mounts == {"dev", "boot", "initrd", "proc", "hfs"}

Align4(n) == ((n + 3) \div 4) * 4

\* The bytes of a record's name: its segments, the slashes, the final NUL.
NameSize(name) == FoldLeft(LAMBDA sum, seg : sum + Len(seg), Len(name), name)

\* Where the program that writes an archive puts its i-th record: header and
\* name are padded to four bytes together, and so is the data.
RecordEnd(at, record) == Align4(Align4(at + NewcHeader + NameSize(record.name)) + record.size)
RecordAt(archive, i) == FoldLeft(RecordEnd, 0, SubSeq(archive.records, 1, i - 1))
ArchiveBytes(archive) == RecordAt(archive, Len(archive.records) + 1) - archive.missing

-----------------------------------------------------------------------------
(* initrd.rs                                                               *)

TrimSlashes(name) ==
    LET named == {i \in DOMAIN name : name[i] # ""}
    IN  IF named = {} THEN <<>> ELSE SubSeq(name, Min(named), Max(named))

\* normalize_archive_path, without the prefix "/initrd".
NormalizeArchivePath(name) ==
    LET trimmed == TrimSlashes(name)
        path    == IF Len(trimmed) > 1 /\ trimmed[1] = "." THEN Tail(trimmed) ELSE trimmed
    IN  CASE path \in {<<>>, <<".">>} -> <<>>
          [] \E i \in DOMAIN path : path[i] = ".." -> Nil
          [] OTHER -> path

Entry(path, dir, mode, size) == [path |-> path, dir |-> dir, mode |-> mode, size |-> size]

\* find_entry, or 0.
FindEntry(entries, path) ==
    LET found == {i \in DOMAIN entries : entries[i].path = path}
    IN  IF found = {} THEN 0 ELSE Min(found)

PushDirectory(entries, path, mode) ==
    LET same == {i \in DOMAIN entries : entries[i].dir /\ entries[i].path = path}
    IN  IF same = {} THEN Append(entries, Entry(path, TRUE, mode, 0))
        ELSE [entries EXCEPT ![Min(same)].mode = mode]

EnsureParents(entries, path) ==
    LET Push(es, n) == PushDirectory(es, SubSeq(path, 1, n), DefaultMode)
    IN  FoldLeft(Push, entries, [n \in 1 .. Len(path) - 1 |-> n])

\* What one record adds to the tree.
AddRecord(entries, path, record) ==
    LET parents == EnsureParents(entries, path)
    IN  IF record.dir THEN PushDirectory(parents, path, record.mode)
        ELSE Append(parents, Entry(path, FALSE, record.mode, record.size))

\* The next header is looked for right after the data.
NextHeaderUnaligned(data, size) == data + size

NextHeader(data, size) == Align4(data + size)

\* parse_newc_archive from the header at "at": the magic and the numbers of the
\* header, the bounds and the terminator of the name, the trailer, the path,
\* the bounds of the data.
RECURSIVE ParseNewc(_, _, _)
ParseNewc(archive, at, entries) ==
    LET bytes  == ArchiveBytes(archive)
        here   == {i \in DOMAIN archive.records : RecordAt(archive, i) = at}
        record == archive.records[Max(here)]
        data   == Align4(at + NewcHeader + NameSize(record.name))
        path   == NormalizeArchivePath(record.name)
        next   == NextHeader(data, record.size)
    IN  IF \/ at + NewcHeader > bytes \/ here = {} \/ ~record.header_sound
           \/ data > bytes \/ ~record.name_sound
        THEN Nil
        ELSE IF record.name = Trailer THEN entries
        ELSE IF path = Nil \/ next > bytes THEN Nil
        ELSE ParseNewc(archive, next, AddRecord(entries, path, record))

\* initialize.
Unpack(archive) == ParseNewc(archive, 0, <<Entry(<<>>, TRUE, DefaultMode, 0)>>)

\* render_directory: the names of the direct children, in archive order.
Children(entries, path) ==
    LET child(e) == /\ Len(e.path) = Len(path) + 1 /\ IsPrefix(path, e.path)
                    /\ Last(e.path) # ""
        listed   == SelectSeq(entries, child)
    IN  [i \in DOMAIN listed |-> Last(listed[i].path)]

-----------------------------------------------------------------------------
(* vfs.rs                                                                  *)

\* ".." is dropped like ".", and the segment before it stays.
StepSegmentFlat(path, seg) ==
    CASE path = Nil \/ seg \in {"", ".", ".."} -> path
      [] OTHER -> Append(path, seg)

\* One turn of the loop of normalize_path: above the root there is nothing.
StepSegment(path, seg) ==
    CASE path = Nil \/ seg \in {"", "."} -> path
      [] seg = ".." -> IF path = <<>> THEN Nil ELSE Front(path)
      [] OTHER -> Append(path, seg)

\* normalize_path of an absolute path: the segments after the first slash.
NormalizePath(segments) == FoldLeft(StepSegment, <<>>, segments)

Node(path, mount, kind) == [path |-> path, mount |-> mount, kind |-> kind]

\* resolve_devfs_node and resolve_procfs_node: a root and its fixed names.
FixedNode(path, mount, names, kind) ==
    CASE Len(path) = 1 -> Node(path, mount, "directory")
      [] Len(path) = 2 /\ path[2] \in names -> Node(path, mount, kind)
      [] OTHER -> Nil

\* resolve_initrd_node and initrd::node_info.
InitrdNode(entries, path) ==
    LET i == FindEntry(entries, Tail(path))
    IN  IF i = 0 THEN Nil
        ELSE Node(path, "initrd", IF entries[i].dir THEN "directory" ELSE "file")

\* resolve_node.  No block device ever registers, so fat.rs never finds a file.
ResolveNode(entries, path) ==
    CASE path = <<>> -> Node(path, "root", "directory")
      [] path # <<>> /\ path[1] = "dev" -> FixedNode(path, "devfs", DevNodes, "device")
      [] path # <<>> /\ path[1] = "boot" -> Nil
      [] path # <<>> /\ path[1] = "initrd" -> InitrdNode(entries, path)
      [] path # <<>> /\ path[1] = "proc" -> FixedNode(path, "procfs", ProcFiles, "file")
      [] path # <<>> /\ path[1] = "hfs" ->
             Node(path, "hfs", IF Len(path) = 1 THEN "directory" ELSE "file")
      [] OTHER -> InitrdNode(entries, <<"initrd">> \o path)

Lookup(entries, segments) ==
    LET path == NormalizePath(segments)
    IN  IF path = Nil THEN Nil ELSE ResolveNode(entries, path)

\* resolve_runtime_path: an interpreter is looked for in the archive as well.
ResolveRuntimePath(entries, segments) ==
    LET path  == NormalizePath(segments)
        node  == Lookup(entries, path)
        below == Lookup(entries, <<"initrd">> \o path)
    IN  CASE path = Nil -> Nil
          [] path # Nil /\ node # Nil -> node.path
          [] path # Nil /\ node = Nil /\ path[1] = "initrd" -> Nil
          [] OTHER -> IF below = Nil THEN Nil ELSE below.path

-----------------------------------------------------------------------------
(* What the two promise                                                    *)

\* The paths the archive's records name, in order, the trailer left out.
RecordPaths(archive) ==
    [i \in 1 .. Len(archive.records) - 1 |-> NormalizeArchivePath(archive.records[i].name)]

WellFormed(archive) ==
    /\ archive.missing = 0
    /\ Last(archive.records).name = Trailer
    /\ \A i \in DOMAIN archive.records :
           archive.records[i].header_sound /\ archive.records[i].name_sound
    /\ \A i \in DOMAIN RecordPaths(archive) : RecordPaths(archive)[i] # Nil

\* Every record is found under its path, the first file of several with its
\* own size; every directory on the way is found and lists it; and there is
\* nothing that no record named.
TreeOf(archive, entries) ==
    LET paths == RecordPaths(archive)
        Files(p) == {i \in DOMAIN paths : paths[i] = p /\ ~archive.records[i].dir}
    IN  /\ \A i \in DOMAIN paths :
               LET e == entries[FindEntry(entries, paths[i])]
               IN  /\ FindEntry(entries, paths[i]) # 0
                   /\ e.dir \/ e.size = archive.records[Min(Files(paths[i]))].size
                   /\ \A n \in 0 .. Len(paths[i]) - 1 :
                          /\ FindEntry(entries, SubSeq(paths[i], 1, n)) # 0
                          /\ \/ paths[i][n + 1] = ""
                             \/ Contains(Children(entries, SubSeq(paths[i], 1, n)), paths[i][n + 1])
        /\ \A j \in DOMAIN entries :
               entries[j].path = <<>> \/ \E i \in DOMAIN paths : IsPrefix(entries[j].path, paths[i])

\* A node is found again under its own path, which is how open_path_at reads it;
\* a spelling with a redundant segment finds the same node; and a path of the
\* archive needs its "/initrd" only where a mount point hides it.
LookupConsistent(entries, segments, name) ==
    LET node == Lookup(entries, segments)
        path == NormalizePath(segments)
        Spelled(with) == {Lookup(entries, SubSeq(segments, 1, n) \o with
                                          \o SubSeq(segments, n + 1, Len(segments))) :
                              n \in 0 .. Len(segments)}
    IN  /\ node # Nil => Lookup(entries, node.path) = node
        /\ \A with \in {<<"">>, <<".">>, <<name, "..">>} : Spelled(with) = {node}
        /\ path \notin {Nil, <<>>} =>
               (path[1] \notin Mounts =>
                    /\ node = Lookup(entries, <<"initrd">> \o segments)
                    /\ node # Nil => ResolveRuntimePath(entries, segments) = node.path)
=============================================================================
