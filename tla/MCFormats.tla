----------------------------- MODULE MCFormats -----------------------------
(***************************************************************************)
(* The kernel's pure algorithms over every input of a small profile.  A    *)
(* behaviour is one use: Init picks the algorithm and its input, the steps *)
(* compute, the invariants judge the result.                               *)
(***************************************************************************)
EXTENDS Codec, Loader, UserStack, Firmware, TLC

-----------------------------------------------------------------------------
(* The page codec                                                          *)

\* Two words of the real profile, and patterns of both kinds: too short to save
\* anything, as the two of the real profile are, and longer than a word.
MCDictionary == 1 :> <<0, 0, 0, 0>> @@ 2 :> <<255, 255, 0, 0>>
MCPatterns == 1 :> <<255, 0, 255>> @@ 2 :> <<255, 255, 0, 0, 255, 0>> @@ 3 :> <<0, 255, 0, 255, 0>>
MCChecksum(payload) == SumSet({i * payload[i] : i \in DOMAIN payload}) % 251

CONSTANT Bytes               \* the byte values of the pages

MCAuxKeys == <<3, 0>>

-----------------------------------------------------------------------------
(* Archives and the programs in them                                       *)

Names == {<<"a">>, <<"a", "b">>, <<".", "a", "">>, <<"", "a", "", "b">>, <<"..", "a">>,
          <<"">>, <<"dev", "a">>}

Record(name, dir, size) ==
    [name |-> name, dir |-> dir, size |-> size, mode |-> "given",
     header_sound |-> TRUE, name_sound |-> TRUE]

Records == {Record(name, dir, size) : name \in Names, dir \in BOOLEAN, size \in {0, 5}}
End == Record(Trailer, FALSE, 0)

Sound(records) == [records |-> Append(records, End), missing |-> 0]

\* Archives of up to two records: whole, cut short, without a trailer, and with a
\* record whose header or name cannot be read.
Archives ==
    {Sound(<<r>>) : r \in Records} \union {Sound(<<r, q>>) : r, q \in Records}
    \union {[Sound(<<r>>) EXCEPT !.missing = n] : r \in Records, n \in {1, 4, 121, 124, 200}}
    \union {[records |-> <<r, q>>, missing |-> 0] : r, q \in Records}
    \union {[Sound(<<r, q>>) EXCEPT !.records[2].header_sound = h, !.records[2].name_sound = ~h] :
               r, q \in Records, h \in BOOLEAN}

\* The paths programs ask for.
Segments == {"", ".", "..", "a", "b", "dev", "initrd", "hfs"}
Paths == UNION {[1 .. n -> Segments] : n \in 0 .. 3}

-----------------------------------------------------------------------------
(* Programs                                                                *)

Header(type, address, memory, file, flags) ==
    [type |-> type, offset |-> 8, address |-> address, memory_size |-> memory,
     file_size |-> file, writable |-> flags = "rw", executable |-> flags = "rx",
     names |-> <<"a">>]

LoadHeaders == {Header("Load", a, m, f, "rw") : a \in {2, 5, 8, 57, 61}, m \in {0, 2, 5}, f \in {0, 2, 5}}
CodeHeaders == {Header("Load", a, 3, 3, "rx") : a \in {0, 3, 56}}
OtherHeaders == {Header("Interpreter", 0, 2, 2, "r"), Header("Note", 63, 3, 0, "r")}

Elf(headers, length) ==
    [format |-> "Elf", length |-> length, ident_sound |-> TRUE, entry_size |-> 2, table |-> 4,
     entry |-> headers[1].address + 1, headers |-> headers]

Programs ==
    {Elf(<<c, h>>, n) : c \in CodeHeaders, h \in LoadHeaders, n \in {12, 16}}
    \union {Elf(<<c, h, k>>, 16) : c \in CodeHeaders, h \in LoadHeaders, k \in LoadHeaders}
    \union {Elf(<<c, o, h>>, 16) : c \in CodeHeaders, o \in OtherHeaders, h \in LoadHeaders}
    \union {[format |-> "Script", interpreter |-> i, length |-> 4] : i \in {Nil, <<"a">>}}
    \union {[format |-> f, length |-> 4] : f \in {"Text", "Unknown"}}

\* The archive the programs are in, and what the file "a" holds.
ProgramTree == Unpack(Sound(<<Record(<<"a">>, FALSE, 5)>>))
Holding(program) == <<"initrd", "a">> :> program

-----------------------------------------------------------------------------
(* Stacks and firmware                                                     *)

Texts(names, lengths) ==
    UNION {[1 .. n -> {[name |-> s, length |-> l] : s \in names, l \in lengths}] : n \in 0 .. 2}

FrameOrders == {<<0, 1, 2, 3, 4>>, <<2, 3, 4, 0, 1>>, <<0, 1, 2, 4, 3>>}
BlankMemory == [a \in 0 .. StackPages * StackPageBytes - 1 |-> <<"word", 0, 1 + (a % 8)>>]
AuxValues == [k \in DOMAIN AuxKeys |-> IF k = Len(AuxKeys) THEN 0 ELSE 77]

Cpu(type, length, id, enabled) == [type |-> type, length |-> length, id |-> id, enabled |-> enabled]
CpuEntries == {Cpu("LocalApic", 8, 1, TRUE), Cpu("LocalApic", 8, 2, FALSE),
               Cpu("LocalX2Apic", 16, 3, TRUE), Cpu("LocalX2Apic", 8, 4, TRUE),
               Cpu("IoApic", 12, 9, TRUE), Cpu("ApicAddress", 12, 7, TRUE), Cpu("Other", 3, 5, TRUE)}

Table(signature, length) == [signature |-> signature, length |-> length, checksum |-> TRUE]
Madt(entries) ==
    Table("MADT", FoldLeft(LAMBDA n, e : n + e.length, MadtHeader, entries))
        @@ [entries |-> entries, local_apic |-> 6]
Fadt(length) == Table("FADT", length) @@ [register |-> 64, value |-> 6, reset_flag |-> TRUE]
Root(kind, addresses) ==
    Table(kind, SdtHeader + EntrySize(kind) * Len(addresses)) @@ [addresses |-> addresses]

Machine(entries, fadt, revision) ==
    LET kind == IF revision >= 2 THEN "XSDT" ELSE "RSDT"
    IN  [rsdp   |-> [signature |-> TRUE, checksum |-> TRUE, revision |-> revision, length |-> 36,
                     extended_checksum |-> TRUE, rsdt |-> 1, xsdt |-> IF kind = "XSDT" THEN 1 ELSE 0],
         tables |-> 1 :> Root(kind, <<0, 2, 3, 4>>) @@ 2 :> [Madt(<<>>) EXCEPT !.length = 40]
                        @@ 3 :> Fadt(fadt) @@ 4 :> Madt(entries)]

Machines == {Machine(e, fadt, revision) :
                e \in UNION {[1 .. n -> CpuEntries] : n \in 0 .. 3},
                fadt \in {100, 116, 129, 244}, revision \in {0, 2}}

\* A table that is cut, or scrambled so that it no longer sums to zero, or whose
\* address is no longer mapped or listed.
Damaged(machine) ==
    {[machine EXCEPT !.tables[t].length = @ - n] : t \in {1, 3, 4}, n \in {1, 4, 8, 40}}
    \union {[machine EXCEPT !.tables[4].checksum = FALSE, !.tables[4].entries =
                 <<Cpu("LocalApic", 8, 8, TRUE)>>, !.tables[4].length = 52]}
    \union {[machine EXCEPT !.tables[3].checksum = FALSE, !.tables[3].length = 244]}
    \union {[machine EXCEPT !.tables = [t \in DOMAIN @ \ {u} |-> @[t]]] : u \in {1, 3, 4}}
    \union {[machine EXCEPT !.rsdp.checksum = FALSE], [machine EXCEPT !.rsdp.length = 20]}

-----------------------------------------------------------------------------
VARIABLES
    task,                    \* which algorithm
    input,                   \* what it is given
    result                   \* <<>>, then what it computed, step by step

vars == <<task, input, result>>

Init ==
    /\ \/ task = "page" /\ input \in [1 .. PageBytes -> Bytes]
       \/ task = "archive" /\ input \in Archives
       \/ task = "program" /\ input \in Programs
       \/ task = "stack" /\ input \in [argv : Texts({"p", "q"}, {0, 3, 8}), envp : Texts({"e"}, {1, 7}),
                                       frames : FrameOrders]
       \/ task = "firmware" /\ input \in Machines
    /\ result = <<>>

Compute(t, value) ==
    /\ task = t /\ result = <<>>
    /\ result' = <<value>>
    /\ UNCHANGED <<task, input>>

\* CompressionRuntime::encode_page, then decode_page, as pager.rs does when it
\* verifies a round trip.
Encode == Compute("page", EncodePage(input))
Decode ==
    /\ task = "page" /\ Len(result) = 1
    /\ result' = Append(result, DecodePage(result[1]))
    /\ UNCHANGED <<task, input>>

\* initrd::initialize.
UnpackArchive == Compute("archive", Unpack(input))

\* init_exec::spawn_executable, and module_loader::load_modules.
SpawnProgram == Compute("program", Spawn(ProgramTree, Holding(input), <<"a">>))
LoadAsModule ==
    /\ task = "program" /\ Len(result) = 1
    /\ \E prep \in {PrepareExecutableLoad(ProgramTree, Holding(input), <<"initrd", "a">>)} :
           result' = Append(result, IF prep = Nil THEN Nil
                                    ELSE [map |-> prep.map, space |-> LoadModule(prep)])
    /\ UNCHANGED <<task, input>>

\* init_exec::setup_system_v_user_stack.
BuildStack ==
    Compute("stack", SetupUserStack(input.frames, BlankMemory, input.argv, input.envp, AuxValues))

\* acpi::discover.
ReadFirmware == Compute("firmware", Discover(input))

Next == Encode \/ Decode \/ UnpackArchive \/ SpawnProgram \/ LoadAsModule \/ BuildStack \/ ReadFirmware

Spec == Init /\ [][Next]_vars

-----------------------------------------------------------------------------
\* A page that was encoded decodes to itself, whichever class was chosen and
\* however its literal runs are cut, and is compressed only if that makes it
\* smaller; its payload cut short or followed by one more byte does not decode
\* (encode_page, and the length checks of decode_sxrc_payload).
RoundTrip ==
    task = "page" =>
        /\ Len(result) = 2 => result[2] = input
        /\ Len(result) > 0 => EncodedBytes(result[1]) <= HeaderBytes + PageBytes
        /\ Len(result) = 1 /\ result[1].class = "Sxrc" =>
               LET payload == result[1].payload
               IN  /\ Len(payload) < PageBytes
                   /\ \A n \in 0 .. Len(payload) - 1 :
                          DecodeSxrc(SubSeq(payload, 1, n), 1, <<>>) = Invalid
                   /\ \A b \in Bytes : DecodeSxrc(Append(payload, b), 1, <<>>) = Invalid

\* initialize unpacks an archive that is whole into the tree its records describe,
\* and an archive that is cut short or malformed anywhere into nothing.
ArchiveFaithful ==
    task = "archive" /\ result # <<>> =>
        IF WellFormed(input) THEN result[1] # Nil /\ TreeOf(input, result[1])
        ELSE result[1] = Nil

\* lookup gives a file one identity, however its path is spelled, and read finds
\* the node again under the path that lookup returned.
LookupStable ==
    task = "archive" /\ result # <<>> /\ Len(input.records) = 2 /\ result[1] # Nil =>
        \A path \in Paths : LookupConsistent(result[1], path, "b")

\* A program that spawn_executable starts, and a module that load_modules places,
\* has each byte of its file where it was linked to be and zeros after it, as
\* long as its segments ascend or, for a module, share no page.
ImageLoaded ==
    task = "program" =>
        /\ result # <<>> /\ result[1] # Nil => LoadedAsLinked(input, result[1])
        /\ Len(result) = 2 /\ result[2] # Nil =>
               (Apart(result[2].map) => ReadsAs(result[2].space, result[2].map, 0))

\* The program reads its arguments, environment and auxiliary vector back from
\* the stack that setup_system_v_user_stack built, if they fit and no string goes
\* on in a frame that does not follow.
StackDelivered ==
    task = "stack" /\ result # <<>> =>
        StackReadable(input.frames, result[1], input.argv, input.envp, AuxValues)

\* Damaged firmware tables only hide things from discover, and the topology that
\* smp::initialize builds has the running processor online and every other
\* enabled one still to start.
FirmwareUnderstood ==
    task = "firmware" /\ result # <<>> =>
        /\ \A damaged \in Damaged(input) : DamageOnlyLoses(result[1], Discover(damaged))
        /\ \A bsp \in {1, 2, 3, 8} : TopologyOf(result[1], bsp)
=============================================================================
