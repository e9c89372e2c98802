------------------------------ MODULE Firmware ------------------------------
(***************************************************************************)
(* What the kernel learns from the firmware: acpi.rs walks from the RSDP   *)
(* to the tables, smp.rs turns the processors of the MADT into a topology, *)
(* power.rs takes the reset register from the FADT.                        *)
(*                                                                         *)
(* The firmware is a record: its RSDP, and for each physical address that  *)
(* can be mapped the table there.  A table is known by its signature, its  *)
(* length, whether its checksum is right, and its contents: the addresses  *)
(* of a root table, the entries of a MADT, the fields of a FADT.           *)
(***************************************************************************)
EXTENDS Integers, SequencesExt

SdtHeader == 36
MadtHeader == 44
Rsdp20 == 36
ResetRegisterEnd == 128      \* FADT_OFFSET_RESET_REGISTER + 12
ResetValueAt == 128          \* FADT_OFFSET_RESET_VALUE
FlagsEnd == 116              \* FADT_OFFSET_FLAGS + 4
Absent == [absent |-> TRUE]
Present(value) == [absent |-> FALSE, value |-> value]

\* The bytes an entry of the MADT needs for its fields to be read.
EntryNeeds == "LocalApic" :> 8 @@ "IoApic" :> 12 @@ "Override" :> 10
              @@ "ApicAddress" :> 12 @@ "LocalX2Apic" :> 16 @@ "Other" :> 2

\* How far the walk gets: entries are read while they are at least as long as
\* their header and end in the table.
EntriesRead(table) ==
    LET Ends == [n \in 0 .. Len(table.entries) |->
                    FoldLeft(LAMBDA at, e : at + e.length, MadtHeader, SubSeq(table.entries, 1, n))]
        Good(n) == \A i \in 1 .. n : table.entries[i].length >= 2 /\ Ends[i] <= table.length
    IN  SubSeq(table.entries, 1, Max({n \in 0 .. Len(table.entries) : Good(n)}))

\* parse_madt: the entries long enough for their type.
ParseMadt(table) ==
    LET read == SelectSeq(EntriesRead(table), LAMBDA e : e.length >= EntryNeeds[e.type])
        Of(types) == SelectSeq(read, LAMBDA e : e.type \in types)
        moves == Of({"ApicAddress"})
    IN  IF table.length < MadtHeader THEN Absent
        ELSE Present([local_apic |-> IF moves = <<>> THEN table.local_apic ELSE Last(moves).id,
                      processors |-> Of({"LocalApic", "LocalX2Apic"}),
                      io_apics   |-> Of({"IoApic"}),
                      overrides  |-> Of({"Override"})])

\* parse_fadt and parse_generic_address: a table of the first revision ends before
\* the reset register.
ParseFadt(table) ==
    IF table.length < FlagsEnd THEN Absent
    ELSE Present([register |-> IF table.length >= ResetRegisterEnd THEN Present(table.register)
                               ELSE Absent,
                  value    |-> IF table.length > ResetValueAt THEN table.value ELSE 0,
                  flagged  |-> table.reset_flag])

\* reset_supported, and power::configure.
ResetSupported(fadt) == fadt.flagged /\ ~fadt.register.absent /\ fadt.value # 0

\* The root table that the RSDP names, or 0.
RootAddress(rsdp) ==
    CASE ~rsdp.signature \/ ~rsdp.checksum -> 0
      [] rsdp.signature /\ rsdp.checksum /\ rsdp.revision < 2 -> rsdp.rsdt
      [] OTHER -> IF rsdp.length < Rsdp20 \/ ~rsdp.extended_checksum THEN 0
                  ELSE IF rsdp.xsdt # 0 THEN rsdp.xsdt ELSE rsdp.rsdt

RootKind(rsdp) == IF rsdp.revision >= 2 /\ rsdp.xsdt # 0 THEN "XSDT" ELSE "RSDT"
EntrySize(kind) == IF kind = "XSDT" THEN 8 ELSE 4

\* The tables are taken without summing them.
TableSoundUnsummed(tables, address) ==
    /\ address # 0 /\ address \in DOMAIN tables
    /\ tables[address].length >= SdtHeader

\* A table is used if it can be mapped, is no shorter than its header, and sums to
\* zero.
TableSound(tables, address) ==
    /\ address # 0 /\ address \in DOMAIN tables
    /\ tables[address].length >= SdtHeader
    /\ tables[address].checksum

\* discover: the first MADT and the first FADT that can be parsed.
Discover(firmware) ==
    LET tables == firmware.tables
        kind   == RootKind(firmware.rsdp)
        root   == tables[RootAddress(firmware.rsdp)]
        sound  == /\ TableSound(tables, RootAddress(firmware.rsdp))
                  /\ root.signature = kind
        count  == (root.length - SdtHeader) \div EntrySize(kind)
        listed == SubSeq(root.addresses, 1, count)
        valid  == SelectSeq(listed, LAMBDA a : TableSound(tables, a))
        Named(signature) == SelectSeq(valid, LAMBDA a : tables[a].signature = signature)
        madts  == SelectSeq(Named("MADT"), LAMBDA a : ~ParseMadt(tables[a]).absent)
        fadts  == SelectSeq(Named("FADT"), LAMBDA a : ~ParseFadt(tables[a]).absent)
    IN  IF ~sound THEN Absent
        ELSE Present([count |-> count, valid |-> Len(valid), invalid |-> count - Len(valid),
                      madt  |-> IF madts = <<>> THEN Absent ELSE ParseMadt(tables[Head(madts)]),
                      fadt  |-> IF fadts = <<>> THEN Absent ELSE ParseFadt(tables[Head(fadts)])])

-----------------------------------------------------------------------------
(* smp.rs                                                                  *)

\* build_cpu_entry.
BuildCpuEntry(processor, bsp) ==
    [id |-> processor.id, enabled |-> processor.enabled, online |-> processor.id = bsp]

\* initialize: the processors of the MADT, the one that is running online.
Topology(madt, bsp) ==
    LET cpus == [i \in DOMAIN madt.processors |-> BuildCpuEntry(madt.processors[i], bsp)]
        mine == {i \in DOMAIN cpus : cpus[i].online}
    IN  IF mine = {} THEN Absent ELSE Present([current |-> Max(mine), cpus |-> cpus])

\* first_bringup_target, or 0.
FirstBringupTarget(topology) ==
    LET targets == {i \in DOMAIN topology.cpus : topology.cpus[i].enabled /\ ~topology.cpus[i].online}
    IN  IF targets = {} THEN 0 ELSE Min(targets)

-----------------------------------------------------------------------------
(* What the kernel may conclude                                            *)

\* The processors that discover found.
Processors(found) ==
    IF found.absent THEN <<>>
    ELSE IF found.value.madt.absent THEN <<>> ELSE found.value.madt.value.processors

CanReset(found) ==
    IF found.absent THEN FALSE
    ELSE ~found.value.fadt.absent /\ ResetSupported(found.value.fadt.value)

\* A table that is damaged, cut short or missing costs the kernel processors or
\* the reset register, and never shows it one that the firmware does not have.
DamageOnlyLoses(found, damaged) ==
    /\ IsPrefix(Processors(damaged), Processors(found))
    /\ CanReset(damaged) => CanReset(found)

\* The processor that runs is the one online, and each other enabled processor is
\* to be brought up, the first of them first.
StartsAll(listed, topology, bsp) ==
    LET target == FirstBringupTarget(topology.value)
    IN  IF topology.absent THEN \A i \in DOMAIN listed : listed[i].id # bsp
        ELSE /\ listed[topology.value.current].id = bsp
             /\ \A i \in DOMAIN listed :
                    listed[i].enabled /\ listed[i].id # bsp => target \in 1 .. i
             /\ target # 0 => listed[target].enabled /\ listed[target].id # bsp

TopologyOf(found, bsp) ==
    StartsAll(Processors(found), Topology([processors |-> Processors(found)], bsp), bsp)
=============================================================================
