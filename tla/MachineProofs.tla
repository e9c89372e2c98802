---------------------------- MODULE MachineProofs ----------------------------
(***************************************************************************)
(* How the machine is set up: the order in which _start brings up its      *)
(* services, for every number of ticks; G-Boot's way to the kernel, for    *)
(* every length of its polls; and the page tables, for any number of       *)
(* spaces, frames, levels and pages.  Bring-up is straight-line code: its  *)
(* inductive invariants say what has come up, and what has been written,   *)
(* by the time the code is at a given place.                               *)
(***************************************************************************)
EXTENDS Boot, GBoot, AddressSpace, TLAPS

-----------------------------------------------------------------------------
(* _start of main.rs.                                                      *)

\* The places of _start from which a service is up, last places first.
WithSched == {"spawn", "probe_open", "probe_close", "bridge", "idle"}
WithVfs == WithSched \cup {"hfs", "modules", "consoles", "self_test", "display", "activate",
                           "sched", "sched_wait"}
WithDevfs == WithVfs \cup {"initrd", "vfs"}
WithProcfs == WithDevfs \cup {"devfs"}
WithIdt == WithProcfs \cup {"timer", "timer_wait", "acpi", "procfs"}
WithHeap == WithIdt \cup {"supernova", "tables"}
WithTty == WithHeap \cup {"memory", "heap"}

\* Whatever the machine offered, these services are up at these places.
ServicesUp ==
    /\ stage \in WithTty \cup {"tty"} => "clock" \in online
    /\ stage \in WithTty => "tty" \in online
    /\ stage \in WithHeap => "frames" \in online /\ "heap" \in online
    /\ stage \in WithIdt => "idt" \in online
    /\ stage \in WithSched \cup {"timer_wait", "sched_wait"} => "apic" \in online
    /\ stage \in WithProcfs => "procfs" \in online
    /\ stage \in WithDevfs => "devfs" \in online
    /\ stage \in WithVfs => "vfs" \in online
    /\ stage \in WithSched => "sched" \in online

\* A file system that is yet to be initialised is not up.
NotTwice ==
    /\ "procfs" \in online => stage \in WithProcfs \cup {"halted", "reset"}
    /\ "devfs" \in online => stage \in WithDevfs \cup {"halted", "reset"}
    /\ "vfs" \in online => stage \in WithVfs \cup {"halted", "reset"}

\* Of the ticks counted in the bootstrap window all but one are the periodic
\* timer's; the one is used up when a latched one-shot is taken.
WindowCounts ==
    stage = "sched_wait" =>
        /\ lvt = "periodic"
        /\ ticks <= fired + 1
        /\ pending = "oneshot" => ticks <= fired

BootTypes ==
    /\ lvt \in {"masked", "oneshot", "periodic"}
    /\ pending \in {"none", "oneshot", "periodic"}
    /\ ticks \in Nat /\ fired \in Nat

BootInv ==
    /\ BootTypes
    /\ ServicesUp
    /\ NotTwice
    /\ WindowCounts
    /\ BootOrderSound
    /\ stage = "bridge" => open_files = 0
    /\ InterruptsOnlyInWaits
    /\ BootstrapProvesTimer

-----------------------------------------------------------------------------
(* G-Boot.                                                                 *)

\* The steps of _start_rust, last first, grouped by what they come after.
AfterGic == {"fp", "flush_range", "flush_all", "mmu", "tlb", "icache", "enter", "kernel"}
AfterRange == AfterGic \ {"fp", "flush_range"}
AfterMmu == {"tlb", "icache", "enter", "kernel"}
AfterAlveo == AfterGic \cup {"chain", "gic", "linux"}
AfterTouch == AfterAlveo \cup {"alveo", "alveo_poll_a", "alveo_poll_t"}
AfterGui == AfterTouch \cup {"touch", "touch_poll"}
AfterRelease == AfterGui \cup {"pll_poll", "gui", "gui_poll"}
AfterPhyReset == AfterRelease \cup {"release_ctrl"}
AfterPhyRelease == AfterPhyReset \cup {"phy_reset"}
AfterClocks == AfterPhyRelease \cup {"assert", "release_phy"}
AfterClock28 == AfterClocks \cup {"clock29"}
AfterPower == AfterClock28 \cup {"power_poll", "clock28"}
AfterPhy == AfterPower \cup {"power"}
AfterPhp == AfterPhy \cup {"phy"}
AfterSoc == AfterPhp \cup {"php"}

\* No write has changed a bit outside the ones the sequence settles.
NeighboursKept ==
    /\ DOMAIN gb_grf = DOMAIN Settled
    /\ \A r \in DOMAIN Settled : gb_grf[r] \ Settled[r] = gb_first[r] \ Settled[r]

\* The bits settled so far have their value, and the later writes to the same
\* register leave them alone.
BitsSettled ==
    /\ gb_at \in AfterSoc => 4 \in gb_grf["SOC_CON0"]
    /\ gb_at \in AfterPhp => 0 \in gb_grf["PHP_CON0"]
    /\ gb_at \in AfterPhy => 0 \in gb_grf["PHY_CON0"] /\ 1 \notin gb_grf["PHY_CON0"]
    /\ gb_at \in AfterPower => 4 \notin gb_grf["PD_CON"]
    /\ gb_at \in AfterClock28 => gb_grf["CLKGATE28"] \cap {0, 1, 2} = {}
    /\ gb_at \in AfterClocks => gb_grf["CLKGATE29"] \cap {4, 5} = {}
    /\ gb_at \in AfterPhyRelease => 3 \notin gb_grf["SOFTRST28"]
    /\ gb_at \in AfterPhyReset => 4 \in gb_grf["PHY_CON0"]
    /\ gb_at \in AfterRelease => gb_grf["SOFTRST28"] \cap {0, 1, 2} = {}

DriversReady ==
    /\ DOMAIN gb_driver = {"gui", "touch", "alveo"}
    /\ gb_at \in AfterGui => gb_driver["gui"] = "Ready"
    /\ gb_at \in AfterTouch => gb_driver["touch"] = "Ready"
    /\ gb_at \in AfterAlveo => gb_driver["alveo"] = "Ready"

TornDown ==
    /\ gb_at # "reset" => gb_daif
    /\ gb_at \in AfterGic => gb_gic = {}
    /\ gb_at \in AfterGic \ {"fp"} => gb_fp
    /\ gb_at \in AfterRange => gb_dirty \cap {"kernel", "dtb"} = {}
    /\ gb_at \in AfterMmu => ~gb_cache
    /\ gb_stale \subseteq {"tlb", "icache"}
    /\ gb_at \in AfterMmu \ {"tlb"} => "tlb" \notin gb_stale
    /\ gb_at \in {"enter", "kernel"} => "icache" \notin gb_stale
    /\ gb_at = "kernel" => gb_el = 1

GBootInv == NeighboursKept /\ BitsSettled /\ DriversReady /\ TornDown

\* Every step of _start, and every interrupt that reaches it, keeps BootInv.
LEMMA BootStep == BootInv /\ [Next]_vars => BootInv'
<1> SUFFICES ASSUME BootInv, [Next]_vars PROVE BootInv'
  OBVIOUS
<1> USE BootAssumption
    DEF BootInv, BootTypes, ServicesUp, NotTwice, WindowCounts, BootOrderSound,
        InterruptsOnlyInWaits, BootstrapProvesTimer, WithSched, WithVfs, WithDevfs, WithProcfs,
        WithIdt, WithHeap, WithTty, machine, thread, Stage, Halt
<1>1. CASE Entry
  BY <1>1 DEF Entry
<1>2. CASE TtyOnline
  BY <1>2 DEF TtyOnline
<1>3. CASE MemoryStage
  BY <1>3 DEF MemoryStage
<1>4. CASE HeapStage
  BY <1>4 DEF HeapStage
<1>5. CASE SupernovaStage
  BY <1>5 DEF SupernovaStage
<1>6. CASE DescriptorTables
  BY <1>6 DEF DescriptorTables
<1>7. CASE TimerArm
  BY <1>7 DEF TimerArm
<1>8. CASE TimerSettle
  BY <1>8 DEF TimerSettle
<1>9. CASE AcpiStage
  BY <1>9 DEF AcpiStage, SmpInitialize, PowerConfigure
<1>10. CASE ProcfsStage
  BY <1>10 DEF ProcfsStage, FileSystem
<1>11. CASE DevfsStage
  BY <1>11 DEF DevfsStage, FileSystem
<1>12. CASE InitrdStage
  BY <1>12 DEF InitrdStage
<1>13. CASE VfsStage
  BY <1>13 DEF VfsStage, FileSystem
<1>14. CASE HfsStage
  BY <1>14 DEF HfsStage
<1>15. CASE ModulesStage
  BY <1>15 DEF ModulesStage
<1>16. CASE ConsolesStage
  BY <1>16 DEF ConsolesStage
<1>17. CASE SelfTestStage
  BY <1>17 DEF SelfTestStage, PowerReset
<1>18. CASE DisplayStage
  BY <1>18 DEF DisplayStage
<1>19. CASE ActivateStage
  BY <1>19 DEF ActivateStage
<1>20. CASE BootstrapArm
  BY <1>20 DEF BootstrapArm
<1>21. CASE BootstrapDone
  BY <1>21 DEF BootstrapDone
<1>22. CASE BootstrapTimeout
  BY <1>22 DEF BootstrapTimeout
<1>23. CASE SpawnStage
  BY <1>23 DEF SpawnStage
<1>24. CASE LinuxProbe
  BY <1>24 DEF LinuxProbe, ProbeOpen
<1>25. CASE GhostProbe
  BY <1>25 DEF GhostProbe, ProbeOpen
<1>26. CASE HxnuProbe
  BY <1>26 DEF HxnuProbe, ProbeOpen
<1>27. CASE InterruptProbe
  BY <1>27 DEF InterruptProbe, ProbeOpen
<1>28. CASE ProbeClose
  BY <1>28 DEF ProbeClose, ProbeCount
<1>29. CASE BridgeStage
  BY <1>29 DEF BridgeStage
<1>30. CASE TimerExpires
  BY <1>30 DEF TimerExpires
<1>31. CASE TimerInterrupt
  <2>1. stage \in {"timer_wait", "sched_wait"} /\ {"idt", "apic"} \subseteq online
    BY <1>31 DEF TimerInterrupt
  <2>2. missing' = {}
    BY <1>31, <2>1 DEF TimerInterrupt
  <2>3. BootTypes' /\ WindowCounts' /\ BootstrapProvesTimer'
    BY <1>31 DEF TimerInterrupt
  <2>4. ServicesUp' /\ NotTwice' /\ BootOrderSound'
    BY <1>31, <2>2 DEF TimerInterrupt
  <2>5. InterruptsOnlyInWaits'
    BY <1>31, <2>1 DEF TimerInterrupt
  <2>6. (stage = "bridge" => open_files = 0)'
    BY <1>31 DEF TimerInterrupt
  <2> HIDE DEF BootTypes, ServicesUp, NotTwice, WindowCounts, BootOrderSound,
               InterruptsOnlyInWaits, BootstrapProvesTimer
  <2> QED BY <2>3, <2>4, <2>5, <2>6
<1>32. CASE Stopped
  BY <1>32 DEF Stopped, vars
<1>33. CASE UNCHANGED vars
  BY <1>33 DEF vars
<1> QED
  BY Zenon, <1>1, <1>2, <1>3, <1>4, <1>5, <1>6, <1>7, <1>8, <1>9, <1>10, <1>11, <1>12, <1>13, <1>14, <1>15, <1>16, <1>17,
     <1>18, <1>19, <1>20, <1>21, <1>22, <1>23, <1>24, <1>25, <1>26, <1>27, <1>28, <1>29, <1>30, <1>31, <1>32, <1>33
     DEF Next, Stages

\* In every boot, whatever the loader and the firmware leave out: no part of
\* _start uses a service that is not up (BootOrderSound), interrupts are enabled
\* in the two waits only (InterruptsOnlyInWaits), and a bootstrap that succeeds
\* has seen the periodic timer tick (BootstrapProvesTimer).
THEOREM BootSound == Spec => [](BootOrderSound /\ InterruptsOnlyInWaits /\ BootstrapProvesTimer)
<1>1. Init => BootInv
  BY DEF Init, BootInv, BootTypes, ServicesUp, NotTwice, WindowCounts, BootOrderSound,
         InterruptsOnlyInWaits, BootstrapProvesTimer, WithSched, WithVfs, WithDevfs,
         WithProcfs, WithIdt, WithHeap, WithTty
<1>2. BootInv => BootOrderSound /\ InterruptsOnlyInWaits /\ BootstrapProvesTimer
  BY DEF BootInv
<1> QED BY <1>1, <1>2, BootStep, PTL DEF Spec

\* interrupts::enable and the hlt loops of the two timer windows are the only
\* places of the boot at which an interrupt can come.
THEOREM InterruptsAreContained == Spec => []InterruptsOnlyInWaits
  BY BootSound, PTL

\* sched::bootstrap reports success only after the periodic timer has ticked; at
\* most one tick it counted is a late one-shot of the first window.
THEOREM TicksAreTheTimers == Spec => []BootstrapProvesTimer
  BY BootSound, PTL

-----------------------------------------------------------------------------
Registers == {"SOC_CON0", "PHP_CON0", "PHY_CON0", "PD_CON", "CLKGATE28", "CLKGATE29",
              "SOFTRST28"}

\* The registers init_pcie_endpoint settles, and the bits it settles in each.
LEMMA SettledFacts ==
    /\ DOMAIN Settled = Registers /\ DOMAIN RegisterBits = Registers
    /\ DOMAIN Raised = Registers
    /\ Settled["SOC_CON0"] = {4} /\ Settled["PHP_CON0"] = {0}
    /\ Settled["PHY_CON0"] = {0, 1, 4} /\ Settled["PD_CON"] = {4}
    /\ Settled["CLKGATE28"] = {0, 1, 2} /\ Settled["CLKGATE29"] = {4, 5}
    /\ Settled["SOFTRST28"] = {0, 1, 2, 3}
  BY DEF Settled, Raised, RegisterBits, Registers

\* Of the bits it settles, these end as 1.
LEMMA RaisedFacts ==
    /\ Raised["SOC_CON0"] = {4} /\ Raised["PHP_CON0"] = {0} /\ Raised["PHY_CON0"] = {0, 4}
    /\ Raised["PD_CON"] = {} /\ Raised["CLKGATE28"] = {} /\ Raised["CLKGATE29"] = {}
    /\ Raised["SOFTRST28"] = {}
  BY SettledFacts DEF Raised, Registers

\* write_enable_mask leaves the bits outside its mask alone, and gives those
\* inside it their new value.
LEMMA MaskedWriteFacts ==
    ASSUME NEW old, NEW mask, NEW val
    PROVE  /\ \A b : b \notin mask => (b \in MaskedWrite(old, mask, val) <=> b \in old)
           /\ \A b \in mask : b \in MaskedWrite(old, mask, val) <=> b \in val
  BY DEF MaskedWrite

\* The bits of a mask are among those the sequence settles.
Settles(r, mask) == mask \subseteq Settled[r]

\* A register write whose mask stays within the settled bits keeps the others.
LEMMA WriteKeepsNeighbours ==
    ASSUME NeighboursKept, NEW from, NEW to, NEW r \in Registers, NEW mask, NEW val,
           Settles(r, mask), GbWrite(from, to, r, mask, val)
    PROVE  NeighboursKept'
<1>1. /\ gb_grf' = [gb_grf EXCEPT ![r] = MaskedWrite(gb_grf[r], mask, val)]
      /\ gb_first' = gb_first
  BY DEF GbWrite, GbGo
<1>2. MaskedWrite(gb_grf[r], mask, val) \ Settled[r] = gb_grf[r] \ Settled[r]
  BY MaskedWriteFacts DEF Settles
<1>3. DOMAIN gb_grf = Registers
  BY SettledFacts DEF NeighboursKept
<1>4. ASSUME NEW q \in Registers PROVE gb_grf'[q] \ Settled[q] = gb_first'[q] \ Settled[q]
  BY <1>1, <1>2, <1>3, SettledFacts DEF NeighboursKept
<1>5. DOMAIN gb_grf' = DOMAIN Settled
  BY <1>1, <1>3, SettledFacts
<1> QED BY <1>4, <1>5, SettledFacts DEF NeighboursKept

\* The code has moved on, and of register r the bits in the mask have changed.
Written(from, to, r, mask, val) ==
    /\ gb_at = from /\ gb_at' = to
    /\ \A q \in Registers \ {r} : gb_grf'[q] = gb_grf[q]
    /\ \A b : b \notin mask => (b \in gb_grf'[r] <=> b \in gb_grf[r])
    /\ \A b \in mask : b \in gb_grf'[r] <=> b \in val

\* This is what write_enable_mask does, at every place it is used.
LEMMA WriteStep ==
    ASSUME GBootInv, NEW from, NEW to, NEW r \in Registers, NEW mask, NEW val,
           GbWrite(from, to, r, mask, val)
    PROVE  Written(from, to, r, mask, val)
<1>1. /\ gb_at = from /\ gb_at' = to
      /\ gb_grf' = [gb_grf EXCEPT ![r] = MaskedWrite(gb_grf[r], mask, val)]
  BY DEF GbWrite, GbGo
<1>2. DOMAIN gb_grf = Registers
  BY SettledFacts DEF GBootInv, NeighboursKept
<1>3. gb_grf'[r] = MaskedWrite(gb_grf[r], mask, val)
  BY <1>1, <1>2
<1>4. \A q \in Registers \ {r} : gb_grf'[q] = gb_grf[q]
  BY <1>1, <1>2
<1> QED BY <1>1, <1>3, <1>4, MaskedWriteFacts DEF Written

\* The writes come before everything the drivers and the handover do.
LEMMA WriteKeepsRest ==
    ASSUME GBootInv, NEW from, NEW to, NEW r, NEW mask, NEW val,
           GbWrite(from, to, r, mask, val), from # "reset", to \notin AfterGui
    PROVE  DriversReady' /\ TornDown'
<1> USE DEF GBootInv, GbWrite, GbGo, gbTeardown
<1>1. DriversReady'
  BY DEF DriversReady, AfterGui, AfterTouch, AfterAlveo
<1>2. gb_daif'
  BY Zenon DEF TornDown
<1>3. gb_stale' \subseteq {"tlb", "icache"}
  BY DEF TornDown
<1> QED BY <1>1, <1>2, <1>3 DEF TornDown, AfterGui, AfterTouch, AfterAlveo, AfterGic, AfterRange, AfterMmu

\* The ten writes of init_pcie_endpoint, in the order of the code: each settles
\* its own bits and leaves those settled before it.
LEMMA WritesSettle ==
    ASSUME GBootInv, EndpointMode \/ UngateClocks \/ ResetSequence
                     \/ GbWrite("power", "power_poll", "PD_CON", {4}, {})
    PROVE  GBootInv'
<1> USE DEF Registers, AfterGic, AfterRange, AfterMmu, AfterAlveo, AfterTouch, AfterGui, AfterRelease,
        AfterPhyReset, AfterPhyRelease, AfterClocks, AfterClock28, AfterPower, AfterPhy, AfterPhp,
        AfterSoc
<1>1. CASE GbWrite("soc", "php", "SOC_CON0", {4}, {4})
  <2>1. "SOC_CON0" \in Registers /\ Settles("SOC_CON0", {4})
    BY SettledFacts DEF Settles
  <2> HIDE DEF Registers
  <2>2. Written("soc", "php", "SOC_CON0", {4}, {4})
    BY <1>1, <2>1, WriteStep, Zenon
  <2>3. BitsSettled'
    BY <2>2 DEF GBootInv, BitsSettled, Written, Registers
  <2>4. NeighboursKept'
    BY <1>1, <2>1, WriteKeepsNeighbours, Zenon DEF GBootInv
  <2>5. DriversReady' /\ TornDown'
    BY <1>1, WriteKeepsRest
  <2> QED BY <2>3, <2>4, <2>5 DEF GBootInv
<1>2. CASE GbWrite("php", "phy", "PHP_CON0", {0}, {0})
  <2>1. "PHP_CON0" \in Registers /\ Settles("PHP_CON0", {0})
    BY SettledFacts DEF Settles
  <2> HIDE DEF Registers
  <2>2. Written("php", "phy", "PHP_CON0", {0}, {0})
    BY <1>2, <2>1, WriteStep, Zenon
  <2>3. BitsSettled'
    BY <2>2 DEF GBootInv, BitsSettled, Written, Registers
  <2>4. NeighboursKept'
    BY <1>2, <2>1, WriteKeepsNeighbours, Zenon DEF GBootInv
  <2>5. DriversReady' /\ TornDown'
    BY <1>2, WriteKeepsRest
  <2> QED BY <2>3, <2>4, <2>5 DEF GBootInv
<1>3. CASE GbWrite("phy", "power", "PHY_CON0", {0, 1}, {0})
  <2>1. "PHY_CON0" \in Registers /\ Settles("PHY_CON0", {0, 1})
    BY SettledFacts DEF Settles
  <2> HIDE DEF Registers
  <2>2. Written("phy", "power", "PHY_CON0", {0, 1}, {0})
    BY <1>3, <2>1, WriteStep, Zenon
  <2>3. BitsSettled'
    BY <2>2 DEF GBootInv, BitsSettled, Written, Registers
  <2>4. NeighboursKept'
    BY <1>3, <2>1, WriteKeepsNeighbours, Zenon DEF GBootInv
  <2>5. DriversReady' /\ TornDown'
    BY <1>3, WriteKeepsRest
  <2> QED BY <2>3, <2>4, <2>5 DEF GBootInv
<1>4. CASE GbWrite("power", "power_poll", "PD_CON", {4}, {})
  <2>1. "PD_CON" \in Registers /\ Settles("PD_CON", {4})
    BY SettledFacts DEF Settles
  <2> HIDE DEF Registers
  <2>2. Written("power", "power_poll", "PD_CON", {4}, {})
    BY <1>4, <2>1, WriteStep, Zenon
  <2>3. BitsSettled'
    BY <2>2 DEF GBootInv, BitsSettled, Written, Registers
  <2>4. NeighboursKept'
    BY <1>4, <2>1, WriteKeepsNeighbours, Zenon DEF GBootInv
  <2>5. DriversReady' /\ TornDown'
    BY <1>4, WriteKeepsRest
  <2> QED BY <2>3, <2>4, <2>5 DEF GBootInv
<1>5. CASE GbWrite("clock28", "clock29", "CLKGATE28", {0, 1, 2}, {})
  <2>1. "CLKGATE28" \in Registers /\ Settles("CLKGATE28", {0, 1, 2})
    BY SettledFacts DEF Settles
  <2> HIDE DEF Registers
  <2>2. Written("clock28", "clock29", "CLKGATE28", {0, 1, 2}, {})
    BY <1>5, <2>1, WriteStep, Zenon
  <2>3. BitsSettled'
    BY <2>2 DEF GBootInv, BitsSettled, Written, Registers
  <2>4. NeighboursKept'
    BY <1>5, <2>1, WriteKeepsNeighbours, Zenon DEF GBootInv
  <2>5. DriversReady' /\ TornDown'
    BY <1>5, WriteKeepsRest
  <2> QED BY <2>3, <2>4, <2>5 DEF GBootInv
<1>6. CASE GbWrite("clock29", "assert", "CLKGATE29", {4, 5}, {})
  <2>1. "CLKGATE29" \in Registers /\ Settles("CLKGATE29", {4, 5})
    BY SettledFacts DEF Settles
  <2> HIDE DEF Registers
  <2>2. Written("clock29", "assert", "CLKGATE29", {4, 5}, {})
    BY <1>6, <2>1, WriteStep, Zenon
  <2>3. BitsSettled'
    BY <2>2 DEF GBootInv, BitsSettled, Written, Registers
  <2>4. NeighboursKept'
    BY <1>6, <2>1, WriteKeepsNeighbours, Zenon DEF GBootInv
  <2>5. DriversReady' /\ TornDown'
    BY <1>6, WriteKeepsRest
  <2> QED BY <2>3, <2>4, <2>5 DEF GBootInv
<1>7. CASE GbWrite("assert", "release_phy", "SOFTRST28", {0, 1, 2, 3}, {0, 1, 2, 3})
  <2>1. "SOFTRST28" \in Registers /\ Settles("SOFTRST28", {0, 1, 2, 3})
    BY SettledFacts DEF Settles
  <2> HIDE DEF Registers
  <2>2. Written("assert", "release_phy", "SOFTRST28", {0, 1, 2, 3}, {0, 1, 2, 3})
    BY <1>7, <2>1, WriteStep, Zenon
  <2>3. BitsSettled'
    BY <2>2 DEF GBootInv, BitsSettled, Written, Registers
  <2>4. NeighboursKept'
    BY <1>7, <2>1, WriteKeepsNeighbours, Zenon DEF GBootInv
  <2>5. DriversReady' /\ TornDown'
    BY <1>7, WriteKeepsRest
  <2> QED BY <2>3, <2>4, <2>5 DEF GBootInv
<1>8. CASE GbWrite("release_phy", "phy_reset", "SOFTRST28", {3}, {})
  <2>1. "SOFTRST28" \in Registers /\ Settles("SOFTRST28", {3})
    BY SettledFacts DEF Settles
  <2> HIDE DEF Registers
  <2>2. Written("release_phy", "phy_reset", "SOFTRST28", {3}, {})
    BY <1>8, <2>1, WriteStep, Zenon
  <2>3. BitsSettled'
    BY <2>2 DEF GBootInv, BitsSettled, Written, Registers
  <2>4. NeighboursKept'
    BY <1>8, <2>1, WriteKeepsNeighbours, Zenon DEF GBootInv
  <2>5. DriversReady' /\ TornDown'
    BY <1>8, WriteKeepsRest
  <2> QED BY <2>3, <2>4, <2>5 DEF GBootInv
<1>9. CASE GbWrite("phy_reset", "release_ctrl", "PHY_CON0", {4}, {4})
  <2>1. "PHY_CON0" \in Registers /\ Settles("PHY_CON0", {4})
    BY SettledFacts DEF Settles
  <2> HIDE DEF Registers
  <2>2. Written("phy_reset", "release_ctrl", "PHY_CON0", {4}, {4})
    BY <1>9, <2>1, WriteStep, Zenon
  <2>3. BitsSettled'
    BY <2>2 DEF GBootInv, BitsSettled, Written, Registers
  <2>4. NeighboursKept'
    BY <1>9, <2>1, WriteKeepsNeighbours, Zenon DEF GBootInv
  <2>5. DriversReady' /\ TornDown'
    BY <1>9, WriteKeepsRest
  <2> QED BY <2>3, <2>4, <2>5 DEF GBootInv
<1>10. CASE GbWrite("release_ctrl", "pll_poll", "SOFTRST28", {0, 1, 2}, {})
  <2>1. "SOFTRST28" \in Registers /\ Settles("SOFTRST28", {0, 1, 2})
    BY SettledFacts DEF Settles
  <2> HIDE DEF Registers
  <2>2. Written("release_ctrl", "pll_poll", "SOFTRST28", {0, 1, 2}, {})
    BY <1>10, <2>1, WriteStep, Zenon
  <2>3. BitsSettled'
    BY <2>2 DEF GBootInv, BitsSettled, Written, Registers
  <2>4. NeighboursKept'
    BY <1>10, <2>1, WriteKeepsNeighbours, Zenon DEF GBootInv
  <2>5. DriversReady' /\ TornDown'
    BY <1>10, WriteKeepsRest
  <2> QED BY <2>3, <2>4, <2>5 DEF GBootInv
<1> QED BY <1>1, <1>2, <1>3, <1>4, <1>5, <1>6, <1>7, <1>8, <1>9, <1>10 DEF EndpointMode, UngateClocks, ResetSequence

\* A step that writes no register keeps the neighbours, and the settled bits if
\* it moves on to a place with no more of them.
LEMMA NoWrite ==
    ASSUME GBootInv, UNCHANGED <<gb_grf, gb_first>>,
           \A set \in {AfterSoc, AfterPhp, AfterPhy, AfterPower, AfterClock28, AfterClocks,
                       AfterPhyRelease, AfterPhyReset, AfterRelease} :
               gb_at' \in set => gb_at \in set
    PROVE  NeighboursKept' /\ BitsSettled'
<1>1. NeighboursKept'
  BY DEF GBootInv, NeighboursKept
<1>2. BitsSettled'
  BY DEF GBootInv, BitsSettled
<1> QED BY <1>1, <1>2

\* The two polls that are not fatal, the entry and the chain loader.
LEMMA QuietStep ==
    ASSUME GBootInv,
           \/ GbStart
           \/ GbPoll("power_poll", "clock28", "clock28") /\ UNCHANGED gb_driver
           \/ PllLock
           \/ Chainload
    PROVE  GBootInv'
<1> USE DEF AfterGic, AfterRange, AfterMmu, AfterAlveo, AfterTouch, AfterGui, AfterRelease,
            AfterPhyReset, AfterPhyRelease, AfterClocks, AfterClock28, AfterPower, AfterPhy,
            AfterPhp, AfterSoc
<1>1. NeighboursKept' /\ BitsSettled'
  BY NoWrite DEF GbStart, GbPoll, PllLock, Chainload, GbGo
<1>2. DriversReady'
  BY DEF GBootInv, DriversReady, GbStart, GbPoll, PllLock, Chainload, GbGo
<1>3. gb_daif' \/ gb_at' = "reset"
  BY Zenon DEF GBootInv, TornDown, GbStart, GbPoll, PllLock, Chainload, GbGo, gbTeardown
<1>4. TornDown'
  BY Zenon, <1>3 DEF GBootInv, TornDown, GbStart, GbPoll, PllLock, Chainload, GbGo, gbTeardown
<1> QED BY <1>1, <1>2, <1>4 DEF GBootInv

\* A driver's init: a driver is Ready when the code has gone on to the next
\* one, and the drivers before it stay Ready.
LEMMA DriverStep ==
    ASSUME GBootInv, GuiInit \/ TouchInit \/ AlveoInit
    PROVE  GBootInv'
<1> USE DEF AfterGic, AfterRange, AfterMmu, AfterAlveo, AfterTouch, AfterGui, AfterRelease,
            AfterPhyReset, AfterPhyRelease, AfterClocks, AfterClock28, AfterPower, AfterPhy,
            AfterPhp, AfterSoc
<1> USE DEF GuiInit, TouchInit, AlveoInit, DriverStart, DriverPoll, GbPoll, GbGo
<1>1. NeighboursKept' /\ BitsSettled'
  BY NoWrite
<1>2. DriversReady'
  <2>1. CASE GuiInit
    BY <2>1 DEF GBootInv, DriversReady
  <2>2. CASE TouchInit
    BY <2>2 DEF GBootInv, DriversReady
  <2>3. CASE AlveoInit
    BY <2>3 DEF GBootInv, DriversReady
  <2> QED BY Zenon, <2>1, <2>2, <2>3
<1>3. gb_daif'
  BY Zenon DEF GBootInv, TornDown, gbTeardown
<1>4. TornDown'
  BY Zenon, <1>3 DEF GBootInv, TornDown, gbTeardown
<1> QED BY <1>1, <1>2, <1>4 DEF GBootInv

\* The handover: each of its steps adds its part of what the kernel finds.
LEMMA HandoverStep ==
    ASSUME GBootInv,
           \/ DisableGicv3 \/ EnableFpSimd \/ FlushDcacheRange \/ FlushDcacheAllSetway
           \/ DisableMmuAndCaches \/ InvalidateTlb \/ InvalidateIcache \/ PerformHandover
    PROVE  GBootInv'
<1> USE DEF AfterGic, AfterRange, AfterMmu, AfterAlveo, AfterTouch, AfterGui, AfterRelease,
            AfterPhyReset, AfterPhyRelease, AfterClocks, AfterClock28, AfterPower, AfterPhy,
            AfterPhp, AfterSoc
<1> USE DEF DisableGicv3, EnableFpSimd, FlushDcacheRange, FlushDcacheAllSetway,
            DisableMmuAndCaches, InvalidateTlb, InvalidateIcache, PerformHandover, GbGo, gbSetup
<1>1. NeighboursKept' /\ BitsSettled'
  BY NoWrite
<1>2. DriversReady'
  BY DEF GBootInv, DriversReady
<1>3. gb_daif /\ gb_daif'
  BY Zenon DEF GBootInv, TornDown
<1>4. TornDown'
  <2>1. CASE DisableGicv3
    BY <1>3, <2>1 DEF GBootInv, TornDown
  <2>2. CASE EnableFpSimd
    BY <1>3, <2>2 DEF GBootInv, TornDown
  <2>3. CASE FlushDcacheRange
    BY <1>3, <2>3 DEF GBootInv, TornDown
  <2>4. CASE FlushDcacheAllSetway
    BY <1>3, <2>4 DEF GBootInv, TornDown
  <2>5. CASE DisableMmuAndCaches
    BY <1>3, <2>5 DEF GBootInv, TornDown
  <2>6. CASE InvalidateTlb
    BY <1>3, <2>6 DEF GBootInv, TornDown
  <2>7. CASE InvalidateIcache
    BY <1>3, <2>7 DEF GBootInv, TornDown
  <2>8. CASE PerformHandover
    BY <1>3, <2>8 DEF GBootInv, TornDown
  <2> QED BY Zenon, <2>1, <2>2, <2>3, <2>4, <2>5, <2>6, <2>7, <2>8
<1> QED BY <1>1, <1>2, <1>4 DEF GBootInv

\* At the kernel's entry the invariant is what HandoverSound asks for: a bit is
\* either outside the settled ones, and as at power on, or settled.
LEMMA GBootInvImplies == GBootInv => HandoverSound
<1> SUFFICES ASSUME GBootInv, gb_at = "kernel" PROVE HandoverSound
  BY DEF HandoverSound
<1> USE DEF AfterGic, AfterRange, AfterMmu, AfterAlveo, AfterTouch, AfterGui, AfterRelease,
            AfterPhyReset, AfterPhyRelease, AfterClocks, AfterClock28, AfterPower, AfterPhy,
            AfterPhp, AfterSoc
<1>1. /\ gb_el = 1 /\ gb_daif /\ gb_gic = {} /\ gb_fp
      /\ ~gb_cache /\ gb_stale = {} /\ gb_dirty \cap {"kernel", "dtb"} = {}
  BY DEF GBootInv, TornDown
<1>2. \A d \in DOMAIN gb_driver : gb_driver[d] = "Ready"
  BY DEF GBootInv, DriversReady
<1>3. \A r \in Registers : gb_grf[r] \cap Settled[r] = Raised[r]
  BY SettledFacts, RaisedFacts DEF GBootInv, BitsSettled, Registers
<1>4. \A r \in Registers : gb_grf[r] \ Settled[r] = gb_first[r] \ Settled[r]
  BY SettledFacts DEF GBootInv, NeighboursKept
<1>5. ASSUME NEW r \in Registers PROVE gb_grf[r] = (gb_first[r] \ Settled[r]) \cup Raised[r]
  <2>1. gb_grf[r] = (gb_grf[r] \ Settled[r]) \cup (gb_grf[r] \cap Settled[r])
    OBVIOUS
  <2> QED BY <1>3, <1>4, <2>1
<1>6. DOMAIN gb_grf = Registers
  BY SettledFacts DEF GBootInv, NeighboursKept
<1> QED BY <1>1, <1>2, <1>5, <1>6 DEF HandoverSound

\* However often a device is polled and whatever the registers hold at power on,
\* G-Boot enters the kernel in the state HandoverSound describes.
THEOREM HandoverIsSound == GbSpec => []HandoverSound
<1>1. GbInit => GBootInv
  <2> SUFFICES ASSUME GbInit PROVE GBootInv
    OBVIOUS
  <2> USE DEF AfterGic, AfterRange, AfterMmu, AfterAlveo, AfterTouch, AfterGui, AfterRelease,
              AfterPhyReset, AfterPhyRelease, AfterClocks, AfterClock28, AfterPower, AfterPhy,
              AfterPhp, AfterSoc
  <2>1. NeighboursKept
    BY SettledFacts DEF GbInit, NeighboursKept
  <2>2. BitsSettled /\ DriversReady /\ TornDown
    BY DEF GbInit, BitsSettled, DriversReady, TornDown
  <2> QED BY <2>1, <2>2 DEF GBootInv
<1>2. GBootInv /\ [GbNext]_gbVars => GBootInv'
  <2> SUFFICES ASSUME GBootInv, [GbNext]_gbVars PROVE GBootInv'
    OBVIOUS
  <2>1. CASE GbNext
    BY <2>1, WritesSettle, QuietStep, DriverStep, HandoverStep DEF GbNext, PowerDomain
  <2>2. CASE UNCHANGED gbVars
    <3>1. NeighboursKept' /\ BitsSettled' /\ DriversReady'
      BY <2>2 DEF GBootInv, NeighboursKept, BitsSettled, DriversReady, gbVars
    <3>2. TornDown'
      BY <2>2 DEF GBootInv, TornDown, gbVars
    <3> QED BY <3>1, <3>2 DEF GBootInv
  <2> QED BY <2>1, <2>2
<1> QED BY <1>1, <1>2, GBootInvImplies, PTL DEF GbSpec

-----------------------------------------------------------------------------
(* Address spaces.  FramesPrivate is not inductive by itself: a frame from *)
(* the allocator is new only because no entry and no call holds a frame    *)
(* beyond the ones given out so far, which FramesTaken adds.               *)

JobOps == {"none", "kernel", "load", "brk", "mmap", "fault", "clone"}
Jobs == [op : JobOps, space : AllSpaces, from : AllSpaces, page : Int, past : Int, held : Nat]

FramesTaken ==
  /\ map_job \in Jobs
  /\ program_break \in Int /\ next_mmap \in Int
  /\ node_frame \in [AllSpaces -> [Nodes -> Int]]
  /\ taken \in Nat
  /\ map_job.held \in 0 .. taken
  /\ \A s \in AllSpaces : \A n \in Nodes : node_frame[s][n] <= taken

SpaceFrames == FramesTaken /\ FramesPrivate

\* What SpaceFrames says of the entries and of the frame a call holds, free of
\* the calls themselves: h is the held frame, t the number of frames taken.
Separate(nf, h, t) ==
  /\ nf \in [AllSpaces -> [Nodes -> Int]]
  /\ t \in Nat /\ h \in 0 .. t
  /\ \A s \in AllSpaces : \A n \in Nodes : nf[s][n] <= t
  /\ \A s, r \in AllSpaces : \A n, m \in Nodes :
        nf[s][n] > 0 /\ nf[s][n] = nf[r][m] => s = r /\ n = m
  /\ \A s \in AllSpaces : \A n \in Nodes : nf[s][n] > 0 => nf[s][n] # h

\* The invariant is Separate for the current state.
LEMMA FramesInvForm ==
  SpaceFrames <=> /\ Separate(node_frame, map_job.held, taken)
                /\ map_job \in Jobs /\ program_break \in Int /\ next_mmap \in Int
BY DEF SpaceFrames, FramesTaken, FramesPrivate, Separate

\* allocate_frame hands out a frame no entry has: one entry may take it.
LEMMA FreshFrame ==
  ASSUME NEW nf, NEW h, NEW t, Separate(nf, h, t), NEW s, NEW n
  PROVE  Separate([nf EXCEPT ![s][n] = t + 1], h, t + 1)
<1> DEFINE g == [nf EXCEPT ![s][n] = t + 1]
<1>1. /\ nf \in [AllSpaces -> [Nodes -> Int]] /\ t \in Nat /\ h \in 0 .. t
  BY DEF Separate
<1>0. t + 1 \in Int
  BY <1>1
<1>2. g \in [AllSpaces -> [Nodes -> Int]]
  BY Zenon, <1>0, <1>1
<1>3. \A r \in AllSpaces : \A m \in Nodes :
        g[r][m] = IF r = s /\ m = n THEN t + 1 ELSE nf[r][m]
  BY <1>1
<1> HIDE DEF g
<1>4. \A r \in AllSpaces : \A m \in Nodes : nf[r][m] \in Int /\ nf[r][m] <= t
  BY DEF Separate
<1>5. \A r \in AllSpaces : \A m \in Nodes : g[r][m] <= t + 1
  BY <1>1, <1>3, <1>4
<1>6. ASSUME NEW r \in AllSpaces, NEW q \in AllSpaces, NEW m \in Nodes, NEW l \in Nodes,
             g[r][m] > 0, g[r][m] = g[q][l]
      PROVE  r = q /\ m = l
  <2>1. nf[r][m] # t + 1 /\ nf[q][l] # t + 1
    BY <1>1, <1>4
  <2>2. nf[r][m] > 0 /\ nf[r][m] = nf[q][l] => r = q /\ m = l
    BY DEF Separate
  <2> QED
    BY <1>3, <1>6, <2>1, <2>2
<1>7. \A r \in AllSpaces : \A m \in Nodes : g[r][m] > 0 => g[r][m] # h
  <2>1. h \in Int /\ h # t + 1
    BY <1>1
  <2> QED
    BY <1>3, <2>1 DEF Separate
<1>8. h \in 0 .. (t + 1) /\ t + 1 \in Nat
  BY <1>1
<1>9. Separate(g, h, t + 1)
  BY <1>2, <1>5, <1>6, <1>7, <1>8 DEF Separate
<1> QED
  BY <1>9 DEF g

\* A call may hold the frame it was given, before an entry names it.
LEMMA HeldFrame ==
  ASSUME NEW nf, NEW h, NEW t, Separate(nf, h, t)
  PROVE  Separate(nf, t + 1, t + 1)
<1>1. t \in Nat /\ \A r \in AllSpaces : \A m \in Nodes : nf[r][m] \in Int /\ nf[r][m] <= t
  BY DEF Separate
<1>2. \A r \in AllSpaces : \A m \in Nodes : nf[r][m] <= t + 1 /\ nf[r][m] # t + 1
  BY <1>1
<1>3. t + 1 \in Nat /\ t + 1 \in 0 .. (t + 1)
  BY <1>1
<1> QED
  BY <1>2, <1>3 DEF Separate

\* map_user_page: the held frame moves into an entry, and is no longer held.
LEMMA MapHeld ==
  ASSUME NEW nf, NEW h, NEW t, Separate(nf, h, t), NEW s, NEW n
  PROVE  Separate([nf EXCEPT ![s][n] = h], 0, t)
<1> DEFINE g == [nf EXCEPT ![s][n] = h]
<1>1. nf \in [AllSpaces -> [Nodes -> Int]] /\ t \in Nat /\ h \in 0 .. t
  BY DEF Separate
<1>2. h \in Int /\ h <= t /\ 0 \in 0 .. t
  BY <1>1
<1>3. g \in [AllSpaces -> [Nodes -> Int]]
  BY Zenon, <1>1, <1>2
<1>4. \A r \in AllSpaces : \A m \in Nodes :
        g[r][m] = IF r = s /\ m = n THEN h ELSE nf[r][m]
  BY <1>1
<1> HIDE DEF g
<1>5. \A r \in AllSpaces : \A m \in Nodes : g[r][m] <= t
  BY <1>2, <1>4 DEF Separate
<1>6. ASSUME NEW r \in AllSpaces, NEW q \in AllSpaces, NEW m \in Nodes, NEW l \in Nodes,
             g[r][m] > 0, g[r][m] = g[q][l]
      PROVE  r = q /\ m = l
  <2>1. nf[r][m] > 0 => nf[r][m] # h
    BY DEF Separate
  <2>2. nf[q][l] > 0 => nf[q][l] # h
    BY DEF Separate
  <2>3. nf[r][m] > 0 /\ nf[r][m] = nf[q][l] => r = q /\ m = l
    BY DEF Separate
  <2> QED
    BY <1>4, <1>6, <2>1, <2>2, <2>3
<1>7. \A r \in AllSpaces : \A m \in Nodes : g[r][m] > 0 => g[r][m] # 0
  BY <1>3
<1>8. Separate(g, 0, t)
  BY <1>1, <1>2, <1>3, <1>5, <1>6, <1>7 DEF Separate
<1> QED
  BY <1>8 DEF g

\* A device page in an entry is nobody's frame.
LEMMA MapDevice ==
  ASSUME NEW nf, NEW h, NEW t, Separate(nf, h, t), NEW s, NEW n
  PROVE  Separate([nf EXCEPT ![s][n] = Device], h, t)
<1> DEFINE g == [nf EXCEPT ![s][n] = Device]
<1>1. nf \in [AllSpaces -> [Nodes -> Int]] /\ t \in Nat /\ h \in 0 .. t
  BY DEF Separate
<1>2. Device \in Int /\ Device < 0 /\ Device <= t
  BY <1>1 DEF Device
<1>3. g \in [AllSpaces -> [Nodes -> Int]]
  BY Zenon, <1>1, <1>2
<1>4. \A r \in AllSpaces : \A m \in Nodes :
        g[r][m] = IF r = s /\ m = n THEN Device ELSE nf[r][m]
  BY <1>1
<1> HIDE DEF g
<1>5. \A r \in AllSpaces : \A m \in Nodes : g[r][m] <= t
  BY <1>2, <1>4 DEF Separate
<1>6. \A r \in AllSpaces : \A m \in Nodes : g[r][m] > 0 => g[r][m] = nf[r][m] /\ ~(r = s /\ m = n)
  BY <1>2, <1>4
<1>7. ASSUME NEW r \in AllSpaces, NEW q \in AllSpaces, NEW m \in Nodes, NEW l \in Nodes,
             g[r][m] > 0, g[r][m] = g[q][l]
      PROVE  r = q /\ m = l
  <2>1. nf[r][m] > 0 /\ nf[r][m] = nf[q][l] => r = q /\ m = l
    BY DEF Separate
  <2> QED
    BY <1>6, <1>7, <2>1
<1>8. \A r \in AllSpaces : \A m \in Nodes : g[r][m] > 0 => g[r][m] # h
  BY <1>6 DEF Separate
<1>9. Separate(g, h, t)
  BY <1>1, <1>3, <1>5, <1>7, <1>8 DEF Separate
<1> QED
  BY <1>9 DEF g

\* A call that ends, fails or goes to its next page holds nothing.
LEMMA DropHeld ==
  ASSUME NEW nf, NEW h, NEW t, Separate(nf, h, t)
  PROVE  Separate(nf, 0, t)
BY DEF Separate

\* Between calls nothing is held.
LEMMA NoJobTyped == NoJob \in Jobs /\ NoJob.held = 0
<1>1. "kernel" \in AllSpaces
  BY DEF AllSpaces
<1>2. "none" \in JobOps /\ 0 \in Int /\ 0 \in Nat
  BY DEF JobOps
<1>3. NoJob \in Jobs
  BY <1>1, <1>2, Zenon DEF NoJob, Jobs
<1> QED
  BY <1>3 DEF NoJob

\* A call starts with a job that holds nothing.
LEMMA JobTyped ==
  ASSUME NEW op \in JobOps, NEW s \in AllSpaces, NEW a \in Int, NEW b \in Int
  PROVE  Job(op, s, a, b) \in Jobs /\ Job(op, s, a, b).held = 0
BY DEF Job, Jobs

\* Going to the next page, or giving up, drops what was held.
LEMMA NextPageTyped ==
  ASSUME NEW j \in Jobs
  PROVE  /\ NextPage(j) \in Jobs /\ NextPage(j).held = 0
         /\ AfterFailure(j) \in Jobs /\ AfterFailure(j).held = 0
<1>0. j.page + 1 \in Int
  BY DEF Jobs
<1>1. NextPage(j) \in Jobs /\ NextPage(j).held = 0
  BY Zenon, <1>0 DEF NextPage, Jobs
<1> QED
  BY <1>1, NoJobTyped DEF AfterFailure

\* The bytes below the break fill a whole number of pages.
LEMMA PagesUpType ==
  ASSUME NEW b \in Int
  PROVE  PagesUp(b) \in Int
BY SpaceAssumption DEF PagesUp

\* A call that only starts a job leaves every frame where it is.
LEMMA StartJob ==
  ASSUME SpaceFrames, map_job' \in Jobs, map_job'.held = 0,
         program_break' \in Int, next_mmap' \in Int, UNCHANGED <<node_frame, taken>>
  PROVE  SpaceFrames'
<1>1. Separate(node_frame, map_job.held, taken)
  BY FramesInvForm
<1>2. Separate(node_frame', map_job'.held, taken')
  BY <1>1, DropHeld
<1> QED
  BY <1>2 DEF SpaceFrames, FramesTaken, FramesPrivate, Separate

\* A step that gives a new frame to one entry and leaves the held one alone.
LEMMA TakeFrame ==
  ASSUME SpaceFrames, NEW s, NEW n, Fill(s, n, taken + 1), taken' = taken + 1,
         map_job' \in Jobs, map_job'.held \in {0, map_job.held},
         program_break' \in Int, next_mmap' \in Int
  PROVE  SpaceFrames'
<1>1. Separate(node_frame, map_job.held, taken)
  BY FramesInvForm
<1>2. Separate(node_frame', map_job.held, taken')
  BY Zenon, <1>1, FreshFrame DEF Fill
<1>3. Separate(node_frame', map_job'.held, taken')
  BY <1>2, DropHeld
<1> QED
  BY <1>3 DEF SpaceFrames, FramesTaken, FramesPrivate, Separate

\* The tables the bootloader leaves hold no frame of the allocator.
LEMMA FramesInit == AsInit => SpaceFrames
<1> SUFFICES ASSUME AsInit PROVE SpaceFrames
  OBVIOUS
<1>1. map_job \in Jobs /\ map_job.held = 0
  BY NoJobTyped DEF AsInit
<1>2. program_break \in Int /\ next_mmap \in Int
  BY SMTT(30), SpaceAssumption DEF AsInit
<1>3. \A s \in AllSpaces : \A n \in Nodes :
        node_frame[s][n] = IF s = "kernel" /\ n = Root THEN -1 ELSE 0
  BY DEF AsInit, Device
<1>4. node_frame \in [AllSpaces -> [Nodes -> Int]]
  BY DEF AsInit, Device
<1>5. taken = 0
  BY DEF AsInit
<1>6. Separate(node_frame, 0, taken)
  BY <1>3, <1>4, <1>5 DEF Separate
<1> QED
  BY <1>1, <1>2, <1>6, FramesInvForm

\* The calls of AsCalls.
LEMMA CallsKeepFrames == SpaceFrames /\ AsCalls => SpaceFrames'
<1> SUFFICES ASSUME SpaceFrames, AsCalls PROVE SpaceFrames'
  OBVIOUS
<1>1. map_job \in Jobs /\ program_break \in Int /\ next_mmap \in Int
  BY DEF SpaceFrames, FramesTaken
<1>2. /\ UserPages \in Int /\ KernelPages \in Int /\ BrkBase \in Int /\ MmapBase \in Int
      /\ NativeBase \in Int /\ PageCounts \subseteq Int
  BY SpaceAssumption
<1>3. "kernel" \in AllSpaces /\ Spaces \subseteq AllSpaces
  BY DEF AllSpaces
<1>4. Idle => map_job.held = 0
  BY NoJobTyped DEF Idle
<1>5. ASSUME NEW p \in UserPages .. UserPages + KernelPages - 1,
             KernelMap(p, UserPages + KernelPages)
      PROVE  SpaceFrames'
  <2>1. p \in Int /\ UserPages + KernelPages \in Int
    BY <1>2
  <2>2. map_job' \in Jobs /\ map_job'.held = 0
    BY <1>3, <1>5, <2>1, JobTyped DEF JobOps, KernelMap
  <2> QED
    BY <1>1, <1>5, <2>2, StartJob DEF KernelMap
<1>6. ASSUME NEW s \in Spaces, CreateUserPageTable(s) PROVE SpaceFrames'
  BY <1>1, <1>6, TakeFrame DEF CreateUserPageTable
<1>7. ASSUME NEW s \in Spaces, LoadImage(s, 0, BrkBase) PROVE SpaceFrames'
  <2>1. map_job' \in Jobs /\ map_job'.held = 0
    BY <1>2, <1>3, <1>7, JobTyped DEF JobOps, LoadImage
  <2> QED
    BY <1>1, <1>7, <2>1, StartJob DEF LoadImage
<1>8. ASSUME NEW s \in Spaces,
             NEW b \in BrkBase * PageBytes .. (BrkBase + AreaPages) * PageBytes, Brk(s, b)
      PROVE  SpaceFrames'
  <2>1. b \in Int
    BY <1>2, SpaceAssumption
  <2>2. map_job' \in Jobs /\ map_job'.held = 0
    BY <1>1, <1>3, <1>8, <2>1, PagesUpType, JobTyped DEF JobOps, Brk
  <2> QED
    BY <1>1, <1>8, <2>1, <2>2, StartJob DEF Brk
<1>9. ASSUME NEW s \in Spaces, NEW n \in PageCounts, NEW h \in {0, MmapBase}, Mmap(s, n, h)
      PROVE  SpaceFrames'
  <2> DEFINE start == IF h # 0 THEN h ELSE next_mmap
  <2>1. start \in Int /\ start + n \in Int /\ next_mmap' \in Int
    BY <1>1, <1>2, <1>9 DEF Mmap
  <2>2. map_job' = Job("mmap", s, start, start + n)
    BY <1>9 DEF Mmap
  <2>3. map_job' \in Jobs /\ map_job'.held = 0
    BY <1>3, <2>1, <2>2, JobTyped DEF JobOps
  <2> QED
    BY <1>1, <1>9, <2>1, <2>3, StartJob DEF Mmap
<1>10. ASSUME NEW s \in Spaces, NEW n \in PageCounts, NEW a \in {0, NativeBase},
              MapNativeRegion(s, a, n)
       PROVE  SpaceFrames'
  <2>1. Idle /\ UNCHANGED <<node_frame, taken, program_break, next_mmap, map_job>>
    BY <1>10 DEF MapNativeRegion
  <2> QED
    BY <1>1, <1>4, <2>1, StartJob
<1>11. ASSUME NEW s \in Spaces, NEW p \in {0, NativeBase}, HandlePageFault(s, p)
       PROVE  SpaceFrames'
  <2>1. p \in Int /\ p + 1 \in Int
    BY <1>2
  <2>2. Idle /\ map_job' \in {map_job, Job("fault", s, p, p + 1)}
    BY <1>11 DEF HandlePageFault
  <2>3. map_job' \in Jobs /\ map_job'.held = 0
    BY <1>1, <1>3, <1>4, <2>1, <2>2, JobTyped DEF JobOps
  <2> QED
    BY <1>1, <1>11, <2>3, StartJob DEF HandlePageFault
<1>12. ASSUME NEW s \in Spaces, NEW t \in Spaces, CloneSpace(s, t) PROVE SpaceFrames'
  <2>1. Job("clone", t, 0, 0) \in Jobs /\ Job("clone", t, 0, 0).held = 0
    BY <1>3, JobTyped DEF JobOps
  <2>2. map_job' = [Job("clone", t, 0, 0) EXCEPT !.from = s]
    BY <1>12 DEF CloneSpace
  <2>3. map_job' \in Jobs /\ map_job'.held = 0
    BY <1>3, <2>1, <2>2 DEF Jobs
  <2> QED
    BY <1>1, <1>12, <2>3, TakeFrame DEF CloneSpace
<1> QED
  BY <1>5, <1>6, <1>7, <1>8, <1>9, <1>10, <1>11, <1>12 DEF AsCalls

\* The steps of a job: each takes a frame, moves the held one or drops it.
LEMMA JobsKeepFrames == SpaceFrames /\ AsJobs => SpaceFrames'
<1> SUFFICES ASSUME SpaceFrames, AsJobs PROVE SpaceFrames'
  OBVIOUS
<1>1. map_job \in Jobs /\ program_break \in Int /\ next_mmap \in Int /\ taken \in Nat
  BY DEF SpaceFrames, FramesTaken
<1>2. Separate(node_frame, map_job.held, taken)
  BY FramesInvForm
<1>3. /\ NextPage(map_job) \in Jobs /\ NextPage(map_job).held = 0
      /\ AfterFailure(map_job) \in Jobs /\ AfterFailure(map_job).held = 0
  BY <1>1, NextPageTyped
<1>4. ASSUME UNCHANGED callVars, map_job' \in Jobs, Separate(node_frame', map_job'.held, taken')
      PROVE  SpaceFrames'
  <2>1. program_break' \in Int /\ next_mmap' \in Int
    BY <1>1, <1>4 DEF callVars
  <2> QED
    BY <1>4, <2>1 DEF SpaceFrames, FramesTaken, FramesPrivate, Separate
<1>5. CASE JobFrame
  <2>1. CASE FramesLeft
    <3>1. /\ taken' = taken + 1 /\ map_job' = [map_job EXCEPT !.held = taken + 1]
          /\ UNCHANGED node_frame /\ UNCHANGED callVars
      BY <1>5, <2>1 DEF JobFrame
    <3>2. map_job' \in Jobs /\ map_job'.held = taken + 1
      BY <1>1, <3>1 DEF Jobs
    <3> QED
      BY <1>2, <1>4, <3>1, <3>2, HeldFrame
  <2>2. CASE ~ FramesLeft
    <3>1. map_job' = AfterFailure(map_job) /\ UNCHANGED <<taken, node_frame>> /\ UNCHANGED callVars
      BY <1>5, <2>2 DEF JobFrame
    <3> QED
      BY <1>2, <1>3, <1>4, <3>1, DropHeld
  <2> QED
    BY <2>1, <2>2
<1>6. CASE JobTable
  <2>1. CASE FramesLeft
    <3>1. PICK k : Fill(map_job.space, Node(k, map_job.page), taken + 1)
      BY <1>6, <2>1 DEF JobTable
    <3>2. taken' = taken + 1 /\ UNCHANGED map_job /\ UNCHANGED callVars
      BY <1>6, <2>1 DEF JobTable
    <3> QED
      BY Zenon, <1>1, <1>2, <1>4, <3>1, <3>2, FreshFrame DEF Fill
  <2>2. CASE ~ FramesLeft
    <3>1. map_job' = AfterFailure(map_job) /\ UNCHANGED <<taken, node_frame>> /\ UNCHANGED callVars
      BY <1>6, <2>2 DEF JobTable
    <3> QED
      BY <1>2, <1>3, <1>4, <3>1, DropHeld
  <2> QED
    BY <2>1, <2>2
<1>7. CASE JobLeaf
  <2>1. map_job' = NextPage(map_job) /\ UNCHANGED taken /\ UNCHANGED callVars
    BY <1>7 DEF JobLeaf
  <2>2. CASE Fill(map_job.space, Node(0, map_job.page), map_job.held)
    <3>1. Separate(node_frame', 0, taken')
      BY Zenon, <1>2, <2>1, <2>2, MapHeld DEF Fill
    <3> QED
      BY <1>3, <1>4, <2>1, <3>1
  <2>3. CASE UNCHANGED node_frame
    BY <1>2, <1>3, <1>4, <2>1, <2>3, DropHeld
  <2> QED
    BY <1>7, <2>2, <2>3 DEF JobLeaf
<1>8. CASE JobKernelLeaf
  <2>1. /\ map_job' = NextPage(map_job) /\ UNCHANGED taken /\ UNCHANGED callVars
        /\ Fill("kernel", Node(0, map_job.page), Device)
    BY <1>8 DEF JobKernelLeaf
  <2>2. Separate(node_frame', map_job.held, taken')
    BY Zenon, <1>2, <2>1, MapDevice DEF Fill
  <2> QED
    BY <1>3, <1>4, <2>1, <2>2, DropHeld
<1>9. CASE JobFaultLeaf
  <2>1. map_job' = NextPage(map_job) /\ UNCHANGED callVars
    BY <1>9 DEF JobFaultLeaf
  <2>2. CASE UNCHANGED <<node_frame, taken>>
    BY <1>2, <1>3, <1>4, <2>1, <2>2, DropHeld
  <2>3. CASE Fill(map_job.space, Node(0, map_job.page), taken + 1) /\ taken' = taken + 1
    <3>1. Separate(node_frame', map_job.held, taken')
      BY Zenon, <1>2, <2>3, FreshFrame DEF Fill
    <3> QED
      BY <1>3, <1>4, <2>1, <3>1, DropHeld
  <2> QED
    BY <1>9, <2>2, <2>3 DEF JobFaultLeaf
<1>10. CASE JobClone
  <2>1. UNCHANGED map_job /\ UNCHANGED callVars
    BY <1>10 DEF JobClone
  <2>2. CASE FramesLeft
    <3>1. PICK n : Fill(map_job.space, n, taken + 1) /\ taken' = taken + 1
      BY <1>10, <2>2 DEF JobClone
    <3> QED
      BY Zenon, <1>1, <1>2, <1>4, <2>1, <3>1, FreshFrame DEF Fill
  <2>3. CASE ~ FramesLeft
    <3>1. UNCHANGED <<taken, node_frame>>
      BY <1>10, <2>3 DEF JobClone
    <3> QED
      BY <1>1, <1>2, <1>4, <2>1, <3>1
  <2> QED
    BY <2>2, <2>3
<1>11. CASE JobEnd
  <2>1. map_job' = NoJob /\ UNCHANGED <<node_frame, taken>> /\ UNCHANGED callVars
    BY <1>11 DEF JobEnd
  <2> QED
    BY <1>2, <1>4, <2>1, NoJobTyped, DropHeld
<1> QED
  BY <1>5, <1>6, <1>7, <1>8, <1>9, <1>10, <1>11 DEF AsJobs

\* In every run of the calls that map, clone and fault in pages, whatever fails
\* on the way, no frame of the allocator is in two page-table entries, and the
\* frame a call is about to map is in none: two processes never see one frame.
THEOREM SpacesArePrivate == AsSpec => []FramesPrivate
<1>1. SpaceFrames /\ [AsNext]_asVars => SpaceFrames'
  <2> SUFFICES ASSUME SpaceFrames, [AsNext]_asVars PROVE SpaceFrames'
    OBVIOUS
  <2>1. CASE UNCHANGED asVars
    BY <2>1 DEF asVars, SpaceFrames, FramesTaken, FramesPrivate
  <2> QED
    BY <2>1, CallsKeepFrames, JobsKeepFrames DEF AsNext
<1>2. SpaceFrames => FramesPrivate
  BY DEF SpaceFrames
<1> QED
  BY <1>1, <1>2, FramesInit, PTL DEF AsSpec

-----------------------------------------------------------------------------
\* The kernel's half.  It is complete when the first space is live, because the
\* calls that map it need that there is none; and a child gets its parent's.

KernelPresent == {n \in KernelTop : node_frame["kernel"][n] # 0}

HalfInv ==
  /\ shares \in [Spaces -> SUBSET KernelTop]
  /\ live_spaces \subseteq Spaces
  /\ map_job.op = "kernel" => live_spaces = {}
  /\ map_job.op \notin {"none", "kernel"} => map_job.space \in Spaces
  /\ map_job.op = "clone" => shares[map_job.space] = KernelPresent
  /\ \A s \in live_spaces : shares[s] = KernelPresent

\* Filling an entry of a process leaves the kernel's own entries alone.
LEMMA KernelKept ==
  ASSUME SpaceFrames, NEW s \in Spaces, NEW n, NEW f, Fill(s, n, f)
  PROVE  node_frame'["kernel"] = node_frame["kernel"]
<1>1. s # "kernel" /\ "kernel" \in AllSpaces
  BY SpaceAssumption DEF AllSpaces
<1>2. node_frame \in [AllSpaces -> [Nodes -> Int]]
  BY DEF SpaceFrames, FramesTaken
<1> QED
  BY <1>1, <1>2 DEF Fill

\* The op and the space of a job that goes on, or gives up.
LEMMA JobKept ==
  ASSUME NEW j \in Jobs
  PROVE  /\ NextPage(j).op = j.op /\ NextPage(j).space = j.space
         /\ AfterFailure(j).op = "none" \/ (AfterFailure(j).op = j.op /\ AfterFailure(j).space = j.space)
<1>1. NextPage(j).op = j.op /\ NextPage(j).space = j.space
  BY DEF NextPage, Jobs
<1>2. NoJob.op = "none"
  BY SMTT(30) DEF NoJob
<1> QED
  BY <1>1, <1>2 DEF AfterFailure

\* A step that keeps the kernel's entries, the shares and the live spaces keeps
\* the invariant if its job is the same or a new one of a live space.
LEMMA HalfKept ==
  ASSUME HalfInv, node_frame'["kernel"] = node_frame["kernel"], UNCHANGED <<shares, live_spaces>>,
         \/ map_job'.op = "none"
         \/ map_job'.op = map_job.op /\ map_job'.space = map_job.space
         \/ map_job'.op \notin {"kernel", "clone"} /\ map_job'.space \in Spaces
         \/ map_job'.op = "kernel" /\ live_spaces = {}
  PROVE  HalfInv'
<1>1. KernelPresent' = KernelPresent
  BY DEF KernelPresent
<1> QED
  BY Zenon, <1>1 DEF HalfInv

\* The calls of AsCalls.
LEMMA CallsKeepHalf == SpaceFrames /\ HalfInv /\ AsCalls => HalfInv'
<1> SUFFICES ASSUME SpaceFrames, HalfInv, AsCalls PROVE HalfInv'
  OBVIOUS
<1>0. Idle => map_job.op = "none"
  BY SMTT(30) DEF Idle, NoJob
<1>1. ASSUME NEW p \in UserPages .. UserPages + KernelPages - 1,
             KernelMap(p, UserPages + KernelPages)
      PROVE  HalfInv'
  <2>1. map_job'.op = "kernel"
    BY <1>1 DEF KernelMap, Job
  <2> QED
    BY Zenon, <1>1, <2>1, HalfKept DEF KernelMap
<1>2. ASSUME NEW s \in Spaces, CreateUserPageTable(s) PROVE HalfInv'
  <2>1. Fill(s, Root, taken + 1) /\ Idle /\ UNCHANGED map_job
    BY <1>2 DEF CreateUserPageTable
  <2>2. KernelPresent' = KernelPresent
    BY <2>1, KernelKept DEF KernelPresent
  <2>3. shares' = [shares EXCEPT ![s] = KernelPresent] /\ live_spaces' = live_spaces \cup {s}
    BY <1>2 DEF CreateUserPageTable, KernelPresent
  <2>4. KernelPresent \subseteq KernelTop
    BY DEF KernelPresent
  <2> QED
    BY <1>0, <2>1, <2>2, <2>3, <2>4 DEF HalfInv
<1>3. ASSUME NEW s \in Spaces, LoadImage(s, 0, BrkBase) PROVE HalfInv'
  <2>1. map_job'.op = "load" /\ map_job'.space = s
    BY SMTT(30), <1>3 DEF LoadImage, Job
  <2> QED
    BY <1>3, <2>1, HalfKept DEF LoadImage
<1>4. ASSUME NEW s \in Spaces, NEW b, Brk(s, b) PROVE HalfInv'
  <2>1. map_job'.op = "brk" /\ map_job'.space = s
    BY <1>4 DEF Brk, Job
  <2> QED
    BY Zenon, <1>4, <2>1, HalfKept DEF Brk
<1>5. ASSUME NEW s \in Spaces, NEW n, NEW h, Mmap(s, n, h) PROVE HalfInv'
  <2>1. map_job'.op = "mmap" /\ map_job'.space = s
    BY <1>5 DEF Mmap, Job
  <2> QED
    BY Zenon, <1>5, <2>1, HalfKept DEF Mmap
<1>6. ASSUME NEW s \in Spaces, NEW n, NEW a, MapNativeRegion(s, a, n) PROVE HalfInv'
  <2>1. UNCHANGED <<node_frame, shares, live_spaces, map_job>>
    BY <1>6 DEF MapNativeRegion
  <2> QED
    BY <2>1, HalfKept
<1>7. ASSUME NEW s \in Spaces, NEW p, HandlePageFault(s, p) PROVE HalfInv'
  <2>1. UNCHANGED <<node_frame, shares, live_spaces>>
    BY <1>7 DEF HandlePageFault
  <2>2. map_job' = map_job \/ map_job' = Job("fault", s, p, p + 1)
    BY <1>7 DEF HandlePageFault
  <2>3. Job("fault", s, p, p + 1).op = "fault" /\ Job("fault", s, p, p + 1).space = s
    BY DEF Job
  <2> QED
    BY <2>1, <2>2, <2>3, HalfKept
<1>8. ASSUME NEW s \in Spaces, NEW t \in Spaces, CloneSpace(s, t) PROVE HalfInv'
  <2>1. Fill(t, Root, taken + 1) /\ s \in live_spaces /\ UNCHANGED live_spaces
    BY <1>8 DEF CloneSpace
  <2>2. KernelPresent' = KernelPresent
    BY <2>1, KernelKept DEF KernelPresent
  <2>3. shares[s] = KernelPresent /\ shares' = [shares EXCEPT ![t] = shares[s]]
    BY <1>8, <2>1 DEF CloneSpace, HalfInv
  <2>4. map_job'.op = "clone" /\ map_job'.space = t
    BY <1>8 DEF CloneSpace, Job
  <2> QED
    BY Zenon, <2>1, <2>2, <2>3, <2>4 DEF HalfInv
<1> QED
  BY <1>1, <1>2, <1>3, <1>4, <1>5, <1>6, <1>7, <1>8 DEF AsCalls

\* The steps of a job: a process's job fills entries of that process, the
\* kernel's runs while no space is live, and a clone ends with the parent's half.
LEMMA JobsKeepHalf == SpaceFrames /\ HalfInv /\ AsJobs => HalfInv'
<1> SUFFICES ASSUME SpaceFrames, HalfInv, AsJobs PROVE HalfInv'
  OBVIOUS
<1>1. map_job \in Jobs
  BY SMTT(30) DEF SpaceFrames, FramesTaken
<1>2. ASSUME map_job.op \notin {"none", "kernel"}, NEW n, NEW f, Fill(map_job.space, n, f)
      PROVE  node_frame'["kernel"] = node_frame["kernel"]
  BY Zenon, <1>2, KernelKept DEF HalfInv
<1>3. CASE JobFrame
  <2>1. UNCHANGED <<node_frame, shares, live_spaces>>
    BY <1>3 DEF JobFrame, callVars
  <2>2. map_job' = [map_job EXCEPT !.held = taken + 1] \/ map_job' = AfterFailure(map_job)
    BY <1>3 DEF JobFrame
  <2>3. LET j == [map_job EXCEPT !.held = taken + 1]
        IN  j.op = map_job.op /\ j.space = map_job.space
    BY <1>1 DEF Jobs
  <2> QED
    BY Zenon, <1>1, <2>1, <2>2, <2>3, JobKept, HalfKept
<1>4. CASE JobTable
  <2>1. UNCHANGED <<shares, live_spaces>> /\ map_job.op # "none" /\ map_job.op # "clone"
    BY <1>4 DEF JobTable, callVars
  <2>2. map_job' = map_job \/ map_job' = AfterFailure(map_job)
    BY <1>4 DEF JobTable
  <2>3. CASE map_job.op = "kernel"
    <3>1. live_spaces = {}
      BY <2>3 DEF HalfInv
    <3>2. map_job'.op \in {"none", "kernel"}
      BY SMTT(30), <1>1, <2>2, <2>3, JobKept
    <3> QED
      BY <2>1, <3>1, <3>2 DEF HalfInv
  <2>4. CASE map_job.op # "kernel"
    <3>1. node_frame'["kernel"] = node_frame["kernel"]
      BY <1>2, <1>4, <2>1, <2>4 DEF JobTable
    <3> QED
      BY <1>1, <2>1, <2>2, <3>1, JobKept, HalfKept
  <2> QED
    BY <2>3, <2>4
<1>5. CASE JobLeaf
  <2>1. UNCHANGED <<shares, live_spaces>> /\ map_job' = NextPage(map_job)
    BY Zenon, <1>5 DEF JobLeaf, callVars
  <2>2. node_frame'["kernel"] = node_frame["kernel"]
    BY SMTT(30), <1>2, <1>5 DEF JobLeaf
  <2> QED
    BY SMTT(30), <1>1, <2>1, <2>2, JobKept, HalfKept
<1>6. CASE JobKernelLeaf
  <2>1. /\ UNCHANGED <<shares, live_spaces>> /\ map_job.op = "kernel"
        /\ map_job' = NextPage(map_job)
    BY <1>6 DEF JobKernelLeaf, callVars
  <2>2. live_spaces = {} /\ map_job'.op = "kernel"
    BY SMTT(30), <1>1, <2>1, JobKept DEF HalfInv
  <2> QED
    BY <2>1, <2>2 DEF HalfInv
<1>7. CASE JobFaultLeaf
  <2>1. UNCHANGED <<shares, live_spaces>> /\ map_job' = NextPage(map_job)
    BY <1>7 DEF JobFaultLeaf, callVars
  <2>2. node_frame'["kernel"] = node_frame["kernel"]
    BY <1>2, <1>7 DEF JobFaultLeaf
  <2> QED
    BY <1>1, <2>1, <2>2, JobKept, HalfKept
<1>8. CASE JobClone
  <2>1. UNCHANGED <<shares, live_spaces, map_job>>
    BY <1>8 DEF JobClone, callVars
  <2>2. node_frame'["kernel"] = node_frame["kernel"]
    BY <1>2, <1>8 DEF JobClone
  <2> QED
    BY <2>1, <2>2, HalfKept
<1>9. CASE JobEnd
  <2>1. UNCHANGED <<shares, node_frame>> /\ map_job'.op = "none"
    BY <1>9 DEF JobEnd, callVars, NoJob
  <2>2. live_spaces' = IF map_job.op = "clone" THEN live_spaces \cup {map_job.space} ELSE live_spaces
    BY <1>9 DEF JobEnd
  <2>3. KernelPresent' = KernelPresent
    BY <2>1 DEF KernelPresent
  <2> QED
    BY <2>1, <2>2, <2>3 DEF HalfInv
<1> QED
  BY <1>3, <1>4, <1>5, <1>6, <1>7, <1>8, <1>9 DEF AsJobs

\* Every process, loaded or forked, sees all of the kernel that is ever mapped:
\* create_user_page_table and clone_space copy the upper half once, and nothing
\* is mapped there afterwards.
THEOREM KernelIsShared == AsSpec => []KernelHalfShared
<1>1. AsInit => HalfInv
  BY DEF AsInit, HalfInv, NoJob
<1>2. SpaceFrames /\ HalfInv /\ [AsNext]_asVars => (SpaceFrames /\ HalfInv)'
  <2> SUFFICES ASSUME SpaceFrames, HalfInv, [AsNext]_asVars PROVE SpaceFrames' /\ HalfInv'
    OBVIOUS
  <2>1. CASE UNCHANGED asVars
    BY SMTT(30), <2>1 DEF asVars, SpaceFrames, FramesTaken, FramesPrivate, HalfInv, KernelPresent
  <2> QED
    BY <2>1, CallsKeepFrames, JobsKeepFrames, CallsKeepHalf, JobsKeepHalf DEF AsNext
<1>3. HalfInv => KernelHalfShared
  BY DEF HalfInv, KernelHalfShared, KernelPresent
<1> QED
  BY <1>1, <1>2, <1>3, FramesInit, PTL DEF AsSpec
=============================================================================
