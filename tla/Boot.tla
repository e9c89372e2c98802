-------------------------------- MODULE Boot --------------------------------
(***************************************************************************)
(* The bootstrap processor from the entry point of main.rs to the idle     *)
(* loop: the order in which services come up, the failures the code        *)
(* survives and those on which it halts, the two windows in which it waits *)
(* for the local APIC timer with interrupts enabled, and the self tests.   *)
(*                                                                         *)
(* What the boot loader, the firmware and the processor offer is chosen    *)
(* when the code looks at it.  Everything after idle_loop is in Kernel.    *)
(***************************************************************************)
EXTENDS Integers, FiniteSets

CONSTANTS
    TargetTicks,  \* BOOTSTRAP_TARGET_TICKS, 3 in the code
    MaxTicks,     \* bound: ticks counted in one window
    SelfTests     \* the builds considered: values of SELF_TEST

ASSUME BootAssumption == TargetTicks \in Nat \ {0} /\ MaxTicks \in Nat

VARIABLES
    stage,      \* where the straight-line code of _start is
    self_test,  \* the self test this kernel was built with
    online,     \* the services that have come up
    missing,    \* services used before they came up
    cause,      \* why the kernel halted
    interrupts, \* the interrupt flag
    lvt,        \* the APIC's timer entry: "masked", "oneshot", "periodic"
    pending,    \* a timer interrupt is latched in the APIC: "none", or its source
    ticks,      \* SCHEDULER_TICKS in the bootstrap window, TIMER_TICKS in the first
    fired,      \* ghost: how many of the ticks the periodic timer made
    probes,     \* system call probes run so far
    open_files  \* descriptors the bootstrap thread holds

machine == <<interrupts, lvt, pending, ticks, fired>>
thread == <<probes, open_files>>
vars == <<stage, self_test, online, missing, cause, interrupts, lvt, pending, ticks,
          fired, probes, open_files>>

ProbeCount == 4

Init ==
    /\ stage = "entry"
    /\ self_test \in SelfTests
    /\ online = {} /\ missing = {}
    /\ cause = "none"
    /\ interrupts = FALSE
    /\ lvt = "masked" /\ pending = "none"
    /\ ticks = 0 /\ fired = 0
    /\ probes = 0 /\ open_files = 0

\* One stretch of _start: it uses `needs' and brings `provides' up.
Stage(from, to, needs, provides) ==
    /\ stage = from
    /\ stage' = to
    /\ missing' = missing \cup (needs \ online)
    /\ online' = online \cup provides
    /\ UNCHANGED <<self_test, cause>>

\* halt(): the processor sleeps in hlt with interrupts as they are.
Halt(from, why, needs) ==
    /\ stage = from
    /\ stage' = "halted"
    /\ cause' = why
    /\ missing' = missing \cup (needs \ online)
    /\ UNCHANGED <<self_test, online>>

-----------------------------------------------------------------------------
\* Serial port, clock, the Limine handshake and the direct map's offset.
Entry ==
    /\ \/ Stage("entry", "tty", {}, {"clock"})
       \/ \E why \in {"revision", "hhdm"} : Halt("entry", why, {})
    /\ UNCHANGED <<machine, thread>>

\* tty::initialize(false): the serial port is the only output.
TtyOnline ==
    /\ Stage("tty", "memory", {"clock"}, {"tty"})
    /\ UNCHANGED <<machine, thread>>

\* A memory map that is absent is only reported; one that is empty, or gives
\* no frame, is fatal.
MemoryStage ==
    /\ \/ Stage("memory", "heap", {"tty"}, {"frames"})
       \/ Stage("memory", "heap", {"tty"}, {})
       \/ Halt("memory", "memmap", {"tty"})
    /\ UNCHANGED <<machine, thread>>

\* Mutant: a heap that cannot be built is only reported.
HeapStageGoesOn ==
    /\ \/ "frames" \in online /\ Stage("heap", "supernova", {"frames"}, {"heap"})
       \/ Stage("heap", "supernova", {}, {})
    /\ UNCHANGED <<machine, thread>>

\* heap::initialize takes its frames from the allocator; without them it fails.
HeapStage ==
    /\ \/ "frames" \in online /\ Stage("heap", "supernova", {"frames"}, {"heap"})
       \/ Halt("heap", "heap", {"tty"})
    /\ UNCHANGED <<machine, thread>>

\* The accelerator's registers are mapped, if there are frames for the tables.
SupernovaStage ==
    /\ Stage("supernova", "tables", {"frames", "tty"}, {})
    /\ UNCHANGED <<machine, thread>>

\* arch::initialize (GDT, IDT, system call registers) and the CPUID report.
DescriptorTables ==
    /\ Stage("tables", "timer", {"tty"}, {"idt"})
    /\ UNCHANGED <<machine, thread>>

-----------------------------------------------------------------------------
\* ensure_timer_ready: no APIC, x2APIC mode, a disabled or absent base, or a
\* register page that cannot be mapped is an error; else the page is mapped.
\* initialize_timer then arms the timer for one shot and enables interrupts.
TimerArm ==
    \/ /\ Stage("timer", "timer_wait", {"idt", "frames"}, {"apic"})
       /\ interrupts' = TRUE
       /\ lvt' = "oneshot"
       /\ ticks' = 0
       /\ UNCHANGED <<pending, fired, thread>>
    \/ /\ Stage("timer", "acpi", {"tty"}, {})
       /\ UNCHANGED <<machine, thread>>

\* Mutant: the timeout path returns without disabling interrupts.
TimerSettleKeepsInterrupts ==
    /\ Stage("timer_wait", "acpi", {"tty", "clock"}, {})
    /\ interrupts' = (ticks = 0)
    /\ lvt' = "masked"
    /\ UNCHANGED <<pending, ticks, fired, thread>>

\* The wait ends with the first tick or, without one, at the deadline: in both
\* cases interrupts go off and the timer is masked.
TimerSettle ==
    /\ Stage("timer_wait", "acpi", {"tty", "clock"}, {})
    /\ interrupts' = FALSE
    /\ lvt' = "masked"
    /\ UNCHANGED <<pending, ticks, fired, thread>>

\* The APIC timer runs out.  A one-shot does so once; masking the entry does
\* not take back an interrupt that is already latched.
TimerExpires ==
    /\ lvt # "masked"
    /\ pending = "none"
    /\ pending' = lvt
    /\ lvt' = IF lvt = "oneshot" THEN "masked" ELSE lvt
    /\ UNCHANGED <<stage, self_test, online, missing, cause, interrupts, ticks, fired,
                   thread>>

\* timer_handler: it counts, sends the end of interrupt through the mapped
\* register page, and tells the scheduler, which counts in its window only.
TimerInterrupt ==
    /\ interrupts /\ pending # "none"
    /\ ticks < MaxTicks
    /\ ticks' = ticks + 1
    /\ fired' = IF pending = "periodic" THEN fired + 1 ELSE fired
    /\ pending' = "none"
    /\ missing' = missing \cup ({"idt", "apic"} \ online)
    /\ UNCHANGED <<stage, self_test, online, cause, interrupts, lvt, thread>>

-----------------------------------------------------------------------------
\* smp::initialize sets the topology only when the boot CPU is in the MADT.
SmpInitialize == {{}, {"smp"}}

\* power::configure: the FADT may or may not describe a reset register.
PowerConfigure == {{}, {"reset"}}

\* ACPI is optional in every part; the tables it finds are kept in vectors.
AcpiStage ==
    /\ \E cpus \in SmpInitialize, reset \in PowerConfigure :
          Stage("acpi", "procfs", IF cpus \cup reset = {} THEN {"tty"} ELSE {"tty", "heap"},
                cpus \cup reset)
    /\ UNCHANGED <<machine, thread>>

\* procfs, devfs and vfs refuse to be initialised twice.
FileSystem(name, from, to, needs) ==
    /\ IF name \in online THEN Halt(from, "already", {"tty"})
                          ELSE Stage(from, to, needs, {name})
    /\ UNCHANGED <<machine, thread>>

ProcfsStage == FileSystem("procfs", "procfs", "devfs", {})
DevfsStage == FileSystem("devfs", "devfs", "initrd", {"tty"})
VfsStage == FileSystem("vfs", "vfs", "hfs", {"heap", "procfs", "devfs"})

\* No usable archive is only a warning.  fat::initialize has no block device
\* to read and reports so.
InitrdStage ==
    /\ \E archive \in {{}, {"initrd"}} : Stage("initrd", "vfs", {"heap", "tty"}, archive)
    /\ UNCHANGED <<machine, thread>>

\* initialize_hfs registers one test payload with the hfs namespace.
HfsStage ==
    /\ Stage("hfs", "modules", {"tty"}, {})
    /\ UNCHANGED <<machine, thread>>

\* load_modules, and the report on the init executable: failures are reported.
ModulesStage ==
    /\ Stage("modules", "consoles", {"vfs", "heap", "frames"}, {})
    /\ UNCHANGED <<machine, thread>>

\* The switch to console 1 and back fails only on a terminal that is not up.
ConsolesStage ==
    /\ IF "tty" \in online THEN Stage("consoles", "self_test", {"tty"}, {})
                           ELSE Halt("consoles", "console", {"tty"})
    /\ UNCHANGED <<machine, thread>>

-----------------------------------------------------------------------------
\* power::reboot: an error when no usable register is known, when its page
\* cannot be mapped, or when the machine is still running after the write.
PowerReset ==
    \/ /\ "reset" \in online
       /\ Stage("self_test", "reset", {"reset"}, {})
    \/ Halt("self_test", "self_test", {"tty"})

\* Only the breakpoint and the heterexec tests return.
SelfTestStage ==
    /\ \/ /\ self_test \in {"breakpoint", "heterexec"}
          /\ Stage("self_test", "display", {"idt", "tty"}, {})
       \/ /\ self_test \in {"page_fault", "general_protection", "panic"}
          /\ Halt("self_test", "self_test", {"idt", "tty"})
       \/ self_test = "power_reset" /\ PowerReset
    /\ UNCHANGED <<machine, thread>>

\* With a BGA adapter and a boot framebuffer the terminal gains a screen; the
\* mode's limits, or a pixel format fb::initialize rejects, leave it without.
DisplayStage ==
    /\ \E screen \in {{}, {"framebuffer"}} :
          Stage("display", "activate", {"frames", "tty"}, screen)
    /\ UNCHANGED <<machine, thread>>

\* activate_init_handoff needs an executable, which only the archive has.
ActivateStage ==
    /\ \E image \in IF "initrd" \in online THEN {{}, {"init"}} ELSE {{}} :
          Stage("activate", "sched", {"vfs", "heap"}, image)
    /\ UNCHANGED <<machine, thread>>

-----------------------------------------------------------------------------
\* sched::bootstrap: the thread table, the periodic timer, interrupts on.  The
\* scheduler's count starts at 0; a latched interrupt of the first window is
\* taken as soon as interrupts are on.
BootstrapArm ==
    \/ /\ Stage("sched", "sched_wait", {"idt", "frames", "clock"}, {"apic"})
       /\ interrupts' = TRUE
       /\ lvt' = "periodic"
       /\ ticks' = 0
       /\ UNCHANGED <<pending, fired, thread>>
    \/ /\ Halt("sched", "timer", {"tty"})
       /\ UNCHANGED <<machine, thread>>

\* Mutant: the wait is for one tick less.
BootstrapDoneEarly ==
    /\ ticks >= TargetTicks - 1
    /\ Stage("sched_wait", "spawn", {"apic"}, {"sched"})
    /\ interrupts' = FALSE
    /\ UNCHANGED <<lvt, pending, ticks, fired, thread>>

BootstrapDone ==
    /\ ticks >= TargetTicks
    /\ Stage("sched_wait", "spawn", {"apic"}, {"sched"})
    /\ interrupts' = FALSE
    /\ UNCHANGED <<lvt, pending, ticks, fired, thread>>

\* Mutant: the bootstrap waits for its ticks without a deadline.
BootstrapTimeoutNever == FALSE /\ UNCHANGED vars

\* The deadline passes first: interrupts off, timer masked, halt.
BootstrapTimeout ==
    /\ ticks < TargetTicks
    /\ Halt("sched_wait", "timer", {"clock"})
    /\ interrupts' = FALSE
    /\ lvt' = "masked"
    /\ UNCHANGED <<pending, ticks, fired, thread>>

\* spawn_init_process: without an activation it fails, and boot goes on.
SpawnStage ==
    /\ Stage("spawn", "probe_open", {"sched", "frames"}, {})
    /\ UNCHANGED <<machine, thread>>

\* Each of the four probes opens /proc/version, and the calls it makes go through
\* dispatch.  The exit_group it also asks for is decoded and not carried out.
ProbeOpen(n, needs) ==
    /\ probes = n
    /\ Stage("probe_open", "probe_close", needs \cup {"vfs", "procfs", "sched"}, {})
    /\ open_files' \in {open_files, open_files + 1}
    /\ probes' = n + 1
    /\ UNCHANGED machine

LinuxProbe == ProbeOpen(0, {"tty", "clock"})
GhostProbe == ProbeOpen(1, {"tty", "clock"})
HxnuProbe == ProbeOpen(2, {"tty", "clock"})

\* The fourth makes its calls by int 0x80.
InterruptProbe == ProbeOpen(3, {"tty", "idt"})

\* What a probe has opened it has read and closes, and main.rs reports.
ProbeClose ==
    /\ Stage("probe_close", IF probes = ProbeCount THEN "bridge" ELSE "probe_open",
             {"sched"}, {})
    /\ open_files' = 0
    /\ UNCHANGED <<machine, probes>>

\* The hps hooks are installed; then sched::idle_loop.
BridgeStage ==
    /\ Stage("bridge", "idle", {"sched", "vfs", "procfs", "devfs"}, {})
    /\ UNCHANGED <<machine, thread>>

Stages ==
    \/ Entry \/ TtyOnline \/ MemoryStage \/ HeapStage \/ SupernovaStage
    \/ DescriptorTables \/ TimerArm \/ TimerSettle \/ AcpiStage \/ ProcfsStage
    \/ DevfsStage \/ InitrdStage \/ VfsStage \/ HfsStage \/ ModulesStage
    \/ ConsolesStage \/ SelfTestStage \/ DisplayStage \/ ActivateStage
    \/ BootstrapArm \/ BootstrapDone \/ BootstrapTimeout \/ SpawnStage
    \/ LinuxProbe \/ GhostProbe \/ HxnuProbe \/ InterruptProbe \/ ProbeClose \/ BridgeStage

\* halt(), halt_forever() and the context switch of idle_loop do not return.
Stopped == stage \in {"idle", "halted", "reset"} /\ UNCHANGED vars

Next == Stages \/ TimerExpires \/ TimerInterrupt \/ Stopped

\* _start runs on one processor that nothing else schedules, and each wait it
\* enters polls a clock that advances.  Nothing is assumed of the timer.
Spec == Init /\ [][Next]_vars /\ WF_vars(Stages)

-----------------------------------------------------------------------------
\* No stage, and no interrupt handler, uses a service that is not up: whatever
\* the boot loader leaves out, the code has halted before something depends on
\* it.  The failures main.rs treats as fatal but that only a wrong order could
\* cause do not happen, and the bootstrap thread leaves no file open.
BootOrderSound ==
    /\ missing = {}
    /\ cause \notin {"already", "console"}
    /\ stage = "idle" => open_files = 0

\* Interrupts are enabled only while _start waits for a timer.  Every other
\* stage, the self tests' assertions and halt() included, runs undisturbed.
InterruptsOnlyInWaits == interrupts => stage \in {"timer_wait", "sched_wait"}

\* When sched::bootstrap reports success the periodic timer has ticked: of the
\* ticks it counted, at most one is the late one-shot of the first window,
\* latched after that window timed out.
BootstrapProvesTimer == "sched" \in online => fired >= TargetTicks - 1
=============================================================================
