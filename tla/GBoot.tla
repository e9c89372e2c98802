------------------------------- MODULE GBoot --------------------------------
(***************************************************************************)
(* G-Boot, the boot loader of the AArch64 board (RK3588S): it puts the     *)
(* PCIe controller into endpoint mode, starts three drivers, tears the     *)
(* interrupt controller and the caches down and enters the kernel.         *)
(*                                                                         *)
(* A register of the GRF, CRU or PMU is the set of its bits that are 1.    *)
(* What it holds at power on, and when a device reports itself ready, is   *)
(* the hardware's choice.  Output on the console is left out.              *)
(***************************************************************************)
EXTENDS Integers

CONSTANT GbPolls      \* how often a bounded poll reads its status: 100 to 10,000,000

ASSUME GbAssumption == GbPolls \in Nat \ {0}

VARIABLES
    gb_at,      \* the step of _start_rust or perform_handover
    gb_linux,   \* built with the load_linux feature
    gb_el,      \* CurrentEL
    gb_grf,     \* register -> its bits
    gb_first,   \* ghost: gb_grf at power on
    gb_polls,   \* reads left in the poll at hand
    gb_driver,  \* driver -> FsmState
    gb_daif,    \* interrupts are masked
    gb_gic,     \* parts of the GIC that are enabled
    gb_fp,      \* CPACR_EL1 lets EL1 use floating point
    gb_cache,   \* SCTLR_EL1 has MMU and caches on
    gb_dirty,   \* memory with lines that only the data cache holds
    gb_stale    \* "tlb", "icache": may hold entries from before the handover

gbVars == <<gb_at, gb_linux, gb_el, gb_grf, gb_first, gb_polls, gb_driver, gb_daif, gb_gic,
            gb_fp, gb_cache, gb_dirty, gb_stale>>
gbTeardown == <<gb_daif, gb_gic, gb_fp, gb_cache, gb_dirty, gb_stale>>

\* The registers, with the bits written and one neighbour each.
RegisterBits ==
    [SOC_CON0  |-> {4, 5},       PHP_CON0  |-> {0, 1},    PHY_CON0   |-> {0, 1, 4, 5},
     PD_CON    |-> {4, 5},       CLKGATE28 |-> 0 .. 3,    CLKGATE29  |-> {4, 5, 6},
     SOFTRST28 |-> 0 .. 4]

GbInit ==
    /\ gb_at = "reset"
    /\ gb_linux \in BOOLEAN
    /\ gb_el \in 1 .. 3
    /\ \E ones \in SUBSET DOMAIN RegisterBits :
          gb_grf = [r \in DOMAIN RegisterBits |-> IF r \in ones THEN RegisterBits[r] ELSE {}]
    /\ gb_first = gb_grf
    /\ gb_polls = GbPolls
    /\ gb_driver = [d \in {"gui", "touch", "alveo"} |-> "Init"]
    /\ gb_daif = FALSE /\ gb_fp = FALSE
    /\ gb_gic \in {{}, {"interface", "distributor"}}
    /\ gb_cache \in BOOLEAN
    /\ gb_dirty \in {{}, {"kernel", "dtb", "stack"}}
    /\ gb_stale = {"tlb", "icache"}

GbGo(from, to) == gb_at = from /\ gb_at' = to /\ UNCHANGED <<gb_linux, gb_first>>

\* The assembly at _start masks interrupts before anything else.
GbStart ==
    /\ GbGo("reset", "soc")
    /\ gb_daif' = TRUE
    /\ UNCHANGED <<gb_el, gb_grf, gb_polls, gb_driver, gb_gic, gb_fp, gb_cache, gb_dirty, gb_stale>>

-----------------------------------------------------------------------------
(* pcie_ep.rs                                                              *)

\* Mutant: the mask in the high half of the word is forgotten.
MaskedWriteBlind(old, mask, val) == val

\* write_enable_mask, and what the register does with the word: only the bits
\* named in its high half change.
MaskedWrite(old, mask, val) == (old \ mask) \cup (val \cap mask)

GbWrite(from, to, r, mask, val) ==
    /\ GbGo(from, to)
    /\ gb_grf' = [gb_grf EXCEPT ![r] = MaskedWrite(@, mask, val)]
    /\ UNCHANGED <<gb_el, gb_polls, gb_driver, gbTeardown>>

\* A poll reads its status a bounded number of times.
GbPoll(from, ready, timeout) ==
    /\ \/ GbGo(from, ready) /\ gb_polls' = GbPolls
       \/ gb_polls > 1 /\ GbGo(from, from) /\ gb_polls' = gb_polls - 1
       \/ gb_polls = 1 /\ GbGo(from, timeout) /\ gb_polls' = GbPolls
    /\ UNCHANGED <<gb_el, gb_grf, gbTeardown>>

EndpointMode ==
    \/ GbWrite("soc", "php", "SOC_CON0", {4}, {4})
    \/ GbWrite("php", "phy", "PHP_CON0", {0}, {0})
    \/ GbWrite("phy", "power", "PHY_CON0", {0, 1}, {0})

\* Neither poll is fatal: a timeout is reported and the sequence goes on.
PowerDomain ==
    \/ GbWrite("power", "power_poll", "PD_CON", {4}, {})
    \/ GbPoll("power_poll", "clock28", "clock28") /\ UNCHANGED gb_driver

UngateClocks ==
    \/ GbWrite("clock28", "clock29", "CLKGATE28", {0, 1, 2}, {})
    \/ GbWrite("clock29", "assert", "CLKGATE29", {4, 5}, {})

ResetSequence ==
    \/ GbWrite("assert", "release_phy", "SOFTRST28", {0, 1, 2, 3}, {0, 1, 2, 3})
    \/ GbWrite("release_phy", "phy_reset", "SOFTRST28", {3}, {})
    \/ GbWrite("phy_reset", "release_ctrl", "PHY_CON0", {4}, {4})
    \/ GbWrite("release_ctrl", "pll_poll", "SOFTRST28", {0, 1, 2}, {})

PllLock == GbPoll("pll_poll", "gui", "gui") /\ UNCHANGED gb_driver

-----------------------------------------------------------------------------
(* drivers/: each init enables its device, polls it and is Ready or Error. *)

DriverStart(d, from, poll) ==
    /\ GbGo(from, poll)
    /\ gb_driver' = [gb_driver EXCEPT ![d] = "Polling"]
    /\ UNCHANGED <<gb_el, gb_grf, gb_polls, gbTeardown>>

\* _start_rust prints and loops for ever when a driver is not Ready.
DriverPoll(d, poll, next, last) ==
    /\ GbPoll(poll, next, "panic")
    /\ gb_driver' = [gb_driver EXCEPT ![d] = CASE gb_at' = "panic" -> "Error"
                                               [] gb_at' = next /\ last -> "Ready"
                                               [] OTHER -> @]

GuiInit ==
    \/ DriverStart("gui", "gui", "gui_poll")
    \/ DriverPoll("gui", "gui_poll", "touch", TRUE)

TouchInit ==
    \/ DriverStart("touch", "touch", "touch_poll")
    \/ DriverPoll("touch", "touch_poll", "alveo", TRUE)

\* One poll for each of the two letters it sends.
AlveoInit ==
    \/ DriverStart("alveo", "alveo", "alveo_poll_a")
    \/ DriverPoll("alveo", "alveo_poll_a", "alveo_poll_t", FALSE)
    \/ DriverPoll("alveo", "alveo_poll_t", "chain", TRUE)

-----------------------------------------------------------------------------
(* handover.rs                                                             *)

\* chainload_linux jumps as it is; chainload_hxnu performs the handover.
Chainload ==
    /\ GbGo("chain", IF gb_linux THEN "linux" ELSE "gic")
    /\ UNCHANGED <<gb_el, gb_grf, gb_polls, gb_driver, gbTeardown>>

gbSetup == <<gb_grf, gb_polls, gb_driver>>

DisableGicv3 ==
    /\ GbGo("gic", "fp")
    /\ gb_daif' = TRUE /\ gb_gic' = {}
    /\ UNCHANGED <<gb_el, gbSetup, gb_fp, gb_cache, gb_dirty, gb_stale>>

EnableFpSimd ==
    /\ GbGo("fp", "flush_range")
    /\ gb_fp' = TRUE
    /\ UNCHANGED <<gb_el, gbSetup, gb_daif, gb_gic, gb_cache, gb_dirty, gb_stale>>

FlushDcacheRange ==
    /\ GbGo("flush_range", "flush_all")
    /\ gb_dirty' = gb_dirty \ {"dtb", "kernel"}
    /\ UNCHANGED <<gb_el, gbSetup, gb_daif, gb_gic, gb_fp, gb_cache, gb_stale>>

\* The loop's own variables may be on the stack, and so be dirty again.
FlushDcacheAllSetway ==
    /\ GbGo("flush_all", "mmu")
    /\ gb_dirty' \in {{}, {"stack"}}
    /\ UNCHANGED <<gb_el, gbSetup, gb_daif, gb_gic, gb_fp, gb_cache, gb_stale>>

\* What is dirty now stays behind in a cache nobody reads.
DisableMmuAndCaches ==
    /\ GbGo("mmu", "tlb")
    /\ gb_cache' = FALSE
    /\ UNCHANGED <<gb_el, gbSetup, gb_daif, gb_gic, gb_fp, gb_dirty, gb_stale>>

InvalidateTlb ==
    /\ GbGo("tlb", "icache")
    /\ gb_stale' = gb_stale \ {"tlb"}
    /\ UNCHANGED <<gb_el, gbSetup, gb_daif, gb_gic, gb_fp, gb_cache, gb_dirty>>

InvalidateIcache ==
    /\ GbGo("icache", "enter")
    /\ gb_stale' = gb_stale \ {"icache"}
    /\ UNCHANGED <<gb_el, gbSetup, gb_daif, gb_gic, gb_fp, gb_cache, gb_dirty>>

\* eret from EL3 or EL2 with SPSR 0x3C5, which has DAIF set, or a branch at EL1.
PerformHandover ==
    /\ GbGo("enter", "kernel")
    /\ gb_daif' = (gb_el > 1 \/ gb_daif)
    /\ gb_el' = 1
    /\ UNCHANGED <<gbSetup, gb_gic, gb_fp, gb_cache, gb_dirty, gb_stale>>

GbEnds == {"kernel", "linux", "panic"}

GbNext ==
    \/ GbStart \/ EndpointMode \/ PowerDomain \/ UngateClocks \/ ResetSequence \/ PllLock
    \/ GuiInit \/ TouchInit \/ AlveoInit \/ Chainload
    \/ DisableGicv3 \/ EnableFpSimd \/ FlushDcacheRange \/ FlushDcacheAllSetway
    \/ DisableMmuAndCaches \/ InvalidateTlb \/ InvalidateIcache \/ PerformHandover

GbSpec == GbInit /\ [][GbNext]_gbVars /\ WF_gbVars(GbNext)

-----------------------------------------------------------------------------
\* The bits init_pcie_endpoint settles, and those of them that end as 1.
Settled ==
    [SOC_CON0  |-> {4},       PHP_CON0  |-> {0},    PHY_CON0   |-> {0, 1, 4},
     PD_CON    |-> {4},       CLKGATE28 |-> 0 .. 2, CLKGATE29  |-> {4, 5},
     SOFTRST28 |-> 0 .. 3]
Raised == [r \in DOMAIN Settled |->
              IF r \in {"SOC_CON0", "PHP_CON0", "PHY_CON0"} THEN Settled[r] \ {1} ELSE {}]

\* The kernel is entered at EL1 with interrupts masked and the GIC quiet, with
\* nothing of it left in a cache that is now off, with every driver Ready; and the
\* endpoint is powered, clocked and out of reset whatever the registers held at
\* power on, no other bit of them changed, although three writes share
\* SOFTRST_CON28 and two share the PHY's register.
HandoverSound ==
    gb_at = "kernel" =>
        /\ gb_el = 1 /\ gb_daif /\ gb_gic = {} /\ gb_fp
        /\ ~gb_cache /\ gb_stale = {} /\ gb_dirty \cap {"kernel", "dtb"} = {}
        /\ \A d \in DOMAIN gb_driver : gb_driver[d] = "Ready"
        /\ \A r \in DOMAIN gb_grf : gb_grf[r] = (gb_first[r] \ Settled[r]) \cup Raised[r]
=============================================================================
