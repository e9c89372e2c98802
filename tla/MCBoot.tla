------------------------------- MODULE MCBoot -------------------------------
(***************************************************************************)
(* The two ways into the kernel: Limine's, on x86_64, which main.rs        *)
(* carries on to the idle loop, and G-Boot's on the AArch64 board.  A      *)
(* behaviour takes one of them.                                            *)
(***************************************************************************)
EXTENDS Boot, GBoot

VARIABLE path

bootVars == <<path, vars, gbVars>>

\* The variables of the way not taken rest in one of their initial states.
MCInit ==
    \/ /\ path = "limine"
       /\ Init /\ GbInit
       /\ ~gb_linux /\ gb_el = 1 /\ gb_gic = {} /\ ~gb_cache /\ gb_dirty = {}
       /\ \A r \in DOMAIN gb_grf : gb_grf[r] = {}
    \/ /\ path = "gboot"
       /\ Init /\ GbInit
       /\ self_test = CHOOSE t \in SelfTests : TRUE

LimineStages == path = "limine" /\ Stages /\ UNCHANGED <<path, gbVars>>
LimineTimer == path = "limine" /\ (TimerExpires \/ TimerInterrupt) /\ UNCHANGED <<path, gbVars>>
LimineStopped == path = "limine" /\ Stopped /\ UNCHANGED <<path, gbVars>>
GBootSteps == path = "gboot" /\ GbNext /\ UNCHANGED <<path, vars>>
GBootStopped == path = "gboot" /\ gb_at \in GbEnds /\ UNCHANGED bootVars

MCNext == LimineStages \/ LimineTimer \/ LimineStopped \/ GBootSteps \/ GBootStopped

\* Either way is straight-line code on the only running processor, and each wait
\* it enters counts reads or polls a clock that advances.  Nothing is assumed of
\* the timer or of a device, except that the console's UART takes a character.
MCSpec ==
    /\ MCInit /\ [][MCNext]_bootVars
    /\ WF_bootVars(LimineStages) /\ WF_bootVars(GBootSteps)

-----------------------------------------------------------------------------
\* Boot ends: main.rs in the idle loop, in a halt or in a reset, G-Boot in the
\* kernel, in Linux or in its panic loop.  A timer that never fires, or a device
\* that never reports itself ready, cannot hang it.
BootEnds == <>(stage \in {"idle", "halted", "reset"} \/ gb_at \in GbEnds)
=============================================================================
