----------------------------- MODULE MCServices -----------------------------
(***************************************************************************)
(* Five kernel services that share no state: the terminal, the address     *)
(* spaces, the processes and their forwarded calls, an open file, and the  *)
(* drivers.  A behaviour exercises one of them, chosen at the start; the   *)
(* others stay as they begin.                                              *)
(***************************************************************************)
EXTENDS Terminal, AddressSpace, Processes, OpenStream, Devices, TLC

\* Directory listings by the lengths of their lines: an empty one, ones that the
\* file buffer holds and cuts, an empty line, equal lines.
MCListings == {<<>>, <<1, 4, 2>>, <<4, 5, 1, 1>>, <<2, 0, 1>>, <<3, 3, 3, 3>>}

\* The address spaces are created in any order.
SpaceSymmetry == Permutations(Spaces)

VARIABLE part                \* the service at work

vars == <<part, termVars, asVars, procVars, streamVars, devVars>>

Init ==
    /\ part \in {"terminal", "spaces", "processes", "stream", "devices"}
    /\ TermInit /\ AsInit /\ ProcInit /\ StreamInit /\ DevInit
    /\ part # "stream" => listing = <<>>

Next ==
    \/ /\ part = "terminal" /\ TermNext
       /\ UNCHANGED <<part, asVars, procVars, streamVars, devVars>>
    \/ /\ part = "spaces" /\ AsNext
       /\ UNCHANGED <<part, termVars, procVars, streamVars, devVars>>
    \/ /\ part = "processes" /\ ProcNext
       /\ UNCHANGED <<part, termVars, asVars, streamVars, devVars>>
    \/ /\ part = "stream" /\ StreamNext
       /\ UNCHANGED <<part, termVars, asVars, procVars, devVars>>
    \/ /\ part = "devices" /\ DevNext
       /\ UNCHANGED <<part, termVars, asVars, procVars, streamVars>>

Spec == Init /\ [][Next]_vars
=============================================================================
