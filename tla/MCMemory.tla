------------------------------ MODULE MCMemory ------------------------------
(***************************************************************************)
(* A word of 32 addresses, pages of 4, the first 8 addresses reserved.     *)
(***************************************************************************)
EXTENDS Memory

Usable(base, length) == [base |-> base, length |-> length, usable |-> TRUE]
Other(base, length) == [base |-> base, length |-> length, usable |-> FALSE]

\* Two usable ranges that share a border, at every alignment of border and end,
\* around one that is not usable; a range that ends beyond the word; more regions
\* than the table has room for; and no region at all.
MCMemoryMaps ==
    {<<Usable(5, m - 5), Other(3, 2), Usable(m, t - m)>> : m \in {18, 20}, t \in {27, 28, 31}}
    \cup {<<Usable(b, 31), Usable(2, b - 2)>> : b \in {16, 19, 22, 29}}
    \cup {<<Usable(8, 8), Usable(16, 4), Usable(20, 10)>>, <<Other(0, 31), Usable(0, 11)>>}
=============================================================================
