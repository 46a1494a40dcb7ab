-------------------------------- MODULE MCMm --------------------------------
(* Mm for TLC: three orders, blocks of one, two and four pages. *)
EXTENDS Mm

MCSize == [o \in 0 .. MAX_ORDER |-> CASE o = 0 -> 1 [] o = 1 -> 2 [] o = 2 -> 4]

\* Memory that reads as zero.
Clear == [count |-> 0, rvsd |-> FALSE, zone |-> "DMA"]

Zeroed == {[p \in 0 .. MaxPages - 1 |-> Clear]}

\* Memory with one of three contents in all struct pages of ZONE_DMA, in the
\* first and the second of ZONE_NORMAL, and in all the rest.
Stale ==
    LET contents == {Clear, [Clear EXCEPT !.count = 1], [Clear EXCEPT !.zone = "HIGHMEM"]}
        part(p)  == IF p < DmaPages THEN 1 ELSE IF p < DmaPages + 2 THEN p - DmaPages + 2 ELSE 4
    IN  {[p \in 0 .. MaxPages - 1 |-> is[part(p)]] : is \in [1 .. 4 -> contents]}
=============================================================================
