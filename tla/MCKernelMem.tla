---------------------------- MODULE MCKernelMem -----------------------------
(* KernelMem for TLC: blocks of one, two and four pages, a page standing    *)
(* for 2 MB, so that MAX_ORDER is 8 MB, ZONE_DMA 16 MB and 28 MB are mapped.*)
EXTENDS KernelMem

MCSize == [o \in 0 .. MAX_ORDER |-> CASE o = 0 -> 1 [] o = 1 -> 2 [] o = 2 -> 4]

Zeroed == {[p \in 0 .. MaxPages - 1 |-> [count |-> 0, rvsd |-> FALSE, zone |-> "DMA"]]}
=============================================================================
