---------------------------- MODULE MCSlabLayout ----------------------------
(* SlabLayout for TLC, with the sizes the kernel is built with. *)
EXTENDS SlabLayout

MCBufferSizes == (1 .. 200) \union (1000 .. 1040) \union (4000 .. 4100) \union (8130 .. 8170)
=============================================================================
