------------------------------- MODULE MCBoot -------------------------------
(* Boot for TLC, with the sizes of the real machine but for the entries of  *)
(* a page table, which are four times as wide: a table maps 1 MB.  The      *)
(* memory of the tables held zeros, which are not present, or some page.    *)
EXTENDS Boot

MCStaleEntries == {Absent, 2}
=============================================================================
