------------------------------ MODULE PageMap -------------------------------
(***************************************************************************)
(* kernel/boot.c, default_page_map: the page directory and the page tables *)
(* paging is switched on with.  Addresses are counted in pages, those of   *)
(* the kernel's half of the address space from __PAGE_OFFSET.  The tables  *)
(* lie one behind another, after the directory, in memory nobody has       *)
(* cleared; a directory entry holds the number of its table.               *)
(***************************************************************************)
EXTENDS Integers

CONSTANTS
    Entries,      \* 1024, the entries of the directory and of a table
    Tables,       \* 0x2000000 >> PDE_SHIFT, the tables linked
    KernelEntry,  \* __PAGE_OFFSET / (1 << PDE_SHIFT)
    StaleEntries  \* what the memory of the directory and the tables may hold

\* In a directory or a table: an entry that is not present.
Absent == -1

ASSUME PageMapAssumption ==
    /\ Entries \in Nat \ {0} /\ Tables \in Nat \ {0} /\ KernelEntry \in Nat
    /\ Tables <= KernelEntry /\ KernelEntry + Tables <= Entries
    /\ StaleEntries \subseteq Int /\ StaleEntries # {}

VARIABLES
    paging,      \* the PG bit of cr0
    pde, pte,
    i, j

page_map_vars == <<paging, pde, pte, i, j>>

Directory == 0 .. Entries - 1

TableEntries == 0 .. Tables * Entries - 1

PageMapOff == paging = FALSE /\ pde = << >> /\ pte = << >> /\ i = 0 /\ j = 0

\* The memory of the tables when the machine is switched on.
PageMapInit ==
    /\ \E left \in StaleEntries :
          /\ pde' = [d \in Directory |-> left]
          /\ pte' = [k \in TableEntries |-> left]
    /\ UNCHANGED <<paging, i, j>>

\* One turn of the outer loop: the inner one goes on from where it stopped in
\* the turn before, and ends where the table that is linked begins.
MapTable ==
    /\ ~paging /\ i < Tables
    /\ pde' = [pde EXCEPT ![i] = i, ![KernelEntry + i] = i]
    /\ pte' = [k \in TableEntries |-> IF k >= j /\ k < i * Entries THEN k ELSE pte[k]]
    /\ j' = IF j < i * Entries THEN i * Entries ELSE j
    /\ i' = i + 1
    /\ UNCHANGED paging

Enable ==
    /\ ~paging /\ i = Tables
    /\ paging' = TRUE
    /\ UNCHANGED <<pde, pte, i, j>>

default_page_map == MapTable \/ Enable
-----------------------------------------------------------------------------
\* The page an address in page v leads to, as the processor walks the tables.
Translate(v) ==
    LET d == pde[v \div Entries]
    IN  IF d \notin 0 .. Tables - 1 THEN Absent ELSE pte[d * Entries + (v % Entries)]

\* Page v is seen at its place, both at its low address, where the code runs
\* when paging is switched on, and in the kernel's half.
Seen(v) == Translate(v) = v /\ Translate(KernelEntry * Entries + v) = v
=============================================================================
