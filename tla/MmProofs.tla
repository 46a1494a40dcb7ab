------------------------------ MODULE MmProofs ------------------------------
(***************************************************************************)
(* Mm and KernelMem, for every size of machine and kernel and every number *)
(* of orders, in five parts.                                               *)
(*                                                                         *)
(* Inv: TypeOK and KernelPagesSafe, whatever the RAM holds at power-on and *)
(* whatever is freed.  The cells of ZONE_NORMAL (its list heads and the    *)
(* lru of its pages), together with the poison pointers and NULL, are      *)
(* closed under next and prev.  No list_add or list_del of the code leads  *)
(* out of them, not even the list_del of an entry that is on no list.  So  *)
(* alloc_pages, which starts at a list head of ZONE_NORMAL, only ever finds *)
(* pages of ZONE_NORMAL, and so do its splits and the merges of a free.    *)
(*                                                                         *)
(* BootInv: BootsExactlyOn.  In clean RAM each scan of free_area_init      *)
(* takes what the scans before it have left.                               *)
(*                                                                         *)
(* ExactInv: EveryPageOnce and KeepsPromise, on the machines PlainMachines *)
(* describes.  The free lists are stacks L, as far as nr_free counts; what *)
(* lies behind is stale and may be linked across lists.  The blocks on the *)
(* stacks, in a caller's hands and in the running call tile the pages      *)
(* above the kernel.  Every step trades blocks for blocks of the same      *)
(* pages, and the list_del of the wrong entry in mm_test's free does no    *)
(* harm because it empties lists that hold one block each.                 *)
(*                                                                         *)
(* CacheInv and FirstUp: ObjectsApart, UpExactlyOn and ImplementsSlab of   *)
(* KernelMem, on the same machines.                                        *)
(*                                                                         *)
(* SumChanges: PagesConserved, from Inv.  A sum over a set changes by what *)
(* one summand changes by, and each step moves a block's pages from one of *)
(* the three sums to another.                                              *)
(***************************************************************************)
EXTENDS KernelMem, FiniteSetTheorems, NaturalsInduction, WellFoundedInduction, TLAPS

NormalPages == DmaPages .. total - 1

High == ({"page"} \X NormalPages) \union ({"NORMAL"} \X Orders)
            \union {NULL, LIST_POISON1, LIST_POISON2}

Closed(m, R) == \A c \in R : m.next[c] \in R /\ m.prev[c] \in R

Early == {"mm_reserved_init", "zone_init", "page_init"}

NormalClosed == Closed(mem, High)

\* The list ZONE_DMA's pages are added to does not lead to the rest.
DmaApart ==
    pc = "area_scan" /\ scan.zone = "DMA" =>
        mem.next[<<"DMA", scan.order>>] \in Cell \ High

SpannedFits ==
    pc \notin Early =>
        /\ spanned["DMA"] <= DmaPages
        /\ \A z \in Zones : spanned[z] > 0 => ZoneMemMap(z) + spanned[z] <= total

ScanFits == pc \in {"area_begin", "area_scan"} => scan.pagenum <= spanned[scan.zone]

ZonesSet == pc \notin Early => \A p \in NormalPages : page[p].zone # "DMA"

KernelReserved ==
    pc # "mm_reserved_init" =>
        \A p \in 0 .. resv - 1 : p < DmaPages => page[p].count = 1 /\ page[p].rvsd

CallIsNormal ==
    pc \in {"split", "merge"} => call.zone = "NORMAL" /\ call.page \in NormalPages

HeldIsNormal == \A b \in Blocks : held[b] > 0 => b[1] \in NormalPages

Inv ==
    /\ TypeOK
    /\ NormalClosed /\ DmaApart
    /\ SpannedFits /\ ScanFits
    /\ ZonesSet /\ KernelReserved
    /\ CallIsNormal /\ HeldIsNormal
-----------------------------------------------------------------------------
(* Storing an entry of a closed set into a list of that set keeps it closed. *)
LEMMA AddStaysClosed ==
    ASSUME NEW C, NEW R \in SUBSET C, NEW m \in Memory(C), Closed(m, R),
           NEW new \in R, NEW head \in R
    PROVE  list_add(m, new, head) \in Memory(C) /\ Closed(list_add(m, new, head), R)
<1> DEFINE r == list_add(m, new, head)
<1>1. m.next[head] \in R /\ m.next[head] \in C
  BY DEF Closed
<1>2. /\ r \in Memory(C)
      /\ r.next = [m.next EXCEPT ![new] = m.next[head], ![head] = new]
      /\ r.prev = [m.prev EXCEPT ![m.next[head]] = new, ![new] = head]
  BY <1>1 DEF insert_between, Memory, list_add
<1>3. m.next \in [C -> C] /\ m.prev \in [C -> C]
  BY DEF Memory
<1> HIDE DEF r
<1>4. ASSUME NEW c \in R PROVE r.next[c] \in R /\ r.prev[c] \in R
  BY <1>1, <1>2, <1>3 DEF Closed
<1> QED
  BY <1>2, <1>4 DEF Closed, r

(* list_del of any entry of a closed set that holds the poison pointers, on a *)
(* list or not, keeps it closed.                                              *)
LEMMA DelStaysClosed ==
    ASSUME NEW C, NEW R \in SUBSET C, NEW m \in Memory(C), Closed(m, R),
           NEW e \in R, {LIST_POISON1, LIST_POISON2} \subseteq R
    PROVE  list_del(m, e) \in Memory(C) /\ Closed(list_del(m, e), R)
<1> DEFINE r == list_del(m, e)
<1>1. /\ m.next[e] \in R /\ m.prev[e] \in R /\ m.next[e] \in C /\ m.prev[e] \in C
      /\ LIST_POISON1 \in C /\ LIST_POISON2 \in C
  BY DEF Closed
<1>2. \A c \in C : /\ r.next[c] = IF c = e THEN LIST_POISON1
                                  ELSE IF c = m.prev[e] THEN m.next[e] ELSE m.next[c]
                   /\ r.prev[c] = IF c = e THEN LIST_POISON2
                                  ELSE IF c = m.next[e] THEN m.prev[e] ELSE m.prev[c]
  BY DEF list_del, join, Memory
<1>3. r \in Memory(C)
  BY <1>1 DEF list_del, join, Memory
<1> HIDE DEF r
<1>4. ASSUME NEW c \in R PROVE r.next[c] \in R /\ r.prev[c] \in R
  BY <1>1, <1>2 DEF Closed
<1> QED
  BY <1>3, <1>4 DEF Closed, r

\* A value modulo the width of a counter is one of its values.
LEMMA ModRange ==
    ASSUME NEW a \in Int, NEW b \in Nat \ {0}
    PROVE  a % b \in 0 .. b - 1
  OBVIOUS

(* Below a multiple of twice the block size there is a pair of blocks: the   *)
(* buddy of a block above the multiple is above it too.                      *)
LEMMA BuddyAbove ==
    ASSUME NEW s \in Nat \ {0}, NEW d \in Nat, d % (2 * s) = 0,
           NEW p \in Nat, p >= d, (p \div s) % 2 # 0
    PROVE  p - s >= d
<1> DEFINE k == d \div (2 * s)
           q == p \div s
<1>1. k \in Nat /\ d = k * (2 * s)
  OBVIOUS
<1>2. q \in Nat /\ q * s <= p /\ p < q * s + s
  OBVIOUS
<1>3. (2 * k) * s = d
  BY <1>1
<1> HIDE DEF k, q
<1>4. q >= 2 * k
  <2>1. SUFFICES ASSUME q < 2 * k PROVE FALSE
    BY <1>1, <1>2
  <2>2. (q + 1) * s <= (2 * k) * s
    BY <1>1, <1>2, <2>1
  <2>3. (q + 1) * s = q * s + s
    BY <1>2
  <2> QED
    BY <1>1, <1>2, <1>3, <2>2, <2>3
<1>5. q # 2 * k
  BY <1>1 DEF q
<1>6. (q - 1) * s >= (2 * k) * s
  BY <1>1, <1>2, <1>4, <1>5
<1>7. (q - 1) * s = q * s - s
  BY <1>2
<1> QED
  BY <1>1, <1>2, <1>3, <1>6, <1>7
-----------------------------------------------------------------------------
\* What MmAssumption says of the orders, the sizes and the limits.
LEMMA OrderFacts ==
    /\ MAX_ORDER \in Nat /\ 0 \in Orders /\ MAX_ORDER \in Orders
    /\ DmaPages \in Nat /\ MaxPages \in Nat /\ ULong \in Nat \ {0}
    /\ \A o \in Orders : Size[o] \in Nat \ {0} /\ DmaPages % Size[o] = 0
    /\ \A o \in Orders \ {MAX_ORDER} : o + 1 \in Orders /\ Size[o + 1] = 2 * Size[o]
<1>1. ULong \in Nat \ {0}
  BY MmAssumption DEF Orders
<1> QED
  BY <1>1, MmAssumption DEF Orders

\* Pages and list heads are cells, and those of ZONE_NORMAL are High.
LEMMA CellFacts ==
    ASSUME total \in MemSizes
    PROVE  /\ total \in Nat /\ total <= MaxPages
           /\ High \in SUBSET Cell /\ NULL \in High
           /\ {LIST_POISON1, LIST_POISON2} \subseteq High
           /\ \A o \in Orders : <<"NORMAL", o>> \in High
           /\ \A o \in Orders : <<"DMA", o>> \in Cell \ High
           /\ \A p \in NormalPages : p \in PageIndex /\ <<"page", p>> \in High
           /\ \A p \in PageIndex : p < DmaPages => <<"page", p>> \in Cell \ High
           /\ \A c \in PageCells \intersect High : c[2] \in NormalPages
<1>1. total \in Nat /\ total <= MaxPages /\ MaxPages \in Nat /\ DmaPages \in Nat
  BY MmAssumption
<1>2. \A p \in NormalPages : p \in PageIndex
  BY <1>1 DEF NormalPages, PageIndex
<1>3. High \in SUBSET Cell
  BY <1>2 DEF High, Cell, PageCells, Zones
<1>4. \A o \in Orders : <<"DMA", o>> \in Cell \ High
  BY AddressesDiffer DEF High, Cell, Zones
<1>5. \A p \in PageIndex : p < DmaPages => <<"page", p>> \in Cell \ High
  BY <1>1, AddressesDiffer DEF High, Cell, PageCells, NormalPages, PageIndex
<1>6. \A c \in PageCells \intersect High : c[2] \in NormalPages
  BY AddressesDiffer DEF High, PageCells
<1> QED
  BY <1>1, <1>2, <1>3, <1>4, <1>5, <1>6 DEF High

(* The pages page_init counts for each zone. *)
LEMMA SpannedCounts ==
    ASSUME total \in MemSizes, NEW z \in Zones,
           NEW n, n = Cardinality({p \in 0 .. total - 1 : PageZone(p) = z})
    PROVE  /\ n \in Nat
           /\ z = "DMA" => n <= DmaPages
           /\ n > 0 => ZoneMemMap(z) + n <= total
<1>1. total \in Nat \ {0} /\ DmaPages \in Nat
  BY MmAssumption
<1>2. CASE z = "DMA" /\ total <= DmaPages
  <2>1. {p \in 0 .. total - 1 : PageZone(p) = z} = 0 .. total - 1
    BY <1>1, <1>2 DEF PageZone
  <2>2. n = total
    <3>1. Cardinality(0 .. total - 1) = total
      BY <1>1, FS_Interval
    <3> QED
      BY <2>1, <3>1, Zenon
  <2>3. ZoneMemMap(z) = 0
    BY <1>2 DEF ZoneMemMap
  <2>4. n \in Nat /\ (n > 0 => ZoneMemMap(z) + n <= total)
    BY <1>1, <2>2, <2>3
  <2> QED
    BY <1>1, <1>2, <2>2, <2>4
<1>3. CASE z = "DMA" /\ total > DmaPages
  <2>1. {p \in 0 .. total - 1 : PageZone(p) = z} = 0 .. DmaPages - 1
    BY <1>1, <1>3 DEF PageZone
  <2>2. n = DmaPages
    <3>1. Cardinality(0 .. DmaPages - 1) = DmaPages
      BY <1>1, FS_Interval
    <3> QED
      BY <2>1, <3>1, Zenon
  <2>3. ZoneMemMap(z) = 0
    BY <1>3 DEF ZoneMemMap
  <2>4. n \in Nat /\ (n > 0 => ZoneMemMap(z) + n <= total)
    BY <1>1, <1>3, <2>2, <2>3
  <2> QED
    BY <1>1, <1>3, <2>2, <2>4
<1>4. CASE z = "NORMAL"
  <2>1. {p \in 0 .. total - 1 : PageZone(p) = z} = DmaPages .. total - 1
    BY <1>1, <1>4 DEF PageZone
  <2>2. n = IF DmaPages > total - 1 THEN 0 ELSE total - DmaPages
    <3>1. Cardinality(DmaPages .. total - 1) = IF DmaPages > total - 1 THEN 0 ELSE total - DmaPages
      BY <1>1, FS_Interval
    <3> QED
      BY <2>1, <3>1, Zenon
  <2>3. ZoneMemMap(z) = DmaPages
    BY <1>4 DEF ZoneMemMap
  <2>4. n \in Nat /\ (n > 0 => ZoneMemMap(z) + n <= total)
    BY <1>1, <2>2, <2>3
  <2> QED
    BY <1>1, <1>4, <2>2, <2>4
<1> QED
  BY <1>1, <1>2, <1>3, <1>4 DEF Zones

\* ZONE_NORMAL is one of the zones.
LEMMA NormalIsZone == "NORMAL" \in Zones
  BY DEF Zones

\* A counter stays within its width whatever is added to it.
LEMMA AddFreeTyped ==
    ASSUME nr_free \in [Zones -> [Orders -> 0 .. ULong - 1]],
           NEW z \in Zones, NEW o \in Orders, NEW n \in Int
    PROVE  AddFree(z, o, n) \in [Zones -> [Orders -> 0 .. ULong - 1]]
<1>1. nr_free[z][o] + n \in Int
  BY OrderFacts
<1>2. (nr_free[z][o] + n) % ULong \in 0 .. ULong - 1
  BY <1>1, OrderFacts, ModRange
<1> QED
  BY <1>2 DEF AddFree

\* The machine is switched on in Inv.
LEMMA InitInv == Init => Inv
<1> SUFFICES ASSUME Init PROVE Inv
  OBVIOUS
<1>1. total \in MemSizes /\ resv \in KernelSizes /\ pc = "mm_reserved_init"
  BY DEF Init
<1>2. NULL \in Cell /\ NULL \in High /\ High \subseteq Cell
  BY <1>1, CellFacts
<1>3. mem \in Memory(Cell) /\ NormalClosed
  BY <1>2 DEF Init, Memory, NormalClosed, Closed
<1>4. page \in [PageIndex -> StructPage]
  BY MmAssumption DEF Init
<1>5. spanned \in [Zones -> Nat] /\ held \in [Blocks -> Nat]
      /\ reply \in {"none", "block", "freed", "null"} \X Nat
  BY DEF Init
<1>6. nr_free \in [Zones -> [Orders -> 0 .. ULong - 1]]
  BY OrderFacts DEF Init
<1>7. scan \in [zone : Zones, order : Orders, i : Nat, pagenum : Nat]
  BY OrderFacts DEF Init, NoScan, Zones
<1>8. call \in [by : {"client", "mm_test"}, zone : Zones, want : Orders,
                order : Orders, page : PageIndex]
  <2>1. 0 \in PageIndex
    BY <1>1, MmAssumption DEF PageIndex
  <2> QED
    BY <2>1, OrderFacts DEF Init, NoCall, Zones
<1>9. TypeOK
  BY <1>1, <1>3, <1>4, <1>5, <1>6, <1>7, <1>8 DEF TypeOK
<1>10. HeldIsNormal
  BY DEF Init, HeldIsNormal
<1> QED
  BY <1>1, <1>3, <1>9, <1>10 DEF Inv, DmaApart, SpannedFits, ScanFits, ZonesSet,
     KernelReserved, CallIsNormal, Early
-----------------------------------------------------------------------------
(* The steps of the boot. *)
LEMMA MmReservedInitStep == Inv /\ MmReservedInit => Inv'
<1> SUFFICES ASSUME Inv, MmReservedInit PROVE Inv'
  OBVIOUS
<1>1. /\ pc' = "zone_init" /\ UNCHANGED <<total, resv, mem, area, scan, call, held, reply>>
      /\ page' = [p \in PageIndex |->
                     IF p < resv THEN [count |-> 1, rvsd |-> TRUE, zone |-> "DMA"]
                                 ELSE page[p]]
  BY DEF MmReservedInit
<1>2. [count |-> 1, rvsd |-> TRUE, zone |-> "DMA"] \in StructPage
  BY DEF StructPage, Zones
<1>3. page' \in [PageIndex -> StructPage]
  BY <1>1, <1>2 DEF Inv, TypeOK
<1>4. TypeOK'
  BY <1>1, <1>3 DEF Inv, TypeOK, area
<1>5. KernelReserved'
  <2>1. resv \in Nat /\ total \in MemSizes /\ resv <= total
    BY MmAssumption DEF Inv, TypeOK
  <2>2. total <= MaxPages /\ total \in Nat /\ MaxPages \in Nat
    BY <2>1, MmAssumption
  <2>3. \A p \in 0 .. resv - 1 : p \in PageIndex
    BY <2>1, <2>2 DEF PageIndex
  <2> QED
    BY <1>1, <2>1, <2>3 DEF KernelReserved
<1>6. NormalClosed' /\ HeldIsNormal'
  BY <1>1 DEF Inv, NormalClosed, HeldIsNormal, High, NormalPages, Closed
<1> QED
  BY <1>1, <1>4, <1>5, <1>6 DEF Inv, DmaApart, SpannedFits, ScanFits, ZonesSet,
     CallIsNormal, Early

\* The memset of the zones leads to no cell outside of ZONE_NORMAL.
LEMMA ZoneInitStep == Inv /\ ZoneInit => Inv'
<1> SUFFICES ASSUME Inv, ZoneInit PROVE Inv'
  OBVIOUS
<1>1. /\ pc = "zone_init" /\ pc' = "page_init"
      /\ UNCHANGED <<total, resv, page, scan, call, held, reply>>
      /\ spanned' = [z \in Zones |-> 0]
      /\ nr_free' = [z \in Zones |-> [o \in Orders |-> 0]]
      /\ mem' = [link \in {"next", "prev"} |->
                    [c \in Cell |-> IF c \in Zones \X Orders THEN NULL ELSE mem[link][c]]]
  BY DEF ZoneInit
<1>2. total \in MemSizes /\ mem \in Memory(Cell)
  BY DEF Inv, TypeOK
<1>3. NULL \in Cell /\ NULL \in High /\ High \subseteq Cell
  BY <1>2, CellFacts
<1>4. /\ mem.next \in [Cell -> Cell] /\ mem.prev \in [Cell -> Cell]
      /\ mem["next"] = mem.next /\ mem["prev"] = mem.prev
  BY <1>2 DEF Memory
<1>5. /\ mem' = [next |-> mem'.next, prev |-> mem'.prev]
      /\ mem'.next = [c \in Cell |-> IF c \in Zones \X Orders THEN NULL ELSE mem.next[c]]
      /\ mem'.prev = [c \in Cell |-> IF c \in Zones \X Orders THEN NULL ELSE mem.prev[c]]
  BY <1>1, <1>4
<1>6. mem' \in Memory(Cell)
  BY <1>3, <1>4, <1>5 DEF Memory
<1>7. Closed(mem', High)
  BY <1>3, <1>4, <1>5 DEF Inv, NormalClosed, Closed
<1>8. NormalClosed'
  BY ZenonT(40), <1>1, <1>7 DEF NormalClosed, High, NormalPages, Closed
<1>9. nr_free' \in [Zones -> [Orders -> 0 .. ULong - 1]] /\ spanned' \in [Zones -> Nat]
  BY <1>1, OrderFacts
<1>10. TypeOK'
  BY <1>1, <1>6, <1>9 DEF Inv, TypeOK
<1>11. HeldIsNormal' /\ KernelReserved'
  BY <1>1 DEF Inv, HeldIsNormal, NormalPages, KernelReserved
<1> QED
  BY <1>1, <1>8, <1>10, <1>11 DEF Inv, DmaApart, SpannedFits, ScanFits, ZonesSet,
     CallIsNormal, Early

\* Each lru points to itself, and each page is given its zone.
LEMMA PageInitStep == Inv /\ PageInit => Inv'
<1> SUFFICES ASSUME Inv, PageInit PROVE Inv'
  OBVIOUS
<1>1. /\ pc = "page_init" /\ pc' = "area_begin"
      /\ UNCHANGED <<total, resv, nr_free, call, held, reply>>
      /\ scan' = NoScan
      /\ spanned' = [z \in Zones |->
                        Cardinality({p \in 0 .. total - 1 : PageZone(p) = z})]
      /\ page' = [p \in PageIndex |-> IF p < total /\ page[p].zone = "DMA"
                                      THEN [page[p] EXCEPT !.zone = PageZone(p)]
                                      ELSE page[p]]
      /\ mem' = [link \in {"next", "prev"} |->
                    [c \in Cell |-> IF c \in {"page"} \X (0 .. total - 1)
                                    THEN c ELSE mem[link][c]]]
  BY DEF PageInit
<1>2. total \in MemSizes /\ mem \in Memory(Cell) /\ page \in [PageIndex -> StructPage]
  BY DEF Inv, TypeOK
<1>3. High \subseteq Cell
  BY <1>2, CellFacts
<1>4. /\ mem.next \in [Cell -> Cell] /\ mem.prev \in [Cell -> Cell]
      /\ mem["next"] = mem.next /\ mem["prev"] = mem.prev
  BY <1>2 DEF Memory
<1>5. /\ mem' = [next |-> mem'.next, prev |-> mem'.prev]
      /\ mem'.next = [c \in Cell |-> IF c \in {"page"} \X (0 .. total - 1)
                                     THEN c ELSE mem.next[c]]
      /\ mem'.prev = [c \in Cell |-> IF c \in {"page"} \X (0 .. total - 1)
                                     THEN c ELSE mem.prev[c]]
  BY <1>1, <1>4
<1>6. mem' \in Memory(Cell)
  BY <1>4, <1>5 DEF Memory
<1>7. Closed(mem', High)
  BY <1>3, <1>4, <1>5 DEF Inv, NormalClosed, Closed
<1>8. NormalClosed'
  BY ZenonT(40), <1>1, <1>7 DEF NormalClosed, High, NormalPages, Closed
<1>9. SpannedFits' /\ spanned' \in [Zones -> Nat]
  <2>1. ASSUME NEW z \in Zones
        PROVE  /\ spanned'[z] \in Nat
               /\ z = "DMA" => spanned'[z] <= DmaPages
               /\ spanned'[z] > 0 => ZoneMemMap(z) + spanned'[z] <= total
    <3>1. spanned'[z] = Cardinality({p \in 0 .. total - 1 : PageZone(p) = z})
      BY <1>1
    <3> QED
      BY <1>2, <3>1, SpannedCounts
  <2>2. spanned' \in [Zones -> Nat]
    BY <1>1, <2>1
  <2> QED
    BY <1>1, <2>1, <2>2 DEF SpannedFits, ZoneMemMap, Zones
<1>10. page' \in [PageIndex -> StructPage]
  BY <1>1, <1>2 DEF StructPage, PageZone, Zones
<1>11. scan' \in [zone : Zones, order : Orders, i : Nat, pagenum : Nat]
  BY <1>1, OrderFacts DEF NoScan, Zones
<1>12. TypeOK'
  BY <1>1, <1>6, <1>9, <1>10, <1>11 DEF Inv, TypeOK
<1>13. ScanFits'
  BY <1>1, <1>9 DEF ScanFits, NoScan, Zones
<1>14. ZonesSet'
  <2>1. ASSUME NEW p \in NormalPages PROVE page'[p].zone # "DMA"
    <3>0. p \in PageIndex
      BY <1>2, CellFacts
    <3>1. p < total /\ PageZone(p) = "NORMAL" /\ page[p] \in StructPage
      <4>1. DmaPages \in Nat /\ total \in Nat
        BY <1>2, MmAssumption
      <4> QED
        BY <1>2, <3>0, <4>1 DEF NormalPages, PageZone
    <3>2. CASE page[p].zone = "DMA"
      <4>1. page'[p] = [page[p] EXCEPT !.zone = PageZone(p)]
        BY <1>1, <3>0, <3>1, <3>2
      <4>2. page'[p].zone = "NORMAL"
        BY <3>1, <4>1 DEF StructPage
      <4> QED
        BY <4>2
    <3>3. CASE page[p].zone # "DMA"
      BY <1>1, <3>0, <3>3
    <3> QED
      BY <3>2, <3>3
  <2> QED
    BY <1>1, <2>1 DEF ZonesSet, NormalPages
<1>15. KernelReserved'
  <2>1. resv \in Nat /\ resv <= total /\ total \in Nat /\ total <= MaxPages
        /\ MaxPages \in Nat
    BY MmAssumption DEF Inv, TypeOK
  <2>2. ASSUME NEW p \in 0 .. resv - 1, p < DmaPages
        PROVE  page'[p].count = 1 /\ page'[p].rvsd
    <3>1. p \in PageIndex /\ page[p] \in StructPage
      BY <1>2, <2>1 DEF PageIndex
    <3>2. page[p].count = 1 /\ page[p].rvsd
      BY <1>1, <2>2 DEF Inv, KernelReserved
    <3>3. page'[p].count = page[p].count /\ page'[p].rvsd = page[p].rvsd
      BY <1>1, <3>1 DEF StructPage
    <3> QED
      BY <3>2, <3>3
  <2> QED
    BY <1>1, <2>2 DEF KernelReserved
<1> QED
  BY <1>1, <1>8, <1>9, <1>12, <1>13, <1>14, <1>15 DEF Inv, DmaApart,
     HeldIsNormal, NormalPages, CallIsNormal

\* A list head made empty points to itself.
LEMMA AreaBeginStep == Inv /\ AreaBegin => Inv'
<1> SUFFICES ASSUME Inv, AreaBegin PROVE Inv'
  OBVIOUS
<1> DEFINE h == <<scan.zone, scan.order>>
<1>1. /\ pc = "area_begin" /\ pc' = "area_scan"
      /\ UNCHANGED <<total, resv, page, spanned, call, held, reply>>
      /\ mem' = INIT_LIST_HEAD(mem, h)
      /\ nr_free' = [nr_free EXCEPT ![scan.zone][scan.order] = 0]
      /\ scan' = [scan EXCEPT !.i = 0,
                     !.pagenum = IF scan.order = MAX_ORDER THEN spanned[scan.zone]
                                                           ELSE scan.pagenum]
  BY DEF AreaBegin
<1>2. /\ total \in MemSizes /\ mem \in Memory(Cell) /\ spanned \in [Zones -> Nat]
      /\ scan \in [zone : Zones, order : Orders, i : Nat, pagenum : Nat]
      /\ scan.zone \in Zones /\ scan.order \in Orders /\ scan.pagenum \in Nat
  BY DEF Inv, TypeOK
<1>3. /\ h \in Cell /\ High \subseteq Cell
      /\ scan.zone = "NORMAL" => h \in High
      /\ scan.zone = "DMA" => h \in Cell \ High
  BY <1>2, CellFacts DEF Cell
<1>4. /\ mem' \in Memory(Cell)
      /\ mem'.next = [mem.next EXCEPT ![h] = h] /\ mem'.prev = [mem.prev EXCEPT ![h] = h]
      /\ mem.next \in [Cell -> Cell] /\ mem.prev \in [Cell -> Cell]
  BY <1>1, <1>2, <1>3 DEF INIT_LIST_HEAD, Memory
<1>5. Closed(mem', High)
  BY <1>3, <1>4 DEF Inv, NormalClosed, Closed
<1>6. NormalClosed'
  BY <1>1, <1>5 DEF NormalClosed, High, NormalPages, Closed
<1>7. scan'.zone = scan.zone /\ scan'.order = scan.order
  BY <1>1, <1>2
<1>8. DmaApart'
  <2>1. SUFFICES ASSUME scan.zone = "DMA" PROVE mem'.next[h] \in Cell \ High
    BY <1>1, <1>7 DEF DmaApart, High, NormalPages
  <2> QED
    BY <1>3, <1>4, <2>1
<1>9. nr_free' \in [Zones -> [Orders -> 0 .. ULong - 1]]
  BY <1>1, <1>2, OrderFacts DEF Inv, TypeOK
<1>10. scan' \in [zone : Zones, order : Orders, i : Nat, pagenum : Nat]
  BY <1>1, <1>2
<1>11. TypeOK'
  BY <1>1, <1>4, <1>9, <1>10 DEF Inv, TypeOK
<1>12. ScanFits'
  BY <1>1, <1>2 DEF Inv, ScanFits
<1>13. SpannedFits' /\ ZonesSet' /\ KernelReserved' /\ HeldIsNormal'
  BY <1>1 DEF Inv, SpannedFits, ZonesSet, KernelReserved, HeldIsNormal, NormalPages, Early
<1> QED
  BY <1>1, <1>6, <1>8, <1>11, <1>12, <1>13 DEF Inv, CallIsNormal

\* A scan adds pages of the zone whose memory it walks.
LEMMA AreaScanStep == Inv /\ AreaScan => Inv'
<1> SUFFICES ASSUME Inv, AreaScan PROVE Inv'
  OBVIOUS
<1> DEFINE z == scan.zone
           h == <<scan.zone, scan.order>>
           p == ZoneMemMap(scan.zone) + scan.i
<1>1. /\ pc = "area_scan" /\ pc' = "area_scan" /\ scan.i < scan.pagenum
      /\ UNCHANGED <<total, resv, page, spanned, call, held, reply>>
      /\ scan' = [scan EXCEPT !.i = scan.i + Size[scan.order]]
      /\ \/ /\ mem' = list_add(mem, <<"page", p>>, h)
            /\ nr_free' = AddFree(z, scan.order, 1)
         \/ UNCHANGED <<mem, nr_free>>
  BY DEF AreaScan, unit
<1>2. /\ total \in MemSizes /\ mem \in Memory(Cell) /\ spanned \in [Zones -> Nat]
      /\ scan \in [zone : Zones, order : Orders, i : Nat, pagenum : Nat]
      /\ z \in Zones /\ scan.order \in Orders /\ scan.pagenum \in Nat /\ scan.i \in Nat
      /\ nr_free \in [Zones -> [Orders -> 0 .. ULong - 1]]
  BY DEF Inv, TypeOK
<1>3. /\ scan.i < spanned[z] /\ spanned[z] \in Nat
      /\ ZoneMemMap(z) + spanned[z] <= total
      /\ spanned["DMA"] <= DmaPages
  BY <1>1, <1>2 DEF Inv, ScanFits, SpannedFits, Early
<1>4. /\ p \in PageIndex
      /\ z = "DMA" => p < DmaPages
      /\ z = "NORMAL" => p \in NormalPages
  BY <1>2, <1>3, CellFacts, OrderFacts DEF ZoneMemMap, PageIndex, NormalPages, Zones
<1>5. High \in SUBSET Cell /\ <<"page", p>> \in Cell /\ h \in Cell
  BY <1>2, <1>4, CellFacts DEF Cell, PageCells
<1>6. /\ mem' \in Memory(Cell) /\ Closed(mem', High)
      /\ z = "DMA" => mem'.next[h] \in Cell \ High
  <2>1. Closed(mem, High) /\ (z = "DMA" => mem.next[h] \in Cell \ High)
    BY <1>1 DEF Inv, NormalClosed, DmaApart
  <2>2. CASE UNCHANGED <<mem, nr_free>>
    BY <1>2, <2>1, <2>2 DEF Closed
  <2>3. CASE mem' = list_add(mem, <<"page", p>>, h) /\ z = "NORMAL"
    <3>1. <<"page", p>> \in High /\ h \in High
      BY <1>2, <1>4, <2>3, CellFacts
    <3> QED
      BY <1>2, <1>5, <2>1, <2>3, <3>1, AddStaysClosed
  <2>4. CASE mem' = list_add(mem, <<"page", p>>, h) /\ z = "DMA"
    <3>1. <<"page", p>> \in Cell \ High /\ h \in Cell \ High
      BY <1>2, <1>4, <2>4, CellFacts
    <3>2. Closed(mem, High) /\ mem.next[h] \in Cell \ High
      BY <2>1, <2>4
    <3> DEFINE new  == <<"page", p>>
               next == mem.next[h]
    <3>3. new \in Cell /\ h \in Cell /\ next \in Cell
      BY <3>1, <3>2
    <3>4. mem' = insert_between(mem, new, h, next)
      BY <2>4 DEF list_add
    <3>5. /\ mem' \in Memory(Cell)
          /\ mem'.next = [mem.next EXCEPT ![new] = next, ![h] = new]
          /\ mem'.prev = [mem.prev EXCEPT ![next] = new, ![new] = h]
      <4> DEFINE r == insert_between(mem, new, h, next)
      <4> HIDE DEF new, next, h
      <4>1. /\ r \in Memory(Cell)
            /\ r.next = [mem.next EXCEPT ![new] = next, ![h] = new]
            /\ r.prev = [mem.prev EXCEPT ![next] = new, ![new] = h]
        <5>1. mem \in Memory(Cell) /\ new \in Cell /\ next \in Cell /\ h \in Cell
          BY <1>2, <3>3
        <5> QED
          BY <5>1 DEF insert_between, Memory
      <4>2. mem' = r
        BY <3>4
      <4> HIDE DEF r
      <4> QED
        BY <4>1, <4>2
    <3>6. new \in Cell \ High /\ h \in Cell \ High /\ next \in Cell \ High
      BY <3>1, <3>2
    <3>7. mem.next \in [Cell -> Cell] /\ mem.prev \in [Cell -> Cell]
      BY <1>2 DEF Memory
    <3> HIDE DEF new, next, h
    <3>8. mem'.next[h] = new
      BY <3>3, <3>5, <3>7
    <3>9. ASSUME NEW c \in High PROVE mem'.next[c] = mem.next[c] /\ mem'.prev[c] = mem.prev[c]
      BY <1>5, <3>3, <3>5, <3>6, <3>7
    <3>10. Closed(mem', High)
      BY <3>2, <3>9 DEF Closed
    <3> QED
      BY <3>5, <3>6, <3>8, <3>10
  <2> QED
    BY <1>1, <1>2, <2>2, <2>3, <2>4 DEF Zones
<1>7. NormalClosed'
  BY <1>1, <1>6 DEF NormalClosed, High, NormalPages, Closed
<1>8. scan'.zone = scan.zone /\ scan'.order = scan.order /\ scan'.pagenum = scan.pagenum
  BY <1>1, <1>2
<1>9. DmaApart'
  BY <1>1, <1>6, <1>8 DEF DmaApart, High, NormalPages
<1>10. nr_free' \in [Zones -> [Orders -> 0 .. ULong - 1]]
  BY <1>1, <1>2, AddFreeTyped
<1>11. scan' \in [zone : Zones, order : Orders, i : Nat, pagenum : Nat]
  BY <1>1, <1>2, OrderFacts
<1>12. TypeOK'
  BY <1>1, <1>6, <1>10, <1>11 DEF Inv, TypeOK
<1>13. ScanFits'
  BY <1>1, <1>8 DEF Inv, ScanFits
<1>14. SpannedFits' /\ ZonesSet' /\ KernelReserved' /\ HeldIsNormal'
  BY <1>1 DEF Inv, SpannedFits, ZonesSet, KernelReserved, HeldIsNormal, NormalPages, Early
<1> QED
  BY <1>1, <1>7, <1>9, <1>12, <1>13, <1>14 DEF Inv, CallIsNormal

\* What is left for the next order is no more than the zone spans.
LEMMA AreaEndStep == Inv /\ AreaEnd => Inv'
<1> SUFFICES ASSUME Inv, AreaEnd PROVE Inv'
  OBVIOUS
<1> DEFINE z    == scan.zone
           o    == scan.order
           left == (scan.pagenum - nr_free[z][o] * Size[o]) % ULong
<1>1. /\ spanned \in [Zones -> Nat]
      /\ scan \in [zone : Zones, order : Orders, i : Nat, pagenum : Nat]
      /\ z \in Zones /\ o \in Orders /\ scan.pagenum \in Nat /\ spanned[z] \in Nat
      /\ nr_free[z][o] \in 0 .. ULong - 1
  BY DEF Inv, TypeOK
<1>2. left \in Nat
  <2>1. nr_free[z][o] \in Int /\ Size[o] \in Int
    <3>1. ULong \in Nat /\ Size[o] \in Nat
      BY <1>1, OrderFacts
    <3> QED
      BY <1>1, <3>1
  <2>2. nr_free[z][o] * Size[o] \in Int
    BY <2>1
  <2> DEFINE d == scan.pagenum - nr_free[z][o] * Size[o]
  <2>3. d \in Int
    BY <1>1, <2>2
  <2> HIDE DEF d
  <2>4. d % ULong \in Nat
    BY <2>3, OrderFacts, ModRange
  <2> QED
    BY <2>4 DEF d
<1>3. /\ pc = "area_scan"
      /\ UNCHANGED <<total, resv, mem, page, spanned, nr_free, call, held, reply>>
      /\ \/ pc' = "BUG" /\ UNCHANGED scan
         \/ /\ left <= spanned[z] /\ o > 0
            /\ scan' = [scan EXCEPT !.order = o - 1, !.pagenum = left]
            /\ pc' = "area_begin"
         \/ scan' = [NoScan EXCEPT !.zone = "NORMAL"] /\ pc' = "area_begin"
         \/ scan' = NoScan /\ pc' = "mm_test"
  <2>1. left > spanned[z] \/ left <= spanned[z]
    BY <1>1, <1>2
  <2> QED
    BY <2>1 DEF AreaEnd, area
<1> HIDE DEF left
<1>4. scan' \in [zone : Zones, order : Orders, i : Nat, pagenum : Nat]
  <2>1. o > 0 => o - 1 \in Orders
    BY <1>1, OrderFacts DEF Orders
  <2>2. [scan EXCEPT !.order = o - 1, !.pagenum = left]
            \in [zone : Zones, order : Orders, i : Nat, pagenum : Nat] \/ ~(o > 0)
    BY <1>1, <1>2, <2>1
  <2>3. /\ NoScan \in [zone : Zones, order : Orders, i : Nat, pagenum : Nat]
        /\ [NoScan EXCEPT !.zone = "NORMAL"]
              \in [zone : Zones, order : Orders, i : Nat, pagenum : Nat]
    BY OrderFacts DEF NoScan, Zones
  <2> QED
    BY <1>1, <1>3, <2>2, <2>3
<1>5. pc' \in {"BUG", "area_begin", "mm_test"}
  BY <1>3
<1>6. TypeOK'
  BY <1>3, <1>4, <1>5 DEF Inv, TypeOK
<1>7. ScanFits'
  <2>1. spanned["NORMAL"] \in Nat
    BY <1>1 DEF Zones
  <2>2. CASE pc' \in {"BUG", "mm_test"}
    BY <2>2 DEF ScanFits
  <2>3. CASE scan' = [scan EXCEPT !.order = o - 1, !.pagenum = left] /\ left <= spanned[z]
    <3>1. scan'.zone = z /\ scan'.pagenum = left
      BY <1>1, <2>3
    <3> QED
      BY <1>3, <2>3, <3>1 DEF ScanFits
  <2>4. CASE scan' = [NoScan EXCEPT !.zone = "NORMAL"]
    <3>1. scan'.zone = "NORMAL" /\ scan'.pagenum = 0
      BY <2>4 DEF NoScan
    <3> QED
      BY <1>3, <2>1, <3>1 DEF ScanFits
  <2> QED
    BY <1>3, <2>2, <2>3, <2>4
<1>8. NormalClosed' /\ DmaApart'
  BY <1>3, <1>5 DEF Inv, NormalClosed, DmaApart, High, NormalPages, Closed
<1>9. SpannedFits' /\ ZonesSet' /\ KernelReserved' /\ HeldIsNormal' /\ CallIsNormal'
  BY <1>3, <1>5 DEF Inv, SpannedFits, ZonesSet, KernelReserved, HeldIsNormal, CallIsNormal,
     NormalPages, Early
<1> QED
  BY <1>6, <1>7, <1>8, <1>9 DEF Inv
-----------------------------------------------------------------------------
(* The steps of alloc_pages and __free_pages.  What none of them touches: *)
LEMMA BootFactsStay ==
    ASSUME Inv, pc \notin Early, pc' \in {"split", "merge", "mm_test_free", "idle", "wild"},
           UNCHANGED <<total, resv, spanned, scan>>,
           Closed(mem', High),
           \A p \in PageIndex : page'[p].zone = page[p].zone
    PROVE  NormalClosed' /\ DmaApart' /\ SpannedFits' /\ ScanFits' /\ ZonesSet'
<1>1. NormalClosed'
  BY DEF NormalClosed, High, NormalPages, Closed
<1>2. ZonesSet'
  <2>1. \A p \in NormalPages : p \in PageIndex
    BY CellFacts DEF Inv, TypeOK
  <2> QED
    BY <2>1 DEF Inv, ZonesSet, NormalPages
<1> QED
  BY <1>1, <1>2 DEF Inv, DmaApart, SpannedFits, ScanFits, Early

\* What rmqueue takes off a list of ZONE_NORMAL is a page of the zone.
LEMMA RmqueueStep ==
    ASSUME Inv, pc \in {"mm_test", "idle"}, NEW by \in {"client", "mm_test"},
           NEW o \in Nat, Rmqueue(by, "NORMAL", o)
    PROVE  Inv'
<1>1. PICK k \in Orders :
        /\ FirstArea("NORMAL", o, k)
        /\ LET cell == mem.next[<<"NORMAL", k>>]
           IN  IF cell \in PageCells
               THEN /\ mem' = list_del(mem, cell)
                    /\ nr_free' = AddFree("NORMAL", k, -1)
                    /\ call' = [by |-> by, zone |-> "NORMAL", want |-> o, order |-> k,
                                page |-> cell[2]]
                    /\ pc' = "split"
               ELSE pc' = "wild" /\ UNCHANGED <<mem, nr_free, call>>
        /\ UNCHANGED <<total, resv, page, spanned, scan, held, reply>>
  BY DEF Rmqueue
<1>2. o \in Orders
  BY <1>1, OrderFacts DEF FirstArea, Orders
<1> DEFINE cell == mem.next[<<"NORMAL", k>>]
<1>3. /\ total \in MemSizes /\ mem \in Memory(Cell) /\ pc \notin Early
      /\ nr_free \in [Zones -> [Orders -> 0 .. ULong - 1]]
  BY DEF Inv, TypeOK, Early
<1>4. cell \in High
  <2>1. <<"NORMAL", k>> \in High
    BY <1>3, CellFacts
  <2> QED
    BY <2>1 DEF Inv, NormalClosed, Closed
<1>5. CASE cell \in PageCells
  <2>1. /\ mem' = list_del(mem, cell) /\ nr_free' = AddFree("NORMAL", k, -1)
        /\ call' = [by |-> by, zone |-> "NORMAL", want |-> o, order |-> k,
                    page |-> cell[2]]
        /\ pc' = "split"
        /\ UNCHANGED <<total, resv, page, spanned, scan, held, reply>>
    BY <1>1, <1>5
  <2>2. cell[2] \in NormalPages /\ cell[2] \in PageIndex
    BY <1>3, <1>4, <1>5, CellFacts
  <2>3. mem' \in Memory(Cell) /\ Closed(mem', High)
    <3>1. High \in SUBSET Cell /\ {LIST_POISON1, LIST_POISON2} \subseteq High
      BY <1>3, CellFacts
    <3>2. Closed(mem, High)
      BY DEF Inv, NormalClosed
    <3> HIDE DEF cell
    <3> QED
      BY <1>3, <1>4, <2>1, <3>1, <3>2, DelStaysClosed
  <2>4. NormalClosed' /\ DmaApart' /\ SpannedFits' /\ ScanFits' /\ ZonesSet'
    <3>1. \A p \in PageIndex : page'[p].zone = page[p].zone
      BY <2>1
    <3>2. /\ pc' \in {"split", "merge", "mm_test_free", "idle", "wild"} /\ pc \notin Early
          /\ UNCHANGED <<total, resv, spanned, scan>> /\ Closed(mem', High)
      BY <1>3, <2>1, <2>3
    <3> QED
      BY <3>1, <3>2, BootFactsStay
  <2>5. nr_free' \in [Zones -> [Orders -> 0 .. ULong - 1]]
    BY <1>3, <2>1, AddFreeTyped, NormalIsZone
  <2>6. call' \in [by : {"client", "mm_test"}, zone : Zones, want : Orders,
                   order : Orders, page : PageIndex]
    BY <1>2, <2>1, <2>2 DEF Zones
  <2>7. TypeOK'
    BY <2>1, <2>3, <2>5, <2>6 DEF Inv, TypeOK
  <2>8. CallIsNormal'
    BY <2>1, <2>2 DEF CallIsNormal, NormalPages
  <2>9. HeldIsNormal' /\ KernelReserved'
    BY <1>3, <2>1 DEF Inv, HeldIsNormal, KernelReserved, NormalPages, Early
  <2> QED
    BY <2>4, <2>7, <2>8, <2>9 DEF Inv
<1>6. CASE cell \notin PageCells
  <2>1. pc' = "wild" /\ UNCHANGED <<mem, nr_free, call, total, resv, page, spanned, scan,
                                    held, reply>>
    BY <1>1, <1>6
  <2>2. TypeOK'
    BY <2>1 DEF Inv, TypeOK
  <2> QED
    BY <1>3, <2>1, <2>2 DEF Inv, NormalClosed, High, NormalPages, Closed, DmaApart,
       SpannedFits, ScanFits, ZonesSet, CallIsNormal, HeldIsNormal, KernelReserved, Early
<1> QED
  BY <1>5, <1>6

\* A step that moves pc into or out of a call and leaves everything else.
LEMMA OnlyPcMoves ==
    ASSUME Inv, pc \notin Early,
           pc' \in {"idle", "wild"} \/ pc' = pc,
           UNCHANGED <<total, resv, mem, page, area, scan, call, held>>,
           reply' \in {"none", "block", "freed", "null"} \X Nat
    PROVE  Inv'
<1>1. TypeOK'
  BY DEF Inv, TypeOK, area
<1> QED
  BY <1>1 DEF Inv, NormalClosed, High, NormalPages, Closed, DmaApart, SpannedFits,
     ScanFits, ZonesSet, CallIsNormal, HeldIsNormal, KernelReserved, Early, area

\* alloc_pages looks into ZONE_NORMAL only.
LEMMA AllocStep ==
    ASSUME Inv, pc \in {"mm_test", "idle"}, NEW by \in {"client", "mm_test"},
           NEW o \in Nat, Alloc(by, o)
    PROVE  Inv'
<1>1. Rmqueue(by, "NORMAL", o)
  BY DEF Alloc, zonelist
<1> QED
  BY <1>1, RmqueueStep

\* The call mm_test makes, and its use of a NULL page.
LEMMA MmTestStep == Inv /\ MmTest => Inv'
<1> SUFFICES ASSUME Inv, MmTest PROVE Inv'
  OBVIOUS
<1>1. pc = "mm_test" /\ pc \notin Early
  BY DEF MmTest, Early
<1>2. CASE Alloc("mm_test", 0)
  BY <1>1, <1>2, AllocStep
<1>3. CASE pc' = "wild" /\ UNCHANGED <<total, resv, mem, page, area, scan, call, held, reply>>
  BY <1>1, <1>3, OnlyPcMoves DEF Inv, TypeOK
<1> QED
  BY <1>2, <1>3 DEF MmTest

\* A caller's alloc_pages, with a block or without.
LEMMA ClientAllocStep ==
    ASSUME Inv, NEW o \in Requests, AllocPages(o) \/ AllocFails(o)
    PROVE  Inv'
<1>1. o \in Nat
  BY MmAssumption
<1>2. pc = "idle" /\ pc \notin Early
  BY DEF AllocPages, AllocFails, Early
<1>3. CASE AllocPages(o)
  BY <1>1, <1>2, <1>3, AllocStep DEF AllocPages
<1>4. CASE AllocFails(o)
  BY <1>1, <1>2, <1>4, OnlyPcMoves DEF AllocFails
<1> QED
  BY <1>3, <1>4

\* The half that goes back is a page of ZONE_NORMAL too.
LEMMA SplitStep == Inv /\ Split => Inv'
<1> SUFFICES ASSUME Inv, Split PROVE Inv'
  OBVIOUS
<1> DEFINE o     == call.order - 1
           buddy == call.page + Size[o]
<1>1. /\ pc = "split" /\ call.order > call.want
      /\ UNCHANGED <<total, resv, page, spanned, scan, held, reply>>
      /\ \/ /\ buddy < total
            /\ mem' = list_add(mem, <<"page", buddy>>, <<call.zone, o>>)
            /\ nr_free' = AddFree(call.zone, o, 1)
            /\ call' = [call EXCEPT !.order = o]
            /\ pc' = pc
         \/ pc' = "wild" /\ UNCHANGED <<mem, nr_free, call>>
  BY DEF Split, second_half
<1>2. /\ total \in MemSizes /\ mem \in Memory(Cell) /\ pc \notin Early
      /\ nr_free \in [Zones -> [Orders -> 0 .. ULong - 1]]
      /\ call \in [by : {"client", "mm_test"}, zone : Zones, want : Orders,
                   order : Orders, page : PageIndex]
      /\ call.zone = "NORMAL" /\ call.page \in NormalPages
      /\ call.order \in Orders /\ call.want \in Orders
  BY <1>1 DEF Inv, TypeOK, CallIsNormal, Early
<1>3. o \in Orders
  BY <1>1, <1>2, OrderFacts DEF Orders
<1>4. CASE pc' = pc
  <2>1. /\ buddy < total
        /\ mem' = list_add(mem, <<"page", buddy>>, <<"NORMAL", o>>)
        /\ nr_free' = AddFree("NORMAL", o, 1)
        /\ call' = [call EXCEPT !.order = o]
        /\ pc' = "split"
    BY <1>1, <1>2, <1>4
  <2>2. buddy \in NormalPages
    <3>1. Size[o] \in Nat /\ DmaPages \in Nat
      <4> HIDE DEF o
      <4> QED
        BY <1>3, OrderFacts
    <3>2. total \in Nat
      BY <1>2, MmAssumption
    <3> QED
      BY <1>2, <2>1, <3>1, <3>2 DEF NormalPages
  <2>3. <<"page", buddy>> \in High /\ <<"NORMAL", o>> \in High /\ High \in SUBSET Cell
    BY <1>2, <1>3, <2>2, CellFacts
  <2>4. mem' \in Memory(Cell) /\ Closed(mem', High)
    <3>1. Closed(mem, High)
      BY DEF Inv, NormalClosed
    <3> QED
      BY <1>2, <2>1, <2>3, <3>1, AddStaysClosed
  <2>5. NormalClosed' /\ DmaApart' /\ SpannedFits' /\ ScanFits' /\ ZonesSet'
    <3>1. \A p \in PageIndex : page'[p].zone = page[p].zone
      BY <1>1
    <3>2. /\ pc' \in {"split", "merge", "mm_test_free", "idle", "wild"} /\ pc \notin Early
          /\ UNCHANGED <<total, resv, spanned, scan>> /\ Closed(mem', High)
      BY <1>1, <1>2, <2>1, <2>4
    <3> QED
      BY <3>1, <3>2, BootFactsStay
  <2>6. nr_free' \in [Zones -> [Orders -> 0 .. ULong - 1]]
    <3> HIDE DEF o
    <3>1. AddFree("NORMAL", o, 1) \in [Zones -> [Orders -> 0 .. ULong - 1]]
      BY <1>2, <1>3, AddFreeTyped, NormalIsZone
    <3> QED
      BY <2>1, <3>1
  <2>7. TypeOK'
    <3>1. call' \in [by : {"client", "mm_test"}, zone : Zones, want : Orders,
                     order : Orders, page : PageIndex]
      BY <1>2, <1>3, <2>1
    <3> QED
      BY <1>1, <2>1, <2>4, <2>6, <3>1 DEF Inv, TypeOK
  <2>8. CallIsNormal'
    BY <1>1, <1>2, <2>1 DEF CallIsNormal, NormalPages
  <2>9. HeldIsNormal' /\ KernelReserved'
    BY <1>1, <1>2 DEF Inv, HeldIsNormal, KernelReserved, NormalPages, Early
  <2> QED
    BY <2>5, <2>7, <2>8, <2>9 DEF Inv
<1>5. CASE pc' = "wild" /\ UNCHANGED <<mem, nr_free, call>>
  BY <1>1, <1>2, <1>5, OnlyPcMoves DEF area, Inv, TypeOK
<1> QED
  BY <1>1, <1>4, <1>5

\* The block handed out is one of ZONE_NORMAL.
LEMMA AllocReturnsStep == Inv /\ AllocReturns => Inv'
<1> SUFFICES ASSUME Inv, AllocReturns PROVE Inv'
  OBVIOUS
<1> DEFINE b == <<call.page, call.want>>
<1>1. /\ pc = "split" /\ pc' \in {"mm_test_free", "idle"}
      /\ UNCHANGED <<total, resv, mem, spanned, nr_free, scan, call>>
      /\ page' = [page EXCEPT ![call.page].count = 1]
      /\ held' = [held EXCEPT ![b] = held[b] + 1]
      /\ reply' = <<"block", call.want>>
  BY DEF AllocReturns, area
<1>2. /\ total \in MemSizes /\ pc \notin Early
      /\ call.page \in NormalPages /\ call.page \in PageIndex /\ call.want \in Orders
      /\ page \in [PageIndex -> StructPage] /\ held \in [Blocks -> Nat] /\ b \in Blocks
  BY <1>1 DEF Inv, TypeOK, CallIsNormal, Early, Blocks
<1>3. /\ page' \in [PageIndex -> StructPage]
      /\ \A p \in PageIndex : page'[p].zone = page[p].zone /\ page'[p].rvsd = page[p].rvsd
                              /\ (page[p].count = 1 => page'[p].count = 1)
  BY <1>1, <1>2 DEF StructPage
<1>4. held' \in [Blocks -> Nat]
  BY <1>1, <1>2
<1>5. TypeOK'
  <2>1. reply' \in {"none", "block", "freed", "null"} \X Nat
    BY <1>1, <1>2 DEF Orders
  <2> QED
    BY <1>1, <1>3, <1>4, <2>1 DEF Inv, TypeOK
<1>6. NormalClosed' /\ DmaApart' /\ SpannedFits' /\ ScanFits' /\ ZonesSet'
  <2>1. Closed(mem', High)
    BY <1>1 DEF Inv, NormalClosed, Closed
  <2> QED
    BY <1>1, <1>2, <1>3, <2>1, BootFactsStay
<1>7. KernelReserved'
  <2>1. \A p \in 0 .. resv - 1 : p \in PageIndex
    <3>1. resv \in Nat /\ total \in Nat /\ resv <= total /\ total <= MaxPages /\ MaxPages \in Nat
      BY MmAssumption DEF Inv, TypeOK
    <3> QED
      BY <3>1 DEF PageIndex
  <2> QED
    BY <1>1, <1>3, <2>1 DEF Inv, KernelReserved
<1>8. HeldIsNormal'
  BY <1>1, <1>2 DEF Inv, HeldIsNormal, NormalPages
<1> QED
  BY <1>1, <1>5, <1>6, <1>7, <1>8 DEF Inv, CallIsNormal

\* Only blocks that are held are freed, so only those of ZONE_NORMAL.
LEMMA StartFreeStep ==
    ASSUME Inv, pc \in {"idle", "mm_test_free"}, NEW by \in {"client", "mm_test"},
           NEW p \in PageIndex, NEW o \in Orders, StartFree(by, p, o)
    PROVE  Inv'
<1>1. /\ held[<<p, o>>] > 0
      /\ held' = [held EXCEPT ![<<p, o>>] = held[<<p, o>>] - 1]
      /\ reply' = <<"freed", o>>
      /\ \/ /\ page[p].zone \in Zones
            /\ call' = [by |-> by, zone |-> page[p].zone, want |-> o, order |-> o,
                        page |-> p]
            /\ pc' = "merge"
         \/ pc' = "wild" /\ UNCHANGED call
      /\ UNCHANGED <<total, resv, mem, page, spanned, nr_free, scan>>
  BY DEF StartFree, area
<1>2. /\ held \in [Blocks -> Nat] /\ <<p, o>> \in Blocks /\ total \in MemSizes
      /\ pc \notin Early
  BY DEF Inv, TypeOK, Blocks, Early
<1>3. p \in NormalPages
  BY <1>1, <1>2 DEF Inv, HeldIsNormal
<1>4. page[p].zone # "DMA"
  BY <1>2, <1>3 DEF Inv, ZonesSet
<1>5. held' \in [Blocks -> Nat]
  BY <1>1, <1>2
<1>6. call' \in [by : {"client", "mm_test"}, zone : Zones, want : Orders,
                 order : Orders, page : PageIndex]
  BY <1>1 DEF Inv, TypeOK
<1>7. TypeOK'
  <2>1. reply' \in {"none", "block", "freed", "null"} \X Nat
    BY <1>1 DEF Orders
  <2>2. pc' \in {"merge", "wild"}
    BY <1>1
  <2> QED
    BY <1>1, <1>5, <1>6, <2>1, <2>2 DEF Inv, TypeOK
<1>8. CallIsNormal'
  BY <1>1, <1>3, <1>4 DEF CallIsNormal, NormalPages, Zones
<1>9. HeldIsNormal'
  BY <1>1, <1>2 DEF Inv, HeldIsNormal, NormalPages
<1>10. NormalClosed' /\ DmaApart' /\ SpannedFits' /\ ScanFits' /\ ZonesSet'
  <2>1. Closed(mem', High) /\ \A q \in PageIndex : page'[q].zone = page[q].zone
    BY <1>1 DEF Inv, NormalClosed, Closed
  <2>2. pc' \in {"merge", "wild"} /\ UNCHANGED <<total, resv, spanned, scan>>
    BY <1>1
  <2> QED
    BY <1>2, <2>1, <2>2, BootFactsStay
<1>11. KernelReserved'
  BY <1>1, <1>2 DEF Inv, KernelReserved, Early
<1> QED
  BY <1>7, <1>8, <1>9, <1>10, <1>11 DEF Inv

\* The block of a merge starts in ZONE_NORMAL, whatever is taken off.
LEMMA MergeStep == Inv /\ Merge => Inv'
<1> SUFFICES ASSUME Inv, Merge PROVE Inv'
  OBVIOUS
<1> DEFINE o     == call.order
           p     == call.page
           buddy == page_find_buddy(p, o)
<1>1. /\ pc = "merge" /\ o < MAX_ORDER
      /\ UNCHANGED <<total, resv, page, spanned, scan, held, reply>>
      /\ \/ pc' = "wild" /\ UNCHANGED <<mem, nr_free, call>>
         \/ /\ mem' = list_del(mem, <<"page", p>>)
            /\ nr_free' = AddFree(call.zone, o, -1)
            /\ call' = [call EXCEPT !.order = o + 1,
                           !.page = IF buddy < p THEN buddy ELSE p]
            /\ pc' = pc
  BY DEF Merge, join_with
<1>2. /\ total \in MemSizes /\ mem \in Memory(Cell) /\ pc \notin Early
      /\ nr_free \in [Zones -> [Orders -> 0 .. ULong - 1]]
      /\ call \in [by : {"client", "mm_test"}, zone : Zones, want : Orders,
                   order : Orders, page : PageIndex]
      /\ call.zone = "NORMAL" /\ p \in NormalPages
      /\ o \in Orders /\ o + 1 \in Orders
  BY <1>1, OrderFacts DEF Inv, TypeOK, CallIsNormal, Early
<1>3. CASE pc' = "wild" /\ UNCHANGED <<mem, nr_free, call>>
  BY <1>1, <1>2, <1>3, OnlyPcMoves DEF area, Inv, TypeOK
<1>4. CASE pc' = pc
  <2>1. /\ mem' = list_del(mem, <<"page", p>>)
        /\ nr_free' = AddFree("NORMAL", o, -1)
        /\ call' = [call EXCEPT !.order = o + 1, !.page = IF buddy < p THEN buddy ELSE p]
    BY <1>1, <1>2, <1>4
  <2>2. buddy < p => buddy \in NormalPages
    <3>1. /\ Size[o] \in Nat \ {0} /\ DmaPages \in Nat /\ DmaPages % (2 * Size[o]) = 0
      <4>1. o \in Orders \ {MAX_ORDER}
        BY <1>1, <1>2, OrderFacts
      <4> QED
        BY <1>2, <4>1, OrderFacts
    <3>2. p \in Nat /\ p >= DmaPages /\ total \in Nat /\ p < total
      <4>1. total \in Nat
        BY <1>2, MmAssumption
      <4> QED
        BY <1>2, <3>1, <4>1 DEF NormalPages
    <3> SUFFICES ASSUME buddy < p PROVE buddy \in NormalPages
      OBVIOUS
    <3>3. (p \div Size[o]) % 2 # 0 /\ buddy = p - Size[o]
      BY <3>1, <3>2 DEF page_find_buddy
    <3>4. p - Size[o] >= DmaPages
      BY <3>1, <3>2, <3>3, BuddyAbove
    <3> QED
      BY <3>1, <3>2, <3>3, <3>4 DEF NormalPages
  <2> DEFINE q == IF buddy < p THEN buddy ELSE p
  <2>3. q \in NormalPages /\ q \in PageIndex
    BY <1>2, <2>2, CellFacts
  <2>4. mem' \in Memory(Cell) /\ Closed(mem', High)
    <3>1. /\ <<"page", p>> \in High /\ High \in SUBSET Cell
          /\ {LIST_POISON1, LIST_POISON2} \subseteq High
      BY <1>2, CellFacts
    <3>2. Closed(mem, High)
      BY DEF Inv, NormalClosed
    <3> QED
      BY <1>2, <2>1, <3>1, <3>2, DelStaysClosed
  <2>5. NormalClosed' /\ DmaApart' /\ SpannedFits' /\ ScanFits' /\ ZonesSet'
    <3>1. \A i \in PageIndex : page'[i].zone = page[i].zone
      BY <1>1
    <3>2. /\ pc' \in {"split", "merge", "mm_test_free", "idle", "wild"} /\ pc \notin Early
          /\ UNCHANGED <<total, resv, spanned, scan>> /\ Closed(mem', High)
      BY <1>1, <1>2, <1>4, <2>4
    <3> QED
      BY <3>1, <3>2, BootFactsStay
  <2>6. nr_free' \in [Zones -> [Orders -> 0 .. ULong - 1]]
    <3> HIDE DEF o
    <3>1. o \in Orders /\ -1 \in Int /\ nr_free \in [Zones -> [Orders -> 0 .. ULong - 1]]
      BY <1>2
    <3>2. AddFree("NORMAL", o, -1) \in [Zones -> [Orders -> 0 .. ULong - 1]]
      BY <3>1, AddFreeTyped, NormalIsZone
    <3> QED
      BY <2>1, <3>2
  <2> HIDE DEF buddy
  <2>7. /\ call' \in [by : {"client", "mm_test"}, zone : Zones, want : Orders,
                      order : Orders, page : PageIndex]
        /\ call'.zone = "NORMAL" /\ call'.page = q
    BY <1>2, <2>1, <2>3
  <2>8. TypeOK'
    BY <1>1, <1>4, <2>4, <2>6, <2>7 DEF Inv, TypeOK
  <2>9. CallIsNormal'
    BY <1>1, <2>3, <2>7 DEF CallIsNormal, NormalPages
  <2>10. HeldIsNormal' /\ KernelReserved'
    BY <1>1, <1>2, <1>4 DEF Inv, HeldIsNormal, KernelReserved, NormalPages, Early
  <2> QED
    BY <2>5, <2>8, <2>9, <2>10 DEF Inv
<1> QED
  BY <1>1, <1>3, <1>4

\* The merged block goes onto a list of ZONE_NORMAL.
LEMMA FreeReturnsStep == Inv /\ FreeReturns => Inv'
<1> SUFFICES ASSUME Inv, FreeReturns PROVE Inv'
  OBVIOUS
<1> DEFINE o == call.order
           p == call.page
<1>1. /\ pc = "merge" /\ pc' = "idle"
      /\ mem' = list_add(mem, <<"page", p>>, <<call.zone, o>>)
      /\ page' = [page EXCEPT ![p].count = 0]
      /\ nr_free' = AddFree(call.zone, o, 1)
      /\ UNCHANGED <<total, resv, spanned, scan, call, held, reply>>
  BY DEF FreeReturns
<1>2. /\ total \in MemSizes /\ mem \in Memory(Cell) /\ pc \notin Early
      /\ nr_free \in [Zones -> [Orders -> 0 .. ULong - 1]]
      /\ page \in [PageIndex -> StructPage]
      /\ call.zone = "NORMAL" /\ p \in NormalPages /\ p \in PageIndex /\ o \in Orders
  BY <1>1 DEF Inv, TypeOK, CallIsNormal, Early
<1>3. mem' \in Memory(Cell) /\ Closed(mem', High)
  <2>1. /\ <<"page", p>> \in High /\ <<"NORMAL", o>> \in High /\ High \in SUBSET Cell
    BY <1>2, CellFacts
  <2>2. Closed(mem, High) /\ mem' = list_add(mem, <<"page", p>>, <<"NORMAL", o>>)
    BY <1>1, <1>2 DEF Inv, NormalClosed
  <2> QED
    BY <1>2, <2>1, <2>2, AddStaysClosed
<1>4. /\ page' \in [PageIndex -> StructPage]
      /\ \A i \in PageIndex : page'[i].zone = page[i].zone
      /\ \A i \in PageIndex : i # p => page'[i] = page[i]
  BY <1>1, <1>2 DEF StructPage
<1>5. NormalClosed' /\ DmaApart' /\ SpannedFits' /\ ScanFits' /\ ZonesSet'
  <2>1. /\ pc' \in {"split", "merge", "mm_test_free", "idle", "wild"} /\ pc \notin Early
        /\ UNCHANGED <<total, resv, spanned, scan>> /\ Closed(mem', High)
        /\ \A i \in PageIndex : page'[i].zone = page[i].zone
    BY <1>1, <1>2, <1>3, <1>4
  <2> QED
    BY <2>1, BootFactsStay
<1>6. nr_free' \in [Zones -> [Orders -> 0 .. ULong - 1]]
  <2> HIDE DEF o
  <2>1. AddFree("NORMAL", o, 1) \in [Zones -> [Orders -> 0 .. ULong - 1]]
    <3>1. "NORMAL" \in Zones /\ o \in Orders /\ 1 \in Int
      BY <1>2, NormalIsZone DEF o
    <3> QED
      BY <1>2, <3>1, AddFreeTyped
  <2> QED
    BY <1>1, <1>2, <2>1
<1>7. TypeOK'
  BY <1>1, <1>3, <1>4, <1>6 DEF Inv, TypeOK
<1>8. KernelReserved'
  <2>1. DmaPages \in Nat /\ \A i \in 0 .. resv - 1 : i \in PageIndex
    <3>1. resv \in Nat /\ total \in Nat /\ resv <= total /\ total <= MaxPages /\ MaxPages \in Nat
          /\ DmaPages \in Nat
      BY MmAssumption DEF Inv, TypeOK
    <3> QED
      BY <3>1 DEF PageIndex
  <2>2. \A i \in 0 .. resv - 1 : i < DmaPages => i # p
    BY <1>2, <2>1 DEF NormalPages
  <2> QED
    BY <1>1, <1>4, <2>1, <2>2 DEF Inv, KernelReserved
<1>9. HeldIsNormal'
  BY <1>1 DEF Inv, HeldIsNormal, NormalPages
<1> QED
  BY <1>1, <1>5, <1>7, <1>8, <1>9 DEF Inv, CallIsNormal

\* Inv depends on the variables alone.
LEMMA StutterStep == Inv /\ UNCHANGED vars => Inv'
  BY DEF vars, area, Inv, TypeOK, NormalClosed, High, NormalPages, Closed, DmaApart,
     SpannedFits, ScanFits, ZonesSet, CallIsNormal, HeldIsNormal, KernelReserved

\* Every step of Mm keeps Inv.
LEMMA StepInv == Inv /\ [Next]_vars => Inv'
<1> SUFFICES ASSUME Inv, [Next]_vars PROVE Inv'
  OBVIOUS
<1>1. CASE MmReservedInit \/ ZoneInit \/ PageInit \/ AreaBegin \/ AreaScan \/ AreaEnd
  BY <1>1, MmReservedInitStep, ZoneInitStep, PageInitStep, AreaBeginStep, AreaScanStep,
     AreaEndStep
<1>2. CASE Split \/ AllocReturns \/ Merge \/ FreeReturns \/ MmTest
  BY <1>2, SplitStep, AllocReturnsStep, MergeStep, FreeReturnsStep, MmTestStep
<1>3. CASE MmTestFree
  <2>1. call.page \in PageIndex /\ 0 \in Orders
    BY OrderFacts DEF Inv, TypeOK
  <2> QED
    BY <1>3, <2>1, StartFreeStep DEF MmTestFree
<1>4. ASSUME NEW o \in Requests, AllocPages(o) \/ AllocFails(o) PROVE Inv'
  BY <1>4, ClientAllocStep
<1>5. ASSUME NEW p \in PageIndex, NEW o \in FreeOrders, FreePages(p, o) PROVE Inv'
  <2>1. o \in Orders
    BY MmAssumption
  <2> QED
    BY <1>5, <2>1, StartFreeStep DEF FreePages
<1>6. CASE Halted \/ UNCHANGED vars
  BY <1>6, StutterStep DEF Halted
<1> QED
  BY <1>1, <1>2, <1>3, <1>4, <1>5, <1>6 DEF Next, Kernel, Client
-----------------------------------------------------------------------------
(* The invariant holds in every behaviour. *)
THEOREM InvHolds == Spec => []Inv
  BY InitInv, StepInv, PTL DEF Spec

(* Mm's variables keep their types on every machine, whatever is freed: no *)
(* scan of free_area_init runs over the end of mem_map, every list pointer *)
(* is the address of a list_head, NULL or a poison pointer, and a merge    *)
(* never computes a page below mem_map or an order above MAX_ORDER.        *)
THEOREM TypeCorrect == Spec => []TypeOK
<1>1. Inv => TypeOK
  BY DEF Inv
<1> QED
  BY <1>1, InvHolds, PTL

(* alloc_pages never hands out a page below ZONE_NORMAL, and the kernel's  *)
(* pages in ZONE_DMA stay reserved.                                        *)
THEOREM KernelIsSafe == Spec => []KernelPagesSafe
<1>1. Inv => KernelPagesSafe
  <2> SUFFICES ASSUME Inv PROVE KernelPagesSafe
    OBVIOUS
  <2>1. \A b \in Blocks : held[b] > 0 => b[1] >= DmaPages
    BY MmAssumption DEF Inv, HeldIsNormal, NormalPages
  <2> QED
    BY <2>1 DEF Inv, KernelReserved, KernelPagesSafe, Booted
<1> QED
  BY <1>1, InvHolds, PTL
-----------------------------------------------------------------------------
(* BootsExactlyOn.  Its hypothesis is that the kernel and its tables take a  *)
(* page and end inside ZONE_DMA.                                             *)
KernelInDma == KernelSizes \subseteq 1 .. DmaPages

\* What free_area_init is to spread over the free_areas of ZONE_NORMAL.
NormalCount == IF total > DmaPages THEN total - DmaPages ELSE 0

NormalHead == <<"NORMAL", MAX_ORDER>>

LargestFree == nr_free["NORMAL"][MAX_ORDER]

ExactSpan == pc \notin Early => spanned["NORMAL"] = NormalCount

\* Page 0 is the kernel's, so what a scan of ZONE_DMA takes is a block behind it.
LowScan ==
    pc = "area_scan" /\ scan.zone = "DMA" =>
        LET taken == nr_free["DMA"][scan.order] * Size[scan.order]
        IN  \/ scan.i = 0 /\ nr_free["DMA"][scan.order] = 0
            \/ /\ taken + Size[scan.order] <= scan.i
               /\ scan.i < scan.pagenum + Size[scan.order]

\* Until mm_test ZONE_NORMAL has free blocks of the largest order only.
LargestOnly ==
    CleanRam /\ pc \in {"page_init", "area_begin", "area_scan", "mm_test"} =>
        \A o \in Orders \ {MAX_ORDER} : nr_free["NORMAL"][o] = 0

HighBegin ==
    CleanRam /\ pc \in {"area_begin", "area_scan"} /\ scan.zone = "NORMAL" =>
        scan.order = MAX_ORDER

\* The scan of ZONE_NORMAL takes every block it looks at.
HighScan ==
    CleanRam /\ pc = "area_scan" /\ scan.zone = "NORMAL" =>
        /\ scan.pagenum = spanned["NORMAL"]
        /\ LargestFree * Size[MAX_ORDER] = scan.i
        /\ scan.i > 0 =>
              /\ scan.pagenum > 0 /\ scan.i < scan.pagenum + Size[MAX_ORDER]
              /\ mem.next[NormalHead] = <<"page", DmaPages + scan.i - Size[MAX_ORDER]>>

TestReady ==
    CleanRam /\ pc = "mm_test" =>
        /\ LargestFree * Size[MAX_ORDER] = spanned["NORMAL"]
        /\ LargestFree # 0 => mem.next[NormalHead] = <<"page", total - Size[MAX_ORDER]>>

\* The block mm_test is given lies below the end of the memory.
TestSplits ==
    CleanRam /\ pc = "split" /\ reply[1] = "none" =>
        call.page + Size[call.order] <= total

Answered == pc \in {"idle", "merge", "mm_test_free"} => reply[1] # "none"

BootInv ==
    /\ ExactSpan /\ LowScan
    /\ LargestOnly /\ HighBegin /\ HighScan
    /\ TestReady /\ TestSplits /\ Answered
    /\ BootsExactlyOn

\* A number of blocks, in pages: no less than the number, without remainder.
LEMMA BlocksOfSize ==
    ASSUME NEW s \in Nat \ {0}, NEW n \in Nat
    PROVE  n * s \in Nat /\ n <= n * s /\ (n + 1) * s = n * s + s /\ (n * s) % s = 0
<1>1. n * s \in Nat /\ n <= n * s
  OBVIOUS
<1>2. (n + 1) * s = n * s + s
  OBVIOUS
<1>3. (n * s) % s = 0
  OBVIOUS
<1> QED
  BY <1>1, <1>2, <1>3

\* A number between two neighbouring multiples of s is no multiple of s.
LEMMA BetweenMultiples ==
    ASSUME NEW s \in Nat \ {0}, NEW n \in Nat, NEW m \in Nat, m < n * s, n * s < m + s
    PROVE  m % s # 0
<1> SUFFICES ASSUME m % s = 0 PROVE FALSE
  OBVIOUS
<1>1. PICK k \in Nat : m = k * s
  <2>1. m = (m \div s) * s /\ m \div s \in Nat
    OBVIOUS
  <2> QED
    BY <2>1
<1>2. k < n
  <2>1. k >= n => k * s >= n * s
    OBVIOUS
  <2> QED
    BY <1>1, <2>1
<1>3. (k + 1) * s <= n * s
  BY <1>2
<1>4. (k + 1) * s = k * s + s
  BY BlocksOfSize
<1> QED
  BY <1>1, <1>3, <1>4

\* How a counter wraps: not within its width, and by its width below zero.
LEMMA ModValues ==
    ASSUME NEW u \in Nat \ {0}, NEW a \in Int
    PROVE  /\ a \in 0 .. u - 1 => a % u = a
           /\ a < 0 /\ a + u >= 0 => a % u = a + u
           /\ a >= 0 => a % u <= a
<1>1. a \in 0 .. u - 1 => a % u = a
  OBVIOUS
<1>2. a < 0 /\ a + u >= 0 => a % u = a + u
  OBVIOUS
<1>3. a >= 0 => a % u <= a
  OBVIOUS
<1> QED
  BY <1>1, <1>2, <1>3
\* What the constants say of a state.
LEMMA MachineFacts ==
    ASSUME KernelInDma, Inv
    PROVE  /\ total \in Nat \ {0} /\ resv \in Nat \ {0} /\ resv <= DmaPages /\ DmaPages \in Nat
           /\ Size[MAX_ORDER] \in Nat \ {0} /\ NormalCount \in Nat
           /\ NormalCount + Size[MAX_ORDER] < ULong /\ total < ULong /\ ULong \in Nat \ {0}
<1>1. resv \in KernelSizes /\ total \in MemSizes
  BY DEF Inv, TypeOK
<1>2. /\ total \in Nat \ {0} /\ resv \in Nat \ {0} /\ resv <= DmaPages /\ total <= MaxPages
      /\ MaxPages \in Nat /\ DmaPages \in Nat
  BY <1>1, MmAssumption DEF KernelInDma
<1>3. Size[MAX_ORDER] \in Nat \ {0} /\ ULong \in Nat /\ ULong > MaxPages + Size[MAX_ORDER]
  BY OrderFacts, MmAssumption
<1>4. NormalCount \in Nat /\ NormalCount <= total
  BY <1>2 DEF NormalCount
<1> QED
  BY <1>2, <1>3, <1>4

\* Clean RAM stays clean as long as no struct page is written to.
LEMMA CleanStays ==
    ASSUME UNCHANGED <<total, resv, page>>
    PROVE  CleanRam' <=> CleanRam
  BY DEF CleanRam, page_isfree

\* Nothing is claimed of the boot before it begins.
LEMMA InitBoot == Init => BootInv
  BY DEF Init, BootInv, Early, ExactSpan, LowScan, LargestOnly, HighBegin, HighScan,
     TestReady, TestSplits, Answered, BootsExactlyOn

\* The kernel's pages are no concern of CleanRam.
LEMMA MmReservedInitBoots ==
    ASSUME KernelInDma, Inv, BootInv, MmReservedInit PROVE BootInv'
<1>1. pc' = "zone_init"
  BY DEF MmReservedInit
<1> QED
  BY <1>1 DEF BootInv, Early, ExactSpan, LowScan, LargestOnly, HighBegin, HighScan,
     TestReady, TestSplits, Answered, BootsExactlyOn

\* The counts of both zones start at zero.
LEMMA ZoneInitBoots ==
    ASSUME KernelInDma, Inv, BootInv, ZoneInit PROVE BootInv'
<1>1. pc' = "page_init" /\ nr_free' = [z \in Zones |-> [o \in Orders |-> 0]]
  BY DEF ZoneInit
<1>2. LargestOnly'
  BY <1>1, NormalIsZone DEF LargestOnly
<1> QED
  BY <1>1, <1>2 DEF BootInv, Early, ExactSpan, LowScan, HighBegin, HighScan,
     TestReady, TestSplits, Answered, BootsExactlyOn

\* spanned_pages is what the machine has of each zone.
LEMMA PageInitBoots ==
    ASSUME KernelInDma, Inv, BootInv, PageInit PROVE BootInv'
<1>1. /\ pc = "page_init" /\ pc' = "area_begin" /\ scan'.zone = "DMA"
      /\ UNCHANGED <<total, resv, nr_free>>
      /\ spanned' = [z \in Zones |->
                        Cardinality({p \in 0 .. total - 1 : PageZone(p) = z})]
      /\ page' = [p \in PageIndex |-> IF p < total /\ page[p].zone = "DMA"
                                      THEN [page[p] EXCEPT !.zone = PageZone(p)]
                                      ELSE page[p]]
  BY DEF PageInit, NoScan
<1>2. CleanRam' => CleanRam
  <2>1. /\ total \in Nat /\ total <= MaxPages /\ MaxPages \in Nat /\ resv \in Nat
        /\ page \in [PageIndex -> StructPage]
    BY MmAssumption DEF Inv, TypeOK
  <2>2. ASSUME NEW p \in resv .. total - 1
        PROVE  page'[p].count = page[p].count /\ page'[p].rvsd = page[p].rvsd
    <3>1. p \in PageIndex /\ page[p] \in StructPage
      BY <2>1 DEF PageIndex
    <3> QED
      BY <1>1, <3>1 DEF StructPage
  <2> QED
    BY <1>1, <2>2 DEF CleanRam, page_isfree
<1>3. ExactSpan'
  <2>1. spanned'["NORMAL"] = Cardinality({p \in 0 .. total - 1 : PageZone(p) = "NORMAL"})
    BY <1>1, NormalIsZone
  <2>2. total \in Nat \ {0} /\ DmaPages \in Nat
    BY MachineFacts
  <2>3. {p \in 0 .. total - 1 : PageZone(p) = "NORMAL"} = DmaPages .. total - 1
    BY <2>2 DEF PageZone
  <2>4. Cardinality(DmaPages .. total - 1)
           = IF DmaPages > total - 1 THEN 0 ELSE total - 1 - DmaPages + 1
    BY <2>2, FS_Interval
  <2>5. spanned'["NORMAL"] = IF DmaPages > total - 1 THEN 0 ELSE total - 1 - DmaPages + 1
    BY <2>1, <2>3, <2>4, Zenon
  <2> QED
    BY <1>1, <2>2, <2>5 DEF ExactSpan, NormalCount
<1>4. LargestOnly'
  BY <1>1, <1>2 DEF BootInv, LargestOnly
<1> QED
  BY <1>1, <1>3, <1>4 DEF BootInv, LowScan, HighBegin, HighScan,
     TestReady, TestSplits, Answered, BootsExactlyOn

\* Each scan starts with an empty list.
LEMMA AreaBeginBoots ==
    ASSUME KernelInDma, Inv, BootInv, AreaBegin PROVE BootInv'
<1> DEFINE z == scan.zone
           o == scan.order
<1>1. /\ pc = "area_begin" /\ pc' = "area_scan"
      /\ UNCHANGED <<total, resv, page, spanned>>
      /\ nr_free' = [nr_free EXCEPT ![z][o] = 0]
      /\ scan' = [scan EXCEPT !.i = 0,
                     !.pagenum = IF o = MAX_ORDER THEN spanned[z] ELSE scan.pagenum]
  BY DEF AreaBegin
<1>2. /\ scan \in [zone : Zones, order : Orders, i : Nat, pagenum : Nat]
      /\ z \in Zones /\ o \in Orders
      /\ nr_free \in [Zones -> [Orders -> 0 .. ULong - 1]]
  BY DEF Inv, TypeOK
<1>3. /\ scan'.zone = z /\ scan'.order = o /\ scan'.i = 0
      /\ o = MAX_ORDER => scan'.pagenum = spanned[z]
      /\ nr_free'[z][o] = 0
      /\ \A k \in Orders : nr_free["NORMAL"][k] = 0 => nr_free'["NORMAL"][k] = 0
  BY <1>1, <1>2, NormalIsZone
<1>4. CleanRam' <=> CleanRam
  BY <1>1, CleanStays
<1>5. ExactSpan' /\ LowScan' /\ LargestOnly' /\ HighBegin'
  BY <1>1, <1>3, <1>4 DEF BootInv, ExactSpan, NormalCount, Early, LowScan, LargestOnly,
     HighBegin
<1>6. HighScan'
  <2>1. SUFFICES ASSUME CleanRam, z = "NORMAL"
                 PROVE  /\ scan'.pagenum = spanned'["NORMAL"]
                        /\ nr_free'["NORMAL"][MAX_ORDER] * Size[MAX_ORDER] = 0
    BY <1>3, <1>4 DEF HighScan, LargestFree
  <2>2. o = MAX_ORDER
    BY <1>1, <2>1 DEF BootInv, HighBegin
  <2>3. nr_free'["NORMAL"][MAX_ORDER] = 0 /\ Size[MAX_ORDER] \in Nat
    BY <1>3, <2>1, <2>2, OrderFacts
  <2> QED
    BY <1>1, <1>3, <2>1, <2>2, <2>3
<1> QED
  BY <1>1, <1>5, <1>6 DEF BootInv, TestReady, TestSplits, Answered, BootsExactlyOn
\* The scan of ZONE_DMA, whatever the RAM holds.
LEMMA LowScanGoesOn ==
    ASSUME KernelInDma, Inv, BootInv, AreaScan, scan.zone = "DMA" PROVE LowScan'
<1> DEFINE o == scan.order
           n == nr_free["DMA"][scan.order]
           s == Size[scan.order]
<1>1. /\ pc = "area_scan" /\ scan.i < scan.pagenum /\ UNCHANGED <<resv, page, spanned>>
      /\ scan' = [scan EXCEPT !.i = scan.i + Size[scan.order]]
      /\ IF page_isfree(scan.i) THEN nr_free' = AddFree("DMA", o, 1) ELSE UNCHANGED nr_free
  <2>1. ZoneMemMap(scan.zone) = 0 /\ scan.i \in Nat
    BY DEF ZoneMemMap, Inv, TypeOK
  <2>2. ZoneMemMap(scan.zone) + scan.i = scan.i
    BY <2>1
  <2> QED
    BY <2>2 DEF AreaScan, unit
<1>2. /\ scan \in [zone : Zones, order : Orders, i : Nat, pagenum : Nat]
      /\ o \in Orders /\ scan.i \in Nat /\ scan.pagenum \in Nat
      /\ s \in Nat \ {0} /\ ULong \in Nat \ {0} /\ "DMA" \in Zones
      /\ nr_free \in [Zones -> [Orders -> 0 .. ULong - 1]] /\ n \in Nat
  <2>1. /\ scan \in [zone : Zones, order : Orders, i : Nat, pagenum : Nat]
        /\ nr_free \in [Zones -> [Orders -> 0 .. ULong - 1]] /\ "DMA" \in Zones
        /\ o \in Orders
    BY DEF Inv, TypeOK, Zones
  <2>2. s \in Nat \ {0} /\ ULong \in Nat \ {0}
    BY <2>1, OrderFacts
  <2> QED
    BY <2>1, <2>2
<1>3. /\ scan'.zone = "DMA" /\ scan'.order = o /\ scan'.pagenum = scan.pagenum
      /\ scan'.i = scan.i + s
  BY <1>1, <1>2
<1>4. ~page_isfree(0)
  <2>1. 0 \in 0 .. resv - 1 /\ 0 < DmaPages
    BY MachineFacts
  <2> QED
    BY <1>1, <2>1 DEF Inv, KernelReserved, page_isfree
<1>5. nr_free'["DMA"][o] = n
      \/ (scan.i > 0 /\ nr_free'["DMA"][o] \in Nat /\ nr_free'["DMA"][o] <= n + 1)
  <2>1. CASE page_isfree(scan.i)
    <3>1. nr_free' = [nr_free EXCEPT !["DMA"][o] = (n + 1) % ULong]
      BY <1>1, <2>1 DEF AddFree
    <3>2. nr_free'["DMA"][o] = (n + 1) % ULong
      BY <1>2, <3>1
    <3>3. (n + 1) % ULong \in 0 .. ULong - 1 /\ (n + 1) % ULong <= n + 1
      <4> DEFINE a == n + 1
      <4>1. a \in Int /\ a >= 0
        BY <1>2
      <4> HIDE DEF a
      <4>2. a % ULong \in 0 .. ULong - 1 /\ a % ULong <= a
        BY <1>2, <4>1, ModValues, ModRange
      <4> QED
        BY <4>2 DEF a
    <3>4. scan.i # 0
      BY <1>4, <2>1
    <3> QED
      BY <1>2, <3>2, <3>3, <3>4
  <2> QED
    BY <1>1, <2>1
<1>6. \/ scan.i = 0 /\ n = 0
      \/ n * s + s <= scan.i /\ scan.i < scan.pagenum + s
  BY <1>1 DEF BootInv, LowScan
<1> DEFINE m == nr_free'["DMA"][o]
<1> HIDE DEF m, n, s, o
<1>7. m * s + s <= scan.i + s /\ scan.i + s < scan.pagenum + s
  <2>1. CASE m = n
    <3>1. n * s \in Nat /\ (n = 0 => n * s = 0)
      BY <1>2, BlocksOfSize
    <3> QED
      BY <1>1, <1>2, <1>6, <2>1, <3>1
  <2>2. CASE scan.i > 0 /\ m \in Nat /\ m <= n + 1
    <3>1. n * s + s <= scan.i
      BY <1>6, <2>2
    <3>2. m * s <= (n + 1) * s
      BY <1>2, <2>2
    <3>3. (n + 1) * s = n * s + s /\ n * s \in Nat /\ m * s \in Nat
      BY <1>2, <2>2, BlocksOfSize
    <3> QED
      BY <1>1, <1>2, <3>1, <3>2, <3>3
  <2> QED
    BY <1>5, <2>1, <2>2 DEF m
<1> QED
  BY <1>3, <1>7 DEF LowScan, m, n, s, o

\* The scan of ZONE_NORMAL in RAM that is zero.
LEMMA HighScanGoesOn ==
    ASSUME KernelInDma, Inv, BootInv, AreaScan, CleanRam, scan.zone = "NORMAL"
    PROVE  /\ HighScan'
           /\ \A o \in Orders \ {MAX_ORDER} : nr_free'["NORMAL"][o] = 0
<1> DEFINE p == DmaPages + scan.i
           n == LargestFree
           s == Size[MAX_ORDER]
           i == scan.i
<1>1. /\ pc = "area_scan" /\ pc' = "area_scan" /\ scan.i < scan.pagenum
      /\ scan.order = MAX_ORDER /\ scan.pagenum = spanned["NORMAL"]
      /\ n * s = i /\ UNCHANGED <<total, resv, page, spanned>>
      /\ \A o \in Orders \ {MAX_ORDER} : nr_free["NORMAL"][o] = 0
  BY DEF BootInv, LargestOnly, HighBegin, HighScan, AreaScan
<1>2. /\ scan \in [zone : Zones, order : Orders, i : Nat, pagenum : Nat]
      /\ scan.i \in Nat /\ scan.pagenum \in Nat
      /\ nr_free \in [Zones -> [Orders -> 0 .. ULong - 1]]
      /\ n \in Nat /\ MAX_ORDER \in Orders /\ NormalHead \in Cell
      /\ mem \in Memory(Cell) /\ pc \notin Early /\ total \in MemSizes
  <2>1. /\ scan \in [zone : Zones, order : Orders, i : Nat, pagenum : Nat]
        /\ nr_free \in [Zones -> [Orders -> 0 .. ULong - 1]]
        /\ mem \in Memory(Cell) /\ total \in MemSizes
    BY DEF Inv, TypeOK
  <2>2. n \in 0 .. ULong - 1
    BY <2>1, OrderFacts, NormalIsZone DEF LargestFree
  <2>3. NormalHead \in Cell
    BY OrderFacts, NormalIsZone DEF NormalHead, Cell
  <2> QED
    BY <1>1, <2>1, <2>2, <2>3, OrderFacts DEF Early
<1>3. s \in Nat \ {0} /\ total \in Nat /\ total < ULong /\ ULong \in Nat \ {0}
      /\ DmaPages \in Nat /\ resv \in Nat /\ resv <= DmaPages
  BY MachineFacts
<1>4. scan.pagenum = NormalCount /\ scan.pagenum > 0
  BY <1>1, <1>2 DEF BootInv, ExactSpan
<1>5. p < total /\ p >= resv /\ p \in NormalPages
  BY <1>1, <1>2, <1>3, <1>4 DEF NormalCount, NormalPages
<1>6. page_isfree(p)
  BY <1>3, <1>5 DEF CleanRam, NormalPages
<1>7. /\ mem' = list_add(mem, <<"page", p>>, NormalHead)
      /\ nr_free' = [nr_free EXCEPT !["NORMAL"][MAX_ORDER] = (n + 1) % ULong]
      /\ scan' = [scan EXCEPT !.i = i + s]
  <2>1. ZoneMemMap(scan.zone) + scan.i = p
    BY DEF ZoneMemMap
  <2> QED
    BY <1>1, <1>6, <2>1 DEF AreaScan, unit, AddFree, LargestFree, NormalHead
<1>8. /\ scan'.zone = "NORMAL" /\ scan'.order = MAX_ORDER
      /\ scan'.pagenum = scan.pagenum /\ scan'.i = i + s
  BY <1>1, <1>2, <1>7
<1>9. n * s \in Nat /\ n <= n * s /\ (n + 1) * s = n * s + s
  BY <1>2, <1>3, BlocksOfSize
<1>10. (n + 1) % ULong = n + 1
  <2>1. n + 1 \in 0 .. ULong - 1 /\ n + 1 \in Int
    BY <1>1, <1>2, <1>3, <1>4, <1>9 DEF NormalCount
  <2> QED
    BY <1>3, <2>1, ModValues
<1>11. /\ nr_free'["NORMAL"][MAX_ORDER] = n + 1
       /\ \A o \in Orders \ {MAX_ORDER} : nr_free'["NORMAL"][o] = 0
  BY <1>1, <1>2, <1>7, <1>10, NormalIsZone
<1>12. mem'.next[NormalHead] = <<"page", p>>
  <2>1. /\ <<"page", p>> \in Cell /\ mem.next[NormalHead] \in Cell
        /\ mem.next \in [Cell -> Cell] /\ mem.prev \in [Cell -> Cell]
    BY <1>2, <1>5, CellFacts DEF Memory
  <2>2. mem'.next = [mem.next EXCEPT ![<<"page", p>>] = mem.next[NormalHead],
                                     ![NormalHead] = <<"page", p>>]
    <3> HIDE DEF p
    <3> QED
      BY <1>2, <1>7, <2>1 DEF list_add, insert_between, Memory
  <2> HIDE DEF p
  <2> QED
    BY <1>2, <2>1, <2>2
<1>13. scan'.i - s = i /\ scan'.i \in Nat
  BY <1>2, <1>3, <1>8
<1>14. <<"page", p>> = <<"page", DmaPages + scan'.i - s>>
  BY <1>2, <1>3, <1>8
<1>15. nr_free'["NORMAL"][MAX_ORDER] * s = scan'.i
  BY <1>1, <1>8, <1>9, <1>11
<1>16. scan'.i < scan'.pagenum + s
  BY <1>1, <1>2, <1>3, <1>8
<1> QED
  BY <1>1, <1>4, <1>8, <1>11, <1>12, <1>14, <1>15, <1>16 DEF HighScan, LargestFree, NormalHead

\* One more block of clean RAM goes onto the list.
LEMMA AreaScanBoots ==
    ASSUME KernelInDma, Inv, BootInv, AreaScan PROVE BootInv'
<1>1. /\ pc = "area_scan" /\ pc' = "area_scan"
      /\ UNCHANGED <<total, resv, page, spanned>>
      /\ scan.zone \in Zones
      /\ scan' = [scan EXCEPT !.i = scan.i + Size[scan.order]]
      /\ nr_free' = AddFree(scan.zone, scan.order, 1) \/ UNCHANGED nr_free
  BY DEF AreaScan, unit, Inv, TypeOK
<1>2. CleanRam' <=> CleanRam
  BY <1>1, CleanStays
<1>3. scan'.zone = scan.zone /\ scan'.order = scan.order
  BY <1>1 DEF Inv, TypeOK
<1>4. LowScan'
  BY <1>1, <1>3, LowScanGoesOn DEF LowScan
<1>5. HighScan' /\ LargestOnly'
  <2>1. CASE CleanRam /\ scan.zone = "NORMAL"
    BY <2>1, HighScanGoesOn DEF LargestOnly
  <2>2. CASE scan.zone = "DMA"
    <3>1. nr_free'["NORMAL"] = nr_free["NORMAL"]
      <4>1. nr_free \in [Zones -> [Orders -> 0 .. ULong - 1]]
        BY DEF Inv, TypeOK
      <4> QED
        BY <1>1, <2>2, <4>1, NormalIsZone DEF AddFree
    <3> QED
      BY <1>1, <1>2, <1>3, <2>2, <3>1 DEF BootInv, HighScan, LargestOnly
  <2>3. CASE ~CleanRam
    BY <1>2, <2>3 DEF HighScan, LargestOnly
  <2> QED
    BY <1>1, <2>1, <2>2, <2>3 DEF Zones
<1>6. ExactSpan' /\ HighBegin'
  BY <1>1, <1>2, <1>3 DEF BootInv, ExactSpan, NormalCount, Early, HighBegin
<1> QED
  BY <1>1, <1>4, <1>5, <1>6 DEF BootInv, TestReady, TestSplits, Answered, BootsExactlyOn
\* The end of a scan of ZONE_DMA, whatever the RAM holds, is no BUG.
LEMMA LowScanEnds ==
    ASSUME KernelInDma, Inv, BootInv, AreaEnd, scan.zone = "DMA"
    PROVE  pc' = "area_begin"
<1> DEFINE o == scan.order
           n == nr_free["DMA"][scan.order]
           s == Size[scan.order]
           d == scan.pagenum - n * s
<1>1. /\ pc = "area_scan" /\ scan.i >= scan.pagenum
      /\ d % ULong <= spanned["DMA"] => pc' = "area_begin"
  <2>1. /\ pc = "area_scan" /\ scan.i >= scan.pagenum
        /\ d % ULong > spanned["DMA"] \/ pc' = "area_begin"
    BY DEF AreaEnd
  <2>2. spanned["DMA"] \in Nat /\ d % ULong \in Int
    <3>1. /\ scan.pagenum \in Nat /\ spanned["DMA"] \in Nat /\ o \in Orders
          /\ n \in 0 .. ULong - 1
      BY DEF Inv, TypeOK, Zones
    <3>2. s \in Nat /\ ULong \in Nat \ {0}
      BY <3>1, OrderFacts
    <3>3. n \in Int
      BY <3>1, <3>2
    <3>4. d \in Int
      BY <3>1, <3>2, <3>3
    <3> HIDE DEF d
    <3> QED
      BY <3>1, <3>2, <3>4, ModRange
  <2> HIDE DEF d
  <2> QED
    BY <2>1, <2>2
<1>2. /\ scan.i \in Nat /\ scan.pagenum \in Nat /\ spanned["DMA"] \in Nat
      /\ scan.pagenum <= spanned["DMA"]
      /\ s \in Nat \ {0} /\ ULong \in Nat \ {0} /\ n \in Nat
  <2>1. /\ scan.i \in Nat /\ scan.pagenum \in Nat /\ spanned["DMA"] \in Nat /\ o \in Orders
        /\ n \in 0 .. ULong - 1
    BY DEF Inv, TypeOK, Zones
  <2>2. s \in Nat \ {0} /\ ULong \in Nat \ {0}
    BY <2>1, OrderFacts
  <2> QED
    BY <1>1, <2>1, <2>2 DEF Inv, ScanFits
<1>3. \/ scan.i = 0 /\ n = 0
      \/ n * s + s <= scan.i /\ scan.i < scan.pagenum + s
  BY <1>1 DEF BootInv, LowScan
<1> HIDE DEF n, s, o
<1>4. n * s \in Nat /\ (n = 0 => n * s = 0)
  BY <1>2, BlocksOfSize
<1>5. d \in Int /\ d >= 0 /\ d <= scan.pagenum
  BY <1>1, <1>2, <1>3, <1>4
<1> HIDE DEF d
<1>6. d % ULong <= d /\ d % ULong \in Int
  <2>1. d % ULong <= d
    BY <1>2, <1>5, ModValues
  <2>2. d % ULong \in 0 .. ULong - 1
    BY <1>2, <1>5, ModRange
  <2> QED
    BY <1>2, <2>1, <2>2
<1> QED
  BY <1>1, <1>2, <1>5, <1>6

\* The end of the scan of ZONE_NORMAL in RAM that is zero.
LEMMA HighScanEnds ==
    ASSUME KernelInDma, Inv, BootInv, AreaEnd, CleanRam, scan.zone = "NORMAL"
    PROVE  \/ /\ pc' = "mm_test" /\ LargestFree * Size[MAX_ORDER] = NormalCount
              /\ LargestFree # 0 =>
                    mem.next[NormalHead] = <<"page", total - Size[MAX_ORDER]>>
           \/ /\ pc' = "BUG" /\ total > DmaPages
              /\ (total - DmaPages) % Size[MAX_ORDER] # 0
<1> DEFINE n == LargestFree
           s == Size[MAX_ORDER]
           i == scan.i
           d == scan.pagenum - i
<1>1. /\ pc = "area_scan" /\ i >= scan.pagenum /\ scan.order = MAX_ORDER
      /\ scan.pagenum = spanned["NORMAL"] /\ n * s = i
      /\ i > 0 => /\ scan.pagenum > 0 /\ i < scan.pagenum + s
                  /\ mem.next[NormalHead] = <<"page", DmaPages + i - s>>
  BY DEF BootInv, HighBegin, HighScan, AreaEnd
<1>2. /\ IF d % ULong > spanned["NORMAL"] THEN pc' = "BUG"
         ELSE IF d % ULong # 0 /\ MAX_ORDER > 0 THEN pc' = "area_begin"
         ELSE pc' = "mm_test"
  BY <1>1 DEF AreaEnd, LargestFree
<1>3. /\ i \in Nat /\ n \in Nat /\ scan.pagenum = NormalCount
  <2>1. i \in Nat /\ nr_free \in [Zones -> [Orders -> 0 .. ULong - 1]]
    BY DEF Inv, TypeOK
  <2>2. n \in 0 .. ULong - 1
    BY <2>1, OrderFacts, NormalIsZone DEF LargestFree
  <2>3. scan.pagenum = NormalCount
    BY <1>1 DEF BootInv, ExactSpan, Early
  <2> QED
    BY <2>1, <2>2, <2>3, OrderFacts
<1>4. /\ total \in Nat /\ DmaPages \in Nat /\ s \in Nat \ {0} /\ NormalCount \in Nat
      /\ NormalCount + s < ULong /\ ULong \in Nat \ {0}
  BY MachineFacts
<1>5. n * s \in Nat /\ n <= n * s
  BY <1>3, <1>4, BlocksOfSize
<1> HIDE DEF n, s, i
<1>6. CASE i = scan.pagenum
  <2>1. d = 0 /\ d % ULong = 0
    <3>1. d = 0
      BY <1>3, <1>6
    <3> HIDE DEF d
    <3>2. 0 \in 0 .. ULong - 1 /\ d \in 0 .. ULong - 1 /\ d \in Int
      BY <1>4, <3>1
    <3>3. d % ULong = d
      BY <1>4, <3>2, ModValues
    <3> QED
      BY <3>1, <3>3
  <2> HIDE DEF d
  <2>2. pc' = "mm_test"
    BY <1>1, <1>2, <1>3, <1>4, <2>1
  <2>3. n * s = NormalCount
    BY <1>1, <1>3, <1>6
  <2>4. n # 0 => mem.next[NormalHead] = <<"page", total - s>>
    <3>1. SUFFICES ASSUME n # 0 PROVE mem.next[NormalHead] = <<"page", total - s>>
      OBVIOUS
    <3>2. i > 0
      BY <1>1, <1>3, <1>5, <3>1
    <3>3. DmaPages + i - s = total - s
      BY <1>3, <1>4, <1>6, <3>2 DEF NormalCount
    <3> QED
      BY <1>1, <3>2, <3>3
  <2> QED
    BY <2>2, <2>3, <2>4 DEF n, s
<1>7. CASE i # scan.pagenum
  <2>1. /\ i > 0 /\ NormalCount > 0 /\ NormalCount < i /\ i < NormalCount + s
        /\ d \in Int /\ d < 0 /\ d + ULong > NormalCount /\ d + ULong >= 0
    BY <1>1, <1>3, <1>4, <1>7
  <2> HIDE DEF d
  <2>2. d % ULong = d + ULong
    BY <1>4, <2>1, ModValues
  <2>3. pc' = "BUG"
    BY <1>1, <1>2, <1>3, <2>1, <2>2
  <2>4. total > DmaPages /\ NormalCount = total - DmaPages
    BY <2>1 DEF NormalCount
  <2>5. NormalCount % s # 0
    BY <1>1, <1>3, <1>4, <2>1, BetweenMultiples
  <2> QED
    BY <2>3, <2>4, <2>5 DEF s
<1> QED
  BY <1>6, <1>7

\* A whole zone ends in the first scan, a ragged one in BUG.
LEMMA AreaEndBoots ==
    ASSUME KernelInDma, Inv, BootInv, AreaEnd PROVE BootInv'
<1>1. /\ pc = "area_scan" /\ pc' \in {"BUG", "area_begin", "mm_test"}
      /\ UNCHANGED <<total, resv, mem, page, spanned, nr_free, reply>>
      /\ scan.zone \in Zones
      /\ pc' = "area_begin" /\ scan.zone = "DMA" =>
            scan'.zone = "DMA" \/ scan'.order = MAX_ORDER
  <2>1. scan \in [zone : Zones, order : Orders, i : Nat, pagenum : Nat]
    BY DEF Inv, TypeOK
  <2> QED
    BY <2>1 DEF AreaEnd, area, NoScan
<1>2. CleanRam' <=> CleanRam
  BY <1>1, CleanStays
<1>3. ExactSpan' /\ LargestOnly' /\ LowScan' /\ HighScan' /\ TestSplits' /\ Answered'
  BY <1>1, <1>2 DEF BootInv, ExactSpan, NormalCount, Early, LargestOnly, LowScan, HighScan,
     TestSplits, Answered
<1>4. CASE scan.zone = "DMA"
  <2>1. pc' = "area_begin" /\ (scan'.zone = "NORMAL" => scan'.order = MAX_ORDER)
    BY <1>1, <1>4, LowScanEnds
  <2> QED
    BY <1>3, <2>1 DEF BootInv, HighBegin, TestReady, BootsExactlyOn
<1>5. CASE scan.zone = "NORMAL" /\ CleanRam
  <2>1. pc' \in {"mm_test", "BUG"}
    BY <1>5, HighScanEnds
  <2>2. ASSUME pc' = "mm_test"
        PROVE  /\ LargestFree * Size[MAX_ORDER] = NormalCount
               /\ LargestFree # 0 =>
                     mem.next[NormalHead] = <<"page", total - Size[MAX_ORDER]>>
               /\ total > DmaPages => (total - DmaPages) % Size[MAX_ORDER] = 0
    <3>1. /\ LargestFree * Size[MAX_ORDER] = NormalCount
          /\ LargestFree # 0 =>
                mem.next[NormalHead] = <<"page", total - Size[MAX_ORDER]>>
      BY <1>5, <2>2, HighScanEnds
    <3>2. LargestFree \in Nat /\ Size[MAX_ORDER] \in Nat \ {0}
      <4>1. nr_free["NORMAL"][MAX_ORDER] \in 0 .. ULong - 1
        BY OrderFacts, NormalIsZone DEF Inv, TypeOK
      <4> QED
        BY <4>1, OrderFacts DEF LargestFree
    <3>3. (LargestFree * Size[MAX_ORDER]) % Size[MAX_ORDER] = 0
      BY <3>2, BlocksOfSize
    <3>4. total > DmaPages => (total - DmaPages) % Size[MAX_ORDER] = 0
      BY <3>1, <3>3 DEF NormalCount
    <3> QED
      BY <3>1, <3>4
  <2>3. spanned["NORMAL"] = NormalCount
    BY <1>1 DEF BootInv, ExactSpan, Early
  <2>4. TestReady'
    BY <1>1, <2>2, <2>3 DEF TestReady, LargestFree, NormalHead
  <2>5. BootsExactlyOn'
    <3>1. pc' = "BUG" => total > DmaPages /\ (total - DmaPages) % Size[MAX_ORDER] # 0
      BY <1>5, HighScanEnds
    <3> QED
      BY <1>1, <2>1, <2>2, <3>1 DEF BootsExactlyOn
  <2> QED
    BY <1>3, <2>1, <2>4, <2>5 DEF BootInv, HighBegin
<1>6. CASE ~CleanRam
  BY <1>2, <1>3, <1>6 DEF BootInv, HighBegin, TestReady, BootsExactlyOn
<1> QED
  BY <1>1, <1>4, <1>5, <1>6 DEF Zones
-----------------------------------------------------------------------------
\* A step to a call that is not the first, or out of the first.
LEMMA CallBoots ==
    ASSUME BootInv, pc \notin Early, UNCHANGED <<total, spanned>>,
           pc' \in {"idle", "merge", "mm_test_free", "split", "wild"}, reply'[1] # "none"
    PROVE  BootInv'
  BY DEF BootInv, ExactSpan, NormalCount, Early, LowScan, LargestOnly, HighBegin, HighScan,
     TestReady, TestSplits, Answered, BootsExactlyOn

\* mm_test finds no block only if the zone has no pages.
LEMMA MmTestBoots ==
    ASSUME KernelInDma, Inv, BootInv, MmTest PROVE BootInv'
<1>1. /\ pc = "mm_test" /\ UNCHANGED <<total, resv, page, spanned, reply>>
      /\ pc' \in {"split", "wild"}
  BY DEF MmTest, Alloc, Rmqueue, area
<1>2. CleanRam' <=> CleanRam
  BY <1>1, CleanStays
<1>3. ExactSpan'
  BY <1>1 DEF BootInv, ExactSpan, NormalCount, Early
<1>4. ASSUME CleanRam
      PROVE  /\ pc' = "split" => call'.page + Size[call'.order] <= total
             /\ pc' = "wild" => total <= DmaPages
  <2>1. /\ \A o \in Orders \ {MAX_ORDER} : nr_free["NORMAL"][o] = 0
        /\ LargestFree * Size[MAX_ORDER] = NormalCount
        /\ LargestFree # 0 => mem.next[NormalHead] = <<"page", total - Size[MAX_ORDER]>>
    BY <1>1, <1>4 DEF BootInv, LargestOnly, TestReady, ExactSpan, Early
  <2>2. /\ total \in Nat /\ DmaPages \in Nat /\ Size[MAX_ORDER] \in Nat \ {0}
        /\ MAX_ORDER \in Orders /\ MAX_ORDER \in Nat
    BY MachineFacts, OrderFacts
  <2>3. LargestFree \in Nat
    <3>1. nr_free["NORMAL"][MAX_ORDER] \in 0 .. ULong - 1
      BY OrderFacts, NormalIsZone DEF Inv, TypeOK
    <3> QED
      BY <3>1, OrderFacts DEF LargestFree
  <2>4. CASE Alloc("mm_test", 0)
    <3>1. Rmqueue("mm_test", "NORMAL", 0)
      BY <2>4 DEF Alloc, zonelist
    <3>2. PICK k \in Orders :
            /\ FirstArea("NORMAL", 0, k)
            /\ LET cell == mem.next[<<"NORMAL", k>>]
               IN  IF cell \in PageCells
                   THEN /\ call' = [by |-> "mm_test", zone |-> "NORMAL", want |-> 0,
                                    order |-> k, page |-> cell[2]]
                        /\ pc' = "split"
                   ELSE pc' = "wild"
      BY <3>1 DEF Rmqueue
    <3>3. k = MAX_ORDER /\ LargestFree # 0
      BY <2>1, <3>2 DEF FirstArea, LargestFree
    <3>4. mem.next[<<"NORMAL", k>>] = <<"page", total - Size[MAX_ORDER]>>
      BY <2>1, <3>3 DEF NormalHead
    <3>5. total - Size[MAX_ORDER] \in PageIndex
      <4>1. LargestFree * Size[MAX_ORDER] >= Size[MAX_ORDER]
        BY <2>2, <2>3, <3>3
      <4>2. total \in Nat /\ total <= MaxPages /\ MaxPages \in Nat
        BY MmAssumption DEF Inv, TypeOK
      <4>3. NormalCount <= total
        BY <2>2 DEF NormalCount
      <4>4. total - Size[MAX_ORDER] >= 0
        BY <2>1, <2>2, <4>1, <4>3 DEF NormalCount
      <4> QED
        BY <2>2, <4>2, <4>4 DEF PageIndex
    <3>6. /\ pc' = "split" /\ call'.page = total - Size[MAX_ORDER]
          /\ call'.order = MAX_ORDER
      BY <3>2, <3>3, <3>4, <3>5 DEF PageCells
    <3> QED
      BY <2>2, <3>6
  <2>5. CASE NoZoneHasRoom(0) /\ pc' = "wild"
    <3>1. ~HasRoom("NORMAL", 0)
      BY <2>5 DEF NoZoneHasRoom, zonelist
    <3>2. LargestFree = 0
      BY <2>2, <3>1 DEF HasRoom, LargestFree
    <3>3. NormalCount = 0
      BY <2>1, <2>2, <3>2
    <3> QED
      BY <2>2, <2>5, <3>3 DEF NormalCount
  <2> QED
    BY <2>4, <2>5 DEF MmTest
<1> QED
  BY <1>1, <1>2, <1>3, <1>4 DEF BootInv, LowScan, LargestOnly, HighBegin, HighScan,
     TestReady, TestSplits, Answered, BootsExactlyOn

\* No split of the first call runs over the end of mem_map.
LEMMA SplitBoots ==
    ASSUME KernelInDma, Inv, BootInv, Split PROVE BootInv'
<1> DEFINE o     == call.order - 1
           buddy == call.page + Size[o]
<1>1. /\ pc = "split" /\ call.order > call.want
      /\ UNCHANGED <<total, resv, page, spanned, reply>>
      /\ \/ call' = [call EXCEPT !.order = o] /\ pc' = pc
         \/ ~(buddy < total) /\ pc' = "wild"
  BY DEF Split, second_half
<1>2. CleanRam' <=> CleanRam
  BY <1>1, CleanStays
<1>3. CASE reply[1] # "none"
  BY <1>1, <1>3, CallBoots DEF Early
<1>4. CASE ~CleanRam
  BY <1>1, <1>2, <1>4 DEF BootInv, ExactSpan, NormalCount, Early, LowScan, LargestOnly,
     HighBegin, HighScan, TestReady, TestSplits, Answered, BootsExactlyOn
<1>5. CASE CleanRam /\ reply[1] = "none"
  <2>1. /\ call \in [by : {"client", "mm_test"}, zone : Zones, want : Orders,
                     order : Orders, page : PageIndex]
        /\ call.want \in Orders /\ call.order \in Orders /\ total \in Nat
    BY MachineFacts DEF Inv, TypeOK
  <2>2. o \in Orders \ {MAX_ORDER} /\ call.order = o + 1
    BY <1>1, <2>1, OrderFacts DEF Orders
  <2>3. call.page \in Nat /\ call.page + Size[call.order] <= total
    BY <1>1, <1>5, <2>1 DEF BootInv, TestSplits, PageIndex
  <2> HIDE DEF o
  <2>4. Size[o] \in Nat \ {0} /\ Size[call.order] = 2 * Size[o]
    BY <2>2, OrderFacts
  <2>5. buddy < total /\ call.page + Size[o] <= total
    BY <2>1, <2>3, <2>4
  <2>6. pc' = "split" /\ call' = [call EXCEPT !.order = o]
    BY <1>1, <2>5
  <2>7. call'.page + Size[call'.order] <= total
    BY <2>1, <2>5, <2>6
  <2> QED
    BY <1>1, <2>6, <2>7 DEF BootInv, ExactSpan, NormalCount, Early, LowScan, LargestOnly,
       HighBegin, HighScan, TestReady, TestSplits, Answered, BootsExactlyOn
<1> QED
  BY <1>3, <1>4, <1>5

\* BootInv depends on the variables alone.
LEMMA StutterBoots == ASSUME BootInv, UNCHANGED vars PROVE BootInv'
<1>1. CleanRam' <=> CleanRam
  BY CleanStays DEF vars
<1> QED
  BY <1>1 DEF vars, area, BootInv, ExactSpan, NormalCount, Early, LowScan, LargestOnly,
     HighBegin, HighScan, LargestFree, NormalHead, TestReady, TestSplits, Answered,
     BootsExactlyOn

\* Every step of Mm keeps BootInv.
LEMMA StepBoots ==
    ASSUME KernelInDma, Inv, BootInv, [Next]_vars PROVE BootInv'
<1>1. CASE MmReservedInit \/ ZoneInit \/ PageInit \/ AreaBegin \/ AreaScan \/ AreaEnd
  BY <1>1, MmReservedInitBoots, ZoneInitBoots, PageInitBoots, AreaBeginBoots,
     AreaScanBoots, AreaEndBoots
<1>2. CASE MmTest \/ Split
  BY <1>2, MmTestBoots, SplitBoots
<1>3. CASE AllocReturns
  <2>1. /\ pc = "split" /\ pc' \in {"mm_test_free", "idle"} /\ reply'[1] = "block"
        /\ UNCHANGED <<total, spanned>>
    BY <1>3 DEF AllocReturns, area
  <2> QED
    BY <2>1, CallBoots DEF Early
<1>4. CASE MmTestFree \/ \E p \in PageIndex, o \in FreeOrders : FreePages(p, o)
  <2>1. PICK by, p, o : pc \in {"idle", "mm_test_free"} /\ StartFree(by, p, o)
    BY <1>4 DEF MmTestFree, FreePages
  <2>2. /\ pc' \in {"merge", "wild"} /\ reply'[1] = "freed" /\ UNCHANGED <<total, spanned>>
    BY <2>1 DEF StartFree, area
  <2> QED
    BY <2>1, <2>2, CallBoots DEF Early
<1>5. CASE Merge \/ FreeReturns
  <2>1. /\ pc = "merge" /\ pc' \in {"merge", "idle", "wild"}
        /\ UNCHANGED <<total, spanned, reply>>
    BY <1>5 DEF Merge, FreeReturns
  <2> QED
    BY <2>1, CallBoots DEF Early, BootInv, Answered
<1>6. ASSUME NEW o \in Requests, AllocPages(o) PROVE BootInv'
  <2>1. /\ pc = "idle" /\ pc' \in {"split", "wild"} /\ UNCHANGED <<total, spanned, reply>>
    BY <1>6 DEF AllocPages, Alloc, Rmqueue
  <2> QED
    BY <2>1, CallBoots DEF Early, BootInv, Answered
<1>7. ASSUME NEW o \in Requests, AllocFails(o) PROVE BootInv'
  <2>1. pc = "idle" /\ reply'[1] = "null" /\ UNCHANGED <<pc, total, spanned>>
    BY <1>7 DEF AllocFails, area
  <2> QED
    BY <2>1, CallBoots DEF Early
<1>8. CASE Halted \/ UNCHANGED vars
  BY <1>8, StutterBoots DEF Halted
<1> QED
  BY <1>1, <1>2, <1>3, <1>4, <1>5, <1>6, <1>7, <1>8 DEF Next, Kernel, Client

(* In RAM that is zero the machine gets past free_area_init and mm_test if *)
(* ZONE_NORMAL has pages and is a whole number of largest blocks, it stops *)
(* in BUG if the zone is ragged and mm_test uses a NULL page if it has no  *)
(* pages: whatever the sizes, as long as the kernel lies in ZONE_DMA.      *)
THEOREM BootsOnWholeZones ==
    ASSUME KernelInDma PROVE Spec => []BootsExactlyOn
<1>1. Inv /\ BootInv /\ [Next]_vars => BootInv'
  BY StepBoots
<1>2. Inv /\ BootInv => BootsExactlyOn
  BY DEF BootInv
<1> QED
  BY <1>1, <1>2, InitBoot, InvHolds, PTL DEF Spec

-----------------------------------------------------------------------------
(* ExactInv.  The free lists as stacks: L[z][o][i] is the i-th entry from   *)
(* the end of the list of order o of zone z, nr[z][o] how many there are.   *)
Pg(p) == <<"page", p>>

Outside == {NULL, LIST_POISON1, LIST_POISON2}

ExactOrder(p, o) == p % Size[o] = 0 /\ (o < MAX_ORDER => p % Size[o + 1] # 0)

\* The cells a list of ZONE_NORMAL is made of: its head and the pages at which
\* a block of its order, but not one of the next, can start.
AreaCells(o) ==
    {<<"NORMAL", o>>}
        \union {Pg(p) : p \in {q \in PageIndex : q >= DmaPages /\ ExactOrder(q, o)}}

AreasClosed(m) ==
    \A o \in Orders : \A c \in AreaCells(o) : m.next[c] \in AreaCells(o) \union Outside

Depths == [Zones -> [Orders -> Nat]]

StackTables == [Zones -> [Orders -> [Nat -> PageIndex]]]

InZone(nr, L) ==
    \A z \in Zones, o \in Orders : \A i \in 1 .. nr[z][o] :
        /\ PageZone(L[z][o][i]) = z
        /\ z = "NORMAL" => ExactOrder(L[z][o][i], o)

Distinct(nr, L) ==
    \A z \in Zones, o \in Orders : \A i, j \in 1 .. nr[z][o] :
        L[z][o][i] = L[z][o][j] => i = j

Threaded(m, nr, L) ==
    \A z \in Zones, o \in Orders :
        /\ nr[z][o] > 0 => m.next[<<z, o>>] = Pg(L[z][o][nr[z][o]])
        /\ \A i \in 1 .. nr[z][o] - 1 : m.next[Pg(L[z][o][i + 1])] = Pg(L[z][o][i])

TopsKnow(m, nr, L) ==
    \A o \in Orders :
        nr["NORMAL"][o] > 0 =>
            m.prev[Pg(L["NORMAL"][o][nr["NORMAL"][o]])] = <<"NORMAL", o>>

Stacks(m, nr, L) ==
    /\ L \in StackTables
    /\ InZone(nr, L) /\ Distinct(nr, L)
    /\ Threaded(m, nr, L) /\ TopsKnow(m, nr, L)

OnAList(nr, L, p) == \E z \in Zones, o \in Orders : \E i \in 1 .. nr[z][o] : L[z][o][i] = p

\* Page p is put in front of the list of order o of zone z.
Pushed(nr, L, z, o, p, nr2, L2) ==
    /\ nr2 = [nr EXCEPT ![z][o] = nr[z][o] + 1]
    /\ L2 = [L EXCEPT ![z][o][nr[z][o] + 1] = p]

FreeClaims(nr, L) ==
    {c \in {"free"} \X PageIndex \X Orders :
        \E z \in Zones : \E i \in 1 .. nr[z][c[3]] : L[z][c[3]][i] = c[2]}
-----------------------------------------------------------------------------
\* What a push changes in the counts and in the stacks.
LEMMA PushTables ==
    ASSUME NEW nr \in Depths, NEW L \in StackTables,
           NEW z \in Zones, NEW o \in Orders, NEW p \in PageIndex,
           NEW n, n = nr[z][o], NEW nr2, NEW L2, Pushed(nr, L, z, o, p, nr2, L2)
    PROVE  /\ nr2 \in Depths /\ L2 \in StackTables
           /\ nr2[z][o] = n + 1 /\ L2[z][o][n + 1] = p
           /\ \A i \in 1 .. n : L2[z][o][i] = L[z][o][i]
           /\ \A y \in Zones, k \in Orders :
                 ~(y = z /\ k = o) => nr2[y][k] = nr[y][k] /\ L2[y][k] = L[y][k]
<1>1. n \in Nat /\ n + 1 \in Nat
  BY DEF Depths
<1>0. /\ nr2 = [nr EXCEPT ![z][o] = n + 1]
      /\ L2 = [L EXCEPT ![z][o][n + 1] = p]
  BY DEF Pushed
<1>2. nr2 \in Depths /\ nr2[z][o] = n + 1
  BY <1>0, <1>1 DEF Depths
<1>3. L2 \in StackTables /\ L2[z][o][n + 1] = p
  BY <1>0, <1>1 DEF StackTables
<1>4. \A i \in 1 .. n : L2[z][o][i] = L[z][o][i]
  BY <1>0, <1>1 DEF StackTables
<1>5. \A y \in Zones, k \in Orders :
          ~(y = z /\ k = o) => nr2[y][k] = nr[y][k] /\ L2[y][k] = L[y][k]
  BY <1>0 DEF Depths, StackTables
<1> QED
  BY <1>2, <1>3, <1>4, <1>5

\* A push adds one free block and changes no other.
LEMMA PushClaims ==
    ASSUME NEW nr \in Depths, NEW L \in StackTables,
           NEW z \in Zones, NEW o \in Orders, NEW p \in PageIndex,
           NEW n, n = nr[z][o], NEW nr2, NEW L2, Pushed(nr, L, z, o, p, nr2, L2)
    PROVE  FreeClaims(nr2, L2) = FreeClaims(nr, L) \union {<<"free", p, o>>}
<1>1. n \in Nat /\ n + 1 \in Nat
  BY DEF Depths
<1>2. /\ nr2[z][o] = n + 1 /\ L2[z][o][n + 1] = p
      /\ \A i \in 1 .. n : L2[z][o][i] = L[z][o][i]
      /\ \A y \in Zones, k \in Orders :
            ~(y = z /\ k = o) => nr2[y][k] = nr[y][k] /\ L2[y][k] = L[y][k]
  BY PushTables
<1>3. ASSUME NEW q \in PageIndex, NEW k \in Orders
      PROVE  (\E y \in Zones : \E i \in 1 .. nr2[y][k] : L2[y][k][i] = q)
                <=> (\E y \in Zones : \E i \in 1 .. nr[y][k] : L[y][k][i] = q)
                       \/ (q = p /\ k = o)
  <2>1. ASSUME NEW y \in Zones, NEW i \in 1 .. nr2[y][k], L2[y][k][i] = q
        PROVE  (\E x \in Zones : \E j \in 1 .. nr[x][k] : L[x][k][j] = q)
                       \/ (q = p /\ k = o)
    <3>1. CASE y = z /\ k = o /\ i = n + 1
      BY <1>2, <2>1, <3>1
    <3>2. CASE y = z /\ k = o /\ i # n + 1
      <4>1. i \in 1 .. n
        BY <1>1, <1>2, <3>2
      <4> QED
        BY <1>2, <2>1, <3>2, <4>1
    <3>3. CASE ~(y = z /\ k = o)
      BY <1>2, <2>1, <3>3
    <3> QED
      BY <3>1, <3>2, <3>3
  <2>2. ASSUME NEW y \in Zones, NEW i \in 1 .. nr[y][k], L[y][k][i] = q
        PROVE  \E x \in Zones : \E j \in 1 .. nr2[x][k] : L2[x][k][j] = q
    <3>1. CASE y = z /\ k = o
      <4>1. i \in 1 .. nr2[y][k] /\ L2[y][k][i] = q
        BY <1>1, <1>2, <2>2, <3>1
      <4> QED
        BY <4>1
    <3>2. CASE ~(y = z /\ k = o)
      BY <1>2, <2>2, <3>2
    <3> QED
      BY <3>1, <3>2
  <2>3. q = p /\ k = o => \E x \in Zones : \E j \in 1 .. nr2[x][k] : L2[x][k][j] = q
    <3>1. n + 1 \in 1 .. nr2[z][o]
      BY <1>1, <1>2
    <3> QED
      BY <1>2, <3>1
  <2> QED
    BY <2>1, <2>2, <2>3
<1>4. \A c : c \in FreeClaims(nr2, L2) <=> c \in FreeClaims(nr, L) \union {<<"free", p, o>>}
  <2>1. ASSUME NEW c \in {"free"} \X PageIndex \X Orders
        PROVE  c \in FreeClaims(nr2, L2) <=> c \in FreeClaims(nr, L) \union {<<"free", p, o>>}
    <3>1. c = <<"free", c[2], c[3]>> /\ c[2] \in PageIndex /\ c[3] \in Orders
      OBVIOUS
    <3>2. c = <<"free", p, o>> <=> c[2] = p /\ c[3] = o
      BY <3>1
    <3> QED
      BY <1>3, <3>1, <3>2 DEF FreeClaims
  <2>2. <<"free", p, o>> \in {"free"} \X PageIndex \X Orders
    OBVIOUS
  <2> QED
    BY <2>1, <2>2 DEF FreeClaims
<1> QED
  BY <1>4
-----------------------------------------------------------------------------
\* A set of natural numbers has a least member.
LEMMA Least ==
    ASSUME NEW T \in SUBSET Nat, T # {}
    PROVE  \E n \in T : \A m \in T : n <= m
<1> DEFINE Below == {q \in Nat \X Nat : q[1] < q[2]}
<1>1. IsWellFoundedOn(Below, Nat)
  BY NatLessThanWellFounded DEF OpToRel
<1>2. \A m, n \in Nat : m < n => <<m, n>> \in Below
  OBVIOUS
<1> HIDE DEF Below
<1>3. PICK n \in T : \A m \in T : ~ (<<m, n>> \in Below)
  BY <1>1, WFMin
<1>4. ASSUME NEW m \in T PROVE n <= m
  <2>1. m \in Nat /\ n \in Nat
    OBVIOUS
  <2>2. ~ (m < n)
    BY <1>2, <1>3, <2>1, Zenon
  <2> QED
    BY <2>1, <2>2
<1> QED
  BY <1>4

\* What a product divides, its second factor divides.
LEMMA ProductDivides ==
    ASSUME NEW a \in Nat \ {0}, NEW k \in Nat, NEW m \in Nat, m % (k * a) = 0, k # 0
    PROVE  m % a = 0
<1> DEFINE q == m \div (k * a)
<1>1. k * a \in Nat \ {0}
  BY SMT
<1>2. q \in Nat /\ m = q * (k * a)
  <2> DEFINE d == k * a
  <2> HIDE DEF d
  <2>1. d \in Nat \ {0} /\ m % d = 0
    BY <1>1 DEF d
  <2>2. m \div d \in Nat /\ m = (m \div d) * d
    BY <2>1
  <2> QED
    BY <2>2 DEF d
<1> HIDE DEF q
<1>3. m = (q * k) * a /\ q * k \in Nat
  BY <1>2
<1> QED
  BY <1>3, BlocksOfSize

(* The size of a block of a larger order is a multiple of a smaller one's. *)
LEMMA SizesDivide ==
    ASSUME NEW a \in Orders, NEW b \in Orders, a <= b
    PROVE  \E k \in Nat \ {0} : Size[b] = k * Size[a]
<1>1. a \in Nat /\ b \in Nat /\ b <= MAX_ORDER /\ MAX_ORDER \in Nat
  BY OrderFacts DEF Orders
<1> DEFINE Bad == {n \in Nat : a + n \in Orders /\ ~ \E k \in Nat \ {0} : Size[a + n] = k * Size[a]}
<1>2. Bad = {}
  <2>1. SUFFICES ASSUME Bad # {} PROVE FALSE
    OBVIOUS
  <2>2. PICK n \in Bad : \A m \in Bad : n <= m
    <3>1. Bad \in SUBSET Nat
      OBVIOUS
    <3> HIDE DEF Bad
    <3> QED
      BY <2>1, <3>1, Least
  <2>3. n # 0
    <3>1. Size[a] = 1 * Size[a]
      BY OrderFacts
    <3>2. n = 0 => a + n = a
      BY <1>1
    <3> QED
      BY <2>2, <3>1, <3>2
  <2>4. n - 1 \in Nat /\ n - 1 \notin Bad
    <3>1. n - 1 \in Nat /\ ~(n <= n - 1)
      BY <2>2, <2>3
    <3> QED
      BY <2>2, <3>1
  <2>5. a + (n - 1) \in Orders \ {MAX_ORDER} /\ a + n = (a + (n - 1)) + 1
    BY <1>1, <2>2, <2>4 DEF Orders
  <2>6. PICK k \in Nat \ {0} : Size[a + (n - 1)] = k * Size[a]
    BY <2>4, <2>5
  <2>7. Size[a + n] = 2 * (k * Size[a]) /\ Size[a] \in Nat
    BY <2>5, <2>6, OrderFacts
  <2>8. Size[a + n] = (2 * k) * Size[a] /\ 2 * k \in Nat \ {0}
    BY <2>6, <2>7
  <2> QED
    BY <2>2, <2>8
<1>3. b - a \in Nat /\ a + (b - a) = b
  BY <1>1
<1> QED
  BY <1>2, <1>3

\* What is aligned for an order is aligned for every lower one.
LEMMA AlignedBelow ==
    ASSUME NEW a \in Orders, NEW b \in Orders, a <= b, NEW p \in Nat, p % Size[b] = 0
    PROVE  p % Size[a] = 0
<1>1. PICK k \in Nat \ {0} : Size[b] = k * Size[a]
  BY SizesDivide
<1>2. Size[a] \in Nat \ {0}
  BY OrderFacts
<1> QED
  BY <1>1, <1>2, ProductDivides

\* A page is exactly aligned for one order only.
LEMMA OneExactOrder ==
    ASSUME NEW p \in Nat, NEW a \in Orders, NEW b \in Orders,
           ExactOrder(p, a), ExactOrder(p, b)
    PROVE  a = b
<1>1. ASSUME NEW x \in Orders, NEW y \in Orders, ExactOrder(p, x), ExactOrder(p, y), x < y
      PROVE  FALSE
  <2>1. x \in Nat /\ y \in Nat /\ y <= MAX_ORDER /\ MAX_ORDER \in Nat
    BY OrderFacts DEF Orders
  <2>2. x < MAX_ORDER /\ x + 1 \in Orders /\ x + 1 <= y
    BY <1>1, <2>1 DEF Orders
  <2>3. p % Size[x + 1] = 0
    BY <1>1, <2>2, AlignedBelow DEF ExactOrder
  <2> QED
    BY <1>1, <2>2, <2>3 DEF ExactOrder
<1>2. a \in Int /\ b \in Int
  BY OrderFacts DEF Orders
<1> QED
  BY <1>1, <1>2

\* Pages, list heads and the pointers to neither are different cells.
LEMMA CellsApart ==
    /\ \A p \in PageIndex : Pg(p) \in Cell /\ Pg(p) \notin Outside
    /\ \A z \in Zones, o \in Orders : <<z, o>> \in Cell /\ <<z, o>> \notin Outside
    /\ \A p, q : Pg(p) = Pg(q) => p = q
    /\ \A p, z, o : z \in Zones => Pg(p) # <<z, o>>
    /\ Outside \subseteq Cell
    /\ LIST_POISON1 # LIST_POISON2
  BY AddressesDiffer, PoisonsDiffer DEF Pg, Outside, Cell, PageCells, Zones

\* The lists of ZONE_NORMAL are made of different cells.
LEMMA AreasApart ==
    ASSUME NEW o \in Orders
    PROVE  /\ AreaCells(o) \subseteq Cell
           /\ <<"NORMAL", o>> \in AreaCells(o)
           /\ \A k \in Orders : <<"NORMAL", k>> \in AreaCells(o) <=> k = o
           /\ \A k : <<"DMA", k>> \notin AreaCells(o)
           /\ \A p \in PageIndex :
                 Pg(p) \in AreaCells(o) <=> p >= DmaPages /\ ExactOrder(p, o)
           /\ Outside \intersect AreaCells(o) = {}
<1>1. \A p \in PageIndex : Pg(p) \in AreaCells(o) <=> p >= DmaPages /\ ExactOrder(p, o)
  BY CellsApart DEF AreaCells, Zones
<1>2. AreaCells(o) \subseteq Cell
  BY CellsApart, NormalIsZone DEF AreaCells
<1>3. \A k \in Orders : <<"NORMAL", k>> \in AreaCells(o) <=> k = o
  BY CellsApart, NormalIsZone DEF AreaCells
<1>4. \A k : <<"DMA", k>> \notin AreaCells(o)
  BY CellsApart DEF AreaCells, Zones
<1>5. Outside \intersect AreaCells(o) = {}
  BY CellsApart, NormalIsZone DEF AreaCells
<1> QED
  BY <1>1, <1>2, <1>3, <1>4, <1>5
-----------------------------------------------------------------------------
\* What list_add leaves behind.
LEMMA AddFields ==
    ASSUME NEW m \in Memory(Cell), NEW new \in Cell, NEW head \in Cell, new # head,
           NEW m2, m2 = list_add(m, new, head)
    PROVE  /\ m2.next[new] = m.next[head] /\ m2.next[head] = new
           /\ \A c \in Cell : c \notin {new, head} => m2.next[c] = m.next[c]
           /\ m2.prev[new] = head
           /\ \A c \in Cell : c \notin {new, m.next[head]} => m2.prev[c] = m.prev[c]
  BY DEF list_add, insert_between, Memory

\* What list_del leaves behind.
LEMMA DelFields ==
    ASSUME NEW m \in Memory(Cell), NEW e \in Cell,
           NEW m2, m2 = list_del(m, e)
    PROVE  /\ m2.next[e] = LIST_POISON1 /\ m2.prev[e] = LIST_POISON2
           /\ m.prev[e] # e => m2.next[m.prev[e]] = m.next[e]
           /\ \A c \in Cell : c \notin {e, m.prev[e]} => m2.next[c] = m.next[c]
           /\ m.next[e] # e => m2.prev[m.next[e]] = m.prev[e]
           /\ \A c \in Cell : c \notin {e, m.next[e]} => m2.prev[c] = m.prev[c]
  BY DEF list_del, join, Memory

(* Two entries of the lists are one only if they are in the same place.  *)
LEMMA EntriesApart ==
    ASSUME NEW nr \in Depths, NEW L \in StackTables, InZone(nr, L), Distinct(nr, L),
           NEW z \in Zones, NEW o \in Orders, NEW i \in 1 .. nr[z][o],
           NEW y \in Zones, NEW k \in Orders, NEW j \in 1 .. nr[y][k],
           L[z][o][i] = L[y][k][j]
    PROVE  /\ y = z /\ (o = k => i = j)
           /\ z = "NORMAL" => o = k
<1>1. L[z][o][i] \in PageIndex /\ L[y][k][j] \in PageIndex
  BY DEF StackTables, Depths
<1>2. y = z
  BY DEF InZone
<1>3. z = "NORMAL" => o = k
  BY <1>1, <1>2, OneExactOrder DEF InZone, PageIndex
<1> QED
  BY <1>2, <1>3 DEF Distinct

\* list_add pushes its page on the stack of the list.
LEMMA PushStacks ==
    ASSUME NEW m \in Memory(Cell), NEW nr \in Depths, NEW L, Stacks(m, nr, L), AreasClosed(m),
           NEW z \in Zones, NEW o \in Orders, NEW p \in PageIndex,
           ~OnAList(nr, L, p), PageZone(p) = z, z = "NORMAL" => ExactOrder(p, o),
           z = "DMA" => \A k \in Orders : nr["NORMAL"][k] = 0,
           NEW nr2, NEW L2, Pushed(nr, L, z, o, p, nr2, L2),
           NEW m2, m2 = list_add(m, Pg(p), <<z, o>>)
    PROVE  Stacks(m2, nr2, L2) /\ AreasClosed(m2)
<1> DEFINE n == nr[z][o]
           h == <<z, o>>
           c == Pg(p)
           x == m.next[h]
<1>1. n \in Nat /\ L \in StackTables
  BY DEF Depths, Stacks
<1>2. /\ nr2 \in Depths /\ L2 \in StackTables
      /\ nr2[z][o] = n + 1 /\ L2[z][o][n + 1] = p
      /\ \A i \in 1 .. n : L2[z][o][i] = L[z][o][i]
      /\ \A y \in Zones, k \in Orders :
            ~(y = z /\ k = o) => nr2[y][k] = nr[y][k] /\ L2[y][k] = L[y][k]
  BY <1>1, PushTables
<1>3. /\ c \in Cell /\ h \in Cell /\ c # h
  BY CellsApart
<1>4. /\ m2.next[c] = x /\ m2.next[h] = c
      /\ \A d \in Cell : d \notin {c, h} => m2.next[d] = m.next[d]
      /\ m2.prev[c] = h
      /\ \A d \in Cell : d \notin {c, x} => m2.prev[d] = m.prev[d]
  BY <1>3, AddFields
<1> HIDE DEF n, x
\* The entries from before are in their places, and none of them is p.
<1>5. ASSUME NEW y \in Zones, NEW k \in Orders, NEW i \in 1 .. nr[y][k]
      PROVE  /\ L2[y][k][i] = L[y][k][i] /\ L[y][k][i] \in PageIndex /\ L[y][k][i] # p
             /\ i \in 1 .. nr2[y][k]
  <2>1. L[y][k][i] \in PageIndex /\ L[y][k][i] # p
    BY <1>1 DEF StackTables, OnAList, Depths
  <2>2. CASE y = z /\ k = o
    <3>1. i \in 1 .. n
      BY <2>2 DEF n
    <3> QED
      BY <1>1, <1>2, <2>1, <2>2, <3>1
  <2>3. CASE ~(y = z /\ k = o)
    BY <1>2, <2>1, <2>3
  <2> QED
    BY <2>2, <2>3
<1>6. ASSUME NEW y \in Zones, NEW k \in Orders, NEW i \in 1 .. nr2[y][k]
      PROVE  i \in 1 .. nr[y][k] \/ (y = z /\ k = o /\ i = n + 1 /\ L2[y][k][i] = p)
  <2>1. CASE y = z /\ k = o
    <3>1. i \in 1 .. n + 1
      BY <1>2, <2>1
    <3>2. i \in 1 .. n \/ i = n + 1
      BY <1>1, <3>1
    <3> QED
      BY <1>2, <2>1, <3>2 DEF n
  <2>2. CASE ~(y = z /\ k = o)
    BY <1>2, <2>2
  <2> QED
    BY <2>1, <2>2
<1>7. InZone(nr2, L2)
  BY <1>5, <1>6 DEF Stacks, InZone
<1>8. Distinct(nr2, L2)
  <2> SUFFICES ASSUME NEW y \in Zones, NEW k \in Orders,
                      NEW i \in 1 .. nr2[y][k], NEW j \in 1 .. nr2[y][k],
                      L2[y][k][i] = L2[y][k][j]
               PROVE  i = j
    BY DEF Distinct
  <2>1. CASE i \in 1 .. nr[y][k] /\ j \in 1 .. nr[y][k]
    BY <1>5, <2>1 DEF Stacks, Distinct
  <2> QED
    BY <1>5, <1>6, <2>1
<1>9. Threaded(m2, nr2, L2)
  <2> SUFFICES ASSUME NEW y \in Zones, NEW k \in Orders
               PROVE  /\ nr2[y][k] > 0 => m2.next[<<y, k>>] = Pg(L2[y][k][nr2[y][k]])
                      /\ \A i \in 1 .. nr2[y][k] - 1 :
                            m2.next[Pg(L2[y][k][i + 1])] = Pg(L2[y][k][i])
    BY DEF Threaded
  <2>0. nr[y][k] \in Nat
    BY DEF Depths
  <2>1. ASSUME NEW i \in 1 .. nr[y][k] - 1
        PROVE  m2.next[Pg(L2[y][k][i + 1])] = Pg(L2[y][k][i])
    <3>1. i \in 1 .. nr[y][k] /\ i + 1 \in 1 .. nr[y][k]
      BY <2>0
    <3>2. m.next[Pg(L[y][k][i + 1])] = Pg(L[y][k][i])
      BY DEF Stacks, Threaded
    <3>3. Pg(L[y][k][i + 1]) \in Cell /\ Pg(L[y][k][i + 1]) \notin {c, h}
      BY <1>5, <3>1, CellsApart
    <3> QED
      BY <1>4, <1>5, <3>1, <3>2, <3>3
  <2>2. CASE y = z /\ k = o
    <3>1. nr2[y][k] = n + 1 /\ L2[y][k][nr2[y][k]] = p /\ m2.next[<<y, k>>] = c
      BY <1>2, <1>4, <2>2
    <3>2. ASSUME n > 0
          PROVE  m2.next[Pg(L2[y][k][n + 1])] = Pg(L2[y][k][n])
      <4>1. x = Pg(L[z][o][n])
        BY <3>2 DEF Stacks, Threaded, n, x
      <4>2. L2[z][o][n] = L[z][o][n]
        BY <1>1, <1>2, <3>2
      <4> QED
        BY <1>2, <1>4, <2>2, <4>1, <4>2
    <3>3. ASSUME NEW i \in 1 .. nr2[y][k] - 1
          PROVE  i \in 1 .. nr[y][k] - 1 \/ (i = n /\ n > 0)
      BY <1>1, <2>2, <3>1 DEF n
    <3> QED
      BY <2>1, <3>1, <3>2, <3>3
  <2>3. CASE ~(y = z /\ k = o)
    <3>1. nr2[y][k] = nr[y][k] /\ L2[y][k] = L[y][k]
      BY <1>2, <2>3
    <3>2. <<y, k>> \in Cell /\ <<y, k>> \notin {c, h}
      BY <2>3, CellsApart
    <3>3. m2.next[<<y, k>>] = m.next[<<y, k>>]
      BY <1>4, <3>2
    <3> QED
      BY <2>1, <3>1, <3>3 DEF Stacks, Threaded
  <2> QED
    BY <2>2, <2>3
<1>10. TopsKnow(m2, nr2, L2)
  <2> SUFFICES ASSUME NEW k \in Orders, nr2["NORMAL"][k] > 0
               PROVE  m2.prev[Pg(L2["NORMAL"][k][nr2["NORMAL"][k]])] = <<"NORMAL", k>>
    BY DEF TopsKnow
  <2>1. CASE z = "NORMAL" /\ k = o
    <3>1. nr2["NORMAL"][k] = n + 1 /\ L2["NORMAL"][k][n + 1] = p
      BY <1>2, <2>1
    <3>2. m2.prev[Pg(p)] = <<"NORMAL", k>>
      BY <1>4, <2>1
    <3> QED
      BY <3>1, <3>2
  <2>2. CASE ~(z = "NORMAL" /\ k = o)
    <3>1. nr2["NORMAL"][k] = nr["NORMAL"][k] /\ L2["NORMAL"][k] = L["NORMAL"][k]
      BY <1>2, <2>2, NormalIsZone
    <3> DEFINE i == nr["NORMAL"][k]
               q == L["NORMAL"][k][i]
    <3>2. i \in 1 .. nr["NORMAL"][k] /\ i > 0
      BY <3>1, NormalIsZone DEF Depths
    <3>3. z = "NORMAL"
      BY <3>2 DEF Zones
    <3>4. /\ q \in PageIndex /\ q # p /\ ExactOrder(q, k) /\ PageZone(q) = "NORMAL"
      BY <1>5, <3>2, NormalIsZone DEF Stacks, InZone
    <3>5. q >= DmaPages
      BY <3>4, OrderFacts DEF PageZone, PageIndex
    <3>6. Pg(q) \in AreaCells(k) /\ Pg(q) \in Cell /\ Pg(q) # c
      BY <3>4, <3>5, AreasApart, CellsApart
    <3>7. Pg(q) \notin AreaCells(o)
      <4>1. q \in Nat
        BY <3>4 DEF PageIndex
      <4>2. ~ExactOrder(q, o)
        BY <2>2, <3>3, <3>4, <4>1, OneExactOrder
      <4> QED
        BY <3>4, <4>2, AreasApart
    <3>8. x \in AreaCells(o) \union Outside
      BY <3>3, AreasApart DEF AreasClosed, x
    <3>9. Pg(q) # x
      BY <3>4, <3>7, <3>8, CellsApart
    <3>10. m2.prev[Pg(q)] = m.prev[Pg(q)]
      BY <1>4, <3>6, <3>9
    <3>11. m.prev[Pg(q)] = <<"NORMAL", k>>
      BY <3>2 DEF Stacks, TopsKnow
    <3> QED
      BY <3>1, <3>10, <3>11
  <2> QED
    BY <2>1, <2>2
<1>11. AreasClosed(m2)
  <2> SUFFICES ASSUME NEW k \in Orders, NEW d \in AreaCells(k)
               PROVE  m2.next[d] \in AreaCells(k) \union Outside
    BY DEF AreasClosed
  <2>1. d \in Cell /\ m.next[d] \in AreaCells(k) \union Outside
    BY AreasApart DEF AreasClosed
  <2>2. d = h => z = "NORMAL" /\ k = o
    BY AreasApart DEF Zones
  <2>3. d = c => z = "NORMAL" /\ k = o
    <3>1. d = c => p >= DmaPages /\ ExactOrder(p, k) /\ p \in Nat
      BY AreasApart DEF PageIndex
    <3>2. d = c => z = "NORMAL"
      BY <3>1, OrderFacts DEF PageZone
    <3> QED
      BY <3>1, <3>2, OneExactOrder
  <2>4. z = "NORMAL" => c \in AreaCells(o) /\ h \in AreaCells(o)
    <3>1. z = "NORMAL" => p >= DmaPages
      BY OrderFacts DEF PageZone, PageIndex
    <3> QED
      BY <3>1, AreasApart
  <2>5. z = "NORMAL" => x \in AreaCells(o) \union Outside
    BY AreasApart DEF AreasClosed, x
  <2> QED
    BY <1>4, <2>1, <2>2, <2>3, <2>4, <2>5
<1> QED
  BY <1>2, <1>7, <1>8, <1>9, <1>10, <1>11 DEF Stacks

(* The first entry of a list is taken away: nr_free goes down by one.       *)
Popped(nr, L, o, p, nr2) ==
    /\ nr["NORMAL"][o] > 0
    /\ L["NORMAL"][o][nr["NORMAL"][o]] = p
    /\ nr2 = [nr EXCEPT !["NORMAL"][o] = nr["NORMAL"][o] - 1]

\* What a pop changes in the counts and leaves in the stacks.
LEMMA PopTables ==
    ASSUME NEW nr \in Depths, NEW L \in StackTables, NEW o \in Orders,
           NEW n, n = nr["NORMAL"][o], NEW p, NEW nr2, Popped(nr, L, o, p, nr2)
    PROVE  /\ nr2 \in Depths /\ nr2["NORMAL"][o] = n - 1
           /\ n \in Nat \ {0} /\ n \in 1 .. n /\ L["NORMAL"][o][n] = p /\ p \in PageIndex
           /\ \A y \in Zones, k \in Orders :
                 ~(y = "NORMAL" /\ k = o) => nr2[y][k] = nr[y][k]
           /\ \A y \in Zones, k \in Orders : \A i \in 1 .. nr2[y][k] :
                 i \in 1 .. nr[y][k] /\ ~(y = "NORMAL" /\ k = o /\ i = n)
           /\ \A y \in Zones, k \in Orders : \A i \in 1 .. nr[y][k] :
                 i \in 1 .. nr2[y][k] \/ (y = "NORMAL" /\ k = o /\ i = n)
<1>1. n \in Nat \ {0} /\ n \in 1 .. n /\ L["NORMAL"][o][n] = p
  BY NormalIsZone DEF Depths, Popped
<1>2. p \in PageIndex
  BY <1>1, NormalIsZone DEF StackTables
<1>3. nr2 = [nr EXCEPT !["NORMAL"][o] = n - 1] /\ n - 1 \in Nat
  BY <1>1 DEF Popped
<1>4. nr2 \in Depths /\ nr2["NORMAL"][o] = n - 1
  BY <1>3, NormalIsZone DEF Depths
<1>5. \A y \in Zones, k \in Orders : ~(y = "NORMAL" /\ k = o) => nr2[y][k] = nr[y][k]
  BY <1>3, NormalIsZone DEF Depths
<1>6. ASSUME NEW y \in Zones, NEW k \in Orders, NEW i
      PROVE  /\ i \in 1 .. nr2[y][k] =>
                   i \in 1 .. nr[y][k] /\ ~(y = "NORMAL" /\ k = o /\ i = n)
             /\ i \in 1 .. nr[y][k] =>
                   i \in 1 .. nr2[y][k] \/ (y = "NORMAL" /\ k = o /\ i = n)
  <2>1. CASE y = "NORMAL" /\ k = o
    BY <1>1, <1>4, <2>1
  <2>2. CASE ~(y = "NORMAL" /\ k = o)
    BY <1>5, <2>2
  <2> QED
    BY <2>1, <2>2
<1> QED
  BY <1>1, <1>2, <1>4, <1>5, <1>6

\* A pop takes away one free block and no other.
LEMMA PopClaims ==
    ASSUME NEW nr \in Depths, NEW L \in StackTables, InZone(nr, L), Distinct(nr, L),
           NEW o \in Orders, NEW p, NEW nr2, Popped(nr, L, o, p, nr2)
    PROVE  /\ FreeClaims(nr2, L) = FreeClaims(nr, L) \ {<<"free", p, o>>}
           /\ <<"free", p, o>> \in FreeClaims(nr, L)
           /\ ~OnAList(nr2, L, p)
<1> DEFINE n == nr["NORMAL"][o]
<1>1. /\ nr2 \in Depths
      /\ n \in Nat \ {0} /\ n \in 1 .. n /\ L["NORMAL"][o][n] = p /\ p \in PageIndex
      /\ \A y \in Zones, k \in Orders : \A i \in 1 .. nr2[y][k] :
            i \in 1 .. nr[y][k] /\ ~(y = "NORMAL" /\ k = o /\ i = n)
      /\ \A y \in Zones, k \in Orders : \A i \in 1 .. nr[y][k] :
            i \in 1 .. nr2[y][k] \/ (y = "NORMAL" /\ k = o /\ i = n)
  BY PopTables
<1>2. ASSUME NEW y \in Zones, NEW k \in Orders, NEW i \in 1 .. nr[y][k], L[y][k][i] = p
      PROVE  y = "NORMAL" /\ k = o /\ i = n
  BY <1>1, <1>2, EntriesApart, NormalIsZone
<1> HIDE DEF n
<1>3. ASSUME NEW y \in Zones, NEW k \in Orders, NEW i \in 1 .. nr2[y][k]
      PROVE  L[y][k][i] # p
  BY <1>1, <1>2
<1>4. \A c : c \in FreeClaims(nr2, L) <=> c \in FreeClaims(nr, L) \ {<<"free", p, o>>}
  <2>1. ASSUME NEW c \in {"free"} \X PageIndex \X Orders
        PROVE  c \in FreeClaims(nr2, L) <=> c \in FreeClaims(nr, L) \ {<<"free", p, o>>}
    <3>1. c[2] \in PageIndex /\ c[3] \in Orders /\ (c[2] = p /\ c[3] = o <=> c = <<"free", p, o>>)
      OBVIOUS
    <3>2. ASSUME NEW y \in Zones, NEW i \in 1 .. nr2[y][c[3]], L[y][c[3]][i] = c[2]
          PROVE  i \in 1 .. nr[y][c[3]] /\ c[2] # p
      BY <1>1, <1>3, <3>1, <3>2
    <3>3. ASSUME NEW y \in Zones, NEW i \in 1 .. nr[y][c[3]], L[y][c[3]][i] = c[2],
                 c # <<"free", p, o>>
          PROVE  i \in 1 .. nr2[y][c[3]]
      <4>1. CASE y = "NORMAL" /\ c[3] = o /\ i = n
        BY <1>1, <3>1, <3>3, <4>1
      <4> QED
        BY <1>1, <3>1, <4>1
    <3>4. c \in FreeClaims(nr2, L) => c \in FreeClaims(nr, L) /\ c # <<"free", p, o>>
      BY <3>1, <3>2 DEF FreeClaims
    <3>5. c \in FreeClaims(nr, L) /\ c # <<"free", p, o>> => c \in FreeClaims(nr2, L)
      BY <3>3 DEF FreeClaims
    <3> QED
      BY <3>4, <3>5
  <2> QED
    BY <2>1 DEF FreeClaims
<1>5. <<"free", p, o>> \in FreeClaims(nr, L)
  BY <1>1, NormalIsZone DEF FreeClaims, n
<1> QED
  BY <1>3, <1>4, <1>5 DEF OnAList

(* list_del of the first entry of a list of ZONE_NORMAL.                    *)
LEMMA PopStacks ==
    ASSUME NEW m \in Memory(Cell), NEW nr \in Depths, NEW L, Stacks(m, nr, L), AreasClosed(m),
           NEW o \in Orders, NEW p, NEW nr2, Popped(nr, L, o, p, nr2),
           NEW m2, m2 = list_del(m, Pg(p))
    PROVE  /\ Stacks(m2, nr2, L) /\ AreasClosed(m2)
           /\ m2.next[Pg(p)] = LIST_POISON1 /\ m2.prev[Pg(p)] = LIST_POISON2
<1> DEFINE n == nr["NORMAL"][o]
           h == <<"NORMAL", o>>
           c == Pg(p)
           x == m.next[c]
<1>0. L \in StackTables /\ InZone(nr, L) /\ Distinct(nr, L)
  BY DEF Stacks
<1>1. /\ nr2 \in Depths /\ nr2["NORMAL"][o] = n - 1
      /\ n \in Nat \ {0} /\ n \in 1 .. n /\ L["NORMAL"][o][n] = p /\ p \in PageIndex
      /\ \A y \in Zones, k \in Orders :
            ~(y = "NORMAL" /\ k = o) => nr2[y][k] = nr[y][k]
      /\ \A y \in Zones, k \in Orders : \A i \in 1 .. nr2[y][k] :
            i \in 1 .. nr[y][k] /\ ~(y = "NORMAL" /\ k = o /\ i = n)
  BY <1>0, PopTables
<1>2. c \in Cell /\ h \in Cell /\ c # h
  BY <1>1, CellsApart, NormalIsZone
<1>3. m.prev[c] = h
  <2>1. nr["NORMAL"][o] > 0
    BY <1>1
  <2>2. m.prev[Pg(L["NORMAL"][o][n])] = <<"NORMAL", o>>
    BY <2>1 DEF Stacks, TopsKnow
  <2> QED
    BY <1>1, <2>2
<1>4. /\ m2.next[c] = LIST_POISON1 /\ m2.prev[c] = LIST_POISON2
      /\ m2.next[h] = x
      /\ \A d \in Cell : d \notin {c, h} => m2.next[d] = m.next[d]
      /\ x # c => m2.prev[x] = h
      /\ \A d \in Cell : d \notin {c, x} => m2.prev[d] = m.prev[d]
  BY <1>2, <1>3, DelFields
<1>5. n > 1 => n - 1 \in 1 .. n /\ x = Pg(L["NORMAL"][o][n - 1])
  <2> SUFFICES ASSUME n > 1
               PROVE  n - 1 \in 1 .. n /\ x = Pg(L["NORMAL"][o][n - 1])
    OBVIOUS
  <2> HIDE DEF n, x
  <2>1. n - 1 \in 1 .. n - 1 /\ (n - 1) + 1 = n /\ n - 1 \in 1 .. n
    BY <1>1
  <2>2. m.next[Pg(L["NORMAL"][o][(n - 1) + 1])] = Pg(L["NORMAL"][o][n - 1])
    BY <2>1, NormalIsZone DEF Stacks, Threaded, n
  <2> QED
    BY <1>1, <2>1, <2>2 DEF x
<1>6. c \in AreaCells(o) /\ h \in AreaCells(o) /\ x \in AreaCells(o) \union Outside
  <2>1. PageZone(p) = "NORMAL" /\ ExactOrder(p, o)
    BY <1>0, <1>1, NormalIsZone DEF InZone
  <2>2. p >= DmaPages
    BY <1>1, <2>1, OrderFacts DEF PageZone, PageIndex
  <2>3. /\ h \in AreaCells(o)
        /\ \A q \in PageIndex :
              Pg(q) \in AreaCells(o) <=> q >= DmaPages /\ ExactOrder(q, o)
    BY AreasApart
  <2>4. p \in PageIndex
    BY <1>1
  <2>5. c \in AreaCells(o) /\ h \in AreaCells(o)
    BY <2>1, <2>2, <2>3, <2>4
  <2> QED
    BY <2>5 DEF AreasClosed
<1>7. ASSUME NEW y \in Zones, NEW k \in Orders, NEW i \in 1 .. nr[y][k],
             ~(y = "NORMAL" /\ k = o /\ i = n)
      PROVE  L[y][k][i] \in PageIndex /\ L[y][k][i] # p
  <2>1. L[y][k][i] \in PageIndex
    BY <1>0 DEF StackTables, Depths
  <2>2. L[y][k][i] = p => y = "NORMAL" /\ k = o /\ i = n
    BY <1>0, <1>1, EntriesApart, NormalIsZone
  <2> QED
    BY <1>7, <2>1, <2>2
<1> HIDE DEF n, x
<1>8. InZone(nr2, L) /\ Distinct(nr2, L)
  <2>1. InZone(nr2, L)
    BY <1>0, <1>1 DEF InZone
  <2>2. Distinct(nr2, L)
    BY <1>0, <1>1 DEF Distinct
  <2> QED
    BY <2>1, <2>2
<1>9. Threaded(m2, nr2, L)
  <2> SUFFICES ASSUME NEW y \in Zones, NEW k \in Orders
               PROVE  /\ nr2[y][k] > 0 => m2.next[<<y, k>>] = Pg(L[y][k][nr2[y][k]])
                      /\ \A i \in 1 .. nr2[y][k] - 1 :
                            m2.next[Pg(L[y][k][i + 1])] = Pg(L[y][k][i])
    BY DEF Threaded
  <2>0. nr[y][k] \in Nat /\ nr2[y][k] \in Nat
    BY <1>1 DEF Depths
  <2>1. ASSUME NEW i \in 1 .. nr2[y][k] - 1
        PROVE  m2.next[Pg(L[y][k][i + 1])] = Pg(L[y][k][i])
    <3>1. i + 1 \in 1 .. nr2[y][k]
      BY <2>0
    <3>2. i + 1 \in 1 .. nr[y][k] /\ ~(y = "NORMAL" /\ k = o /\ i + 1 = n)
      BY <1>1, <3>1
    <3>3. i \in 1 .. nr[y][k] - 1
      BY <2>0, <3>2
    <3>4. L[y][k][i + 1] \in PageIndex /\ L[y][k][i + 1] # p
      BY <1>7, <3>2
    <3>5. Pg(L[y][k][i + 1]) \in Cell /\ Pg(L[y][k][i + 1]) \notin {c, h}
      BY <3>4, CellsApart, NormalIsZone
    <3>6. m.next[Pg(L[y][k][i + 1])] = Pg(L[y][k][i])
      BY <3>3 DEF Stacks, Threaded
    <3> QED
      BY <1>4, <3>5, <3>6
  <2>2. CASE y = "NORMAL" /\ k = o
    BY <1>1, <1>4, <1>5, <2>1, <2>2
  <2>3. CASE ~(y = "NORMAL" /\ k = o)
    <3>1. nr2[y][k] = nr[y][k]
      BY <1>1, <2>3
    <3>2. <<y, k>> \in Cell /\ <<y, k>> \notin {c, h}
      BY <2>3, CellsApart
    <3> QED
      BY <1>4, <2>1, <3>1, <3>2 DEF Stacks, Threaded
  <2> QED
    BY <2>2, <2>3
<1>10. TopsKnow(m2, nr2, L)
  <2> SUFFICES ASSUME NEW k \in Orders, nr2["NORMAL"][k] > 0
               PROVE  m2.prev[Pg(L["NORMAL"][k][nr2["NORMAL"][k]])] = <<"NORMAL", k>>
    BY DEF TopsKnow
  <2>1. CASE k = o
    <3>1. n > 1 /\ x = Pg(L["NORMAL"][o][n - 1]) /\ n - 1 \in 1 .. n /\ n - 1 # n
      BY <1>1, <1>5, <2>1
    <3>2. L["NORMAL"][o][n - 1] # p
      BY <1>7, <3>1, NormalIsZone DEF n
    <3>3. x # c
      BY <3>1, <3>2, CellsApart
    <3> QED
      BY <1>1, <1>4, <2>1, <3>1, <3>3
  <2>2. CASE k # o
    <3> DEFINE i == nr["NORMAL"][k]
               q == L["NORMAL"][k][i]
    <3>1. nr2["NORMAL"][k] = i /\ i \in 1 .. i /\ i > 0
      BY <1>1, <2>2, NormalIsZone DEF Depths
    <3>2. q \in PageIndex /\ q # p /\ ExactOrder(q, k) /\ PageZone(q) = "NORMAL"
      BY <1>0, <1>7, <2>2, <3>1, NormalIsZone DEF InZone
    <3>3. q >= DmaPages /\ q \in Nat
      BY <3>2, OrderFacts DEF PageZone, PageIndex
    <3>4. Pg(q) \in Cell /\ Pg(q) # c /\ Pg(q) \notin Outside
      BY <3>2, CellsApart
    <3>5. Pg(q) \notin AreaCells(o)
      BY <2>2, <3>2, <3>3, OneExactOrder, AreasApart
    <3>6. m2.prev[Pg(q)] = m.prev[Pg(q)]
      BY <1>4, <1>6, <3>4, <3>5
    <3>7. m.prev[Pg(q)] = <<"NORMAL", k>>
      BY <3>1 DEF Stacks, TopsKnow
    <3> QED
      BY <3>1, <3>6, <3>7
  <2> QED
    BY <2>1, <2>2
<1>11. AreasClosed(m2)
  <2> SUFFICES ASSUME NEW k \in Orders, NEW d \in AreaCells(k)
               PROVE  m2.next[d] \in AreaCells(k) \union Outside
    BY DEF AreasClosed
  <2>1. d \in Cell /\ m.next[d] \in AreaCells(k) \union Outside
    BY AreasApart DEF AreasClosed
  <2>2. d = h => k = o
    BY AreasApart
  <2> QED
    BY <1>4, <1>6, <2>1, <2>2 DEF Outside
<1> QED
  BY <1>0, <1>4, <1>8, <1>9, <1>10, <1>11 DEF Stacks

(* list_del of an entry that is on no list and holds the poison pointers,   *)
(* with the counter of a list that has one entry going down: a merge.       *)
LEMMA DropStacks ==
    ASSUME NEW m \in Memory(Cell), NEW nr \in Depths, NEW L, Stacks(m, nr, L), AreasClosed(m),
           NEW p \in PageIndex, ~OnAList(nr, L, p),
           m.next[Pg(p)] = LIST_POISON1, m.prev[Pg(p)] = LIST_POISON2,
           NEW o \in Orders, nr["NORMAL"][o] = 1,
           NEW q, NEW nr2, Popped(nr, L, o, q, nr2),
           NEW m2, m2 = list_del(m, Pg(p))
    PROVE  /\ Stacks(m2, nr2, L) /\ AreasClosed(m2)
           /\ m2.next[Pg(p)] = LIST_POISON1 /\ m2.prev[Pg(p)] = LIST_POISON2
<1>0. L \in StackTables /\ InZone(nr, L) /\ Distinct(nr, L)
  BY DEF Stacks
<1>1. /\ nr2 \in Depths /\ nr2["NORMAL"][o] = 0
      /\ \A y \in Zones, k \in Orders :
            ~(y = "NORMAL" /\ k = o) => nr2[y][k] = nr[y][k]
      /\ \A y \in Zones, k \in Orders : \A i \in 1 .. nr2[y][k] : i \in 1 .. nr[y][k]
  <2> DEFINE n == nr["NORMAL"][o]
  <2>1. /\ nr2 \in Depths /\ nr2["NORMAL"][o] = n - 1
        /\ \A y \in Zones, k \in Orders :
              ~(y = "NORMAL" /\ k = o) => nr2[y][k] = nr[y][k]
        /\ \A y \in Zones, k \in Orders : \A i \in 1 .. nr2[y][k] : i \in 1 .. nr[y][k]
    BY <1>0, PopTables
  <2> QED
    BY <2>1
<1>2. /\ Pg(p) \in Cell /\ Pg(p) \notin Outside /\ Outside \subseteq Cell
      /\ LIST_POISON1 # LIST_POISON2
  BY CellsApart
<1>3. /\ m2.next[Pg(p)] = LIST_POISON1 /\ m2.prev[Pg(p)] = LIST_POISON2
      /\ \A d \in Cell \ Outside : d # Pg(p) => m2.next[d] = m.next[d] /\ m2.prev[d] = m.prev[d]
  BY <1>2, DelFields DEF Outside
<1>4. ASSUME NEW y \in Zones, NEW k \in Orders, NEW i \in 1 .. nr[y][k]
      PROVE  /\ m2.next[Pg(L[y][k][i])] = m.next[Pg(L[y][k][i])]
             /\ m2.prev[Pg(L[y][k][i])] = m.prev[Pg(L[y][k][i])]
  <2>1. L[y][k][i] \in PageIndex /\ L[y][k][i] # p
    BY <1>0 DEF StackTables, OnAList, Depths
  <2>2. Pg(L[y][k][i]) \in Cell \ Outside /\ Pg(L[y][k][i]) # Pg(p)
    BY <2>1, CellsApart
  <2> QED
    BY <1>3, <2>2
<1>5. ASSUME NEW y \in Zones, NEW k \in Orders
      PROVE  m2.next[<<y, k>>] = m.next[<<y, k>>]
  <2>1. <<y, k>> \in Cell \ Outside /\ <<y, k>> # Pg(p)
    BY CellsApart
  <2> QED
    BY <1>3, <2>1
<1>6. InZone(nr2, L) /\ Distinct(nr2, L)
  BY <1>0, <1>1 DEF InZone, Distinct
<1>7. Threaded(m2, nr2, L)
  <2> SUFFICES ASSUME NEW y \in Zones, NEW k \in Orders, ~(y = "NORMAL" /\ k = o)
               PROVE  /\ nr2[y][k] > 0 => m2.next[<<y, k>>] = Pg(L[y][k][nr2[y][k]])
                      /\ \A i \in 1 .. nr2[y][k] - 1 :
                            m2.next[Pg(L[y][k][i + 1])] = Pg(L[y][k][i])
    <3>1. ~(0 > 0) /\ 1 .. 0 - 1 = {}
      OBVIOUS
    <3> QED
      BY <1>1, <3>1 DEF Threaded
  <2>1. nr2[y][k] = nr[y][k] /\ nr[y][k] \in Nat
    BY <1>1 DEF Depths
  <2>2. ASSUME NEW i \in 1 .. nr[y][k] - 1
        PROVE  m2.next[Pg(L[y][k][i + 1])] = Pg(L[y][k][i])
    <3>1. i + 1 \in 1 .. nr[y][k]
      BY <2>1
    <3>2. m2.next[Pg(L[y][k][i + 1])] = m.next[Pg(L[y][k][i + 1])]
      BY <1>4, <3>1
    <3> QED
      BY <3>2 DEF Stacks, Threaded
  <2> QED
    BY <1>5, <2>1, <2>2 DEF Stacks, Threaded
<1>8. TopsKnow(m2, nr2, L)
  <2> SUFFICES ASSUME NEW k \in Orders, nr2["NORMAL"][k] > 0
               PROVE  m2.prev[Pg(L["NORMAL"][k][nr2["NORMAL"][k]])] = <<"NORMAL", k>>
    BY DEF TopsKnow
  <2>1. nr2["NORMAL"][k] = nr["NORMAL"][k] /\ nr["NORMAL"][k] \in 1 .. nr["NORMAL"][k]
    BY <1>1, NormalIsZone DEF Depths
  <2> QED
    <3> DEFINE i == nr["NORMAL"][k]
    <3>1. i \in 1 .. nr["NORMAL"][k] /\ i > 0
      BY <2>1, NormalIsZone DEF Depths
    <3>2. m.prev[Pg(L["NORMAL"][k][i])] = <<"NORMAL", k>>
      BY <3>1 DEF Stacks, TopsKnow
    <3>3. m2.prev[Pg(L["NORMAL"][k][i])] = m.prev[Pg(L["NORMAL"][k][i])]
      BY <1>4, <3>1, NormalIsZone
    <3> QED
      BY <2>1, <3>2, <3>3
<1>9. AreasClosed(m2)
  <2> SUFFICES ASSUME NEW k \in Orders, NEW d \in AreaCells(k)
               PROVE  m2.next[d] \in AreaCells(k) \union Outside
    BY DEF AreasClosed
  <2>1. d \in Cell \ Outside /\ m.next[d] \in AreaCells(k) \union Outside
    BY AreasApart DEF AreasClosed
  <2> QED
    BY <1>3, <2>1 DEF Outside
<1> QED
  BY <1>0, <1>3, <1>6, <1>7, <1>8, <1>9 DEF Stacks

-----------------------------------------------------------------------------
(* A claim is a block that is free, held or in a running call.              *)
ClaimSet == {"free", "held", "call"} \X PageIndex \X Orders

Extent(c) == c[2] .. c[2] + Size[c[3]] - 1

Covered(C) == UNION {Extent(c) : c \in C}

Aligned(C) == \A c \in C : c[2] % Size[c[3]] = 0

Apart(C) == \A c, d \in C : c # d => Extent(c) \intersect Extent(d) = {}

\* The claims share X out among them.
Tiling(C, X) == C \subseteq ClaimSet /\ Aligned(C) /\ Apart(C) /\ Covered(C) = X

(* Claims that cover what those they replace covered keep a tiling.         *)
LEMMA TilingTrade ==
    ASSUME NEW C, NEW X, Tiling(C, X), NEW A \in SUBSET C,
           NEW D \in SUBSET ClaimSet, Aligned(D), Apart(D), Covered(D) = Covered(A)
    PROVE  Tiling((C \ A) \union D, X)
<1> DEFINE E == (C \ A) \union D
<1>1. E \subseteq ClaimSet /\ Aligned(E)
  BY DEF Tiling, Aligned
<1>2. ASSUME NEW c \in C \ A, NEW d \in D PROVE Extent(c) \intersect Extent(d) = {}
  <2>1. \A a \in A : Extent(c) \intersect Extent(a) = {}
    BY DEF Tiling, Apart
  <2>2. Extent(c) \intersect Covered(A) = {}
    BY <2>1, SMT DEF Covered
  <2>3. Extent(d) \subseteq Covered(D)
    BY Zenon DEF Covered
  <2> QED
    BY <2>2, <2>3
<1>3. Apart(E)
  <2>1. Apart(C)
    BY DEF Tiling
  <2> HIDE DEF E
  <2> SUFFICES ASSUME NEW c \in E, NEW d \in E, c # d
               PROVE  Extent(c) \intersect Extent(d) = {}
    BY DEF Apart
  <2>2. (c \in C \ A \/ c \in D) /\ (d \in C \ A \/ d \in D)
    BY DEF E
  <2>3. CASE c \in C \ A /\ d \in C \ A
    BY <2>1, <2>3 DEF Apart
  <2>4. CASE c \in D /\ d \in D
    BY <2>4 DEF Apart
  <2>5. CASE c \in C \ A /\ d \in D
    BY <1>2, <2>5
  <2>6. CASE c \in D /\ d \in C \ A
    <3>1. Extent(d) \intersect Extent(c) = {}
      BY <1>2, <2>6
    <3> QED
      BY <3>1
  <2> QED
    BY <2>2, <2>3, <2>4, <2>5, <2>6
<1>4. Covered(E) = X
  <2>1. Covered(E) = Covered(C \ A) \union Covered(D)
    BY DEF Covered
  <2>2. Covered(C) = Covered(C \ A) \union Covered(A)
    BY DEF Covered
  <2> QED
    BY <2>1, <2>2 DEF Tiling
<1> QED
  BY <1>1, <1>3, <1>4 DEF Tiling

\* A block may pass from one owner to another.
LEMMA TilingRelabel ==
    ASSUME NEW C, NEW X, Tiling(C, X), NEW s, NEW t \in {"free", "held", "call"},
           NEW p, NEW o, <<s, p, o>> \in C
    PROVE  Tiling((C \ {<<s, p, o>>}) \union {<<t, p, o>>}, X)
<1> DEFINE A == {<<s, p, o>>}
           D == {<<t, p, o>>}
<1>1. p \in PageIndex /\ o \in Orders
  BY DEF Tiling, ClaimSet
<1>2. A \in SUBSET C /\ D \in SUBSET ClaimSet
  BY <1>1 DEF ClaimSet
<1>3. Aligned(D) /\ Apart(D)
  <2>1. p % Size[o] = 0
    BY DEF Tiling, Aligned
  <2> QED
    BY <2>1 DEF Aligned, Apart
<1>4. Covered(D) = Covered(A)
  BY DEF Covered, Extent
<1> HIDE DEF A, D
<1>5. Tiling((C \ A) \union D, X)
  BY <1>2, <1>3, <1>4, TilingTrade
<1> QED
  BY <1>5 DEF A, D

(* The halves of a block.                                                   *)
LEMMA Halves ==
    ASSUME NEW o \in Orders \ {MAX_ORDER}, NEW p \in PageIndex, p % Size[o + 1] = 0,
           p + Size[o] \in PageIndex,
           NEW s, NEW t, NEW u
    PROVE  /\ o + 1 \in Orders /\ Size[o + 1] = 2 * Size[o] /\ Size[o] \in Nat \ {0}
           /\ p % Size[o] = 0 /\ (p + Size[o]) % Size[o] = 0
           /\ (p + Size[o]) % Size[o + 1] # 0
           /\ Extent(<<s, p, o + 1>>) = Extent(<<t, p, o>>) \union Extent(<<u, p + Size[o], o>>)
           /\ Extent(<<t, p, o>>) \intersect Extent(<<u, p + Size[o], o>>) = {}
<1>1. o + 1 \in Orders /\ Size[o + 1] = 2 * Size[o] /\ Size[o] \in Nat \ {0}
  BY OrderFacts
<1>2. p \in Nat
  BY DEF PageIndex
<1> DEFINE a == Size[o]
<1>3. a \in Nat \ {0} /\ p % (2 * a) = 0
  BY <1>1
<1> HIDE DEF a
<1>4. PICK k \in Nat : p = k * (2 * a)
  <2> DEFINE b == 2 * a
  <2>1. b \in Nat \ {0} /\ p % b = 0
    BY <1>3
  <2> HIDE DEF b
  <2>2. p \div b \in Nat /\ p = (p \div b) * b
    BY <1>2, <2>1
  <2> QED
    BY <2>2 DEF b
<1>5. p = (2 * k) * a /\ 2 * k \in Nat /\ p + a = (2 * k + 1) * a /\ 2 * k + 1 \in Nat
  BY <1>3, <1>4
<1>6. p % a = 0 /\ (p + a) % a = 0
  BY <1>3, <1>5, BlocksOfSize
<1>7. (p + a) % (2 * a) # 0
  <2> DEFINE b == 2 * a
             n == k + 1
             m == p + a
  <2>1. b \in Nat \ {0} /\ n \in Nat /\ m \in Nat
    BY <1>2, <1>3
  <2>2. n * b = p + b
    BY <1>3, <1>4
  <2>3. m < n * b /\ n * b < m + b
    BY <1>2, <1>3, <2>2
  <2> HIDE DEF b, n, m
  <2>4. m % b # 0
    BY <2>1, <2>3, BetweenMultiples
  <2> QED
    BY <2>4 DEF b, m
<1>8. /\ p .. p + 2 * a - 1 = (p .. p + a - 1) \union (p + a .. p + a + a - 1)
      /\ (p .. p + a - 1) \intersect (p + a .. p + a + a - 1) = {}
  BY <1>2, <1>3
<1> QED
  BY <1>1, <1>6, <1>7, <1>8 DEF a, Extent

\* A block may be split into its halves.
LEMMA TilingSplit ==
    ASSUME NEW C, NEW X, Tiling(C, X), NEW o \in Orders \ {MAX_ORDER},
           NEW p, <<"call", p, o + 1>> \in C, p + Size[o] \in PageIndex
    PROVE  Tiling((C \ {<<"call", p, o + 1>>})
                    \union {<<"call", p, o>>, <<"free", p + Size[o], o>>}, X)
<1> DEFINE q == p + Size[o]
           A == {<<"call", p, o + 1>>}
           D == {<<"call", p, o>>, <<"free", q, o>>}
<1>1. p \in PageIndex /\ p % Size[o + 1] = 0
  BY DEF Tiling, ClaimSet, Aligned
<1>2. /\ p % Size[o] = 0 /\ q % Size[o] = 0
      /\ Extent(<<"call", p, o + 1>>) = Extent(<<"call", p, o>>) \union Extent(<<"free", q, o>>)
      /\ Extent(<<"call", p, o>>) \intersect Extent(<<"free", q, o>>) = {}
  BY <1>1, Halves
<1> HIDE DEF q
<1>3. A \in SUBSET C /\ D \in SUBSET ClaimSet
  BY <1>1 DEF ClaimSet, q
<1>4. Aligned(D) /\ Apart(D)
  BY <1>2 DEF Aligned, Apart
<1>5. Covered(D) = Covered(A)
  BY <1>2 DEF Covered
<1> HIDE DEF A, D
<1>6. Tiling((C \ A) \union D, X)
  BY <1>3, <1>4, <1>5, TilingTrade
<1> QED
  BY <1>6 DEF A, D, q

\* The halves of a block may be joined.
LEMMA TilingJoin ==
    ASSUME NEW C, NEW X, Tiling(C, X), NEW o \in Orders \ {MAX_ORDER},
           NEW p, <<"call", p, o>> \in C, <<"free", p + Size[o], o>> \in C,
           p % Size[o + 1] = 0
    PROVE  Tiling((C \ {<<"call", p, o>>, <<"free", p + Size[o], o>>})
                    \union {<<"call", p, o + 1>>}, X)
<1> DEFINE q == p + Size[o]
           A == {<<"call", p, o>>, <<"free", q, o>>}
           D == {<<"call", p, o + 1>>}
<1>1. p \in PageIndex /\ q \in PageIndex
  BY DEF Tiling, ClaimSet
<1>2. /\ o + 1 \in Orders
      /\ Extent(<<"call", p, o + 1>>) = Extent(<<"call", p, o>>) \union Extent(<<"free", q, o>>)
  BY <1>1, Halves
<1> HIDE DEF q
<1>3. A \in SUBSET C /\ D \in SUBSET ClaimSet
  BY <1>1, <1>2 DEF ClaimSet, q
<1>4. Aligned(D) /\ Apart(D)
  BY DEF Aligned, Apart
<1>5. Covered(D) = Covered(A)
  BY <1>2 DEF Covered
<1> HIDE DEF A, D
<1>6. Tiling((C \ A) \union D, X)
  BY <1>3, <1>4, <1>5, TilingTrade
<1> QED
  BY <1>6 DEF A, D, q

\* A block of pages that are not yet covered may be added.
LEMMA TilingAdd ==
    ASSUME NEW C, NEW X, Tiling(C, X), NEW c \in ClaimSet, c[2] % Size[c[3]] = 0,
           Extent(c) \intersect X = {}
    PROVE  Tiling(C \union {c}, X \union Extent(c))
<1>1. C \union {c} \subseteq ClaimSet /\ Aligned(C \union {c})
  BY DEF Tiling, Aligned
<1>2. Covered(C \union {c}) = X \union Extent(c)
  <2>1. Covered(C \union {c}) = Covered(C) \union Extent(c)
    BY DEF Covered
  <2> QED
    BY <2>1 DEF Tiling
<1>3. Apart(C \union {c})
  <2>1. \A d \in C : Extent(d) \subseteq X
    BY DEF Tiling, Covered
  <2>2. \A d \in C : Extent(c) \intersect Extent(d) = {} /\ Extent(d) \intersect Extent(c) = {}
    BY <2>1
  <2> QED
    BY <2>2 DEF Apart, Tiling
<1> QED
  BY <1>1, <1>2, <1>3 DEF Tiling

(* A block begins with its own first page, which no other claim covers.     *)
LEMMA FirstPage ==
    ASSUME NEW C, NEW X, Tiling(C, X), NEW c \in C
    PROVE  /\ c[2] \in Extent(c) /\ c[2] \in X /\ Extent(c) \subseteq X
           /\ \A d \in C : d # c => d[2] # c[2] /\ c[2] \notin Extent(d)
<1>1. ASSUME NEW d \in C PROVE d[2] \in Extent(d) /\ Extent(d) \subseteq X
  <2>1. d[2] \in Nat /\ d[3] \in Orders
    BY DEF Tiling, ClaimSet, PageIndex
  <2>2. Size[d[3]] \in Nat \ {0}
    BY <2>1, OrderFacts
  <2>3. d[2] \in Extent(d)
    BY <2>1, <2>2 DEF Extent
  <2>4. Extent(d) \subseteq X
    BY DEF Tiling, Covered
  <2> QED
    BY <2>3, <2>4
<1>2. \A d \in C : d # c => Extent(d) \intersect Extent(c) = {}
  BY DEF Tiling, Apart
<1>3. c[2] \in Extent(c) /\ Extent(c) \subseteq X
  BY <1>1
<1>4. ASSUME NEW d \in C, d # c PROVE d[2] # c[2] /\ c[2] \notin Extent(d)
  BY <1>1, <1>2, <1>3, <1>4
<1> QED
  BY <1>3, <1>4

(* No list has more entries than there are pages.                           *)
LEMMA StackFits ==
    ASSUME NEW nr \in Depths, NEW L \in StackTables, Distinct(nr, L),
           NEW z \in Zones, NEW o \in Orders
    PROVE  nr[z][o] \in Nat /\ nr[z][o] <= MaxPages
<1> DEFINE n == nr[z][o]
           f == [i \in 1 .. n |-> L[z][o][i]]
<1>1. n \in Nat /\ MaxPages \in Nat
  BY OrderFacts DEF Depths
<1> HIDE DEF n
<1>2. /\ IsFiniteSet(1 .. n) /\ Cardinality(1 .. n) = n
      /\ IsFiniteSet(PageIndex) /\ Cardinality(PageIndex) = MaxPages
  <2>1. IsFiniteSet(1 .. n) /\ Cardinality(1 .. n) = IF 1 > n THEN 0 ELSE n - 1 + 1
    BY <1>1, FS_Interval
  <2>2. IsFiniteSet(PageIndex) /\ Cardinality(PageIndex) = MaxPages
    BY <1>1, FS_Interval DEF PageIndex
  <2> QED
    BY <1>1, <2>1, <2>2
<1>3. f \in [1 .. n -> PageIndex]
  BY <1>1 DEF StackTables
<1>4. \A i, j \in 1 .. n : f[i] = f[j] => i = j
  BY DEF Distinct, n
<1>5. ASSUME MaxPages < n PROVE FALSE
  <2> HIDE DEF f
  <2>1. Cardinality(PageIndex) < Cardinality(1 .. n)
    BY <1>2, <1>5
  <2>2. \E i, j \in 1 .. n : i # j /\ f[i] = f[j]
    BY <1>2, <1>3, <2>1, FS_PigeonHole
  <2> QED
    BY <1>4, <2>2
<1> QED
  BY <1>1, <1>5 DEF n

-----------------------------------------------------------------------------
(* EveryPageOnce.  The machines it is about: the kernel ends in ZONE_DMA,   *)
(* which is there as a whole, mem_map lies in RAM that is zero, and clients *)
(* free blocks of the largest order only, which __free_pages does not merge.*)
PlainMachines ==
    /\ KernelInDma
    /\ \A m \in MemSizes : m >= DmaPages
    /\ \A r \in RamImages : \A p \in PageIndex : r[p].count = 0 /\ ~r[p].rvsd
    /\ FreeOrders \subseteq {MAX_ORDER}

Scans == {"area_begin", "area_scan"}

Runs == {"mm_test", "mm_test_free", "idle", "split", "merge"}

Whole == (total - DmaPages) % Size[MAX_ORDER] = 0

\* The last block of ZONE_NORMAL: the first that is handed out.
HighBlock == total - Size[MAX_ORDER]

InFirstCall == pc \in {"split", "mm_test_free", "merge"} /\ call.by = "mm_test"

FlagsClear ==
    /\ pc \in Early \union Scans \union {"mm_test"} => CleanRam
    /\ InFirstCall =>
          \A p \in resv .. total - 1 : p # call.page => page_isfree(p)

Unheld == pc \in Early \union Scans \union {"mm_test"} => \A b \in Blocks : held[b] = 0

HeldOnce == \A b \in Blocks : held[b] <= 1

EmptyMemory == pc \in Early => \A c \in Cell : mem.next[c] = NULL

DmaSpan == pc \notin Early => spanned["DMA"] = DmaPages

NormalEmpty ==
    pc \in {"page_init", "area_begin"} \/ (pc = "area_scan" /\ scan.zone = "DMA") =>
        \A o \in Orders : nr_free["NORMAL"][o] = 0

DmaEmpty ==
    /\ pc = "page_init" => \A o \in Orders : nr_free["DMA"][o] = 0
    /\ pc \in Scans /\ scan.zone = "DMA" =>
          \A o \in Orders : o < scan.order => nr_free["DMA"][o] = 0
    /\ pc = "area_begin" /\ scan.zone = "DMA" => nr_free["DMA"][scan.order] = 0

RaggedStops == pc \in Runs => Whole

ListsApart == pc \in Scans \union Runs => AreasClosed(mem)

\* Where the scan of ZONE_DMA that comes next ends.
Bound == IF scan.order = MAX_ORDER THEN spanned["DMA"] ELSE scan.pagenum

LowBegin ==
    pc = "area_begin" /\ scan.zone = "DMA" =>
        resv <= Bound /\ Bound <= DmaPages /\ Bound % Size[scan.order] = 0

\* Where the blocks a scan of ZONE_DMA has taken begin.
Taken == scan.i - nr_free["DMA"][scan.order] * Size[scan.order]

LowTakes ==
    pc = "area_scan" /\ scan.zone = "DMA" =>
        /\ resv <= scan.pagenum /\ scan.pagenum <= DmaPages
        /\ scan.pagenum % Size[scan.order] = 0
        /\ scan.i % Size[scan.order] = 0 /\ scan.i <= scan.pagenum
        /\ Taken >= 0 /\ Taken % Size[scan.order] = 0
        /\ Taken < resv + Size[scan.order]
        /\ nr_free["DMA"][scan.order] > 0 => resv <= Taken

SplitFits ==
    pc = "split" =>
        /\ call.want <= call.order
        /\ \A o \in Orders : call.want <= o /\ o < call.order => nr_free["NORMAL"][o] = 0

\* Clients free largest blocks, and the block mm_test frees is its own.
Callers ==
    /\ pc = "merge" /\ call.by = "client" => call.order = MAX_ORDER
    /\ pc = "mm_test_free" => call.by = "mm_test"

Frame ==
    /\ FlagsClear /\ Unheld /\ HeldOnce /\ EmptyMemory /\ DmaSpan
    /\ NormalEmpty /\ DmaEmpty /\ RaggedStops /\ ListsApart
    /\ LowBegin /\ LowTakes /\ SplitFits /\ Callers

HeldClaims == {c \in {"held"} \X PageIndex \X Orders : held[<<c[2], c[3]>>] > 0}

CallClaims ==
    IF pc \in {"split", "merge"} THEN {<<"call", call.page, call.order>>} ELSE {}

Free(L) == FreeClaims(nr_free, L)

Claims(L) == Free(L) \union HeldClaims \union CallClaims

\* The pages the scans have put into blocks.
Scanned ==
    IF scan.zone = "NORMAL"
    THEN resv .. (DmaPages + (IF pc = "area_begin" THEN 0 ELSE scan.i)) - 1
    ELSE IF pc = "area_begin"
    THEN Bound .. DmaPages - 1
    ELSE (Taken .. scan.i - 1) \union (scan.pagenum .. DmaPages - 1)

\* mm_test splits the last block down to its first page and, in its free, joins
\* that page with what the splits put back, the only entries of their lists.
FirstCall(L) ==
    InFirstCall =>
        /\ call.page = HighBlock /\ call.want = 0
        /\ pc = "mm_test_free" => call.order = 0
        /\ mem.next[Pg(HighBlock)] = LIST_POISON1
        /\ mem.prev[Pg(HighBlock)] = LIST_POISON2
        /\ \A o \in Orders \ {MAX_ORDER} : o >= call.order =>
              nr_free["NORMAL"][o] = 1 /\ L["NORMAL"][o][1] = HighBlock + Size[o]

Tiled(L) ==
    /\ pc \in Scans \union Runs => Stacks(mem, nr_free, L)
    /\ pc \in Scans => Tiling(Free(L), Scanned)
    /\ pc \in Runs => Tiling(Claims(L), resv .. total - 1)
    /\ FirstCall(L)

ExactInv == Frame /\ \E L : Tiled(L)

\* What the machines of EveryPageOnce have in common, as numbers.
LEMMA PlainFacts ==
    ASSUME PlainMachines, Inv
    PROVE  /\ KernelInDma
           /\ total \in Nat \ {0} /\ resv \in Nat \ {0} /\ DmaPages \in Nat
           /\ resv <= DmaPages /\ DmaPages <= total /\ total <= MaxPages /\ MaxPages \in Nat
           /\ ULong \in Nat \ {0} /\ MaxPages + 1 < ULong /\ DmaPages < ULong
           /\ nr_free \in Depths /\ mem \in Memory(Cell)
           /\ \A p \in Nat : p < total => p \in PageIndex
<1>1. KernelInDma /\ total \in MemSizes
  BY DEF PlainMachines, Inv, TypeOK
<1>2. /\ total \in Nat \ {0} /\ resv \in Nat \ {0} /\ DmaPages \in Nat
      /\ resv <= DmaPages /\ ULong \in Nat \ {0}
  BY <1>1, MachineFacts
<1>3. DmaPages <= total /\ total <= MaxPages /\ MaxPages \in Nat
  BY <1>1, <1>2, MmAssumption DEF PlainMachines
<1>4. MaxPages + 1 < ULong
  BY <1>2, <1>3, MmAssumption, OrderFacts
<1>5. nr_free \in Depths /\ mem \in Memory(Cell)
  <2>1. 0 .. ULong - 1 \subseteq Nat
    BY <1>2
  <2> QED
    BY <2>1 DEF Inv, TypeOK, Depths
<1>6. \A p \in Nat : p < total => p \in PageIndex
  BY <1>2, <1>3 DEF PageIndex
<1> QED
  BY <1>1, <1>2, <1>3, <1>4, <1>5, <1>6

\* The machine is switched on in ExactInv.
LEMMA InitExact == ASSUME PlainMachines, Init, Inv PROVE ExactInv
<1>1. pc = "mm_reserved_init" /\ pc \in Early /\ pc \notin Scans \union Runs
  BY DEF Init, Early, Scans, Runs
<1>2. CleanRam
  <2>1. \A p \in resv .. total - 1 : p \in PageIndex
    BY PlainFacts
  <2> QED
    BY <2>1 DEF CleanRam, page_isfree, Init, PlainMachines
<1>3. ~InFirstCall /\ pc \notin {"split", "merge", "page_init", "area_begin", "area_scan"}
  BY <1>1 DEF InFirstCall
<1>4. FlagsClear /\ Unheld /\ HeldOnce /\ EmptyMemory
  <2>1. \A b \in Blocks : held[b] = 0
    BY DEF Init
  <2>2. HeldOnce
    BY <2>1 DEF HeldOnce
  <2> QED
    BY <1>2, <1>3, <2>1, <2>2 DEF FlagsClear, Unheld, EmptyMemory, Init
<1>5. DmaSpan /\ NormalEmpty /\ DmaEmpty /\ RaggedStops /\ ListsApart
  BY <1>1, <1>3 DEF DmaSpan, NormalEmpty, DmaEmpty, Scans, RaggedStops, ListsApart
<1>6. LowBegin /\ LowTakes /\ SplitFits /\ Callers
  BY <1>1, <1>3 DEF LowBegin, LowTakes, SplitFits, Callers
<1>7. \A L : Tiled(L)
  BY <1>1, <1>3 DEF Tiled, FirstCall
<1> QED
  BY <1>4, <1>5, <1>6, <1>7 DEF ExactInv, Frame

(* mm_reserved_init and zone_init.                                          *)
LEMMA EarlyExact ==
    ASSUME PlainMachines, Inv, ExactInv, MmReservedInit \/ ZoneInit PROVE ExactInv'
<1>1. /\ pc \in {"mm_reserved_init", "zone_init"} /\ pc' \in {"zone_init", "page_init"}
      /\ pc \in Early /\ pc' \in Early /\ pc' \notin Scans \union Runs
      /\ UNCHANGED <<total, resv, held, scan, call>>
  BY DEF MmReservedInit, ZoneInit, Early, Scans, Runs
<1>2. ~InFirstCall' /\ pc' \notin {"split", "merge", "area_begin", "area_scan"}
  BY <1>1 DEF InFirstCall
<1>3. CleanRam'
  <2>1. CleanRam
    BY <1>1 DEF ExactInv, Frame, FlagsClear
  <2>2. ASSUME NEW p \in resv .. total - 1 PROVE page'[p] = page[p]
    <3>1. p \in PageIndex /\ ~(p < resv)
      BY PlainFacts
    <3> QED
      BY <3>1 DEF MmReservedInit, ZoneInit
  <2> QED
    BY <1>1, <2>1, <2>2 DEF CleanRam, page_isfree
<1>4. FlagsClear' /\ Unheld' /\ HeldOnce'
  BY <1>1, <1>2, <1>3 DEF FlagsClear, Unheld, HeldOnce, ExactInv, Frame
<1>5. EmptyMemory'
  <2>1. \A c \in Cell : mem.next[c] = NULL
    BY <1>1 DEF ExactInv, Frame, EmptyMemory
  <2>2. CASE MmReservedInit
    BY <2>1, <2>2 DEF MmReservedInit, EmptyMemory
  <2>3. CASE ZoneInit
    <3>1. mem'["next"] = [c \in Cell |-> IF c \in Zones \X Orders THEN NULL ELSE mem["next"][c]]
      BY <2>3 DEF ZoneInit
    <3> QED
      BY <2>1, <3>1 DEF EmptyMemory
  <2> QED
    BY <2>2, <2>3
<1>6. NormalEmpty' /\ DmaEmpty'
  <2>1. CASE MmReservedInit
    BY <1>2, <2>1 DEF MmReservedInit, NormalEmpty, DmaEmpty, Scans
  <2>2. CASE ZoneInit
    <3>1. \A z \in Zones, o \in Orders : nr_free'[z][o] = 0
      BY <2>2 DEF ZoneInit
    <3> QED
      BY <1>2, <3>1 DEF Zones, NormalEmpty, DmaEmpty, Scans
  <2> QED
    BY <2>1, <2>2
<1>7. DmaSpan' /\ RaggedStops' /\ ListsApart'
  BY <1>1 DEF DmaSpan, RaggedStops, ListsApart
<1>8. LowBegin' /\ LowTakes' /\ SplitFits' /\ Callers'
  BY <1>1, <1>2 DEF LowBegin, LowTakes, SplitFits, Callers
<1>9. \A L : Tiled(L)'
  BY <1>1, <1>2 DEF Tiled, FirstCall
<1> QED
  BY <1>4, <1>5, <1>6, <1>7, <1>8, <1>9 DEF ExactInv, Frame

\* Before the first scan both zones are empty.
LEMMA PageInitExact ==
    ASSUME PlainMachines, Inv, ExactInv, PageInit PROVE ExactInv'
<1>1. /\ pc = "page_init" /\ pc' = "area_begin" /\ scan' = NoScan
      /\ UNCHANGED <<total, resv, nr_free, call, held, reply>>
      /\ pc \in Early /\ pc' \notin Early /\ pc' \in Scans /\ pc' \notin Runs
  BY DEF PageInit, Early, Scans, Runs
<1>2. ~InFirstCall' /\ pc' \notin {"split", "merge", "area_scan"}
  BY <1>1 DEF InFirstCall
<1>3. CleanRam'
  <2>1. CleanRam
    BY <1>1 DEF ExactInv, Frame, FlagsClear
  <2>2. ASSUME NEW p \in resv .. total - 1
        PROVE  page'[p].count = page[p].count /\ page'[p].rvsd = page[p].rvsd
    <3>1. p \in PageIndex
      BY PlainFacts
    <3>2. page[p] \in StructPage
      BY <3>1 DEF Inv, TypeOK
    <3> QED
      BY <3>1, <3>2 DEF PageInit, StructPage
  <2> QED
    BY <1>1, <2>1, <2>2 DEF CleanRam, page_isfree
<1>4. FlagsClear' /\ Unheld' /\ HeldOnce' /\ EmptyMemory'
  <2>1. FlagsClear' /\ EmptyMemory'
    BY <1>1, <1>2, <1>3 DEF FlagsClear, EmptyMemory
  <2>2. \A b \in Blocks : held[b] = 0
    BY <1>1 DEF ExactInv, Frame, Unheld
  <2>3. Unheld' /\ HeldOnce'
    BY <1>1, <2>2 DEF Unheld, HeldOnce
  <2> QED
    BY <2>1, <2>3
<1>5. spanned'["DMA"] = DmaPages
  <2>1. spanned'["DMA"] = Cardinality({p \in 0 .. total - 1 : PageZone(p) = "DMA"})
    BY DEF PageInit, Zones
  <2>2. {p \in 0 .. total - 1 : PageZone(p) = "DMA"} = 0 .. DmaPages - 1
    BY PlainFacts DEF PageZone
  <2>3. Cardinality(0 .. DmaPages - 1) = DmaPages
    <3>1. DmaPages \in Nat
      BY PlainFacts
    <3> QED
      BY <3>1, FS_Interval
  <2> QED
    BY <2>1, <2>2, <2>3, Zenon
<1>6. \A z \in Zones, o \in Orders : nr_free'[z][o] = 0
  BY <1>1 DEF ExactInv, Frame, NormalEmpty, DmaEmpty, Zones
<1>7. DmaSpan' /\ NormalEmpty' /\ DmaEmpty' /\ RaggedStops'
  <2>1. scan'.order \in Orders
    BY <1>1, OrderFacts DEF NoScan
  <2> QED
    BY <1>1, <1>5, <1>6, <2>1 DEF DmaSpan, NormalEmpty, DmaEmpty, RaggedStops, Zones
<1>8. AreasClosed(mem')
  <2>1. \A c \in Cell : mem.next[c] = NULL
    BY <1>1 DEF ExactInv, Frame, EmptyMemory
  <2>2. mem'["next"] = [c \in Cell |-> IF c \in {"page"} \X (0 .. total - 1)
                                       THEN c ELSE mem["next"][c]]
    BY DEF PageInit
  <2>3. \A c \in Cell : mem'.next[c] = c \/ mem'.next[c] = NULL
    BY <2>1, <2>2
  <2> QED
    BY <2>3, AreasApart DEF AreasClosed, Outside
<1>9. Bound' = DmaPages /\ scan'.zone = "DMA" /\ scan'.order = MAX_ORDER
  BY <1>1, <1>5 DEF Bound, NoScan
<1>10. LowBegin' /\ LowTakes' /\ SplitFits' /\ Callers'
  <2>1. resv <= DmaPages /\ DmaPages <= DmaPages /\ DmaPages % Size[MAX_ORDER] = 0
    BY PlainFacts, OrderFacts
  <2> QED
    BY <1>1, <1>2, <1>9, <2>1 DEF LowBegin, LowTakes, SplitFits, Callers
<1>11. \E L : Tiled(L)'
  <2> DEFINE L == [z \in Zones |-> [o \in Orders |-> [i \in Nat |-> 0]]]
  <2>1. L \in StackTables
    <3>1. 0 \in PageIndex
      BY PlainFacts
    <3> QED
      BY <3>1 DEF StackTables
  <2> HIDE DEF L
  <2>2. 1 .. 0 = {} /\ 1 .. 0 - 1 = {} /\ ~(0 > 0)
    OBVIOUS
  <2>3. Stacks(mem', nr_free', L)
    BY <1>6, <2>1, <2>2, NormalIsZone
    DEF Stacks, InZone, Distinct, Threaded, TopsKnow
  <2>4. FreeClaims(nr_free', L) = {}
    BY <1>6, <2>2 DEF FreeClaims
  <2>5. Scanned' = {}
    <3>1. Scanned' = DmaPages .. DmaPages - 1
      BY <1>1, <1>9 DEF Scanned
    <3> QED
      BY <3>1, PlainFacts
  <2>6. Tiling({}, {})
    BY DEF Tiling, Aligned, Apart, Covered
  <2>7. Tiled(L)'
    BY <1>1, <1>2, <2>3, <2>4, <2>5, <2>6 DEF Tiled, Free, FirstCall
  <2> QED
    BY <2>7
<1> QED
  BY <1>1, <1>4, <1>7, <1>8, <1>10, <1>11 DEF ExactInv, Frame, ListsApart

(* A list head is set up again while its free_area counts no block.         *)
LEMMA HeadStacks ==
    ASSUME NEW m \in Memory(Cell), NEW nr \in Depths, NEW L, Stacks(m, nr, L), AreasClosed(m),
           NEW z \in Zones, NEW o \in Orders, nr[z][o] = 0,
           NEW m2, m2 = INIT_LIST_HEAD(m, <<z, o>>)
    PROVE  Stacks(m2, nr, L) /\ AreasClosed(m2)
<1> DEFINE h == <<z, o>>
<1>0. L \in StackTables /\ InZone(nr, L) /\ Distinct(nr, L) /\ h \in Cell
  BY CellsApart DEF Stacks
<1>1. /\ m2.next[h] = h
      /\ \A c \in Cell : c # h => m2.next[c] = m.next[c] /\ m2.prev[c] = m.prev[c]
  BY <1>0 DEF INIT_LIST_HEAD, Memory
<1>2. ASSUME NEW y \in Zones, NEW k \in Orders, NEW i \in 1 .. nr[y][k]
      PROVE  /\ m2.next[Pg(L[y][k][i])] = m.next[Pg(L[y][k][i])]
             /\ m2.prev[Pg(L[y][k][i])] = m.prev[Pg(L[y][k][i])]
  <2>1. L[y][k][i] \in PageIndex
    BY <1>0 DEF StackTables, Depths
  <2>2. Pg(L[y][k][i]) \in Cell /\ Pg(L[y][k][i]) # h
    BY <2>1, CellsApart
  <2> QED
    BY <1>1, <2>2
<1>3. Threaded(m2, nr, L)
  <2> SUFFICES ASSUME NEW y \in Zones, NEW k \in Orders
               PROVE  /\ nr[y][k] > 0 => m2.next[<<y, k>>] = Pg(L[y][k][nr[y][k]])
                      /\ \A i \in 1 .. nr[y][k] - 1 :
                            m2.next[Pg(L[y][k][i + 1])] = Pg(L[y][k][i])
    BY DEF Threaded
  <2>1. nr[y][k] \in Nat
    BY DEF Depths
  <2>2. ASSUME NEW i \in 1 .. nr[y][k] - 1
        PROVE  m2.next[Pg(L[y][k][i + 1])] = Pg(L[y][k][i])
    <3>1. i + 1 \in 1 .. nr[y][k]
      BY <2>1
    <3>2. m2.next[Pg(L[y][k][i + 1])] = m.next[Pg(L[y][k][i + 1])]
      BY <1>2, <3>1
    <3> QED
      BY <3>2 DEF Stacks, Threaded
  <2>3. ASSUME nr[y][k] > 0 PROVE m2.next[<<y, k>>] = m.next[<<y, k>>]
    <3>1. ~(y = z /\ k = o)
      BY <2>3
    <3>2. <<y, k>> \in Cell /\ <<y, k>> # h
      BY <3>1, CellsApart
    <3> QED
      BY <1>1, <3>2
  <2> QED
    BY <2>2, <2>3 DEF Stacks, Threaded
<1>4. TopsKnow(m2, nr, L)
  <2> SUFFICES ASSUME NEW k \in Orders, nr["NORMAL"][k] > 0
               PROVE  m2.prev[Pg(L["NORMAL"][k][nr["NORMAL"][k]])] = <<"NORMAL", k>>
    BY DEF TopsKnow
  <2>1. nr["NORMAL"][k] \in 1 .. nr["NORMAL"][k]
    BY NormalIsZone DEF Depths
  <2> QED
    BY <1>2, <2>1, NormalIsZone DEF Stacks, TopsKnow
<1>5. AreasClosed(m2)
  <2> SUFFICES ASSUME NEW k \in Orders, NEW d \in AreaCells(k)
               PROVE  m2.next[d] \in AreaCells(k) \union Outside
    BY DEF AreasClosed
  <2>1. d \in Cell /\ m.next[d] \in AreaCells(k) \union Outside
    BY AreasApart DEF AreasClosed
  <2> QED
    BY <1>1, <2>1
<1> QED
  BY <1>0, <1>3, <1>4, <1>5 DEF Stacks

\* A scan starts with what the scans before it left.
LEMMA AreaBeginExact ==
    ASSUME PlainMachines, Inv, BootInv, ExactInv, AreaBegin PROVE ExactInv'
<1> DEFINE z == scan.zone
           o == scan.order
<1>1. /\ pc = "area_begin" /\ pc' = "area_scan"
      /\ UNCHANGED <<total, resv, page, spanned, call, held, reply>>
      /\ mem' = INIT_LIST_HEAD(mem, <<z, o>>)
      /\ nr_free' = [nr_free EXCEPT ![z][o] = 0]
      /\ scan' = [scan EXCEPT !.i = 0,
                     !.pagenum = IF o = MAX_ORDER THEN spanned[z] ELSE @]
      /\ pc \in Scans /\ pc' \in Scans /\ pc \notin Early /\ pc' \notin Early
      /\ pc \notin Runs /\ pc' \notin Runs
  BY DEF AreaBegin, Early, Scans, Runs
<1>2. ~InFirstCall' /\ pc' \notin {"split", "merge", "area_begin", "page_init"}
  BY <1>1 DEF InFirstCall
<1>3. /\ z \in Zones /\ o \in Orders
      /\ scan \in [zone : Zones, order : Orders, i : Nat, pagenum : Nat]
      /\ nr_free \in [Zones -> [Orders -> 0 .. ULong - 1]]
  BY DEF Inv, TypeOK
<1>4. nr_free[z][o] = 0
  BY <1>1, <1>3 DEF ExactInv, Frame, NormalEmpty, DmaEmpty, Zones
<1>5. nr_free' = nr_free
  BY <1>1, <1>3, <1>4
<1>6. /\ scan'.zone = z /\ scan'.order = o /\ scan'.i = 0
      /\ scan'.pagenum = IF o = MAX_ORDER THEN spanned[z] ELSE scan.pagenum
  BY <1>1, <1>3
<1>7. CleanRam' /\ CleanRam
  BY <1>1, CleanStays DEF ExactInv, Frame, FlagsClear
<1>8. FlagsClear' /\ Unheld' /\ HeldOnce' /\ EmptyMemory' /\ DmaSpan'
  <2>1. FlagsClear' /\ EmptyMemory'
    BY <1>1, <1>2, <1>7 DEF FlagsClear, EmptyMemory
  <2>2. Unheld' /\ HeldOnce' /\ DmaSpan'
    BY <1>1 DEF ExactInv, Frame, Unheld, HeldOnce, DmaSpan
  <2> QED
    BY <2>1, <2>2
<1>9. NormalEmpty' /\ DmaEmpty' /\ RaggedStops' /\ SplitFits' /\ Callers' /\ LowBegin'
  <2>1. NormalEmpty' /\ DmaEmpty'
    BY <1>1, <1>2, <1>5, <1>6 DEF ExactInv, Frame, NormalEmpty, DmaEmpty
  <2> QED
    BY <1>1, <1>2, <2>1 DEF RaggedStops, SplitFits, Callers, LowBegin
<1>10. PICK L : Tiled(L)
  BY DEF ExactInv
<1>11. AreasClosed(mem) /\ Stacks(mem, nr_free, L)
  BY <1>1, <1>10 DEF ExactInv, Frame, ListsApart, Tiled
<1>12. Stacks(mem', nr_free', L) /\ AreasClosed(mem')
  <2>1. Stacks(mem', nr_free, L) /\ AreasClosed(mem')
    <3> HIDE DEF z, o
    <3> QED
      BY <1>1, <1>3, <1>4, <1>11, HeadStacks, PlainFacts
  <2> QED
    BY <1>5, <2>1
<1>13. CASE z = "NORMAL"
  <2>1. LowTakes'
    BY <1>6, <1>13 DEF LowTakes
  <2>2. Scanned' = Scanned
    BY <1>1, <1>6, <1>13 DEF Scanned
  <2> QED
    BY <1>1, <1>2, <1>5, <1>8, <1>9, <1>10, <1>12, <2>1, <2>2
    DEF ExactInv, Frame, Tiled, Free, FirstCall, ListsApart
<1>14. CASE z = "DMA"
  <2>1. scan'.pagenum = Bound /\ resv <= Bound /\ Bound <= DmaPages /\ Bound % Size[o] = 0
    BY <1>1, <1>6, <1>14 DEF Bound, ExactInv, Frame, LowBegin
  <2>2. Size[o] \in Nat \ {0} /\ resv \in Nat \ {0} /\ 0 * Size[o] = 0 /\ 0 % Size[o] = 0
    <3>1. Size[o] \in Nat \ {0} /\ resv \in Nat \ {0}
      BY <1>3, OrderFacts, PlainFacts
    <3>2. 0 * Size[o] = 0 /\ (0 * Size[o]) % Size[o] = 0
      BY <3>1, BlocksOfSize
    <3> QED
      BY <3>1, <3>2
  <2>2a. Bound \in Nat
    BY <1>3, <1>14 DEF Bound, Inv, TypeOK, Zones
  <2>3. Taken' = 0
    <3>1. Taken' = 0 - 0 * Size[o]
      BY <1>4, <1>5, <1>6, <1>14 DEF Taken
    <3> QED
      BY <2>2, <3>1
  <2>4. LowTakes'
    <3>1. 0 <= Bound /\ 0 >= 0 /\ 0 < resv + Size[o] /\ ~(0 > 0)
      BY <2>2, <2>2a
    <3> QED
      BY <1>1, <1>4, <1>5, <1>6, <1>14, <2>1, <2>2, <2>3, <3>1 DEF LowTakes
  <2>5. Scanned' = Scanned
    <3>1. Scanned' = (0 .. 0 - 1) \union (Bound .. DmaPages - 1)
      BY <1>1, <1>6, <1>14, <2>1, <2>3 DEF Scanned
    <3>2. Scanned = Bound .. DmaPages - 1
      BY <1>1, <1>14 DEF Scanned
    <3> QED
      BY <3>1, <3>2
  <2> QED
    BY <1>1, <1>2, <1>5, <1>8, <1>9, <1>10, <1>12, <2>4, <2>5
    DEF ExactInv, Frame, Tiled, Free, FirstCall, ListsApart
<1> QED
  BY <1>3, <1>13, <1>14 DEF Zones

(* list_add and the counter that goes with it.                              *)
LEMMA Adds ==
    ASSUME PlainMachines, Inv, NEW L, Stacks(mem, nr_free, L), AreasClosed(mem),
           NEW z \in Zones, NEW o \in Orders, NEW p \in PageIndex,
           ~OnAList(nr_free, L, p), PageZone(p) = z, z = "NORMAL" => ExactOrder(p, o),
           z = "DMA" => \A k \in Orders : nr_free["NORMAL"][k] = 0,
           mem' = list_add(mem, <<"page", p>>, <<z, o>>), nr_free' = AddFree(z, o, 1)
    PROVE  /\ AreasClosed(mem') /\ nr_free[z][o] \in Nat
           /\ \E L2 : /\ Pushed(nr_free, L, z, o, p, nr_free', L2)
                      /\ Stacks(mem', nr_free', L2)
                      /\ Free(L2)' = Free(L) \union {<<"free", p, o>>}
<1> DEFINE n == nr_free[z][o]
           L2 == [L EXCEPT ![z][o][n + 1] = p]
<1>1. /\ nr_free \in Depths /\ mem \in Memory(Cell) /\ L \in StackTables
      /\ Distinct(nr_free, L) /\ MaxPages + 1 < ULong /\ MaxPages \in Nat /\ ULong \in Nat \ {0}
  BY PlainFacts DEF Stacks
<1>2. n \in Nat /\ n <= MaxPages
  BY <1>1, StackFits
<1>3. nr_free' = [nr_free EXCEPT ![z][o] = n + 1]
  <2>1. nr_free' = [nr_free EXCEPT ![z][o] = (n + 1) % ULong]
    BY DEF AddFree
  <2>2. (n + 1) % ULong = n + 1
    <3> DEFINE a == n + 1
    <3>1. a \in Int /\ a \in 0 .. ULong - 1
      BY <1>1, <1>2
    <3> HIDE DEF a
    <3>2. a % ULong = a
      BY <1>1, <3>1, ModValues
    <3> QED
      BY <3>2 DEF a
  <2> QED
    BY <2>1, <2>2
<1>4. Pushed(nr_free, L, z, o, p, nr_free', L2)
  BY <1>3 DEF Pushed
<1> HIDE DEF n, L2
<1>5. mem' = list_add(mem, Pg(p), <<z, o>>)
  BY DEF Pg
<1>6. Stacks(mem', nr_free', L2) /\ AreasClosed(mem')
  BY <1>1, <1>4, <1>5, PushStacks
<1>7. FreeClaims(nr_free', L2) = FreeClaims(nr_free, L) \union {<<"free", p, o>>}
  BY <1>1, <1>4, PushClaims
<1> QED
  BY <1>2, <1>4, <1>6, <1>7 DEF Free, n

(* A page outside the tiling, or in a claim that is not free, is on no list. *)
LEMMA OffLists ==
    ASSUME NEW nr \in Depths, NEW L \in StackTables, NEW C, NEW X, Tiling(C, X),
           FreeClaims(nr, L) \subseteq C,
           NEW p, p \notin X \/ \E c \in C : p \in Extent(c) /\ c[1] # "free"
    PROVE  ~OnAList(nr, L, p)
<1> SUFFICES ASSUME NEW z \in Zones, NEW o \in Orders, NEW i \in 1 .. nr[z][o],
                    L[z][o][i] = p
             PROVE  FALSE
  BY DEF OnAList
<1> DEFINE c == <<"free", p, o>>
<1>1. p \in PageIndex
  BY DEF StackTables, Depths
<1>2. c \in FreeClaims(nr, L)
  BY <1>1 DEF FreeClaims
<1>3. c \in C /\ c[2] = p /\ c[1] = "free"
  BY <1>2
<1> HIDE DEF c
<1>4. p \in X /\ \A d \in C : d # c => p \notin Extent(d)
  BY <1>3, FirstPage
<1>5. PICK d \in C : p \in Extent(d) /\ d[1] # "free"
  BY <1>4
<1> QED
  BY <1>3, <1>4, <1>5

\* The next multiple of a size is the size away.
LEMMA NextMultiple ==
    ASSUME NEW s \in Nat \ {0}, NEW a \in Nat, NEW b \in Nat, a % s = 0, b % s = 0, a < b
    PROVE  a + s <= b /\ (a + s) % s = 0
<1>1. PICK j \in Nat : a = j * s
  <2>1. a = (a \div s) * s /\ a \div s \in Nat
    OBVIOUS
  <2> QED
    BY <2>1
<1>2. PICK k \in Nat : b = k * s
  <2>1. b = (b \div s) * s /\ b \div s \in Nat
    OBVIOUS
  <2> QED
    BY <2>1
<1>3. j < k
  <2>1. j >= k => j * s >= k * s
    OBVIOUS
  <2> QED
    BY <1>1, <1>2, <2>1
<1>4. (j + 1) * s <= k * s /\ (j + 1) * s = j * s + s /\ ((j + 1) * s) % s = 0
  <2>1. (j + 1) * s <= k * s
    BY <1>3
  <2>2. (j + 1) * s = j * s + s /\ ((j + 1) * s) % s = 0
    BY BlocksOfSize
  <2> QED
    BY <2>1, <2>2
<1>5. a + s = (j + 1) * s
  BY <1>1, <1>4
<1> QED
  BY <1>2, <1>4, <1>5

\* What the scan of one block of ZONE_DMA does.
LEMMA LowScanExact ==
    ASSUME PlainMachines, Inv, BootInv, ExactInv, AreaScan, scan.zone = "DMA"
    PROVE  LowTakes' /\ AreasClosed(mem') /\ (\E L : Stacks(mem', nr_free', L)
                /\ Tiling(Free(L)', Scanned'))
           /\ \A y \in Zones, k \in Orders :
                 ~(y = "DMA" /\ k = scan.order) => nr_free'[y][k] = nr_free[y][k]
<1> DEFINE o == scan.order
           s == Size[scan.order]
           n == nr_free["DMA"][scan.order]
           r == scan.i
           b == scan.pagenum
           t == r - n * s
<1>1. /\ pc = "area_scan" /\ pc' = pc /\ r < b
      /\ UNCHANGED <<total, resv, page, spanned>>
      /\ IF page_isfree(r)
         THEN mem' = list_add(mem, <<"page", r>>, <<"DMA", o>>) /\ nr_free' = AddFree("DMA", o, 1)
         ELSE UNCHANGED <<mem, nr_free>>
      /\ scan' = [scan EXCEPT !.i = r + s]
      /\ pc \in Scans
  <2>1. ZoneMemMap(scan.zone) + scan.i = scan.i
    <3>1. ZoneMemMap(scan.zone) = 0 /\ scan.i \in Nat
      BY DEF ZoneMemMap, Inv, TypeOK
    <3> QED
      BY <3>1
  <2> QED
    BY <2>1 DEF AreaScan, unit, Scans
<1>2. /\ o \in Orders /\ r \in Nat /\ b \in Nat /\ s \in Nat \ {0} /\ n \in Nat
      /\ scan \in [zone : Zones, order : Orders, i : Nat, pagenum : Nat]
      /\ resv \in Nat \ {0} /\ DmaPages \in Nat /\ "DMA" \in Zones
  <2>1. o \in Orders /\ r \in Nat /\ b \in Nat /\ "DMA" \in Zones
      /\ scan \in [zone : Zones, order : Orders, i : Nat, pagenum : Nat]
    BY DEF Inv, TypeOK, Zones
  <2>2. s \in Nat \ {0} /\ n \in Nat
    <3>1. nr_free \in Depths /\ s \in Nat \ {0}
      BY <2>1, OrderFacts, PlainFacts
    <3> QED
      BY <2>1, <3>1 DEF Depths
  <2> QED
    BY <2>1, <2>2, PlainFacts
<1>3. /\ scan'.zone = "DMA" /\ scan'.order = o /\ scan'.i = r + s /\ scan'.pagenum = b
  BY <1>1, <1>2
<1>4. /\ resv <= b /\ b <= DmaPages /\ b % s = 0 /\ r % s = 0
      /\ t >= 0 /\ t % s = 0 /\ t < resv + s /\ (n > 0 => resv <= t)
  BY <1>1 DEF ExactInv, Frame, LowTakes, Taken
<1>5. PICK L : Tiled(L)
  BY DEF ExactInv
<1>6. /\ AreasClosed(mem) /\ Stacks(mem, nr_free, L) /\ CleanRam
      /\ \A k \in Orders : nr_free["NORMAL"][k] = 0
  BY <1>1, <1>5 DEF ExactInv, Frame, ListsApart, Tiled, FlagsClear, NormalEmpty
<1>7. Tiling(Free(L), (t .. r - 1) \union (b .. DmaPages - 1))
  <2>1. Scanned = (t .. r - 1) \union (b .. DmaPages - 1)
    BY <1>1 DEF Scanned, Taken
  <2> QED
    BY <1>1, <1>5, <2>1 DEF Tiled
<1>8. r \in PageIndex /\ r < DmaPages /\ r < total /\ r + s <= b /\ (r + s) % s = 0
  <2>1. r < DmaPages /\ r < total /\ r \in PageIndex
    BY <1>1, <1>2, <1>4, PlainFacts
  <2>2. r + s <= b /\ (r + s) % s = 0
    <3> HIDE DEF r, b, s
    <3> QED
      BY <1>1, <1>2, <1>4, NextMultiple
  <2> QED
    BY <2>1, <2>2
<1>9. page_isfree(r) <=> resv <= r
  <2>1. resv <= r => page_isfree(r)
    BY <1>2, <1>6, <1>8, PlainFacts DEF CleanRam
  <2>2. r < resv => ~page_isfree(r)
    <3>1. r < resv => page[r].count = 1
      BY <1>1, <1>2, <1>8, PlainFacts DEF Inv, KernelReserved
    <3> QED
      BY <3>1 DEF page_isfree
  <2> QED
    BY <1>2, <2>1, <2>2
<1>10. n * s \in Nat /\ (n = 0 => n * s = 0) /\ (n + 1) * s = n * s + s /\ t \in Nat
  <2>1. n * s \in Nat /\ (n + 1) * s = n * s + s
    BY <1>2, BlocksOfSize
  <2>2. n = 0 => n * s = 0
    BY <1>2
  <2> QED
    BY <1>2, <1>4, <2>1, <2>2
<1>11. CASE page_isfree(r)
  <2>1. ~OnAList(nr_free, L, r)
    <3> DEFINE X == (t .. r - 1) \union (b .. DmaPages - 1)
    <3>1. r \notin X
      BY <1>1, <1>2, <1>10
    <3> HIDE DEF X
    <3>2. Tiling(Free(L), X)
      BY <1>7 DEF X
    <3>3. nr_free \in Depths /\ L \in StackTables
      BY <1>6, PlainFacts DEF Stacks
    <3> QED
      BY <3>1, <3>2, <3>3, OffLists DEF Free
  <2>2. PageZone(r) = "DMA" /\ "DMA" # "NORMAL"
    BY <1>8 DEF PageZone
  <2> DEFINE c == <<"free", r, o>>
  <2> HIDE DEF r, s, o, n, b, t
  <2>3. /\ AreasClosed(mem') /\ nr_free["DMA"][o] \in Nat
        /\ \E L2 : /\ Pushed(nr_free, L, "DMA", o, r, nr_free', L2)
                   /\ Stacks(mem', nr_free', L2)
                   /\ Free(L2)' = Free(L) \union {c}
    BY <1>1, <1>2, <1>6, <1>8, <1>11, <2>1, <2>2, Adds
  <2>4. PICK L2 : /\ Pushed(nr_free, L, "DMA", o, r, nr_free', L2)
                  /\ Stacks(mem', nr_free', L2)
                  /\ Free(L2)' = Free(L) \union {c}
    BY <2>3
  <2>5. /\ nr_free'["DMA"][o] = n + 1
        /\ \A y \in Zones, k \in Orders :
              ~(y = "DMA" /\ k = o) => nr_free'[y][k] = nr_free[y][k]
    BY <1>2, <2>4, PlainFacts DEF Pushed, Depths, n, o
  <2>6. Taken' = t
    <3>1. Taken' = (r + s) - (n + 1) * s
      BY <1>3, <2>5 DEF Taken, s, o
    <3> QED
      BY <1>2, <1>10, <3>1 DEF t
  <2>7. resv <= t
    <3>1. n = 0 => t = r
      BY <1>2, <1>10 DEF t
    <3> QED
      BY <1>2, <1>4, <1>9, <1>11, <3>1
  <2>8. LowTakes'
    <3>1. nr_free'["DMA"][scan'.order] > 0 => resv' <= Taken'
      BY <1>1, <2>6, <2>7
    <3>2. Taken' >= 0 /\ Taken' % Size[scan'.order] = 0 /\ Taken' < resv' + Size[scan'.order]
      BY <1>1, <1>3, <1>4, <2>6 DEF s, o
    <3>3. /\ resv' <= scan'.pagenum /\ scan'.pagenum <= DmaPages
          /\ scan'.pagenum % Size[scan'.order] = 0
          /\ scan'.i % Size[scan'.order] = 0 /\ scan'.i <= scan'.pagenum
      BY <1>1, <1>3, <1>4, <1>8 DEF s, o
    <3> QED
      BY <3>1, <3>2, <3>3 DEF LowTakes
  <2>9. Extent(c) = r .. r + s - 1 /\ c \in ClaimSet /\ c[2] % Size[c[3]] = 0
    BY <1>2, <1>4, <1>8 DEF Extent, ClaimSet, s, o
  <2>10. Tiling(Free(L) \union {c}, Scanned')
    <3> DEFINE X == (t .. r - 1) \union (b .. DmaPages - 1)
    <3>1. Tiling(Free(L), X) /\ Extent(c) \intersect X = {}
      BY <1>2, <1>7, <1>8, <1>10, <2>9
    <3> HIDE DEF X, c
    <3>2. Tiling(Free(L) \union {c}, X \union Extent(c))
      BY <2>9, <3>1, TilingAdd
    <3>3. Scanned' = (t .. (r + s) - 1) \union (b .. DmaPages - 1)
      BY <1>1, <1>3, <2>6 DEF Scanned
    <3>4. t <= r
      BY <1>2, <1>10 DEF t
    <3>5. Scanned' = X \union Extent(c)
      BY <1>2, <1>10, <2>9, <3>3, <3>4 DEF X
    <3> QED
      BY <3>2, <3>5
  <2> QED
    BY <2>3, <2>4, <2>5, <2>8, <2>10 DEF o
<1>12. CASE ~page_isfree(r)
  <2>1. UNCHANGED <<mem, nr_free>>
    BY <1>1, <1>12
  <2>2. n = 0 /\ r < resv
    <3>1. r < resv
      BY <1>2, <1>9, <1>12
    <3>2. n > 0 => resv <= r
      BY <1>2, <1>4, <1>10
    <3> QED
      BY <1>2, <3>1, <3>2
  <2> HIDE DEF n, s, r, b, t, o
  <2>3. Taken' = r + s
    <3>1. Taken' = (r + s) - n * s
      BY <1>3, <2>1 DEF Taken, n, s, o
    <3> QED
      BY <1>2, <1>10, <2>2, <3>1
  <2>4. LowTakes'
    <3>1. ~(nr_free'["DMA"][scan'.order] > 0)
      BY <1>3, <2>1, <2>2 DEF n, o
    <3>2. Taken' >= 0 /\ Taken' % s = 0 /\ Taken' < resv' + s
      BY <1>1, <1>2, <1>8, <2>2, <2>3
    <3>3. scan'.order = o /\ scan'.pagenum = b /\ scan'.i = r + s /\ resv' = resv
      BY <1>1, <1>3
    <3> QED
      BY <1>2, <1>4, <1>8, <3>1, <3>2, <3>3 DEF LowTakes, s, o
  <2>5. Scanned' = (t .. r - 1) \union (b .. DmaPages - 1)
    <3>1. Scanned' = (r + s .. (r + s) - 1) \union (b .. DmaPages - 1)
      BY <1>1, <1>3, <2>3 DEF Scanned
    <3>2. t = r
      BY <1>2, <1>10, <2>2 DEF t
    <3> QED
      BY <1>2, <3>1, <3>2
  <2>6. Free(L)' = Free(L)
    BY <2>1 DEF Free
  <2> QED
    BY <1>6, <1>7, <2>1, <2>4, <2>5, <2>6
<1> QED
  BY <1>11, <1>12

\* What the scan of one block of ZONE_NORMAL does.
LEMMA HighScanExact ==
    ASSUME PlainMachines, Inv, BootInv, ExactInv, AreaScan, scan.zone = "NORMAL"
    PROVE  /\ AreasClosed(mem')
           /\ \E L : Stacks(mem', nr_free', L) /\ Tiling(Free(L)', Scanned')
<1> DEFINE s == Size[MAX_ORDER]
           n == LargestFree
           p == DmaPages + scan.i
           c == <<"free", p, MAX_ORDER>>
<1>1. /\ pc = "area_scan" /\ scan.i < scan.pagenum /\ pc' = pc /\ pc \in Scans
      /\ UNCHANGED <<total, resv, page, spanned>>
      /\ page_isfree(p) => /\ mem' = list_add(mem, <<"page", p>>, <<"NORMAL", scan.order>>)
                           /\ nr_free' = AddFree("NORMAL", scan.order, 1)
      /\ scan' = [scan EXCEPT !.i = scan.i + Size[scan.order]]
  <2>1. ZoneMemMap(scan.zone) = DmaPages
    BY DEF ZoneMemMap
  <2> QED
    BY <2>1 DEF AreaScan, unit, Scans
<1>2. /\ scan \in [zone : Zones, order : Orders, i : Nat, pagenum : Nat]
      /\ scan.i \in Nat /\ scan.pagenum \in Nat
      /\ s \in Nat \ {0} /\ MAX_ORDER \in Orders
  BY OrderFacts DEF Inv, TypeOK
<1>3. CleanRam
  BY <1>1 DEF ExactInv, Frame, FlagsClear
<1>4. /\ scan.order = MAX_ORDER /\ scan.pagenum = spanned["NORMAL"]
      /\ n * s = scan.i /\ spanned["NORMAL"] = NormalCount
  BY <1>1, <1>3 DEF BootInv, HighBegin, HighScan, ExactSpan, Early
<1>5. /\ scan'.zone = "NORMAL" /\ scan'.i = scan.i + s
  BY <1>1, <1>2, <1>4
<1>6. /\ p \in Nat /\ p < total /\ resv <= p /\ DmaPages <= p /\ p \in PageIndex
      /\ resv <= DmaPages /\ DmaPages \in Nat /\ resv \in Nat
  <2>1. /\ total \in Nat /\ DmaPages \in Nat /\ resv \in Nat /\ resv <= DmaPages
        /\ \A q \in Nat : q < total => q \in PageIndex
    BY PlainFacts
  <2>2. p \in Nat /\ DmaPages <= p /\ resv <= p
    BY <1>2, <2>1
  <2>3. p < total
    BY <1>1, <1>2, <1>4, <2>1 DEF NormalCount
  <2> QED
    BY <2>1, <2>2, <2>3
<1>7. page_isfree(p)
  BY <1>3, <1>6, PlainFacts DEF CleanRam
<1>8. p % s = 0 /\ PageZone(p) = "NORMAL" /\ ExactOrder(p, MAX_ORDER)
  <2>1. DmaPages % s = 0 /\ n \in Nat
    BY <1>2, OrderFacts, PlainFacts, NormalIsZone DEF Depths, LargestFree
  <2>2. p % s = 0
    <3>1. PICK k \in Nat : DmaPages = k * s
      <4>1. DmaPages = (DmaPages \div s) * s /\ DmaPages \div s \in Nat
        <5> DEFINE d == DmaPages
        <5>1. d \in Nat /\ d % s = 0
          BY <1>6, <2>1
        <5> HIDE DEF d, s
        <5>2. d = (d \div s) * s /\ d \div s \in Nat
          BY <1>2, <5>1
        <5> QED
          BY <5>2 DEF d
      <4> QED
        BY <4>1
    <3> HIDE DEF n, s
    <3>2. p = (k + n) * s /\ k + n \in Nat
      BY <1>2, <1>4, <2>1, <3>1
    <3> QED
      BY <1>2, <3>2, BlocksOfSize
  <2>3. PageZone(p) = "NORMAL"
    BY <1>6 DEF PageZone
  <2> QED
    BY <2>2, <2>3, OrderFacts DEF ExactOrder
<1>9. PICK L : Tiled(L)
  BY DEF ExactInv
<1>10. AreasClosed(mem) /\ Stacks(mem, nr_free, L)
  BY <1>1, <1>9 DEF ExactInv, Frame, ListsApart, Tiled
<1>11. Tiling(Free(L), resv .. p - 1)
  <2>1. (IF pc = "area_begin" THEN 0 ELSE scan.i) = scan.i
    BY <1>1
  <2>2. Scanned = resv .. p - 1
    BY <2>1 DEF Scanned
  <2> QED
    BY <1>1, <1>9, <2>2 DEF Tiled
<1>12. ~OnAList(nr_free, L, p)
  <2> DEFINE X == resv .. p - 1
  <2>1. p \notin X
    BY <1>6
  <2> HIDE DEF X
  <2>2. nr_free \in Depths /\ L \in StackTables /\ Tiling(Free(L), X)
    BY <1>10, <1>11, PlainFacts DEF Stacks, X
  <2> HIDE DEF p
  <2> QED
    BY <2>1, <2>2, OffLists DEF Free
<1> HIDE DEF p, s, n
<1>13. /\ AreasClosed(mem')
       /\ \E L2 : /\ Stacks(mem', nr_free', L2)
                  /\ Free(L2)' = Free(L) \union {<<"free", p, MAX_ORDER>>}
  <2>1. /\ mem' = list_add(mem, <<"page", p>>, <<"NORMAL", MAX_ORDER>>)
        /\ nr_free' = AddFree("NORMAL", MAX_ORDER, 1)
    BY <1>1, <1>4, <1>7
  <2> QED
    BY <1>2, <1>6, <1>8, <1>10, <1>12, <2>1, Adds, NormalIsZone
<1>14. PICK L2 : /\ Stacks(mem', nr_free', L2)
                 /\ Free(L2)' = Free(L) \union {c}
  BY <1>13
<1>15. Extent(c) = p .. p + s - 1 /\ c \in ClaimSet /\ c[2] % Size[c[3]] = 0
  BY <1>2, <1>6, <1>8 DEF Extent, ClaimSet, s
<1>16. Scanned' = (resv .. p - 1) \union Extent(c)
  <2>1. Scanned' = resv .. (DmaPages + (scan.i + s)) - 1
    BY <1>1, <1>5 DEF Scanned
  <2>2. (DmaPages + (scan.i + s)) - 1 = p + s - 1
    BY <1>2, <1>6 DEF p
  <2> QED
    BY <1>2, <1>6, <1>15, <2>1, <2>2
<1>17. Tiling(Free(L) \union {c}, (resv .. p - 1) \union Extent(c))
  <2> DEFINE X == resv .. p - 1
  <2>1. Extent(c) \intersect X = {} /\ Tiling(Free(L), X)
    BY <1>2, <1>6, <1>11, <1>15
  <2> HIDE DEF X, c
  <2>2. Tiling(Free(L) \union {c}, X \union Extent(c))
    BY <1>15, <2>1, TilingAdd
  <2> QED
    BY <2>2 DEF X
<1> QED
  BY <1>13, <1>14, <1>16, <1>17

\* A scan of either zone covers one more block.
LEMMA AreaScanExact ==
    ASSUME PlainMachines, Inv, BootInv, ExactInv, AreaScan PROVE ExactInv'
<1>1. /\ pc = "area_scan" /\ pc' = pc
      /\ UNCHANGED <<total, resv, page, spanned, call, held, reply>>
      /\ scan' = [scan EXCEPT !.i = scan.i + unit(scan.order)]
      /\ pc \in Scans /\ pc \notin Early /\ pc \notin Runs
      /\ scan \in [zone : Zones, order : Orders, i : Nat, pagenum : Nat]
  BY DEF AreaScan, Early, Scans, Runs, Inv, TypeOK
<1>2. ~InFirstCall' /\ pc' \notin {"split", "merge", "area_begin", "page_init"}
  BY <1>1 DEF InFirstCall
<1>3. /\ scan'.zone = scan.zone /\ scan'.order = scan.order /\ scan.order \in Orders
      /\ scan.zone \in Zones
  BY <1>1
<1>4. CleanRam'
  BY <1>1, CleanStays DEF ExactInv, Frame, FlagsClear
<1>5. FlagsClear' /\ Unheld' /\ HeldOnce' /\ EmptyMemory' /\ DmaSpan'
  BY <1>1, <1>2, <1>4 DEF ExactInv, Frame, FlagsClear, Unheld, HeldOnce, EmptyMemory, DmaSpan
<1>6. RaggedStops' /\ SplitFits' /\ Callers' /\ LowBegin'
  BY <1>1, <1>2 DEF RaggedStops, SplitFits, Callers, LowBegin
<1>7. CASE scan.zone = "DMA"
  <2>1. /\ LowTakes' /\ AreasClosed(mem')
        /\ \E L : Stacks(mem', nr_free', L) /\ Tiling(Free(L)', Scanned')
        /\ \A y \in Zones, k \in Orders :
              ~(y = "DMA" /\ k = scan.order) => nr_free'[y][k] = nr_free[y][k]
    BY <1>7, LowScanExact
  <2>2. NormalEmpty' /\ DmaEmpty'
    <3>1. ASSUME NEW k \in Orders PROVE nr_free'["NORMAL"][k] = 0
      BY <1>1, <1>7, <2>1, NormalIsZone DEF ExactInv, Frame, NormalEmpty
    <3>2. ASSUME NEW k \in Orders, k < scan.order PROVE nr_free'["DMA"][k] = 0
      <4>1. k # scan.order
        BY <1>3, <3>2, OrderFacts DEF Orders
      <4> QED
        BY <1>1, <1>3, <1>7, <2>1, <3>2, <4>1 DEF ExactInv, Frame, DmaEmpty
    <3> QED
      BY <1>1, <1>2, <1>3, <3>1, <3>2 DEF NormalEmpty, DmaEmpty
  <2>3. \E L : Tiled(L)'
    BY <1>1, <1>2, <2>1 DEF Tiled, FirstCall
  <2> QED
    BY <1>5, <1>6, <2>1, <2>2, <2>3 DEF ExactInv, Frame, ListsApart
<1>8. CASE scan.zone = "NORMAL"
  <2>1. /\ AreasClosed(mem')
        /\ \E L : Stacks(mem', nr_free', L) /\ Tiling(Free(L)', Scanned')
    BY <1>8, HighScanExact
  <2>2. NormalEmpty' /\ DmaEmpty' /\ LowTakes'
    BY <1>2, <1>3, <1>8 DEF NormalEmpty, DmaEmpty, LowTakes
  <2>3. \E L : Tiled(L)'
    BY <1>1, <1>2, <2>1 DEF Tiled, FirstCall
  <2> QED
    BY <1>5, <1>6, <2>1, <2>2, <2>3 DEF ExactInv, Frame, ListsApart
<1> QED
  BY <1>3, <1>7, <1>8 DEF Zones

\* Where one scan ends the next one begins.
LEMMA AreaEndExact ==
    ASSUME PlainMachines, Inv, BootInv, BootInv', ExactInv, AreaEnd PROVE ExactInv'
<1> DEFINE z    == scan.zone
           o    == scan.order
           left == (scan.pagenum - nr_free[z][o] * Size[o]) % ULong
<1>1. /\ pc = "area_scan" /\ scan.i >= scan.pagenum
      /\ IF left > spanned[z]
         THEN pc' = "BUG" /\ UNCHANGED scan
         ELSE IF left # 0 /\ o > 0
         THEN /\ scan' = [scan EXCEPT !.order = o - 1, !.pagenum = left]
              /\ pc' = "area_begin"
         ELSE IF z = "DMA"
         THEN scan' = [NoScan EXCEPT !.zone = "NORMAL"] /\ pc' = "area_begin"
         ELSE scan' = NoScan /\ pc' = "mm_test"
      /\ UNCHANGED <<total, resv, mem, page, spanned, nr_free, call, held, reply>>
      /\ pc \in Scans /\ pc \notin Early /\ pc \notin Runs
  BY DEF AreaEnd, area, Early, Scans, Runs
<1>2. /\ scan \in [zone : Zones, order : Orders, i : Nat, pagenum : Nat]
      /\ z \in Zones /\ o \in Orders /\ scan.i \in Nat /\ scan.pagenum \in Nat
      /\ o \in Nat
  BY OrderFacts DEF Inv, TypeOK, Orders
<1>3. CleanRam' /\ CleanRam
  BY <1>1, CleanStays DEF ExactInv, Frame, FlagsClear
<1>4. PICK L : Tiled(L)
  BY DEF ExactInv
<1>5. AreasClosed(mem') /\ Stacks(mem', nr_free', L) /\ Free(L)' = Free(L)
  BY <1>1, <1>4 DEF ExactInv, Frame, ListsApart, Tiled, Free
<1>6. HeldOnce' /\ (\A b \in Blocks : held'[b] = 0)
  BY <1>1 DEF ExactInv, Frame, Unheld, HeldOnce
<1>7. pc' \notin {"split", "merge", "mm_test_free", "page_init", "area_scan"} /\ pc' \notin Early
  BY <1>1 DEF Early
<1>8. ~InFirstCall' /\ FlagsClear' /\ Unheld' /\ EmptyMemory' /\ DmaSpan'
  <2>1. ~InFirstCall'
    BY <1>7 DEF InFirstCall
  <2>2. FlagsClear' /\ Unheld' /\ EmptyMemory'
    BY <1>3, <1>6, <1>7, <2>1 DEF FlagsClear, Unheld, EmptyMemory
  <2>3. DmaSpan'
    BY <1>1 DEF ExactInv, Frame, DmaSpan
  <2> QED
    BY <2>1, <2>2, <2>3
<1>9. LowTakes' /\ SplitFits' /\ Callers' /\ ListsApart'
  BY <1>5, <1>7 DEF LowTakes, SplitFits, Callers, ListsApart
<1>10. CASE z = "DMA"
  <2> DEFINE s == Size[o]
             n == nr_free["DMA"][o]
             b == scan.pagenum
             t == Taken
  <2>1. /\ resv <= b /\ b <= DmaPages /\ b % s = 0 /\ scan.i = b
        /\ t >= 0 /\ t % s = 0 /\ t < resv + s /\ (n > 0 => resv <= t)
        /\ t = b - n * s /\ n \in Nat /\ s \in Nat \ {0}
    <3>1. /\ resv <= b /\ b <= DmaPages /\ b % s = 0 /\ scan.i <= b
          /\ t >= 0 /\ t % s = 0 /\ t < resv + s /\ (n > 0 => resv <= t)
      BY <1>1, <1>10 DEF ExactInv, Frame, LowTakes
    <3>2. scan.i = b
      BY <1>1, <1>2, <3>1
    <3>3. t = b - n * s /\ n \in Nat /\ s \in Nat \ {0}
      BY <1>2, <1>10, <3>2, OrderFacts, PlainFacts DEF Taken, Depths
    <3> QED
      BY <3>1, <3>2, <3>3
  <2> HIDE DEF t
  <2>2. n * s \in Nat /\ (n = 0 => n * s = 0)
    BY <2>1, BlocksOfSize
  <2>3. t \in Nat /\ t <= b /\ resv <= t
    <3> HIDE DEF n, s, b
    <3>1. t \in Nat /\ t <= b
      BY <1>2, <2>1, <2>2 DEF b
    <3> QED
      BY <1>2, <2>1, <2>2, <3>1, PlainFacts DEF b
  <2>4. left = t
    <3>1. left = t % ULong
      BY <1>10, <2>1
    <3>2. t \in 0 .. ULong - 1
      <4>1. /\ DmaPages < ULong /\ DmaPages \in Nat /\ ULong \in Nat \ {0}
        BY PlainFacts
      <4> QED
        BY <1>2, <2>1, <2>3, <4>1
    <3>3. t % ULong = t
      BY <3>2, ModValues, PlainFacts
    <3> QED
      BY <3>1, <3>3
  <2> HIDE DEF left, s, n, b
  <2>5. ~(left > spanned[z]) /\ left # 0
    <3>1. spanned[z] = DmaPages /\ resv # 0
      BY <1>1, <1>10, PlainFacts DEF ExactInv, Frame, DmaSpan
    <3>2. DmaPages \in Nat /\ resv \in Nat
      BY PlainFacts
    <3> QED
      BY <1>2, <2>1, <2>3, <2>4, <3>1, <3>2 DEF b
  <2>6. pc' = "area_begin" /\ pc' \in Scans /\ pc' \notin Runs
    BY <1>1, <1>10, <2>5 DEF Scans, Runs
  <2>7. Tiling(Free(L), t .. DmaPages - 1)
    <3>1. Scanned = (t .. scan.i - 1) \union (b .. DmaPages - 1)
      BY <1>1, <1>10 DEF Scanned, t, b
    <3>2. Scanned = t .. DmaPages - 1
      BY <1>2, <2>1, <2>3, <3>1, PlainFacts DEF b
    <3> QED
      BY <1>1, <1>4, <3>2 DEF Tiled
  <2>8. \A k \in Orders : nr_free'["NORMAL"][k] = 0
    BY <1>1, <1>10 DEF ExactInv, Frame, NormalEmpty
  <2>9. NormalEmpty' /\ RaggedStops'
    BY <2>6, <2>8 DEF NormalEmpty, RaggedStops
  <2>10. CASE o > 0
    <3>1. scan' = [scan EXCEPT !.order = o - 1, !.pagenum = t]
      BY <1>1, <2>4, <2>5, <2>10
    <3>2. /\ scan'.order = o - 1 /\ scan'.pagenum = t /\ scan'.zone = "DMA"
      BY <1>2, <1>10, <3>1
    <3>3. o - 1 \in Orders /\ o - 1 # MAX_ORDER /\ o - 1 <= o /\ o - 1 < o
      BY <1>2, <2>10, OrderFacts DEF Orders
    <3>4. Bound' = t
      BY <3>2, <3>3 DEF Bound
    <3>5. t % Size[o - 1] = 0
      BY <1>2, <2>1, <2>3, <3>3, AlignedBelow DEF s
    <3>6. LowBegin'
      BY <1>1, <1>2, <2>1, <2>3, <3>2, <3>4, <3>5, PlainFacts DEF LowBegin, b
    <3>7. DmaEmpty'
      <4>1. ASSUME NEW k \in Orders, k < o PROVE nr_free'["DMA"][k] = 0
        BY <1>1, <1>10, <4>1 DEF ExactInv, Frame, DmaEmpty
      <4>2. \A k \in Orders : k < o - 1 => k < o
        BY <1>2, OrderFacts DEF Orders
      <4> QED
        BY <2>6, <3>2, <3>3, <4>1, <4>2 DEF DmaEmpty
    <3>8. Scanned' = t .. DmaPages - 1
      BY <2>6, <3>2, <3>4 DEF Scanned
    <3>9. Tiled(L)'
      BY <1>5, <1>8, <2>6, <2>7, <3>8 DEF Tiled, FirstCall
    <3> QED
      BY <1>6, <1>8, <1>9, <2>9, <3>6, <3>7, <3>9 DEF ExactInv, Frame
  <2>11. CASE ~(o > 0)
    <3>1. scan' = [NoScan EXCEPT !.zone = "NORMAL"]
      BY <1>1, <1>10, <2>5, <2>11
    <3>2. scan'.zone = "NORMAL"
      BY <3>1 DEF NoScan
    <3>3. t = resv
      <4>1. o = 0 /\ Size[0] = 1
        BY <1>2, <2>11, MmAssumption
      <4>2. t < resv + 1
        BY <2>1, <4>1 DEF s
      <4> QED
        BY <2>3, <4>2, PlainFacts
    <3>4. LowBegin' /\ DmaEmpty'
      BY <2>6, <3>2 DEF LowBegin, DmaEmpty
    <3>5. Scanned' = resv .. DmaPages - 1
      <4>1. Scanned' = resv .. (DmaPages + 0) - 1
        BY <1>1, <2>6, <3>2 DEF Scanned
      <4> QED
        BY <4>1, PlainFacts
    <3>6. Tiled(L)'
      BY <1>5, <1>8, <2>6, <2>7, <3>3, <3>5 DEF Tiled, FirstCall
    <3> QED
      BY <1>6, <1>8, <1>9, <2>9, <3>4, <3>6 DEF ExactInv, Frame
  <2> QED
    BY <2>10, <2>11
<1>11. CASE z = "NORMAL"
  <2>1. \/ pc' = "mm_test" /\ LargestFree * Size[MAX_ORDER] = NormalCount
        \/ pc' = "BUG"
    BY <1>3, <1>11, HighScanEnds, PlainFacts
  <2>2. NormalEmpty' /\ DmaEmpty' /\ LowBegin'
    BY <2>1, <1>7 DEF NormalEmpty, DmaEmpty, LowBegin, Scans
  <2>3. CASE pc' = "BUG"
    <3>1. pc' \notin Scans \union Runs
      BY <2>3 DEF Scans, Runs
    <3>2. RaggedStops' /\ Tiled(L)'
      BY <1>8, <3>1 DEF RaggedStops, Tiled, FirstCall
    <3> QED
      BY <1>6, <1>8, <1>9, <2>2, <3>2 DEF ExactInv, Frame
  <2>4. CASE pc' = "mm_test" /\ LargestFree * Size[MAX_ORDER] = NormalCount
    <3>1. pc' \notin Scans /\ pc' \in Runs
      BY <2>4 DEF Scans, Runs
    <3>2. RaggedStops'
      <4>1. total' > DmaPages => (total' - DmaPages) % Size[MAX_ORDER] = 0
        BY <1>3, <2>4 DEF BootInv, BootsExactlyOn
      <4>2. ~(total' > DmaPages) => total' - DmaPages = 0
        BY <1>1, PlainFacts
      <4>3. 0 % Size[MAX_ORDER] = 0
        BY OrderFacts
      <4> QED
        BY <4>1, <4>2, <4>3 DEF RaggedStops, Whole
    <3>3. HeldClaims' = {} /\ CallClaims' = {}
      <4>1. \A q \in PageIndex, k \in Orders : ~(held'[<<q, k>>] > 0)
        BY <1>6 DEF Blocks
      <4> QED
        BY <1>7, <4>1 DEF HeldClaims, CallClaims
    <3>4. Scanned = resv .. total - 1
      <4>1. LargestFree * Size[MAX_ORDER] = scan.i
        BY <1>1, <1>3, <1>11 DEF BootInv, HighScan
      <4>2. DmaPages + scan.i = total
        BY <2>4, <4>1, PlainFacts DEF NormalCount
      <4>3. Scanned = resv .. (DmaPages + scan.i) - 1
        BY <1>1, <1>11 DEF Scanned
      <4> DEFINE e == DmaPages + scan.i
      <4>4. e = total /\ Scanned = resv .. e - 1
        BY <4>2, <4>3
      <4> HIDE DEF e
      <4> QED
        BY <4>4
    <3>5. Claims(L)' = Free(L)
      BY <1>5, <3>3 DEF Claims
    <3>6. Tiling(Claims(L)', resv' .. total' - 1)
      BY <1>1, <1>4, <3>4, <3>5 DEF Tiled
    <3>7. Tiled(L)'
      BY <1>5, <1>8, <3>1, <3>6 DEF Tiled, FirstCall
    <3> QED
      BY <1>6, <1>8, <1>9, <2>2, <3>2, <3>7 DEF ExactInv, Frame
  <2> QED
    BY <2>1, <2>3, <2>4
<1> QED
  BY <1>2, <1>10, <1>11 DEF Zones

-----------------------------------------------------------------------------
(* The steps from mm_test on.                                               *)
LEMMA WildExact ==
    ASSUME ExactInv, pc \notin Early, pc' = "wild", UNCHANGED spanned, HeldOnce'
    PROVE  ExactInv'
<1>1. pc' \notin Early \union Scans \union Runs
  BY DEF Early, Scans, Runs
<1>2. ~InFirstCall'
  BY DEF InFirstCall
<1>3. FlagsClear' /\ Unheld' /\ EmptyMemory' /\ DmaSpan'
  BY <1>1, <1>2 DEF FlagsClear, Unheld, EmptyMemory, ExactInv, Frame, DmaSpan, Runs
<1>4. /\ NormalEmpty' /\ DmaEmpty' /\ RaggedStops' /\ ListsApart'
      /\ LowBegin' /\ LowTakes' /\ SplitFits' /\ Callers'
  BY <1>1 DEF NormalEmpty, DmaEmpty, RaggedStops, ListsApart, LowBegin, LowTakes, SplitFits,
     Callers
<1>5. \A L : Tiled(L)'
  BY <1>1, <1>2 DEF Tiled, FirstCall
<1> QED
  BY <1>3, <1>4, <1>5 DEF ExactInv, Frame

\* What is to be shown of a step from mm_test on.
LEMMA RunExact ==
    ASSUME ExactInv, pc \in Runs, pc' \in Runs \ {"mm_test"}, UNCHANGED <<total, resv, spanned>>,
           FlagsClear', HeldOnce', SplitFits', Callers', AreasClosed(mem'),
           \E L : /\ Stacks(mem', nr_free', L)
                  /\ Tiling(Claims(L)', resv .. total - 1)
                  /\ FirstCall(L)'
    PROVE  ExactInv'
<1>1. /\ pc \notin Early /\ pc' \notin Early \union Scans \union {"mm_test"}
      /\ pc' \notin {"page_init", "area_begin", "area_scan"}
  BY DEF Early, Scans, Runs
<1>2. Unheld' /\ EmptyMemory' /\ DmaSpan' /\ RaggedStops' /\ ListsApart'
  BY <1>1 DEF Unheld, EmptyMemory, DmaSpan, RaggedStops, ListsApart, ExactInv, Frame, Whole
<1>3. NormalEmpty' /\ DmaEmpty' /\ LowBegin' /\ LowTakes'
  BY <1>1 DEF NormalEmpty, DmaEmpty, LowBegin, LowTakes
<1>4. \E L : Tiled(L)'
  BY <1>1 DEF Tiled
<1> QED
  BY <1>2, <1>3, <1>4 DEF ExactInv, Frame

\* A step that changes neither lists, calls nor holders.
LEMMA StutterExact ==
    ASSUME ExactInv, UNCHANGED <<pc, total, resv, mem, page, spanned, nr_free, scan, call, held>>
    PROVE  ExactInv'
<1>1. CleanRam' <=> CleanRam
  BY DEF CleanRam, page_isfree
<1>2. FlagsClear'
  BY <1>1 DEF ExactInv, Frame, FlagsClear, InFirstCall, page_isfree
<1>3. Unheld' /\ HeldOnce' /\ EmptyMemory' /\ DmaSpan' /\ NormalEmpty' /\ DmaEmpty'
  BY DEF ExactInv, Frame, Unheld, HeldOnce, EmptyMemory, DmaSpan, NormalEmpty, DmaEmpty
<1>4. RaggedStops' /\ ListsApart' /\ SplitFits' /\ Callers'
  BY DEF ExactInv, Frame, RaggedStops, Whole, ListsApart, SplitFits, Callers
<1>5. LowBegin' /\ LowTakes'
  BY DEF ExactInv, Frame, LowBegin, LowTakes, Bound, Taken
<1>6. ASSUME NEW L, Tiled(L) PROVE Tiled(L)'
  <2>1. Free(L)' = Free(L) /\ Scanned' = Scanned
    BY DEF Free, Scanned, Bound, Taken
  <2>2. Claims(L)' = Claims(L)
    BY <2>1 DEF Claims, HeldClaims, CallClaims
  <2>3. FirstCall(L)'
    BY <1>6 DEF Tiled, FirstCall, InFirstCall, HighBlock
  <2> QED
    BY <1>6, <2>1, <2>2, <2>3 DEF Tiled
<1> QED
  BY <1>2, <1>3, <1>4, <1>5, <1>6 DEF ExactInv, Frame

BlockTaken(L, by, w) ==
    \E k \in Orders : \E p \in PageIndex :
        /\ FirstArea("NORMAL", w, k)
        /\ Popped(nr_free, L, k, p, nr_free')
        /\ mem.next[<<"NORMAL", k>>] = Pg(p)
        /\ call' = [by |-> by, zone |-> "NORMAL", want |-> w, order |-> k, page |-> p]
        /\ mem'.next[Pg(p)] = LIST_POISON1 /\ mem'.prev[Pg(p)] = LIST_POISON2
        /\ \A j \in Orders : w <= j /\ j < k => nr_free'["NORMAL"][j] = 0

(* rmqueue takes the block that is first on its list, and no other.         *)
LEMMA Takes ==
    ASSUME PlainMachines, Inv, ExactInv, pc \in {"mm_test", "idle"}, NEW by, NEW w \in Nat,
           Rmqueue(by, "NORMAL", w), NEW L, Tiled(L)
    PROVE  /\ pc' = "split" /\ AreasClosed(mem') /\ Stacks(mem', nr_free', L)
           /\ Tiling(Claims(L)', resv .. total - 1)
           /\ BlockTaken(L, by, w)
<1>1. PICK k \in Orders :
        /\ FirstArea("NORMAL", w, k)
        /\ LET cell == mem.next[<<"NORMAL", k>>]
           IN  IF cell \in PageCells
               THEN /\ mem' = list_del(mem, cell)
                    /\ nr_free' = AddFree("NORMAL", k, -1)
                    /\ call' = [by |-> by, zone |-> "NORMAL", want |-> w, order |-> k,
                                page |-> cell[2]]
                    /\ pc' = "split"
               ELSE pc' = "wild" /\ UNCHANGED <<mem, nr_free, call>>
        /\ UNCHANGED <<total, resv, page, spanned, scan, held, reply>>
  BY DEF Rmqueue
<1> DEFINE n == nr_free["NORMAL"][k]
           p == L["NORMAL"][k][n]
<1>2. /\ nr_free \in Depths /\ mem \in Memory(Cell) /\ ULong \in Nat \ {0}
      /\ MaxPages \in Nat /\ MaxPages + 1 < ULong
  BY PlainFacts
<1>3. /\ pc \in Runs /\ AreasClosed(mem) /\ Stacks(mem, nr_free, L)
      /\ Tiling(Claims(L), resv .. total - 1) /\ pc \notin {"split", "merge"}
  BY DEF Runs, Tiled, ExactInv, Frame, ListsApart
<1>4. L \in StackTables /\ InZone(nr_free, L) /\ Distinct(nr_free, L)
  BY <1>3 DEF Stacks
<1>5. n \in Nat /\ n > 0 /\ n <= MaxPages
  <2>1. n \in Nat /\ n <= MaxPages
    BY <1>2, <1>4, StackFits, NormalIsZone
  <2>2. n # 0
    BY <1>1 DEF FirstArea
  <2> QED
    BY <2>1, <2>2
<1>6. p \in PageIndex /\ mem.next[<<"NORMAL", k>>] = Pg(p)
  <2>1. p \in PageIndex
    BY <1>4, <1>5, NormalIsZone DEF StackTables
  <2>2. mem.next[<<"NORMAL", k>>] = Pg(p)
    BY <1>3, <1>5, NormalIsZone DEF Stacks, Threaded
  <2> QED
    BY <2>1, <2>2
<1>7. Pg(p) \in PageCells /\ Pg(p)[2] = p
  BY <1>6 DEF Pg, PageCells
<1>8. /\ mem' = list_del(mem, Pg(p)) /\ nr_free' = AddFree("NORMAL", k, -1)
      /\ call' = [by |-> by, zone |-> "NORMAL", want |-> w, order |-> k, page |-> p]
      /\ pc' = "split" /\ UNCHANGED <<total, resv, held>>
  <2> HIDE DEF p
  <2> QED
    BY <1>1, <1>6, <1>7
<1>9. Popped(nr_free, L, k, p, nr_free')
  <2> HIDE DEF n
  <2>1. nr_free' = [nr_free EXCEPT !["NORMAL"][k] = (n + (-1)) % ULong]
    BY <1>8 DEF AddFree, n
  <2>2. (n + (-1)) % ULong = n - 1
    <3> DEFINE a == n + (-1)
    <3>1. a \in Int /\ a \in 0 .. ULong - 1 /\ a = n - 1
      BY <1>2, <1>5
    <3> HIDE DEF a
    <3>2. a % ULong = a
      BY <1>2, <3>1, ModValues
    <3> QED
      BY <3>1, <3>2 DEF a
  <2>3. nr_free' = [nr_free EXCEPT !["NORMAL"][k] = n - 1]
    BY <2>1, <2>2
  <2> QED
    BY <1>5, <2>3 DEF Popped, n
<1> HIDE DEF n, p
<1>10. /\ Stacks(mem', nr_free', L) /\ AreasClosed(mem')
       /\ mem'.next[Pg(p)] = LIST_POISON1 /\ mem'.prev[Pg(p)] = LIST_POISON2
  BY <1>2, <1>3, <1>8, <1>9, PopStacks
<1>11. /\ FreeClaims(nr_free', L) = FreeClaims(nr_free, L) \ {<<"free", p, k>>}
       /\ <<"free", p, k>> \in FreeClaims(nr_free, L)
  BY <1>2, <1>4, <1>9, PopClaims
<1>12. \A j \in Orders : w <= j /\ j < k => nr_free'["NORMAL"][j] = 0
  <2>1. nr_free' = [nr_free EXCEPT !["NORMAL"][k] = nr_free["NORMAL"][k] - 1]
    BY <1>9 DEF Popped
  <2>2. ASSUME NEW j \in Orders, w <= j, j < k PROVE nr_free'["NORMAL"][j] = 0
    <3>1. nr_free["NORMAL"][j] = 0
      BY <1>1, <2>2 DEF FirstArea
    <3>2. j # k
      BY <2>2, OrderFacts DEF Orders
    <3> QED
      BY <1>2, <2>1, <3>1, <3>2, NormalIsZone DEF Depths
  <2> QED
    BY <2>2
<1>13. Tiling(Claims(L)', resv .. total - 1)
  <2> DEFINE C == Claims(L)
             E == (C \ {<<"free", p, k>>}) \union {<<"call", p, k>>}
  <2>1. <<"free", p, k>> \in C
    BY <1>11 DEF Claims, Free
  <2> HIDE DEF C
  <2>2. Tiling(C, resv .. total - 1)
    BY <1>3 DEF C
  <2>3. Tiling(E, resv .. total - 1)
    BY <2>1, <2>2, TilingRelabel
  <2>4. Claims(L)' = E
    <3>1. CallClaims' = {<<"call", p, k>>} /\ CallClaims = {} /\ HeldClaims' = HeldClaims
      BY <1>3, <1>8 DEF CallClaims, HeldClaims
    <3>2. <<"free", p, k>> \notin HeldClaims
      BY DEF HeldClaims
    <3> QED
      BY <1>11, <3>1, <3>2 DEF Claims, Free, C
  <2> QED
    BY <2>3, <2>4
<1> QED
  BY <1>1, <1>6, <1>8, <1>9, <1>10, <1>12, <1>13 DEF BlockTaken

\* mm_test is given the highest block to split.
LEMMA MmTestExact ==
    ASSUME PlainMachines, Inv, BootInv, ExactInv, MmTest PROVE ExactInv'
<1>1. /\ pc = "mm_test" /\ UNCHANGED <<total, resv, page, spanned, held>>
      /\ pc \in Runs /\ pc \notin Early
  <2>1. pc = "mm_test" /\ UNCHANGED <<total, resv, page, spanned, held>>
    BY DEF MmTest, Alloc, Rmqueue, area
  <2> QED
    BY <2>1 DEF Runs, Early
<1>2. HeldOnce'
  BY <1>1 DEF ExactInv, Frame, HeldOnce
<1>3. CASE pc' = "wild"
  BY <1>1, <1>2, <1>3, WildExact
<1>4. CASE pc' # "wild"
  <2>1. Rmqueue("mm_test", "NORMAL", 0)
    BY <1>4 DEF MmTest, Alloc, zonelist
  <2>2. PICK L : Tiled(L)
    BY DEF ExactInv
  <2>3. /\ pc' = "split" /\ AreasClosed(mem') /\ Stacks(mem', nr_free', L)
        /\ Tiling(Claims(L)', resv .. total - 1) /\ BlockTaken(L, "mm_test", 0)
    <3>1. 0 \in Nat /\ pc \in {"mm_test", "idle"}
      BY <1>1
    <3> QED
      BY <2>1, <2>2, <3>1, Takes
  <2>4. PICK k \in Orders, p \in PageIndex :
              /\ FirstArea("NORMAL", 0, k)
              /\ mem.next[<<"NORMAL", k>>] = Pg(p)
              /\ call' = [by |-> "mm_test", zone |-> "NORMAL", want |-> 0, order |-> k,
                          page |-> p]
              /\ mem'.next[Pg(p)] = LIST_POISON1 /\ mem'.prev[Pg(p)] = LIST_POISON2
              /\ \A j \in Orders : 0 <= j /\ j < k => nr_free'["NORMAL"][j] = 0
    BY <2>3 DEF BlockTaken
  <2>5. CleanRam
    BY <1>1 DEF ExactInv, Frame, FlagsClear
  <2>6. k = MAX_ORDER /\ p = HighBlock
    <3>1. k = MAX_ORDER
      BY <1>1, <2>4, <2>5 DEF FirstArea, BootInv, LargestOnly
    <3>2. LargestFree # 0
      BY <2>4, <3>1 DEF FirstArea, LargestFree
    <3>3. mem.next[NormalHead] = Pg(total - Size[MAX_ORDER])
      BY <1>1, <2>5, <3>2 DEF BootInv, TestReady, Pg
    <3>4. mem.next[NormalHead] = Pg(p)
      BY <2>4, <3>1 DEF NormalHead
    <3> QED
      BY <3>1, <3>3, <3>4, CellsApart DEF HighBlock
  <2>7. /\ call'.by = "mm_test" /\ call'.want = 0 /\ call'.order = k /\ call'.page = p
    BY <2>4
  <2>8. FlagsClear'
    <3>1. \A q \in resv .. total - 1 : page_isfree(q)
      BY <2>5 DEF CleanRam
    <3> QED
      BY <1>1, <2>3, <3>1 DEF FlagsClear, InFirstCall, Early, Scans, page_isfree
  <2>9. SplitFits' /\ Callers'
    <3>1. 0 <= k /\ call'.want <= call'.order
      BY <2>7, OrderFacts DEF Orders
    <3> QED
      BY <2>3, <2>4, <2>7, <3>1 DEF SplitFits, Callers
  <2>10. FirstCall(L)'
    <3>1. \A o \in Orders \ {MAX_ORDER} : ~(o >= MAX_ORDER)
      BY OrderFacts DEF Orders
    <3>2. HighBlock' = HighBlock
      BY <1>1 DEF HighBlock
    <3> QED
      BY <2>3, <2>4, <2>6, <2>7, <3>1, <3>2 DEF FirstCall
  <2>11. pc' \in Runs \ {"mm_test"} /\ Tiling(Claims(L)', resv' .. total' - 1)
    BY <1>1, <2>3 DEF Runs
  <2> QED
    BY <1>1, <1>2, <2>3, <2>8, <2>9, <2>10, <2>11, RunExact
<1> QED
  BY <1>3, <1>4

\* A caller's block passes from its list into the call.
LEMMA AllocExact ==
    ASSUME PlainMachines, Inv, ExactInv, NEW w \in Nat, pc = "idle", Alloc("client", w)
    PROVE  ExactInv'
<1>1. UNCHANGED <<total, resv, page, spanned, held>> /\ pc \in Runs
  BY DEF Alloc, Rmqueue, Runs
<1>2. HeldOnce'
  BY <1>1 DEF ExactInv, Frame, HeldOnce
<1>3. Rmqueue("client", "NORMAL", w)
  BY DEF Alloc, zonelist
<1>4. PICK L : Tiled(L)
  BY DEF ExactInv
<1>5. /\ pc' = "split" /\ AreasClosed(mem') /\ Stacks(mem', nr_free', L)
      /\ Tiling(Claims(L)', resv .. total - 1) /\ BlockTaken(L, "client", w)
  BY <1>1, <1>3, <1>4, Takes
<1>6. PICK k \in Orders, p \in PageIndex :
            /\ FirstArea("NORMAL", w, k)
            /\ call' = [by |-> "client", zone |-> "NORMAL", want |-> w, order |-> k,
                        page |-> p]
            /\ \A j \in Orders : w <= j /\ j < k => nr_free'["NORMAL"][j] = 0
  BY <1>5 DEF BlockTaken
<1>7. call'.by = "client" /\ call'.want = w /\ call'.order = k
  BY <1>6
<1>8. ~InFirstCall' /\ FirstCall(L)'
  BY <1>7 DEF InFirstCall, FirstCall
<1>9. FlagsClear' /\ SplitFits' /\ Callers'
  <2>1. k >= w /\ k \in Int /\ w \in Int
    BY <1>1, <1>6, OrderFacts DEF FirstArea, Orders
  <2> QED
    BY <1>5, <1>6, <1>7, <1>8, <2>1 DEF FlagsClear, SplitFits, Callers, Early, Scans
<1>10. pc' \in Runs \ {"mm_test"} /\ Tiling(Claims(L)', resv' .. total' - 1)
  BY <1>1, <1>5 DEF Runs
<1> QED
  BY <1>1, <1>2, <1>5, <1>8, <1>9, <1>10, RunExact

\* What is known within a call.
LEMMA CallFacts ==
    ASSUME PlainMachines, Inv, ExactInv, NEW L, Tiled(L), pc \in {"split", "merge"}
    PROVE  /\ pc \in Runs /\ pc \notin Early /\ AreasClosed(mem) /\ Stacks(mem, nr_free, L)
           /\ L \in StackTables
           /\ Tiling(Claims(L), resv .. total - 1) /\ FirstCall(L) /\ HeldOnce
           /\ call \in [by : {"client", "mm_test"}, zone : Zones, want : Orders,
                        order : Orders, page : PageIndex]
           /\ call.order \in Orders /\ call.want \in Orders /\ call.page \in PageIndex
           /\ call.zone = "NORMAL" /\ DmaPages <= call.page /\ call.page < total
           /\ CallClaims = {<<"call", call.page, call.order>>}
           /\ <<"call", call.page, call.order>> \in Claims(L)
           /\ call.page % Size[call.order] = 0
           /\ ~OnAList(nr_free, L, call.page)
<1>1. /\ pc \in Runs /\ pc \notin Early /\ AreasClosed(mem) /\ Stacks(mem, nr_free, L)
      /\ Tiling(Claims(L), resv .. total - 1) /\ FirstCall(L) /\ HeldOnce
  BY DEF Runs, Early, Tiled, ExactInv, Frame, ListsApart
<1>2. L \in StackTables /\ nr_free \in Depths
  BY <1>1, PlainFacts DEF Stacks
<1>3. /\ call \in [by : {"client", "mm_test"}, zone : Zones, want : Orders,
                   order : Orders, page : PageIndex]
      /\ call.zone = "NORMAL" /\ call.page \in NormalPages
  BY DEF Inv, TypeOK, CallIsNormal
<1>4. DmaPages <= call.page /\ call.page < total
  BY <1>3, PlainFacts DEF NormalPages
<1>5. /\ CallClaims = {<<"call", call.page, call.order>>}
      /\ <<"call", call.page, call.order>> \in Claims(L)
  BY DEF CallClaims, Claims
<1> DEFINE c == <<"call", call.page, call.order>>
<1>6. c \in Claims(L) /\ c[1] # "free" /\ c[2] = call.page /\ c[3] = call.order
  BY <1>5
<1> HIDE DEF c
<1>7. call.page % Size[call.order] = 0
  BY <1>1, <1>6 DEF Tiling, Aligned
<1>8. ~OnAList(nr_free, L, call.page)
  <2>1. call.page \in Extent(c)
    BY <1>1, <1>6, FirstPage
  <2>2. FreeClaims(nr_free, L) \subseteq Claims(L)
    BY DEF Claims, Free
  <2> QED
    BY <1>1, <1>2, <1>6, <2>1, <2>2, OffLists
<1> QED
  BY <1>1, <1>2, <1>3, <1>4, <1>5, <1>7, <1>8

\* The block mm_test splits, and joins again, begins at a whole largest block.
LEMMA HighAligned ==
    ASSUME PlainMachines, Inv, Whole, HighBlock \in Nat
    PROVE  HighBlock % Size[MAX_ORDER] = 0
<1> DEFINE s == Size[MAX_ORDER]
           e == total - DmaPages
<1>1. /\ s \in Nat \ {0} /\ e \in Nat /\ DmaPages \in Nat /\ total \in Nat
      /\ DmaPages % s = 0 /\ e % s = 0
  BY OrderFacts, PlainFacts DEF Whole
<1>2. total = DmaPages + e /\ HighBlock + s = total
  BY <1>1 DEF HighBlock
<1> HIDE DEF s, e
<1>3. PICK j \in Nat : DmaPages = j * s
  <2>1. DmaPages = (DmaPages \div s) * s /\ DmaPages \div s \in Nat
    BY <1>1
  <2> QED
    BY <2>1
<1>4. PICK k \in Nat : e = k * s
  <2>1. e = (e \div s) * s /\ e \div s \in Nat
    BY <1>1
  <2> QED
    BY <2>1
<1>5. total = (j + k) * s
  BY <1>1, <1>2, <1>3, <1>4
<1>6. j + k # 0
  BY <1>1, <1>2, <1>5
<1>7. HighBlock = ((j + k) - 1) * s /\ (j + k) - 1 \in Nat
  BY <1>1, <1>2, <1>5, <1>6
<1> QED
  BY <1>1, <1>7, BlocksOfSize DEF s

\* alloc_pages keeps one half and gives the other back.
LEMMA SplitExact ==
    ASSUME PlainMachines, Inv, ExactInv, Split PROVE ExactInv'
<1> DEFINE o == call.order - 1
           p == call.page
           q == call.page + Size[o]
<1>1. /\ pc = "split" /\ call.order > call.want
      /\ UNCHANGED <<total, resv, page, spanned, held>>
      /\ \/ /\ q < total /\ pc' = pc
            /\ mem' = list_add(mem, <<"page", q>>, <<call.zone, o>>)
            /\ nr_free' = AddFree(call.zone, o, 1)
            /\ call' = [call EXCEPT !.order = o]
         \/ pc' = "wild"
  BY DEF Split, second_half
<1>2. PICK L : Tiled(L)
  BY DEF ExactInv
<1>3. /\ pc \in Runs /\ pc \notin Early /\ AreasClosed(mem) /\ Stacks(mem, nr_free, L)
      /\ L \in StackTables
      /\ Tiling(Claims(L), resv .. total - 1) /\ FirstCall(L) /\ HeldOnce
      /\ call \in [by : {"client", "mm_test"}, zone : Zones, want : Orders,
                   order : Orders, page : PageIndex]
      /\ call.order \in Orders /\ call.want \in Orders /\ p \in PageIndex
      /\ call.zone = "NORMAL" /\ DmaPages <= p /\ p < total
      /\ CallClaims = {<<"call", p, call.order>>}
      /\ <<"call", p, call.order>> \in Claims(L)
      /\ p % Size[call.order] = 0
  BY <1>1, <1>2, CallFacts
<1>4. HeldOnce'
  BY <1>1, <1>3 DEF HeldOnce
<1>5. CASE pc' = "wild"
  BY <1>1, <1>3, <1>4, <1>5, WildExact
<1>6. CASE pc' # "wild"
  <2>1. /\ q < total /\ pc' = pc
        /\ mem' = list_add(mem, <<"page", q>>, <<"NORMAL", o>>)
        /\ nr_free' = AddFree("NORMAL", o, 1)
        /\ call' = [call EXCEPT !.order = o]
    BY <1>1, <1>3, <1>6
  <2>2. /\ o \in Orders \ {MAX_ORDER} /\ o + 1 = call.order /\ call.want <= o
        /\ o \in Nat /\ call.order \in Nat /\ call.want \in Nat /\ MAX_ORDER \in Nat
    BY <1>1, <1>3, OrderFacts DEF Orders
  <2>3. call'.order = o /\ call'.page = p /\ call'.want = call.want /\ call'.by = call.by
    BY <1>3, <2>1
  <2> HIDE DEF o
  <2>4. Size[o] \in Nat \ {0} /\ p \in Nat /\ q \in PageIndex /\ DmaPages <= q /\ q # p
    <3>1. Size[o] \in Nat \ {0} /\ p \in Nat
      BY <1>3, <2>2, OrderFacts DEF PageIndex
    <3>2. q \in Nat /\ DmaPages <= q /\ q # p
      <4>1. DmaPages \in Nat /\ DmaPages <= p
        BY <1>3, PlainFacts
      <4> QED
        BY <3>1, <4>1
    <3>3. q \in PageIndex
      BY <2>1, <3>2, PlainFacts
    <3> QED
      BY <3>1, <3>2, <3>3
  <2> DEFINE c1 == <<"call", p, o + 1>>
             c2 == <<"call", p, o>>
             f  == <<"free", q, o>>
  <2>5. /\ q % Size[o] = 0 /\ q % Size[o + 1] # 0
        /\ Extent(c1) = Extent(c2) \union Extent(f) /\ q \in Extent(f)
    <3>1. p % Size[o + 1] = 0
      BY <1>3, <2>2
    <3>2. /\ q % Size[o] = 0 /\ q % Size[o + 1] # 0
          /\ Extent(c1) = Extent(c2) \union Extent(f)
      BY <1>3, <2>2, <2>4, <3>1, Halves
    <3>3. q \in Extent(f)
      BY <2>4 DEF Extent, PageIndex
    <3> QED
      BY <3>2, <3>3
  <2> HIDE DEF q
  <2>6. ~OnAList(nr_free, L, q)
    <3>1. c1 \in Claims(L) /\ c1[1] # "free" /\ q \in Extent(c1)
      BY <1>3, <2>2, <2>5
    <3> HIDE DEF c1
    <3>2. FreeClaims(nr_free, L) \subseteq Claims(L)
      BY DEF Claims, Free
    <3>3. nr_free \in Depths
      BY PlainFacts
    <3> QED
      BY <1>3, <3>1, <3>2, <3>3, OffLists
  <2>7. PageZone(q) = "NORMAL" /\ ExactOrder(q, o)
    <3>1. ~(q < DmaPages)
      BY <2>4, PlainFacts DEF PageIndex
    <3> QED
      BY <2>5, <3>1 DEF PageZone, ExactOrder
  <2>8. /\ AreasClosed(mem') /\ nr_free["NORMAL"][o] \in Nat
        /\ \E L2 : /\ Pushed(nr_free, L, "NORMAL", o, q, nr_free', L2)
                   /\ Stacks(mem', nr_free', L2)
                   /\ Free(L2)' = Free(L) \union {f}
    <3>1. o \in Orders /\ "NORMAL" # "DMA"
      BY <2>2
    <3> QED
      BY <1>3, <2>1, <2>4, <2>6, <2>7, <3>1, Adds, NormalIsZone
  <2>9. PICK L2 : /\ Pushed(nr_free, L, "NORMAL", o, q, nr_free', L2)
                  /\ Stacks(mem', nr_free', L2)
                  /\ Free(L2)' = Free(L) \union {f}
    BY <2>8
  <2>10. Tiling(Claims(L2)', resv' .. total' - 1)
    <3>1. Tiling((Claims(L) \ {c1}) \union {c2, f}, resv .. total - 1)
      <4>1. c1 \in Claims(L) /\ p + Size[o] \in PageIndex
        BY <1>3, <2>2, <2>4 DEF q
      <4>2. Tiling((Claims(L) \ {<<"call", p, o + 1>>})
                       \union {<<"call", p, o>>, <<"free", p + Size[o], o>>}, resv .. total - 1)
        <5> DEFINE C == Claims(L)
                   X == resv .. total - 1
        <5>1. Tiling(C, X) /\ <<"call", p, o + 1>> \in C
          BY <1>3, <4>1
        <5> HIDE DEF C, X, p
        <5>2. Tiling((C \ {<<"call", p, o + 1>>})
                         \union {<<"call", p, o>>, <<"free", p + Size[o], o>>}, X)
          BY <2>2, <4>1, <5>1, TilingSplit
        <5> QED
          BY <5>2 DEF C, X
      <4> QED
        BY <4>2 DEF q
    <3>2. CallClaims' = {c2} /\ HeldClaims' = HeldClaims
      BY <1>1, <2>1, <2>3 DEF CallClaims, HeldClaims
    <3>3. c1 \notin Free(L) /\ c1 \notin HeldClaims /\ CallClaims = {c1}
      BY <1>3, <2>2 DEF Free, FreeClaims, HeldClaims
    <3> HIDE DEF c1, c2, f
    <3>4. Claims(L2)' = (Claims(L) \ {c1}) \union {c2, f}
      BY <2>9, <3>2, <3>3 DEF Claims
    <3> QED
      BY <1>1, <3>1, <3>4
  <2>11. /\ \A y \in Zones, k \in Orders :
               ~(y = "NORMAL" /\ k = o) => nr_free'[y][k] = nr_free[y][k] /\ L2[y][k] = L[y][k]
         /\ nr_free'["NORMAL"][o] = nr_free["NORMAL"][o] + 1
         /\ L2["NORMAL"][o][nr_free["NORMAL"][o] + 1] = q
    <3> DEFINE n == nr_free["NORMAL"][o]
    <3>1. n = nr_free["NORMAL"][o] /\ nr_free \in Depths /\ o \in Orders
      BY <2>2, PlainFacts
    <3> HIDE DEF n
    <3>2. /\ nr_free'["NORMAL"][o] = n + 1 /\ L2["NORMAL"][o][n + 1] = q
          /\ \A y \in Zones, k \in Orders :
                ~(y = "NORMAL" /\ k = o) => nr_free'[y][k] = nr_free[y][k] /\ L2[y][k] = L[y][k]
      BY <1>3, <2>4, <2>9, <3>1, PushTables, NormalIsZone
    <3> QED
      BY <3>2 DEF n
  <2>12. /\ nr_free["NORMAL"][o] = 0
         /\ \A k \in Orders : call.want <= k /\ k < o => nr_free'["NORMAL"][k] = 0
    <3>1. \A k \in Orders : call.want <= k /\ k < call.order => nr_free["NORMAL"][k] = 0
      BY <1>1 DEF ExactInv, Frame, SplitFits
    <3>2. \A k \in Orders : k < o => k < call.order /\ k # o
      BY <2>2 DEF Orders
    <3>3. o < call.order
      BY <2>2
    <3> QED
      BY <2>2, <2>11, <3>1, <3>2, <3>3, NormalIsZone
  <2>13. SplitFits' /\ Callers'
    BY <1>1, <2>1, <2>2, <2>3, <2>12 DEF SplitFits, Callers
  <2>14. FlagsClear'
    BY <1>1, <2>1, <2>3 DEF FlagsClear, InFirstCall, ExactInv, Frame, Early, Scans, page_isfree
  <2>15. FirstCall(L2)'
    <3> SUFFICES ASSUME InFirstCall' PROVE FirstCall(L2)'
      BY DEF FirstCall
    <3>1. InFirstCall
      BY <1>1, <2>1, <2>3 DEF InFirstCall
    <3>2. /\ p = HighBlock /\ call.want = 0
          /\ mem.next[Pg(p)] = LIST_POISON1 /\ mem.prev[Pg(p)] = LIST_POISON2
          /\ \A k \in Orders \ {MAX_ORDER} : k >= call.order =>
                nr_free["NORMAL"][k] = 1 /\ L["NORMAL"][k][1] = HighBlock + Size[k]
      BY <1>3, <3>1 DEF FirstCall
    <3>3. HighBlock' = HighBlock
      BY <1>1 DEF HighBlock
    <3>4. mem'.next[Pg(p)] = LIST_POISON1 /\ mem'.prev[Pg(p)] = LIST_POISON2
      <4> DEFINE h == <<"NORMAL", o>>
      <4>1. Pg(p) \in Cell /\ Pg(q) \in Cell /\ Pg(p) # Pg(q) /\ h \in Cell
            /\ Pg(q) # h /\ Pg(p) # h
        BY <1>3, <2>2, <2>4, CellsApart, NormalIsZone
      <4>2. Pg(p) # mem.next[h]
        <5>1. mem.next[h] \in AreaCells(o) \union Outside
          BY <1>3, <2>2, AreasApart DEF AreasClosed
        <5>2. p % Size[o + 1] = 0 /\ o < MAX_ORDER
          BY <1>3, <2>2 DEF Orders
        <5>3. ~ExactOrder(p, o)
          BY <5>2 DEF ExactOrder
        <5>4. Pg(p) \notin AreaCells(o)
          BY <1>3, <2>2, <5>3, AreasApart
        <5> QED
          BY <1>3, <5>1, <5>4, CellsApart
      <4>3. mem' = list_add(mem, Pg(q), h) /\ mem \in Memory(Cell)
        BY <2>1, PlainFacts DEF Pg
      <4> HIDE DEF h
      <4>4. mem'.next[Pg(p)] = mem.next[Pg(p)] /\ mem'.prev[Pg(p)] = mem.prev[Pg(p)]
        BY <4>1, <4>2, <4>3, AddFields
      <4> QED
        BY <3>2, <4>4
    <3>5. ASSUME NEW k \in Orders \ {MAX_ORDER}, k >= o
          PROVE  nr_free'["NORMAL"][k] = 1 /\ L2["NORMAL"][k][1] = HighBlock + Size[k]
      <4>1. CASE k = o
        <5>1. nr_free'["NORMAL"][k] = 0 + 1 /\ L2["NORMAL"][k][0 + 1] = q
          BY <2>11, <2>12, <4>1
        <5> QED
          BY <3>2, <4>1, <5>1 DEF q
      <4>2. CASE k # o
        <5>1. k >= call.order
          BY <2>2, <3>5, <4>2 DEF Orders
        <5> QED
          BY <2>11, <3>2, <4>2, <5>1, NormalIsZone
      <4> QED
        BY <4>1, <4>2
    <3> QED
      BY <1>1, <2>1, <2>3, <3>2, <3>3, <3>4, <3>5 DEF FirstCall
  <2>16. pc' \in Runs \ {"mm_test"}
    BY <1>1, <2>1 DEF Runs
  <2> QED
    BY <1>1, <1>3, <1>4, <2>8, <2>9, <2>10, <2>13, <2>14, <2>15, <2>16, RunExact
<1> QED
  BY <1>5, <1>6

(* The block a call works on is in nobody's hands.                          *)
LEMMA CallUnheld ==
    ASSUME PlainMachines, Inv, ExactInv, pc \in {"split", "merge"}, NEW o \in Orders
    PROVE  held[<<call.page, o>>] = 0
<1> SUFFICES ASSUME held[<<call.page, o>>] # 0 PROVE FALSE
  OBVIOUS
<1>1. PICK L : Tiled(L)
  BY DEF ExactInv
<1> DEFINE p == call.page
           c == <<"call", p, call.order>>
           d == <<"held", p, o>>
<1>2. Tiling(Claims(L), resv .. total - 1) /\ p \in PageIndex /\ c \in Claims(L)
  BY <1>1, CallFacts
<1> HIDE DEF p
<1>3. d \in Claims(L)
  <2>1. held \in [Blocks -> Nat] /\ <<p, o>> \in Blocks
    BY <1>2 DEF Inv, TypeOK, Blocks
  <2>2. held[<<p, o>>] > 0
    BY <2>1 DEF p
  <2> QED
    BY <1>2, <2>2 DEF HeldClaims, Claims
<1>4. c # d /\ c[2] = d[2]
  OBVIOUS
<1> HIDE DEF c, d
<1> QED
  BY <1>2, <1>3, <1>4, FirstPage

\* The block of a call passes to its caller.
LEMMA AllocReturnsExact ==
    ASSUME PlainMachines, Inv, ExactInv, AllocReturns PROVE ExactInv'
<1> DEFINE p == call.page
           w == call.want
<1>1. /\ pc = "split" /\ call.order = w
      /\ page' = [page EXCEPT ![p].count = 1]
      /\ held' = [held EXCEPT ![<<p, w>>] = @ + 1]
      /\ pc' = IF call.by = "mm_test" THEN "mm_test_free" ELSE "idle"
      /\ UNCHANGED <<total, resv, mem, spanned, nr_free, scan, call>>
  BY DEF AllocReturns, area
<1>2. PICK L : Tiled(L)
  BY DEF ExactInv
<1>3. /\ pc \in Runs /\ pc \notin Early /\ AreasClosed(mem) /\ Stacks(mem, nr_free, L)
      /\ L \in StackTables
      /\ Tiling(Claims(L), resv .. total - 1) /\ FirstCall(L) /\ HeldOnce
      /\ w \in Orders /\ p \in PageIndex
      /\ CallClaims = {<<"call", p, w>>} /\ <<"call", p, w>> \in Claims(L)
  BY <1>1, <1>2, CallFacts
<1>4. held \in [Blocks -> Nat] /\ <<p, w>> \in Blocks
  BY <1>3 DEF Inv, TypeOK, Blocks
<1> HIDE DEF p, w
<1>5. held[<<p, w>>] = 0
  BY <1>1, <1>3, CallUnheld DEF p, w
<1>6. held' = [held EXCEPT ![<<p, w>>] = 1]
  BY <1>1, <1>4, <1>5 DEF p, w
<1>7. HeldOnce'
  BY <1>3, <1>4, <1>6 DEF HeldOnce
<1>8. /\ Free(L)' = Free(L) /\ CallClaims' = {}
      /\ HeldClaims' = HeldClaims \union {<<"held", p, w>>}
  <2>1. Free(L)' = Free(L) /\ CallClaims' = {}
    BY <1>1 DEF Free, CallClaims
  <2>2. ASSUME NEW c \in {"held"} \X PageIndex \X Orders
        PROVE  held'[<<c[2], c[3]>>] > 0 <=>
                  held[<<c[2], c[3]>>] > 0 \/ c = <<"held", p, w>>
    <3>1. /\ c[2] \in PageIndex /\ c[3] \in Orders /\ <<c[2], c[3]>> \in Blocks
          /\ c = <<"held", p, w>> <=> <<c[2], c[3]>> = <<p, w>>
      BY DEF Blocks
    <3> QED
      BY <1>4, <1>6, <3>1
  <2>3. <<"held", p, w>> \in {"held"} \X PageIndex \X Orders
    BY <1>3
  <2> QED
    BY <2>1, <2>2, <2>3 DEF HeldClaims
<1>9. Tiling(Claims(L)', resv' .. total' - 1)
  <2> DEFINE C == Claims(L)
             X == resv .. total - 1
             E == (C \ {<<"call", p, w>>}) \union {<<"held", p, w>>}
  <2>1. Tiling(C, X) /\ <<"call", p, w>> \in C
    BY <1>3
  <2>2. Claims(L)' = E
    <3>1. <<"call", p, w>> \notin Free(L) /\ <<"call", p, w>> \notin HeldClaims
      BY DEF Free, FreeClaims, HeldClaims
    <3> QED
      BY <1>3, <1>8, <3>1 DEF Claims
  <2> HIDE DEF C, X
  <2>3. Tiling(E, X)
    BY <2>1, TilingRelabel
  <2> QED
    BY <1>1, <2>2, <2>3 DEF X
<1>10. pc' \in {"mm_test_free", "idle"} /\ pc' \in Runs \ {"mm_test"}
       /\ (pc' = "mm_test_free" => InFirstCall)
  BY <1>1 DEF Runs, InFirstCall
<1>11. FlagsClear'
  <2>1. ASSUME InFirstCall', NEW q \in resv .. total - 1, q # call.page
        PROVE  page_isfree(q)'
    <3>1. pc' = "mm_test_free"
      BY <1>10, <2>1 DEF InFirstCall
    <3>2. page_isfree(q)
      BY <1>10, <2>1, <3>1 DEF ExactInv, Frame, FlagsClear
    <3>3. page'[q] = page[q]
      <4>1. q \in PageIndex /\ page \in [PageIndex -> StructPage]
        BY PlainFacts DEF Inv, TypeOK
      <4> QED
        BY <1>1, <2>1, <4>1 DEF p
    <3> QED
      BY <3>2, <3>3 DEF page_isfree
  <2> QED
    BY <1>1, <1>10, <2>1 DEF FlagsClear, Early, Scans
<1>12. SplitFits' /\ Callers'
  <2>1. pc' = "mm_test_free" => call'.by = "mm_test"
    BY <1>1
  <2> QED
    BY <1>10, <2>1 DEF SplitFits, Callers
<1>13. FirstCall(L)'
  <2> SUFFICES ASSUME InFirstCall' PROVE FirstCall(L)'
    BY DEF FirstCall
  <2>1. InFirstCall
    BY <1>10 DEF InFirstCall
  <2>2. HighBlock' = HighBlock
    BY <1>1 DEF HighBlock
  <2> QED
    BY <1>1, <1>3, <2>1, <2>2 DEF FirstCall, w
<1> QED
  BY <1>1, <1>3, <1>7, <1>9, <1>10, <1>11, <1>12, <1>13, RunExact

\* A caller's block passes into the call that frees it.
LEMMA StartFreeExact ==
    ASSUME PlainMachines, Inv, ExactInv, NEW by \in {"client", "mm_test"},
           NEW p \in PageIndex, NEW o \in Orders, StartFree(by, p, o),
           \/ pc = "idle" /\ by = "client" /\ o = MAX_ORDER
           \/ pc = "mm_test_free" /\ by = "mm_test" /\ p = call.page /\ o = 0
              /\ call.by = "mm_test"
    PROVE  ExactInv'
<1>1. /\ held[<<p, o>>] > 0
      /\ held' = [held EXCEPT ![<<p, o>>] = @ - 1]
      /\ \/ /\ pc' = "merge" /\ call'.by = by /\ call'.want = o /\ call'.order = o
            /\ call'.page = p
         \/ pc' = "wild"
      /\ UNCHANGED <<total, resv, mem, page, spanned, nr_free, scan>>
  BY DEF StartFree, area
<1>2. held \in [Blocks -> Nat] /\ <<p, o>> \in Blocks
  BY DEF Inv, TypeOK, Blocks
<1>3. PICK L : Tiled(L)
  BY DEF ExactInv
<1>4. /\ pc \in Runs /\ pc \notin Early /\ AreasClosed(mem) /\ Stacks(mem, nr_free, L)
      /\ Tiling(Claims(L), resv .. total - 1) /\ FirstCall(L) /\ HeldOnce
      /\ pc \notin {"split", "merge"}
  BY <1>3 DEF Runs, Early, Tiled, ExactInv, Frame, ListsApart
<1>5. held' = [held EXCEPT ![<<p, o>>] = 0]
  <2>1. held[<<p, o>>] = 1
    BY <1>1, <1>2, <1>4 DEF HeldOnce
  <2> QED
    BY <1>1, <2>1
<1>6. HeldOnce'
  BY <1>2, <1>4, <1>5 DEF HeldOnce
<1>7. CASE pc' = "wild"
  BY <1>1, <1>4, <1>6, <1>7, WildExact
<1>8. CASE pc' # "wild"
  <2>1. /\ pc' = "merge" /\ call'.by = by /\ call'.want = o /\ call'.order = o
        /\ call'.page = p
    BY <1>1, <1>8
  <2>2. /\ Free(L)' = Free(L) /\ CallClaims' = {<<"call", p, o>>} /\ CallClaims = {}
        /\ HeldClaims' = HeldClaims \ {<<"held", p, o>>} /\ <<"held", p, o>> \in HeldClaims
    <3>1. Free(L)' = Free(L) /\ CallClaims' = {<<"call", p, o>>} /\ CallClaims = {}
      BY <1>1, <1>4, <2>1 DEF Free, CallClaims
    <3>2. ASSUME NEW c \in {"held"} \X PageIndex \X Orders
          PROVE  held'[<<c[2], c[3]>>] > 0 <=>
                    held[<<c[2], c[3]>>] > 0 /\ c # <<"held", p, o>>
      <4>1. /\ c[2] \in PageIndex /\ c[3] \in Orders /\ <<c[2], c[3]>> \in Blocks
            /\ c = <<"held", p, o>> <=> <<c[2], c[3]>> = <<p, o>>
        BY DEF Blocks
      <4> QED
        BY <1>2, <1>5, <4>1
    <3>3. <<"held", p, o>> \in HeldClaims
      BY <1>1 DEF HeldClaims
    <3>4. HeldClaims' = HeldClaims \ {<<"held", p, o>>}
      BY <3>2 DEF HeldClaims
    <3> QED
      BY <3>1, <3>3, <3>4
  <2>3. Tiling(Claims(L)', resv' .. total' - 1)
    <3> DEFINE C == Claims(L)
               X == resv .. total - 1
               E == (C \ {<<"held", p, o>>}) \union {<<"call", p, o>>}
    <3>1. Tiling(C, X) /\ <<"held", p, o>> \in C
      BY <1>4, <2>2 DEF Claims
    <3>2. Claims(L)' = E
      <4>1. <<"held", p, o>> \notin Free(L)
        BY DEF Free, FreeClaims
      <4> QED
        BY <2>2, <4>1 DEF Claims
    <3> HIDE DEF C, X
    <3>3. Tiling(E, X)
      BY <3>1, TilingRelabel
    <3> QED
      BY <1>1, <3>2, <3>3 DEF X
  <2>4. pc' \in Runs \ {"mm_test"} /\ SplitFits' /\ Callers'
    BY <2>1 DEF Runs, SplitFits, Callers
  <2>5. InFirstCall' => InFirstCall /\ p = call.page /\ o = 0
    BY <2>1 DEF InFirstCall
  <2>6. FlagsClear'
    <3>1. InFirstCall' => \A q \in resv .. total - 1 : q # p => page_isfree(q)
      BY <2>5 DEF FlagsClear, ExactInv, Frame
    <3> QED
      BY <1>1, <2>1, <3>1 DEF FlagsClear, Early, Scans, page_isfree
  <2>7. FirstCall(L)'
    <3> SUFFICES ASSUME InFirstCall' PROVE FirstCall(L)'
      BY DEF FirstCall
    <3>1. pc = "mm_test_free" /\ call.order = 0
      BY <1>4, <2>1, <2>5 DEF FirstCall, InFirstCall
    <3>2. HighBlock' = HighBlock
      BY <1>1 DEF HighBlock
    <3> QED
      BY <1>1, <1>4, <2>1, <2>5, <3>1, <3>2 DEF FirstCall
  <2> QED
    BY <1>1, <1>4, <1>6, <2>3, <2>4, <2>6, <2>7, RunExact
<1> QED
  BY <1>7, <1>8

(* Both blocks of a pair that starts at a whole number of pairs.            *)
LEMMA SecondIsBuddy ==
    ASSUME NEW o \in Orders \ {MAX_ORDER}, NEW p \in Nat, p % Size[o + 1] = 0
    PROVE  page_find_buddy(p, o) = p + Size[o]
<1> DEFINE a == Size[o]
           k == p \div (2 * a)
<1>1. a \in Nat \ {0} /\ p % (2 * a) = 0
  BY OrderFacts
<1> HIDE DEF a
<1>2. k \in Nat /\ p = k * (2 * a)
  <2> DEFINE d == 2 * a
  <2> HIDE DEF d
  <2>1. d \in Nat \ {0} /\ p % d = 0
    BY <1>1 DEF d
  <2>2. p \div d \in Nat /\ p = (p \div d) * d
    BY <2>1
  <2> QED
    BY <2>2 DEF d
<1> HIDE DEF k
<1>3. p = (2 * k) * a /\ 2 * k \in Nat
  BY <1>1, <1>2
<1>4. p \div a = 2 * k
  <2> DEFINE j == 2 * k
  <2>1. j \in Nat /\ p = j * a
    BY <1>3
  <2> HIDE DEF j
  <2>2. (j * a) \div a = j
    BY <1>1, <2>1
  <2> QED
    BY <2>1, <2>2 DEF j
<1>5. (2 * k) % 2 = 0
  BY <1>2
<1> QED
  BY <1>4, <1>5 DEF page_find_buddy, a

(* Below the largest order a free is that of mm_test, and the pair of its   *)
(* block is the half that a split put back.                                 *)
LEMMA FirstFree ==
    ASSUME PlainMachines, Inv, ExactInv, NEW L, Tiled(L), pc = "merge",
           call.order < MAX_ORDER
    PROVE  /\ InFirstCall /\ call.by = "mm_test" /\ call.page = HighBlock
           /\ call.order \in Orders \ {MAX_ORDER} /\ call.order + 1 \in Orders
           /\ call.page % Size[call.order + 1] = 0 /\ Size[call.order] \in Nat \ {0}
           /\ page_find_buddy(call.page, call.order) = call.page + Size[call.order]
           /\ call.page + Size[call.order] < total =>
                 page_isfree(call.page + Size[call.order])
<1> DEFINE o == call.order
           p == call.page
<1>1. /\ FirstCall(L) /\ o \in Orders /\ p \in PageIndex /\ DmaPages <= p
      /\ call.by \in {"client", "mm_test"}
  <2>1. /\ FirstCall(L)
        /\ call \in [by : {"client", "mm_test"}, zone : Zones, want : Orders,
                     order : Orders, page : PageIndex]
        /\ DmaPages <= p
    BY CallFacts
  <2> QED
    BY <2>1
<1>2. o \in Nat /\ MAX_ORDER \in Nat /\ p \in Nat
  BY <1>1, OrderFacts DEF Orders, PageIndex
<1>3. call.by = "mm_test" /\ InFirstCall
  BY <1>1, <1>2 DEF ExactInv, Frame, Callers, InFirstCall
<1>4. p = HighBlock
  BY <1>1, <1>3 DEF FirstCall
<1>5. o \in Orders \ {MAX_ORDER} /\ o + 1 \in Orders /\ o + 1 <= MAX_ORDER
      /\ Size[o] \in Nat \ {0} /\ MAX_ORDER \in Orders
  BY <1>1, <1>2, OrderFacts DEF Orders
<1>6. p % Size[MAX_ORDER] = 0
  <2>1. Whole
    BY DEF ExactInv, Frame, RaggedStops, Runs
  <2> QED
    BY <1>2, <1>4, <2>1, HighAligned
<1>7. p % Size[o + 1] = 0
  BY <1>2, <1>5, <1>6, AlignedBelow
<1>8. page_find_buddy(p, o) = p + Size[o]
  BY <1>2, <1>5, <1>7, SecondIsBuddy
<1>9. ASSUME p + Size[o] < total PROVE page_isfree(p + Size[o])
  <2> DEFINE q == p + Size[o]
  <2>1. q \in Nat /\ q # p /\ resv <= q
    BY <1>1, <1>2, <1>5, PlainFacts
  <2>2. q \in resv .. total - 1
    BY <1>9, <2>1, PlainFacts
  <2> QED
    BY <1>3, <2>1, <2>2 DEF ExactInv, Frame, FlagsClear
<1> QED
  BY <1>3, <1>4, <1>5, <1>7, <1>8, <1>9

(* __free_pages in mm_test: its page joins the halves the splits put back.  *)
LEMMA MergeExact ==
    ASSUME PlainMachines, Inv, ExactInv, Merge PROVE ExactInv'
<1> DEFINE o == call.order
           p == call.page
           q == p + Size[o]
<1>1. /\ pc = "merge" /\ o < MAX_ORDER
      /\ UNCHANGED <<total, resv, page, spanned, held>>
  BY DEF Merge
<1>2. PICK L : Tiled(L)
  BY DEF ExactInv
<1>3. /\ InFirstCall /\ call.by = "mm_test" /\ p = HighBlock
      /\ o \in Orders \ {MAX_ORDER} /\ o + 1 \in Orders
      /\ p % Size[o + 1] = 0 /\ Size[o] \in Nat \ {0}
      /\ page_find_buddy(p, o) = q
  BY <1>1, <1>2, FirstFree
<1>4. /\ pc \in Runs /\ pc \notin Early /\ AreasClosed(mem) /\ Stacks(mem, nr_free, L)
      /\ L \in StackTables
      /\ Tiling(Claims(L), resv .. total - 1) /\ FirstCall(L) /\ HeldOnce
      /\ call \in [by : {"client", "mm_test"}, zone : Zones, want : Orders,
                   order : Orders, page : PageIndex]
      /\ p \in PageIndex /\ call.zone = "NORMAL"
      /\ CallClaims = {<<"call", p, o>>} /\ <<"call", p, o>> \in Claims(L)
      /\ ~OnAList(nr_free, L, p)
  BY <1>1, <1>2, CallFacts
<1>5. \/ /\ q < total /\ pc' = pc
         /\ mem' = list_del(mem, <<"page", p>>)
         /\ nr_free' = AddFree("NORMAL", o, -1)
         /\ call' = join_with(q)
      \/ pc' = "wild"
  <2> DEFINE b == page_find_buddy(p, o)
  <2>1. \/ /\ b < total /\ pc' = pc
           /\ mem' = list_del(mem, <<"page", p>>)
           /\ nr_free' = AddFree("NORMAL", o, -1)
           /\ call' = join_with(b)
        \/ pc' = "wild"
    <3>1. IF b >= total
          THEN pc' = "wild" /\ UNCHANGED <<mem, nr_free, call>>
          ELSE /\ page_is_buddy(b)
               /\ mem' = list_del(mem, <<"page", p>>)
               /\ nr_free' = AddFree("NORMAL", o, -1)
               /\ call' = join_with(b)
               /\ UNCHANGED pc
      BY <1>4 DEF Merge
    <3>2. b \in Int /\ total \in Int
      BY <1>3, <1>4, PlainFacts DEF PageIndex
    <3> HIDE DEF b
    <3> QED
      BY <3>1, <3>2
  <2> HIDE DEF q
  <2> QED
    BY <1>3, <2>1
<1>6. HeldOnce'
  BY <1>1, <1>4 DEF HeldOnce
<1>7. CASE pc' = "wild"
  BY <1>1, <1>4, <1>6, <1>7, WildExact
<1>8. CASE pc' # "wild"
  <2>1. /\ q < total /\ pc' = pc /\ mem' = list_del(mem, Pg(p))
        /\ nr_free' = AddFree("NORMAL", o, -1) /\ call' = join_with(q)
    BY <1>5, <1>8 DEF Pg
  <2>2. /\ p \in Nat /\ q \in Nat /\ ~(q < p) /\ q \in PageIndex /\ o \in Nat
        /\ MAX_ORDER \in Nat
    <3>1. p \in Nat /\ o \in Nat /\ MAX_ORDER \in Nat
      BY <1>3, <1>4, OrderFacts DEF PageIndex, Orders
    <3>2. q \in Nat /\ ~(q < p)
      BY <1>3, <3>1
    <3>3. q \in PageIndex
      BY <2>1, <3>2, PlainFacts
    <3> QED
      BY <3>1, <3>2, <3>3
  <2>3. call'.order = o + 1 /\ call'.page = p /\ call'.want = call.want /\ call'.by = call.by
    BY <1>4, <2>1, <2>2 DEF join_with
  <2>4. /\ nr_free["NORMAL"][o] = 1 /\ L["NORMAL"][o][1] = q /\ call.want = 0
        /\ mem.next[Pg(p)] = LIST_POISON1 /\ mem.prev[Pg(p)] = LIST_POISON2
        /\ \A k \in Orders \ {MAX_ORDER} : k >= o =>
              nr_free["NORMAL"][k] = 1 /\ L["NORMAL"][k][1] = HighBlock + Size[k]
    <3>1. /\ call.want = 0
          /\ mem.next[Pg(p)] = LIST_POISON1 /\ mem.prev[Pg(p)] = LIST_POISON2
          /\ \A k \in Orders \ {MAX_ORDER} : k >= o =>
                nr_free["NORMAL"][k] = 1 /\ L["NORMAL"][k][1] = HighBlock + Size[k]
      BY <1>3, <1>4 DEF FirstCall
    <3>2. o >= o
      BY <2>2
    <3> QED
      BY <1>3, <3>1, <3>2
  <2> HIDE DEF q, o, p
  <2>5. /\ nr_free \in Depths /\ mem \in Memory(Cell) /\ ULong \in Nat \ {0}
        /\ InZone(nr_free, L) /\ Distinct(nr_free, L) /\ o \in Orders
    BY <1>3, <1>4, PlainFacts DEF Stacks
  <2>6. Popped(nr_free, L, o, q, nr_free')
    <3>1. nr_free' = [nr_free EXCEPT !["NORMAL"][o] = (1 + (-1)) % ULong]
      BY <2>1, <2>4 DEF AddFree
    <3>2. (1 + (-1)) % ULong = 1 - 1 /\ 1 > 0
      BY <2>5
    <3>3. nr_free' = [nr_free EXCEPT !["NORMAL"][o] = nr_free["NORMAL"][o] - 1]
      BY <2>4, <3>1, <3>2
    <3> QED
      BY <2>4, <3>2, <3>3 DEF Popped
  <2>7. /\ Stacks(mem', nr_free', L) /\ AreasClosed(mem')
        /\ mem'.next[Pg(p)] = LIST_POISON1 /\ mem'.prev[Pg(p)] = LIST_POISON2
    BY <1>4, <2>1, <2>4, <2>5, <2>6, DropStacks
  <2>8. /\ FreeClaims(nr_free', L) = FreeClaims(nr_free, L) \ {<<"free", q, o>>}
        /\ <<"free", q, o>> \in FreeClaims(nr_free, L)
    BY <1>4, <2>5, <2>6, PopClaims
  <2>9. Tiling(Claims(L)', resv' .. total' - 1)
    <3> DEFINE C == Claims(L)
               X == resv .. total - 1
               E == (C \ {<<"call", p, o>>, <<"free", q, o>>}) \union {<<"call", p, o + 1>>}
    <3>1. Tiling(C, X) /\ <<"call", p, o>> \in C /\ <<"free", q, o>> \in C
      BY <1>4, <2>8 DEF Claims, Free
    <3>2. Claims(L)' = E
      <4>1. CallClaims' = {<<"call", p, o + 1>>} /\ HeldClaims' = HeldClaims
        BY <1>1, <2>1, <2>3 DEF CallClaims, HeldClaims
      <4>2. /\ <<"free", q, o>> \notin HeldClaims /\ <<"call", p, o>> \notin HeldClaims
            /\ <<"call", p, o>> \notin Free(L)
        BY DEF HeldClaims, Free, FreeClaims
      <4> QED
        BY <1>4, <2>8, <4>1, <4>2 DEF Claims, Free
    <3> HIDE DEF C, X
    <3>3. Tiling(E, X)
      BY <1>3, <3>1, TilingJoin DEF q
    <3> QED
      BY <1>1, <3>2, <3>3 DEF X
  <2>10. FirstCall(L)'
    <3>1. nr_free' = [nr_free EXCEPT !["NORMAL"][o] = nr_free["NORMAL"][o] - 1]
      BY <2>6 DEF Popped
    <3>2. ASSUME NEW k \in Orders \ {MAX_ORDER}, k >= o + 1
          PROVE  nr_free'["NORMAL"][k] = 1 /\ L["NORMAL"][k][1] = HighBlock + Size[k]
      <4>1. k >= o /\ k # o
        BY <2>2, <3>2 DEF Orders
      <4>2. nr_free'["NORMAL"][k] = nr_free["NORMAL"][k]
        BY <2>5, <3>1, <4>1, NormalIsZone DEF Depths
      <4> QED
        BY <2>4, <4>1, <4>2
    <3>3. HighBlock' = HighBlock
      BY <1>1 DEF HighBlock
    <3>4. pc' # "mm_test_free"
      BY <1>1, <2>1
    <3> QED
      BY <1>3, <2>3, <2>4, <2>7, <3>2, <3>3, <3>4 DEF FirstCall
  <2>11. FlagsClear'
    <3>1. pc' = pc /\ InFirstCall /\ call'.page = call.page
      BY <1>3, <2>1, <2>3 DEF p
    <3> QED
      BY <1>1, <3>1 DEF FlagsClear, ExactInv, Frame, Early, Scans, page_isfree
  <2>12. pc' \in Runs \ {"mm_test"} /\ SplitFits' /\ Callers'
    BY <1>1, <1>3, <2>1, <2>3 DEF Runs, SplitFits, Callers
  <2> QED
    BY <1>1, <1>4, <1>6, <2>7, <2>9, <2>10, <2>11, <2>12, RunExact
<1> QED
  BY <1>7, <1>8

(* No free ends below the largest order.                                    *)
LEMMA FreesEndLargest ==
    ASSUME PlainMachines, Inv, ExactInv, FreeReturns PROVE call.order = MAX_ORDER
<1> DEFINE p == call.page
<1> SUFFICES ASSUME call.order # MAX_ORDER PROVE FALSE
  OBVIOUS
<1>1. /\ pc = "merge" /\ page_find_buddy(p, call.order) < total
      /\ ~page_isfree(page_find_buddy(p, call.order))
  BY DEF FreeReturns, page_is_buddy
<1>2. PICK L : Tiled(L)
  BY DEF ExactInv
<1>3. call.order < MAX_ORDER
  <2>1. call.order \in Orders
    BY <1>1, <1>2, CallFacts
  <2> QED
    BY <2>1, OrderFacts DEF Orders
<1>4. /\ page_find_buddy(p, call.order) = p + Size[call.order]
      /\ p + Size[call.order] < total => page_isfree(p + Size[call.order])
  BY <1>1, <1>2, <1>3, FirstFree
<1> DEFINE b == page_find_buddy(p, call.order)
           q == p + Size[call.order]
<1>5. b < total /\ ~page_isfree(b) /\ b = q /\ (q < total => page_isfree(q))
  BY <1>1, <1>4
<1> HIDE DEF b, q
<1> QED
  BY <1>5

\* The block of a call passes back to its list.
LEMMA FreeReturnsExact ==
    ASSUME PlainMachines, Inv, ExactInv, FreeReturns PROVE ExactInv'
<1> DEFINE o == MAX_ORDER
           p == call.page
<1>1. /\ pc = "merge" /\ pc' = "idle" /\ UNCHANGED <<total, resv, spanned, held, call>>
      /\ mem' = list_add(mem, <<"page", p>>, <<call.zone, call.order>>)
      /\ nr_free' = AddFree(call.zone, call.order, 1)
      /\ \/ call.order = MAX_ORDER
         \/ /\ page_find_buddy(p, call.order) < total
            /\ ~page_isfree(page_find_buddy(p, call.order))
  BY DEF FreeReturns, page_is_buddy
<1>2. PICK L : Tiled(L)
  BY DEF ExactInv
<1>3. /\ pc \in Runs /\ pc \notin Early /\ AreasClosed(mem) /\ Stacks(mem, nr_free, L)
      /\ L \in StackTables
      /\ Tiling(Claims(L), resv .. total - 1) /\ HeldOnce
      /\ call.order \in Orders /\ p \in PageIndex
      /\ call.zone = "NORMAL" /\ DmaPages <= p
      /\ CallClaims = {<<"call", p, call.order>>} /\ <<"call", p, call.order>> \in Claims(L)
      /\ p % Size[call.order] = 0
      /\ ~OnAList(nr_free, L, p)
  BY <1>1, <1>2, CallFacts
<1>4. call.order = o
  BY FreesEndLargest
<1>5. o \in Orders /\ PageZone(p) = "NORMAL" /\ ExactOrder(p, o)
  <2>1. o \in Orders /\ ~(o < MAX_ORDER)
    BY OrderFacts
  <2>2. ~(p < DmaPages)
    BY <1>3, PlainFacts DEF PageIndex
  <2> QED
    BY <1>3, <1>4, <2>1, <2>2 DEF PageZone, ExactOrder
<1> HIDE DEF p
<1>6. /\ AreasClosed(mem')
      /\ \E L2 : /\ Stacks(mem', nr_free', L2)
                 /\ Free(L2)' = Free(L) \union {<<"free", p, o>>}
  <2>1. /\ mem' = list_add(mem, <<"page", p>>, <<"NORMAL", o>>)
        /\ nr_free' = AddFree("NORMAL", o, 1) /\ "NORMAL" # "DMA"
    BY <1>1, <1>3, <1>4
  <2> HIDE DEF o
  <2>2. /\ AreasClosed(mem') /\ nr_free["NORMAL"][o] \in Nat
        /\ \E L2 : /\ Pushed(nr_free, L, "NORMAL", o, p, nr_free', L2)
                   /\ Stacks(mem', nr_free', L2)
                   /\ Free(L2)' = Free(L) \union {<<"free", p, o>>}
    BY <1>3, <1>5, <2>1, Adds, NormalIsZone
  <2> QED
    BY <2>2
<1>7. PICK L2 : /\ Stacks(mem', nr_free', L2)
                /\ Free(L2)' = Free(L) \union {<<"free", p, o>>}
  BY <1>6
<1>8. Tiling(Claims(L2)', resv' .. total' - 1)
  <2> DEFINE C == Claims(L)
             X == resv .. total - 1
             E == (C \ {<<"call", p, o>>}) \union {<<"free", p, o>>}
  <2>1. Tiling(C, X) /\ <<"call", p, o>> \in C
    BY <1>3, <1>4
  <2>2. Claims(L2)' = E
    <3>1. CallClaims' = {} /\ HeldClaims' = HeldClaims
      BY <1>1 DEF CallClaims, HeldClaims
    <3>2. <<"call", p, o>> \notin HeldClaims /\ <<"call", p, o>> \notin Free(L)
      BY DEF HeldClaims, Free, FreeClaims
    <3> QED
      BY <1>3, <1>4, <1>7, <3>1, <3>2 DEF Claims
  <2> HIDE DEF C, X
  <2>3. Tiling(E, X)
    BY <2>1, TilingRelabel
  <2> QED
    BY <1>1, <2>2, <2>3 DEF X
<1>9. /\ HeldOnce' /\ ~InFirstCall' /\ pc' \in Runs \ {"mm_test"}
      /\ pc' \notin Early \union Scans \union {"mm_test"}
  BY <1>1, <1>3 DEF HeldOnce, InFirstCall, Runs, Early, Scans
<1>10. FlagsClear' /\ SplitFits' /\ Callers' /\ (\A K : FirstCall(K)')
  BY <1>1, <1>9 DEF FlagsClear, SplitFits, Callers, FirstCall
<1> QED
  BY <1>1, <1>3, <1>6, <1>7, <1>8, <1>9, <1>10, RunExact

\* Every step of Mm keeps ExactInv.
LEMMA StepExact ==
    ASSUME PlainMachines, Inv, BootInv, BootInv', ExactInv, [Next]_vars PROVE ExactInv'
<1>1. CASE MmReservedInit \/ ZoneInit
  BY <1>1, EarlyExact
<1>2. CASE PageInit \/ AreaBegin
  BY <1>2, PageInitExact, AreaBeginExact
<1>3. CASE AreaScan \/ AreaEnd
  BY <1>3, AreaScanExact, AreaEndExact
<1>4. CASE MmTest \/ Split
  BY <1>4, MmTestExact, SplitExact
<1>5. CASE AllocReturns
  BY <1>5, AllocReturnsExact
<1>6. CASE Merge \/ FreeReturns
  BY <1>6, MergeExact, FreeReturnsExact
<1>7. CASE MmTestFree
  <2>1. pc = "mm_test_free" /\ StartFree("mm_test", call.page, 0)
    BY <1>7 DEF MmTestFree
  <2>2. call.by = "mm_test" /\ call.page \in PageIndex /\ 0 \in Orders
    <3>1. call.by = "mm_test"
      BY <2>1 DEF ExactInv, Frame, Callers
    <3>2. call.page \in PageIndex
      BY DEF Inv, TypeOK
    <3> QED
      BY <3>1, <3>2, OrderFacts
  <2> DEFINE p == call.page
  <2>3. p \in PageIndex /\ StartFree("mm_test", p, 0) /\ p = call.page
    BY <2>1, <2>2
  <2> HIDE DEF p
  <2> QED
    BY <2>1, <2>2, <2>3, StartFreeExact
<1>8. ASSUME NEW w \in Requests, AllocPages(w) PROVE ExactInv'
  <2>1. w \in Nat /\ pc = "idle" /\ Alloc("client", w)
    BY <1>8, MmAssumption DEF AllocPages
  <2> QED
    BY <2>1, AllocExact
<1>9. ASSUME NEW p \in PageIndex, NEW o \in FreeOrders, FreePages(p, o) PROVE ExactInv'
  <2>1. pc = "idle" /\ StartFree("client", p, o)
    BY <1>9 DEF FreePages
  <2>2. o = MAX_ORDER /\ o \in Orders
    BY OrderFacts DEF PlainMachines
  <2> QED
    BY <2>1, <2>2, StartFreeExact
<1>10. CASE (\E o \in Requests : AllocFails(o)) \/ Halted \/ UNCHANGED vars
  <2>1. UNCHANGED <<pc, total, resv, mem, page, spanned, nr_free, scan, call, held>>
    BY <1>10 DEF AllocFails, Halted, vars, area
  <2> QED
    BY <2>1, StutterExact
<1> QED
  BY <1>1, <1>2, <1>3, <1>4, <1>5, <1>6, <1>7, <1>8, <1>9, <1>10 DEF Next, Kernel, Client

-----------------------------------------------------------------------------
(* What EveryPageOnce counts: walking a free list from its head meets the   *)
(* entries of its stack from the top down.                                  *)
WalkFrom(n, h, nx) == CHOOSE f : f = [i \in 0 .. n |-> IF i = 0 THEN h ELSE nx[f[i - 1]]]

Linked(n, h, nx, e) == \A i \in 1 .. n : nx[IF i = 1 THEN h ELSE e[i - 1]] = e[i]

\* Following the pointers from a head gives the entries they link.
LEMMA Walk ==
    ASSUME NEW n \in Nat, NEW h, NEW nx, NEW e, Linked(n, h, nx, e),
           NEW at, at = WalkFrom(n, h, nx)
    PROVE  \A i \in 1 .. n : at[i] = e[i]
<1> DEFINE w == [i \in 0 .. n |-> IF i = 0 THEN h ELSE e[i]]
<1>1. w = [i \in 0 .. n |-> IF i = 0 THEN h ELSE nx[w[i - 1]]]
  <2>1. ASSUME NEW i \in 0 .. n, i # 0 PROVE nx[w[i - 1]] = e[i]
    <3>1. i \in 1 .. n /\ i - 1 \in 0 .. n /\ (i - 1 = 0 <=> i = 1)
      BY <2>1
    <3>2. w[i - 1] = IF i = 1 THEN h ELSE e[i - 1]
      BY <3>1
    <3> QED
      BY <3>1, <3>2 DEF Linked
  <2> QED
    BY <2>1
<1> HIDE DEF w
<1>2. at = [i \in 0 .. n |-> IF i = 0 THEN h ELSE nx[at[i - 1]]]
  BY <1>1 DEF WalkFrom
<1> DEFINE Bad == {i \in 0 .. n : at[i] # IF i = 0 THEN h ELSE e[i]}
<1>3. Bad = {}
  <2> SUFFICES ASSUME Bad # {} PROVE FALSE
    OBVIOUS
  <2>1. PICK i \in Bad : \A j \in Bad : i <= j
    <3>1. Bad \in SUBSET Nat
      OBVIOUS
    <3> HIDE DEF Bad
    <3> QED
      BY <3>1, Least
  <2>2. i \in 0 .. n /\ i # 0 /\ at[i] = nx[at[i - 1]] /\ at[i] # e[i]
    BY <1>2, <2>1
  <2>3. i \in 1 .. n /\ i - 1 \in 0 .. n /\ ~(i <= i - 1) /\ (i - 1 = 0 <=> i = 1)
    BY <2>2
  <2>4. at[i - 1] = IF i - 1 = 0 THEN h ELSE e[i - 1]
    BY <2>1, <2>3
  <2>5. at[i] = e[i]
    BY <2>2, <2>3, <2>4 DEF Linked
  <2> QED
    BY <2>2, <2>5
<1> QED
  BY <1>3

\* Listed reads a stack from its top.
LEMMA ListedEntries ==
    ASSUME NEW L, Stacks(mem, nr_free, L), nr_free \in Depths,
           NEW z \in Zones, NEW o \in Orders, NEW i \in 1 .. nr_free[z][o]
    PROVE  PageOf(<<z, o, i>>) = L[z][o][(nr_free[z][o] + 1) - i]
<1> DEFINE n == nr_free[z][o]
           h == <<z, o>>
           nx == mem.next
           e == [j \in 1 .. n |-> Pg(L[z][o][(n + 1) - j])]
<1>1. n \in Nat /\ L \in StackTables
  BY DEF Depths, Stacks
<1>2. ASSUME NEW j \in 1 .. n PROVE nx[IF j = 1 THEN h ELSE e[j - 1]] = e[j]
  <2>1. CASE j = 1
    <3>1. n > 0 /\ (n + 1) - j = n
      BY <1>1, <2>1
    <3> QED
      BY <2>1, <3>1 DEF Stacks, Threaded
  <2>2. CASE j # 1
    <3> DEFINE k == (n + 1) - j
    <3>1. j - 1 \in 1 .. n /\ (n + 1) - (j - 1) = k + 1 /\ k \in 1 .. n - 1
      BY <1>1, <2>2
    <3>2. e[j - 1] = Pg(L[z][o][k + 1]) /\ e[j] = Pg(L[z][o][k])
      BY <3>1
    <3> HIDE DEF e, k
    <3>3. mem.next[Pg(L[z][o][k + 1])] = Pg(L[z][o][k])
      BY <3>1 DEF Stacks, Threaded
    <3> QED
      BY <2>2, <3>2, <3>3
  <2> QED
    BY <2>1, <2>2
<1>3. Listed(z, o)[i] = Pg(L[z][o][(n + 1) - i])
  <2> DEFINE at == WalkFrom(n, h, nx)
  <2>1. Listed(z, o) = [j \in 1 .. n |-> at[j]]
    BY DEF Listed, WalkFrom
  <2> HIDE DEF at
  <2>2. at = WalkFrom(n, h, nx) /\ Linked(n, h, nx, e)
    BY <1>2 DEF at, Linked
  <2> HIDE DEF n, h, nx, e
  <2>3. at[i] = e[i]
    <3>1. i \in 1 .. n
      BY DEF n
    <3>2. \A j \in 1 .. n : at[j] = e[j]
      BY <1>1, <2>2, Walk
    <3> QED
      BY <3>1, <3>2
  <2>4. i \in 1 .. n
    BY DEF n
  <2> QED
    BY <2>1, <2>3, <2>4 DEF e
<1>4. L[z][o][(n + 1) - i] \in PageIndex
  <2>1. (n + 1) - i \in Nat
    BY <1>1
  <2> QED
    BY <1>1, <2>1 DEF StackTables
<1> QED
  BY <1>3, <1>4 DEF PageOf, Pg, PageCells

(* The claims are what EveryPageOnce counts.                                *)
LEMMA FreeBlocksClaim ==
    ASSUME PlainMachines, Inv, NEW L, Stacks(mem, nr_free, L)
    PROVE  /\ \A f \in FreeBlocks :
                 /\ <<"free", PageOf(f), f[2]>> \in Free(L) /\ f[2] \in Orders
                 /\ PageOf(f) \in PageIndex
           /\ \A f, g \in FreeBlocks : PageOf(f) = PageOf(g) /\ f[2] = g[2] => f = g
           /\ \A c \in Free(L) : \E f \in FreeBlocks : PageOf(f) = c[2] /\ f[2] = c[3]
<1>1. /\ nr_free \in Depths /\ L \in StackTables /\ InZone(nr_free, L)
      /\ Distinct(nr_free, L)
  BY PlainFacts DEF Stacks
<1>2. ASSUME NEW f \in FreeBlocks
      PROVE  /\ f[1] \in Zones /\ f[2] \in Orders
             /\ f[3] \in 1 .. nr_free[f[1]][f[2]] /\ nr_free[f[1]][f[2]] \in Nat
             /\ (nr_free[f[1]][f[2]] + 1) - f[3] \in 1 .. nr_free[f[1]][f[2]]
             /\ f = <<f[1], f[2], f[3]>>
             /\ PageOf(f) = L[f[1]][f[2]][(nr_free[f[1]][f[2]] + 1) - f[3]]
             /\ PageOf(f) \in PageIndex
  <2> DEFINE z == f[1]
             o == f[2]
             i == f[3]
             n == nr_free[z][o]
  <2>1. z \in Zones /\ o \in Orders /\ i \in 1 .. MaxPages /\ i <= n /\ f = <<z, o, i>>
    BY DEF FreeBlocks
  <2>2. n \in Nat
    BY <1>1, <2>1 DEF Depths
  <2>3. i \in 1 .. n /\ (n + 1) - i \in 1 .. n /\ (n + 1) - i \in Nat
    <3> HIDE DEF n, i
    <3> QED
      BY <2>1, <2>2
  <2> HIDE DEF z, o, i
  <2>4. PageOf(<<z, o, i>>) = L[z][o][(n + 1) - i]
    BY <1>1, <2>1, <2>3, ListedEntries
  <2>5. L[z][o][(n + 1) - i] \in PageIndex
    BY <1>1, <2>1, <2>3 DEF StackTables
  <2> QED
    BY <2>1, <2>2, <2>3, <2>4, <2>5 DEF z, o, i
<1>3. ASSUME NEW f \in FreeBlocks PROVE <<"free", PageOf(f), f[2]>> \in Free(L)
  BY <1>2 DEF Free, FreeClaims
<1>4. ASSUME NEW f \in FreeBlocks, NEW g \in FreeBlocks, PageOf(f) = PageOf(g), f[2] = g[2]
      PROVE  f = g
  <2> DEFINE y == f[1]
             z == g[1]
             o == f[2]
             i == f[3]
             j == g[3]
             n == nr_free[y][o]
             m == nr_free[z][o]
             a == (n + 1) - i
             b == (m + 1) - j
  <2>1. /\ y \in Zones /\ z \in Zones /\ o \in Orders /\ i \in 1 .. n /\ j \in 1 .. m
        /\ n \in Nat /\ m \in Nat /\ a \in 1 .. n /\ b \in 1 .. m
        /\ f = <<y, o, i>> /\ g = <<z, o, j>> /\ L[y][o][a] = L[z][o][b]
    BY <1>2, <1>4
  <2> HIDE DEF y, z, o, i, j
  <2>2. y = z
    <3> HIDE DEF a, b
    <3>1. PageZone(L[y][o][a]) = y /\ PageZone(L[z][o][b]) = z
      BY <1>1, <2>1 DEF InZone
    <3> QED
      BY <2>1, <3>1
  <2>3. a = b
    <3> HIDE DEF a, b
    <3> QED
      BY <1>1, <2>1, <2>2 DEF Distinct
  <2>4. i = j
    <3>1. n = m
      BY <2>2
    <3> HIDE DEF n, m
    <3> QED
      BY <2>1, <2>3, <3>1
  <2> QED
    BY <2>1, <2>2, <2>4
<1>5. ASSUME NEW c \in Free(L)
      PROVE  \E f \in FreeBlocks : PageOf(f) = c[2] /\ f[2] = c[3]
  <2> DEFINE o == c[3]
  <2>1. PICK z \in Zones : \E k \in 1 .. nr_free[z][o] : L[z][o][k] = c[2]
    BY DEF Free, FreeClaims
  <2>2. o \in Orders
    BY DEF Free, FreeClaims
  <2> HIDE DEF o
  <2>3. PICK k \in 1 .. nr_free[z][o] : L[z][o][k] = c[2]
    BY <2>1
  <2> DEFINE n == nr_free[z][o]
             i == (n + 1) - k
  <2>4. n \in Nat /\ n <= MaxPages /\ MaxPages \in Nat
    BY <1>1, <2>2, PlainFacts, StackFits
  <2>5. i \in 1 .. n /\ (n + 1) - i = k /\ i <= n /\ i \in 1 .. MaxPages
    <3>1. k \in 1 .. n
      OBVIOUS
    <3> HIDE DEF n
    <3> QED
      BY <2>4, <3>1
  <2> HIDE DEF i
  <2>6. <<z, o, i>> \in FreeBlocks
    <3> DEFINE f == <<z, o, i>>
    <3>1. f \in Zones \X Orders \X (1 .. MaxPages) /\ f[1] = z /\ f[2] = o /\ f[3] = i
      BY <2>2, <2>5
    <3> HIDE DEF f
    <3>2. f \in FreeBlocks
      BY <2>5, <3>1 DEF FreeBlocks
    <3> QED
      BY <3>2 DEF f
  <2>7. PageOf(<<z, o, i>>) = L[z][o][(n + 1) - i]
    BY <1>1, <2>2, <2>5, ListedEntries
  <2> DEFINE f == <<z, o, i>>
  <2>8. f \in FreeBlocks /\ PageOf(f) = c[2] /\ f[2] = o
    BY <2>3, <2>5, <2>6, <2>7
  <2> HIDE DEF f
  <2> QED
    BY <2>8 DEF o
<1> QED
  BY <1>2, <1>3, <1>4, <1>5

FreeAt(p) == {f \in FreeBlocks : p \in PagesOf(<<PageOf(f), f[2]>>)}

HeldAt(p) == {b \in Blocks : held[b] > 0 /\ p \in PagesOf(b)}

(* Each page is in one claim, and in none if it is the kernel's.            *)
LEMMA OneClaimEach ==
    ASSUME PlainMachines, Inv, ExactInv, pc \in {"mm_test", "idle"}
    PROVE  /\ \A p : p \notin resv .. total - 1 => FreeAt(p) = {} /\ HeldAt(p) = {}
           /\ \A p \in resv .. total - 1 :
                 \/ HeldAt(p) = {} /\ \E f : FreeAt(p) = {f}
                 \/ FreeAt(p) = {} /\ \E b : HeldAt(p) = {b}
           /\ \A f \in FreeBlocks : PageOf(f) % Size[f[2]] = 0
<1>1. PICK L : Tiled(L)
  BY DEF ExactInv
<1> DEFINE C == Claims(L)
           X == resv .. total - 1
<1>2. Stacks(mem, nr_free, L) /\ Tiling(C, X) /\ CallClaims = {}
  BY <1>1 DEF Runs, Tiled, CallClaims
<1>3. /\ \A f \in FreeBlocks :
            /\ <<"free", PageOf(f), f[2]>> \in Free(L) /\ f[2] \in Orders
            /\ PageOf(f) \in PageIndex
      /\ \A f, g \in FreeBlocks : PageOf(f) = PageOf(g) /\ f[2] = g[2] => f = g
      /\ \A c \in Free(L) : \E f \in FreeBlocks : PageOf(f) = c[2] /\ f[2] = c[3]
  BY <1>2, FreeBlocksClaim
<1>4. C = Free(L) \union HeldClaims
  BY <1>2 DEF Claims
<1>5. \A s, q, o : Extent(<<s, q, o>>) = PagesOf(<<q, o>>)
  BY DEF Extent, PagesOf
<1> HIDE DEF C, X
<1>6. ASSUME NEW p, NEW f \in FreeAt(p)
      PROVE  <<"free", PageOf(f), f[2]>> \in C /\ p \in Extent(<<"free", PageOf(f), f[2]>>)
  BY <1>3, <1>4, <1>5 DEF FreeAt
<1>7. ASSUME NEW p, NEW b \in HeldAt(p)
      PROVE  <<"held", b[1], b[2]>> \in C /\ p \in Extent(<<"held", b[1], b[2]>>)
             /\ b = <<b[1], b[2]>>
  <2>1. b \in Blocks /\ held[b] > 0 /\ p \in PagesOf(b) /\ b = <<b[1], b[2]>>
        /\ b[1] \in PageIndex /\ b[2] \in Orders
    BY DEF HeldAt, Blocks
  <2>2. <<"held", b[1], b[2]>> \in HeldClaims
    BY <2>1 DEF HeldClaims
  <2> QED
    BY <1>4, <1>5, <2>1, <2>2
<1>8. \A p : \A c, d \in C : p \in Extent(c) /\ p \in Extent(d) => c = d
  BY <1>2 DEF Tiling, Apart
<1>9. ASSUME NEW p, p \notin X PROVE FreeAt(p) = {} /\ HeldAt(p) = {}
  <2>1. \A c \in C : p \notin Extent(c)
    BY <1>2, <1>9 DEF Tiling, Covered
  <2> QED
    BY <1>6, <1>7, <2>1
<1>10. ASSUME NEW p \in X
       PROVE  \/ HeldAt(p) = {} /\ \E f : FreeAt(p) = {f}
              \/ FreeAt(p) = {} /\ \E b : HeldAt(p) = {b}
  <2>1. PICK c \in C : p \in Extent(c)
    BY <1>2 DEF Tiling, Covered
  <2>2. CASE c \in Free(L)
    <3>1. c[1] = "free" /\ c = <<"free", c[2], c[3]>>
      BY <2>2 DEF Free, FreeClaims
    <3>2. PICK f \in FreeBlocks : PageOf(f) = c[2] /\ f[2] = c[3]
      BY <1>3, <2>2
    <3>3. f \in FreeAt(p)
      BY <1>5, <2>1, <3>1, <3>2 DEF FreeAt
    <3>4. ASSUME NEW g \in FreeAt(p) PROVE g = f
      <4>1. c = <<"free", PageOf(g), g[2]>>
        BY <1>6, <1>8, <2>1
      <4>2. g \in FreeBlocks /\ PageOf(g) = PageOf(f) /\ g[2] = f[2]
        BY <3>2, <4>1 DEF FreeAt
      <4> QED
        BY <1>3, <4>2
    <3>5. ASSUME NEW b \in HeldAt(p) PROVE FALSE
      <4>1. c = <<"held", b[1], b[2]>>
        BY <1>7, <1>8, <2>1
      <4> QED
        BY <3>1, <4>1
    <3> QED
      BY <3>3, <3>4, <3>5
  <2>3. CASE c \in HeldClaims
    <3> DEFINE b == <<c[2], c[3]>>
    <3>1. c[1] = "held" /\ c = <<"held", c[2], c[3]>> /\ b \in Blocks /\ held[b] > 0
      BY <2>3 DEF HeldClaims, Blocks
    <3>2. b \in HeldAt(p)
      BY <1>5, <2>1, <3>1 DEF HeldAt
    <3>3. ASSUME NEW d \in HeldAt(p) PROVE d = b
      <4>1. c = <<"held", d[1], d[2]>> /\ d = <<d[1], d[2]>>
        BY <1>7, <1>8, <2>1
      <4> QED
        BY <4>1
    <3>4. ASSUME NEW f \in FreeAt(p) PROVE FALSE
      <4>1. c = <<"free", PageOf(f), f[2]>>
        BY <1>6, <1>8, <2>1
      <4> QED
        BY <3>1, <4>1
    <3> QED
      BY <3>2, <3>3, <3>4
  <2> QED
    BY <1>4, <2>2, <2>3
<1>11. ASSUME NEW f \in FreeBlocks PROVE PageOf(f) % Size[f[2]] = 0
  <2> DEFINE c == <<"free", PageOf(f), f[2]>>
  <2>1. c \in C /\ c[2] = PageOf(f) /\ c[3] = f[2]
    BY <1>3, <1>4
  <2> HIDE DEF c
  <2> QED
    BY <1>2, <2>1 DEF Tiling, Aligned
<1> QED
  BY <1>9, <1>10, <1>11 DEF X

\* The tiling is what EveryPageOnce counts.
LEMMA EachPageOnce == ASSUME PlainMachines, Inv, ExactInv PROVE EveryPageOnce
<1> SUFFICES ASSUME pc \in {"mm_test", "idle"} PROVE EveryPageOnce
  BY DEF EveryPageOnce
<1>1. /\ \A p : p \notin resv .. total - 1 => FreeAt(p) = {} /\ HeldAt(p) = {}
      /\ \A p \in resv .. total - 1 :
            \/ HeldAt(p) = {} /\ \E f : FreeAt(p) = {f}
            \/ FreeAt(p) = {} /\ \E b : HeldAt(p) = {b}
      /\ \A f \in FreeBlocks : PageOf(f) % Size[f[2]] = 0
  BY OneClaimEach
<1>2. \A p : TimesFree(p) = Cardinality(FreeAt(p)) /\ TimesHeld(p) = Cardinality(HeldAt(p))
  BY DEF TimesFree, TimesHeld, FreeAt, HeldAt
<1>3. ASSUME NEW p \in 0 .. total - 1
      PROVE  TimesFree(p) + TimesHeld(p) = IF p < resv THEN 0 ELSE 1
  <2>1. Cardinality({}) = 0 /\ \A f : Cardinality({f}) = 1
    BY FS_EmptySet, FS_Singleton
  <2>2. p \in resv .. total - 1 <=> ~(p < resv)
    BY PlainFacts
  <2>3. CASE p < resv
    <3>1. FreeAt(p) = {} /\ HeldAt(p) = {}
      BY <1>1, <2>2, <2>3
    <3>2. TimesFree(p) = 0 /\ TimesHeld(p) = 0
      BY <1>2, <2>1, <3>1
    <3> QED
      BY <2>3, <3>2
  <2>4. CASE ~(p < resv)
    <3>1. \/ TimesFree(p) = 1 /\ TimesHeld(p) = 0
          \/ TimesFree(p) = 0 /\ TimesHeld(p) = 1
      BY <1>1, <1>2, <2>1, <2>2, <2>4
    <3> QED
      BY <2>4, <3>1
  <2> QED
    BY <2>3, <2>4
<1>4. \A b \in Blocks : held[b] <= 1
  BY DEF ExactInv, Frame, HeldOnce
<1> QED
  BY <1>1, <1>3, <1>4 DEF EveryPageOnce

(* Between calls every page above the kernel is in exactly one block, free  *)
(* or held, none is handed out twice and none is lost, on every machine     *)
(* with all of ZONE_DMA and a kernel inside it, in RAM that is zero, as     *)
(* long as clients free largest blocks only.                                *)
THEOREM PagesShareOut ==
    ASSUME PlainMachines PROVE Spec => []EveryPageOnce
<1>1. KernelInDma
  BY DEF PlainMachines
<1>2. Inv /\ BootInv /\ [Next]_vars => BootInv'
  BY <1>1, StepBoots
<1>3. Init /\ Inv => ExactInv
  BY InitExact
<1>4. Inv /\ BootInv /\ BootInv' /\ ExactInv /\ [Next]_vars => ExactInv'
  BY StepExact
<1>5. Inv /\ ExactInv => EveryPageOnce
  BY EachPageOnce
<1> QED
  BY <1>2, <1>3, <1>4, <1>5, InitBoot, InvHolds, PTL DEF Spec

-----------------------------------------------------------------------------
(* KeepsPromise.  mm_test is one of the callers: it asks for a page.        *)
AsksForAPage == 0 \in Requests

WantIsRequested == pc = "split" => call.want \in Requests

\* A call is for a size that a caller asked for.
LEMMA WantStays ==
    ASSUME AsksForAPage, Inv, WantIsRequested, [Next]_vars PROVE WantIsRequested'
<1>1. CASE MmTest \/ \E o \in Requests : AllocPages(o)
  <2>1. ASSUME NEW by, NEW o \in Requests, Alloc(by, o) PROVE WantIsRequested'
    <3>1. PICK z, k : \/ call' = [by |-> by, zone |-> z, want |-> o, order |-> k,
                                  page |-> mem.next[<<z, k>>][2]]
                      \/ pc' = "wild"
      BY <2>1 DEF Alloc, Rmqueue
    <3> QED
      BY <3>1 DEF WantIsRequested
  <2> QED
    BY <1>1, <2>1 DEF MmTest, AllocPages, AsksForAPage, WantIsRequested
<1>2. CASE Split
  <2>1. /\ pc = "split"
        /\ call' = [call EXCEPT !.order = call.order - 1] \/ call' = call
    BY <1>2 DEF Split
  <2>2. call \in [by : {"client", "mm_test"}, zone : Zones, want : Orders,
                  order : Orders, page : PageIndex]
    BY DEF Inv, TypeOK
  <2>3. call'.want = call.want
    BY <2>1, <2>2
  <2> QED
    BY <2>1, <2>3 DEF WantIsRequested
<1>3. CASE \/ MmReservedInit \/ ZoneInit \/ PageInit \/ AreaBegin \/ AreaScan \/ AreaEnd
           \/ AllocReturns \/ Merge \/ FreeReturns \/ MmTestFree
           \/ \E p \in PageIndex, o \in FreeOrders : FreePages(p, o)
           \/ \E o \in Requests : AllocFails(o)
  <2>1. pc' # "split"
    BY <1>3 DEF MmReservedInit, ZoneInit, PageInit, AreaBegin, AreaScan, AreaEnd,
       AllocReturns, Merge, FreeReturns, MmTestFree, FreePages, StartFree, AllocFails
  <2> QED
    BY <2>1 DEF WantIsRequested
<1>4. CASE Halted \/ UNCHANGED vars
  BY <1>4 DEF Halted, vars, WantIsRequested
<1> QED
  BY <1>1, <1>2, <1>3, <1>4 DEF Next, Kernel, Client

\* What the callers hold, as PageAlloc sees it.
HeldBlocks == {b \in Blocks : held[b] > 0}

\* What a call hands out is a block PageAlloc has to give.
LEMMA GivesAvailable ==
    ASSUME PlainMachines, AsksForAPage, WantIsRequested, Inv, ExactInv, AllocReturns
    PROVE  \E o \in Requests : Promise!Alloc(o)
<1> DEFINE p == call.page
           w == call.want
           b == <<p, w>>
           c == <<"call", p, w>>
<1>1. /\ pc = "split" /\ call.order = w /\ reply' = <<"block", w>> /\ UNCHANGED total
      /\ held' = [held EXCEPT ![b] = @ + 1]
  BY DEF AllocReturns
<1>2. PICK L : Tiled(L)
  BY DEF ExactInv
<1>3. /\ Tiling(Claims(L), resv .. total - 1) /\ w \in Orders /\ p \in PageIndex
      /\ DmaPages <= p /\ p < total
      /\ c \in Claims(L) /\ p % Size[w] = 0
  BY <1>1, <1>2, CallFacts
<1>4. held \in [Blocks -> Nat] /\ b \in Blocks /\ w \in Requests
  BY <1>1, <1>3 DEF Inv, TypeOK, Blocks, WantIsRequested
<1>5. Promise!Pages(b) = Extent(c)
  BY DEF Promise!Pages, Extent
<1> HIDE DEF p, w
<1>6. p \in DmaPages .. total - 1
  BY <1>3, PlainFacts DEF PageIndex
<1>7. Promise!Available(b)
  <2>1. Promise!Pages(b) \subseteq DmaPages .. total - 1
    <3>1. Extent(c) \subseteq resv .. total - 1
      <4> DEFINE X == resv .. total - 1
      <4>1. Tiling(Claims(L), X) /\ c \in Claims(L)
        BY <1>3
      <4> HIDE DEF c, X
      <4>2. Extent(c) \subseteq X
        BY <4>1, FirstPage
      <4> QED
        BY <4>2 DEF X
    <3>2. \A q \in Extent(c) : q \in Int /\ p <= q
      BY <1>3, OrderFacts DEF Extent, PageIndex
    <3>3. \A q \in Extent(c) : q \in DmaPages .. total - 1
      BY <1>3, <3>1, <3>2, PlainFacts DEF PageIndex
    <3> QED
      BY <1>5, <3>3
  <2>2. ASSUME NEW h \in HeldBlocks
        PROVE  Promise!Pages(b) \intersect Promise!Pages(h) = {}
    <3> DEFINE d == <<"held", h[1], h[2]>>
    <3>1. h[1] \in PageIndex /\ h[2] \in Orders /\ h = <<h[1], h[2]>> /\ held[h] > 0
      BY DEF HeldBlocks, Blocks
    <3>2. d \in Claims(L)
      BY <3>1 DEF Claims, HeldClaims
    <3>3. c # d /\ Promise!Pages(h) = Extent(d)
      BY DEF Promise!Pages, Extent
    <3> HIDE DEF c, d
    <3> QED
      BY <1>3, <1>5, <3>2, <3>3 DEF Tiling, Apart
  <2>3. b[1] = p /\ b[2] = w
    OBVIOUS
  <2> QED
    BY <1>3, <2>1, <2>2, <2>3 DEF Promise!Available, HeldBlocks
<1>8. HeldBlocks' = HeldBlocks \union {b}
  <2>1. ASSUME NEW h \in Blocks PROVE held'[h] > 0 <=> held[h] > 0 \/ h = b
    <3>1. held[b] \in Nat
      BY <1>4
    <3> HIDE DEF b
    <3> QED
      BY <1>1, <1>4, <3>1
  <2> QED
    BY <1>4, <2>1 DEF HeldBlocks
<1> QED
  BY <1>1, <1>3, <1>4, <1>6, <1>7, <1>8 DEF Promise!Alloc, HeldBlocks

\* What is freed is a block that is held.
LEMMA FreesWhatIsHeld ==
    ASSUME PlainMachines, Inv, ExactInv, NEW by, NEW p, NEW o, <<p, o>> \in Blocks,
           StartFree(by, p, o)
    PROVE  \E b \in HeldBlocks : Promise!Free(b)
<1> DEFINE b == <<p, o>>
<1>1. /\ held[b] > 0 /\ held' = [held EXCEPT ![b] = @ - 1]
      /\ reply' = <<"freed", o>> /\ UNCHANGED total
  BY DEF StartFree
<1>2. held \in [Blocks -> Nat] /\ held[b] <= 1 /\ b[2] = o
  BY DEF Inv, TypeOK, ExactInv, Frame, HeldOnce
<1> HIDE DEF b
<1>3. b \in Blocks
  BY DEF b
<1>4. held'[b] = 0 /\ \A h \in Blocks : h # b => held'[h] = held[h]
  BY <1>1, <1>2, <1>3
<1>5. HeldBlocks' = HeldBlocks \ {b} /\ b \in HeldBlocks
  BY <1>1, <1>3, <1>4 DEF HeldBlocks
<1> QED
  BY <1>1, <1>2, <1>5 DEF Promise!Free, HeldBlocks

(* A block that a caller could have had begins in a free one of ZONE_NORMAL, *)
(* which is as large or larger: the orders below are exact.                 *)
LEMMA NullWhenNoneIsLeft ==
    ASSUME PlainMachines, Inv, ExactInv, NEW w \in Requests, AllocFails(w)
    PROVE  Promise!Refuse(w)
<1>1. /\ pc = "idle" /\ reply' = <<"null", w>> /\ UNCHANGED <<total, held>>
      /\ w > MAX_ORDER \/ NoZoneHasRoom(w)
  BY DEF AllocFails
<1>2. PICK L : Tiled(L)
  BY DEF ExactInv
<1>3. /\ Stacks(mem, nr_free, L) /\ Tiling(Claims(L), resv .. total - 1)
      /\ CallClaims = {}
  BY <1>1, <1>2 DEF Runs, Tiled, CallClaims
<1>4. ASSUME w \in Orders, NEW p \in DmaPages .. total - 1, Promise!Available(<<p, w>>)
      PROVE  FALSE
  <2>1. /\ \A h \in HeldBlocks : Promise!Pages(<<p, w>>) \intersect Promise!Pages(h) = {}
        /\ p % Size[w] = 0 /\ p \in Nat /\ DmaPages <= p /\ p < total
    BY <1>4, PlainFacts DEF Promise!Available, HeldBlocks
  <2>2. w \in Nat /\ w <= MAX_ORDER /\ MAX_ORDER \in Nat /\ Size[w] \in Nat \ {0}
    BY <1>4, OrderFacts DEF Orders
  <2>3. \A k \in Orders : k >= w => nr_free["NORMAL"][k] = 0
    <3>1. ~HasRoom("NORMAL", w)
      BY <1>1, <1>4, <2>2 DEF NoZoneHasRoom, zonelist
    <3> QED
      BY <3>1 DEF HasRoom
  <2>4. PICK c \in Claims(L) : p \in Extent(c)
    <3>1. p \in resv .. total - 1
      BY <1>4, <2>1, PlainFacts
    <3> QED
      BY <1>3, <3>1 DEF Tiling, Covered
  <2>5. CASE c \in HeldClaims
    <3> DEFINE h == <<c[2], c[3]>>
    <3>1. h \in HeldBlocks
      BY <2>5 DEF HeldClaims, HeldBlocks, Blocks
    <3>2. Extent(c) = Promise!Pages(h)
      BY DEF Promise!Pages, Extent
    <3>3. p \in Promise!Pages(<<p, w>>)
      BY <2>1, <2>2 DEF Promise!Pages
    <3> HIDE DEF h
    <3> QED
      BY <2>1, <2>4, <3>1, <3>2, <3>3
  <2>6. CASE c \in Free(L)
    <3> DEFINE q == c[2]
               j == c[3]
               s == Size[j]
    <3>1. PICK z \in Zones : \E i \in 1 .. nr_free[z][j] : L[z][j][i] = q
      BY <2>6 DEF Free, FreeClaims
    <3>2. PICK i \in 1 .. nr_free[z][j] : L[z][j][i] = q
      BY <3>1
    <3>3. /\ q \in PageIndex /\ j \in Orders /\ q % s = 0
      BY <1>3, <2>4 DEF Tiling, ClaimSet, Aligned
    <3>4. /\ q \in Nat /\ j \in Nat /\ s \in Nat \ {0} /\ DmaPages \in Nat
          /\ DmaPages % s = 0
      BY <3>3, OrderFacts, PlainFacts DEF PageIndex, Orders
    <3>5. q <= p /\ p < q + s
      BY <2>1, <2>4, <3>4 DEF Extent
    <3> HIDE DEF q, j
    <3>6. PageZone(q) = z /\ (z = "NORMAL" => ExactOrder(q, j))
      BY <1>3, <3>2, <3>3 DEF Stacks, InZone
    <3>7. z = "NORMAL"
      <4> SUFFICES ASSUME q < DmaPages PROVE FALSE
        BY <3>6 DEF PageZone, Zones
      <4>1. q + s <= DmaPages
        <5> HIDE DEF s
        <5> QED
          BY <3>3, <3>4, NextMultiple
      <4> QED
        BY <2>1, <3>4, <3>5, <4>1
    <3>8. nr_free["NORMAL"][j] # 0
      BY <3>2, <3>3, <3>7
    <3>9. j < w /\ j + 1 \in Orders /\ j + 1 <= w /\ j < MAX_ORDER
      BY <2>2, <2>3, <3>3, <3>4, <3>8 DEF Orders
    <3>10. p % s = 0
      BY <1>4, <2>1, <2>2, <3>3, <3>4, <3>9, AlignedBelow
    <3>11. p = q
      <4> HIDE DEF s
      <4>1. ASSUME q < p PROVE FALSE
        <5>1. q + s <= p
          BY <2>1, <3>3, <3>4, <3>10, <4>1, NextMultiple
        <5> QED
          BY <2>1, <3>4, <3>5, <5>1
      <4> QED
        BY <2>1, <3>4, <3>5, <4>1
    <3>12. q % Size[j + 1] = 0
      BY <1>4, <2>1, <3>9, <3>11, AlignedBelow
    <3> QED
      BY <3>6, <3>7, <3>9, <3>12 DEF ExactOrder
  <2> QED
    BY <1>3, <2>4, <2>5, <2>6 DEF Claims
<1> QED
  BY <1>1, <1>4 DEF Promise!Refuse

\* In the beginning nobody holds anything.
LEMMA BeginsAsPromised == ASSUME Init PROVE Promise!Init
<1>1. \A b \in Blocks : ~(held[b] > 0)
  BY DEF Init
<1>2. HeldBlocks = {}
  BY <1>1 DEF HeldBlocks
<1>3. DmaPages \in Nat /\ total \in Nat
  BY MmAssumption DEF Init
<1> QED
  BY <1>2, <1>3 DEF Promise!Init, Init, HeldBlocks

\* Every step is one of PageAlloc's or changes none of its variables.
LEMMA StepsAsPromised ==
    ASSUME PlainMachines, AsksForAPage, WantIsRequested, Inv, ExactInv, [Next]_vars
    PROVE  Promise!Next \/ UNCHANGED Promise!vars
<1>1. CASE UNCHANGED <<total, held, reply>>
  BY <1>1 DEF Promise!vars
<1>2. CASE AllocReturns
  BY <1>2, GivesAvailable DEF Promise!Next
<1>3. CASE MmTestFree \/ \E p \in PageIndex, o \in FreeOrders : FreePages(p, o)
  <2>1. PICK by, p, o : <<p, o>> \in Blocks /\ StartFree(by, p, o)
    <3>1. call.page \in PageIndex /\ 0 \in Orders /\ FreeOrders \subseteq Orders
      BY OrderFacts, MmAssumption DEF Inv, TypeOK
    <3> QED
      BY <1>3, <3>1 DEF MmTestFree, FreePages, Blocks
  <2> QED
    BY <2>1, FreesWhatIsHeld DEF Promise!Next, HeldBlocks
<1>4. CASE \E o \in Requests : AllocFails(o)
  BY <1>4, NullWhenNoneIsLeft DEF Promise!Next
<1>5. CASE \/ MmReservedInit \/ ZoneInit \/ PageInit \/ AreaBegin \/ AreaScan \/ AreaEnd
           \/ MmTest \/ Split \/ Merge \/ FreeReturns \/ Halted \/ UNCHANGED vars
           \/ \E o \in Requests : AllocPages(o)
  <2>1. UNCHANGED <<total, held, reply>>
    BY <1>5 DEF MmReservedInit, ZoneInit, PageInit, AreaBegin, AreaScan, AreaEnd, MmTest,
       Split, Merge, FreeReturns, Halted, vars, AllocPages, Alloc, Rmqueue
  <2> QED
    BY <1>1, <2>1
<1> QED
  BY <1>2, <1>3, <1>4, <1>5 DEF Next, Kernel, Client

(* On the same machines the allocator implements PageAlloc: every block it  *)
(* hands out is aligned, in ZONE_NORMAL and shares no page with another, a  *)
(* free takes back exactly that block, and a caller is told NULL only if no *)
(* block of that order could be made of the pages that nobody holds.        *)
THEOREM PromiseIsKept ==
    ASSUME PlainMachines, AsksForAPage PROVE Spec => KeepsPromise
<1>1. KernelInDma
  BY DEF PlainMachines
<1>2. Inv /\ BootInv /\ [Next]_vars => BootInv'
  BY <1>1, StepBoots
<1>3. Init /\ Inv => ExactInv
  BY InitExact
<1>4. Inv /\ BootInv /\ BootInv' /\ ExactInv /\ [Next]_vars => ExactInv'
  BY StepExact
<1>5. Init => WantIsRequested
  BY DEF Init, WantIsRequested
<1>6. Inv /\ WantIsRequested /\ [Next]_vars => WantIsRequested'
  BY WantStays
<1>7. WantIsRequested /\ Inv /\ ExactInv /\ [Next]_vars => [Promise!Next]_(Promise!vars)
  BY StepsAsPromised
<1>8. Init => Promise!Init
  BY BeginsAsPromised
<1> QED
  BY <1>2, <1>3, <1>4, <1>5, <1>6, <1>7, <1>8, InitBoot, InvHolds, PTL
     DEF Spec, KeepsPromise, Promise!Spec

-----------------------------------------------------------------------------
(* KernelMem.  What a step of the whole does to the page allocator: a step  *)
(* of Mm, or the call kmem_getpages makes, which no bound of Mm holds back. *)
GetsPage == pc = "idle" /\ Alloc("client", 0)

GetsNone ==
    /\ pc = "idle" /\ reply' = <<"null", 0>>
    /\ UNCHANGED <<pc, total, resv, mem, page, area, scan, call, held>>

Moves == [Next]_vars \/ GetsPage \/ GetsNone

\* Every step of the whole is such a step of the page allocator.
LEMMA KernelMemMoves == ASSUME [KernelMemNext]_all_vars PROVE Moves
<1>1. CASE PageStep \/ OtherCaller
  BY <1>1 DEF PageStep, OtherCaller, Moves, Next
<1>2. CASE CacheCall \/ CacheStep \/ cache_grow
  BY <1>2 DEF CacheCall, CacheStep, cache_grow, Moves
<1>3. CASE kmem_getpages
  BY <1>3 DEF kmem_getpages, Moves, GetsPage, GetsNone
<1>4. CASE Stopped \/ UNCHANGED all_vars
  BY <1>4 DEF Stopped, all_vars, Moves
<1> QED
  BY <1>1, <1>2, <1>3, <1>4 DEF KernelMemNext, Work

\* They keep Inv,
LEMMA MovesKeepInv == ASSUME Inv, Moves PROVE Inv'
<1>1. CASE [Next]_vars
  BY <1>1, StepInv
<1>2. CASE GetsPage
  <2>1. 0 \in Nat /\ pc \in {"mm_test", "idle"} /\ Alloc("client", 0)
    BY <1>2 DEF GetsPage
  <2> QED
    BY <2>1, AllocStep
<1>3. CASE GetsNone
  <2>1. pc \notin Early /\ reply' \in {"none", "block", "freed", "null"} \X Nat
    BY <1>3 DEF GetsNone, Early
  <2> QED
    BY <1>3, <2>1, OnlyPcMoves DEF GetsNone
<1> QED
  BY <1>1, <1>2, <1>3 DEF Moves

\* they keep BootInv,
LEMMA MovesKeepBootInv == ASSUME KernelInDma, Inv, BootInv, Moves PROVE BootInv'
<1>1. CASE [Next]_vars
  BY <1>1, StepBoots
<1>2. CASE GetsPage
  <2>1. pc = "idle" /\ pc' \in {"split", "wild"} /\ UNCHANGED <<total, spanned, reply>>
    BY <1>2 DEF GetsPage, Alloc, Rmqueue
  <2> QED
    BY <2>1, CallBoots DEF Early, BootInv, Answered
<1>3. CASE GetsNone
  <2>1. pc = "idle" /\ pc' = "idle" /\ reply'[1] = "null" /\ UNCHANGED <<total, spanned>>
    BY <1>3 DEF GetsNone, area
  <2> QED
    BY <2>1, CallBoots DEF Early
<1> QED
  BY <1>1, <1>2, <1>3 DEF Moves

\* and they keep ExactInv.
LEMMA MovesKeepExact ==
    ASSUME PlainMachines, Inv, BootInv, BootInv', ExactInv, Moves PROVE ExactInv'
<1>1. CASE [Next]_vars
  BY <1>1, StepExact
<1>2. CASE GetsPage
  <2>1. 0 \in Nat /\ pc = "idle" /\ Alloc("client", 0)
    BY <1>2 DEF GetsPage
  <2> QED
    BY <2>1, AllocExact
<1>3. CASE GetsNone
  BY <1>3, StutterExact DEF GetsNone, area
<1> QED
  BY <1>1, <1>2, <1>3 DEF Moves

\* The boot of the page allocator, up to the end of the first call.
Starting == pc \in Early \union Scans \union {"mm_test", "BUG"} \/ InFirstCall

\* There is no way back into the boot.
LEMMA StartsOnce == ASSUME Inv, ExactInv, Moves, Starting' PROVE Starting
<1> SUFFICES ASSUME ~Starting PROVE FALSE
  OBVIOUS
<1>1. /\ pc \in {"idle", "split", "merge", "mm_test_free", "wild"}
      /\ pc \in {"split", "merge", "mm_test_free"} => call.by = "client"
      /\ pc # "mm_test_free"
  <2>1. call.by \in {"client", "mm_test"} /\ (pc = "mm_test_free" => call.by = "mm_test")
    BY DEF Inv, TypeOK, ExactInv, Frame, Callers
  <2>2. pc \in Early \union Scans \union {"mm_test", "BUG", "idle", "split", "merge",
                                          "mm_test_free", "wild"}
    BY DEF Inv, TypeOK, Early, Scans
  <2> QED
    BY <2>1, <2>2 DEF Starting, InFirstCall
<1>2. CASE UNCHANGED <<pc, call>>
  BY <1>2 DEF Starting, InFirstCall
<1>3. ASSUME NEW o, Alloc("client", o) PROVE FALSE
  <2>1. pc' = "wild" \/ (pc' = "split" /\ call'.by = "client")
    BY <1>3 DEF Alloc, Rmqueue
  <2> QED
    BY <2>1 DEF Starting, InFirstCall, Early, Scans
<1>4. CASE Split \/ Merge
  <2>1. call'.by = call.by /\ pc' \in {pc, "wild"} /\ pc \in {"split", "merge"}
    <3>1. call \in [by : {"client", "mm_test"}, zone : Zones, want : Orders,
                    order : Orders, page : PageIndex]
      BY DEF Inv, TypeOK
    <3>2. CASE Split
      <4>1. call' = [call EXCEPT !.order = call.order - 1] \/ call' = call
        BY <3>2 DEF Split
      <4> QED
        BY <3>1, <3>2, <4>1 DEF Split
    <3>3. CASE Merge
      <4> DEFINE b == page_find_buddy(call.page, call.order)
      <4>1. call' = join_with(b) \/ call' = call
        BY <3>3 DEF Merge
      <4> HIDE DEF b
      <4> QED
        BY <3>1, <3>3, <4>1 DEF Merge, join_with
    <3> QED
      BY <1>4, <3>2, <3>3
  <2> QED
    BY <1>1, <2>1 DEF Starting, InFirstCall, Early, Scans
<1>5. CASE AllocReturns \/ FreeReturns
  <2>1. pc' = "idle"
    BY <1>1, <1>5 DEF AllocReturns, FreeReturns
  <2> QED
    BY <2>1 DEF Starting, InFirstCall, Early, Scans
<1>6. ASSUME NEW p, NEW o, FreePages(p, o) PROVE FALSE
  <2>1. pc' = "wild" \/ (pc' = "merge" /\ call'.by = "client")
    BY <1>6 DEF FreePages, StartFree
  <2> QED
    BY <2>1 DEF Starting, InFirstCall, Early, Scans
<1>7. CASE GetsPage \/ GetsNone
  BY <1>2, <1>3, <1>7 DEF GetsPage, GetsNone
<1>8. CASE [Next]_vars
  <2>1. CASE Client
    BY <1>2, <1>3, <1>6, <2>1 DEF Client, AllocPages, AllocFails
  <2>2. CASE Kernel
    BY <1>1, <1>4, <1>5, <2>2 DEF Kernel, MmReservedInit, ZoneInit, PageInit, AreaBegin,
       AreaScan, AreaEnd, MmTest, MmTestFree
  <2>3. CASE Halted \/ UNCHANGED vars
    BY <1>2, <2>3 DEF Halted, vars
  <2> QED
    BY <1>8, <2>1, <2>2, <2>3 DEF Next
<1> QED
  BY <1>7, <1>8 DEF Moves

-----------------------------------------------------------------------------
(* ObjectsApart.  The cache starts after the page allocator, and a page it  *)
(* has asked for is in a running call, or held and not yet a slab.          *)
NotYet == Starting => slab_pc = "idle" /\ grown = {} /\ ~asked

Asked ==
    asked =>
        /\ slab_pc = "must_grow" /\ avail = 0
        /\ pc \in {"split", "idle", "wild"}
        /\ pc = "split" => call.by = "client" /\ call.want = 0
        /\ pc = "idle" => held[<<call.page, 0>>] = 1 /\ call.page \notin grown

SlabsHeld == \A p \in grown : p \in PageIndex /\ p < MappedPages /\ held[<<p, 0>>] = 1

CacheInv == asked \in BOOLEAN /\ NotYet /\ Asked /\ SlabsHeld

\* What is left to say of a step in which the cache does nothing.
LEMMA NotYetStays ==
    ASSUME Inv, ExactInv, NotYet, Moves, UNCHANGED <<slab_pc, grown, asked>> PROVE NotYet'
  BY StartsOnce DEF NotYet

\* The steps of Mm within a call of kmem_getpages, and those outside of it.
LEMMA PageStepKeepsCache ==
    ASSUME PlainMachines, Inv, ExactInv, CacheInv, PageStep PROVE CacheInv'
<1>1. /\ Kernel /\ UNCHANGED <<asked, slab_pc, grown, avail>> /\ Moves
      /\ asked' \in BOOLEAN
  BY DEF PageStep, slab_vars, Moves, Next, CacheInv
<1>2. NotYet'
  BY <1>1, NotYetStays DEF CacheInv
<1>3. pc \notin {"idle", "wild", "BUG"}
  BY <1>1 DEF Kernel, MmReservedInit, ZoneInit, PageInit, AreaBegin, AreaScan, AreaEnd,
     MmTest, MmTestFree, Split, AllocReturns, Merge, FreeReturns
<1>4. CASE AllocReturns
  <2> DEFINE b == <<call.page, call.want>>
  <2>1. /\ pc = "split" /\ held' = [held EXCEPT ![b] = @ + 1] /\ UNCHANGED call
        /\ pc' = IF call.by = "mm_test" THEN "mm_test_free" ELSE "idle"
    BY <1>4 DEF AllocReturns
  <2>2. held \in [Blocks -> Nat] /\ b \in Blocks /\ held[b] = 0
    <3>1. held \in [Blocks -> Nat] /\ call.page \in PageIndex /\ call.want \in Orders
      BY DEF Inv, TypeOK
    <3> QED
      BY <2>1, <3>1, CallUnheld DEF Blocks
  <2>3. held' = [held EXCEPT ![b] = 1]
    BY <2>1, <2>2
  <2>4. SlabsHeld'
    <3> SUFFICES ASSUME NEW p \in grown PROVE p \in PageIndex /\ p < MappedPages
                                            /\ held'[<<p, 0>>] = 1
      BY <1>1 DEF SlabsHeld
    <3>1. p \in PageIndex /\ p < MappedPages /\ held[<<p, 0>>] = 1
      BY DEF SlabsHeld, CacheInv
    <3>2. <<p, 0>> \in Blocks /\ <<p, 0>> # b
      BY <2>2, <3>1, OrderFacts DEF Blocks
    <3> HIDE DEF b
    <3> QED
      BY <2>2, <2>3, <3>1, <3>2
  <2>5. Asked'
    <3> SUFFICES ASSUME asked PROVE Asked'
      BY <1>1 DEF Asked
    <3>1. slab_pc = "must_grow" /\ avail = 0 /\ call.by = "client" /\ call.want = 0
      BY <2>1 DEF Asked, CacheInv
    <3>2. pc' = "idle" /\ held'[<<call.page, 0>>] = 1
      BY <2>1, <2>2, <2>3, <3>1
    <3>3. call.page \notin grown
      BY <2>2, <3>1 DEF SlabsHeld, CacheInv
    <3> QED
      BY <1>1, <2>1, <3>1, <3>2, <3>3 DEF Asked
  <2> QED
    BY <1>1, <1>2, <2>4, <2>5 DEF CacheInv
<1>5. CASE Split
  <2>1. /\ pc = "split" /\ pc' \in {"split", "wild"} /\ UNCHANGED held
        /\ call' = [call EXCEPT !.order = call.order - 1] \/ call' = call
    BY <1>5 DEF Split
  <2>2. call'.by = call.by /\ call'.want = call.want
    <3>1. call \in [by : {"client", "mm_test"}, zone : Zones, want : Orders,
                    order : Orders, page : PageIndex]
      BY DEF Inv, TypeOK
    <3> QED
      BY <2>1, <3>1
  <2>3. Asked' /\ SlabsHeld'
    BY <1>1, <2>1, <2>2 DEF Asked, SlabsHeld, CacheInv
  <2> QED
    BY <1>1, <1>2, <2>3 DEF CacheInv
<1>6. CASE MmTestFree
  <2>1. Starting
    BY <1>6 DEF MmTestFree, Starting, InFirstCall, ExactInv, Frame, Callers
  <2>2. grown = {} /\ ~asked
    BY <2>1 DEF CacheInv, NotYet
  <2>3. grown' = {} /\ ~asked'
    BY <1>1, <2>2
  <2> QED
    BY <1>1, <1>2, <2>3 DEF CacheInv, Asked, SlabsHeld
<1>7. CASE ~(AllocReturns \/ Split \/ MmTestFree)
  <2>1. pc # "split" /\ UNCHANGED held
    BY <1>1, <1>7 DEF Kernel, MmReservedInit, ZoneInit, PageInit, AreaBegin, AreaScan,
       AreaEnd, MmTest, Alloc, Rmqueue, Merge, FreeReturns
  <2>2. ~asked
    BY <1>3, <2>1 DEF CacheInv, Asked
  <2>3. Asked' /\ SlabsHeld'
    BY <1>1, <2>1, <2>2 DEF CacheInv, Asked, SlabsHeld
  <2> QED
    BY <1>1, <1>2, <2>3 DEF CacheInv
<1> QED
  BY <1>4, <1>5, <1>6, <1>7

\* The cache calls and refills while it waits for no page.
LEMMA CacheKeepsCache ==
    ASSUME PlainMachines, Inv, ExactInv, CacheInv, CacheCall \/ CacheStep PROVE CacheInv'
<1>1. /\ pc = "idle" /\ UNCHANGED <<pc, call, held, asked, grown>>
      /\ \/ slab_pc \in {"idle", "find", "take"}
         \/ slab_pc = "must_grow" /\ avail > 0
  BY DEF CacheCall, CacheStep, vars, S!KmemCacheAlloc, S!FindSlab, S!NoSlabToTake,
     S!TakeObject, S!Relist, S!Refilled, S!slabs
<1>2. ~asked
  BY <1>1 DEF CacheInv, Asked
<1>3. ~Starting'
  BY <1>1 DEF Starting, InFirstCall, Early, Scans
<1> QED
  BY <1>1, <1>2, <1>3 DEF CacheInv, NotYet, Asked, SlabsHeld

\* The cache waits for the page of the call it makes.
LEMMA GetPagesKeepsCache ==
    ASSUME PlainMachines, Inv, ExactInv, CacheInv, kmem_getpages PROVE CacheInv'
<1>1. /\ pc = "idle" /\ ~asked /\ slab_pc = "must_grow" /\ avail = 0
      /\ UNCHANGED <<held, grown>>
  BY DEF kmem_getpages, slab_vars, Alloc, Rmqueue, NoPageForSlab, S!GrowFails, S!slabs
<1>2. CASE Alloc("client", 0) /\ asked' = TRUE /\ UNCHANGED slab_vars
  <2>1. pc' = "wild" \/ (pc' = "split" /\ call'.by = "client" /\ call'.want = 0)
    BY <1>2 DEF Alloc, Rmqueue
  <2>2. slab_pc' = "must_grow" /\ avail' = 0 /\ asked' = TRUE
    BY <1>1, <1>2 DEF slab_vars
  <2>3. ~Starting'
    BY <2>1 DEF Starting, InFirstCall, Early, Scans
  <2> QED
    BY <1>1, <2>1, <2>2, <2>3 DEF CacheInv, NotYet, Asked, SlabsHeld
<1>3. CASE UNCHANGED <<pc, call, asked>>
  <2>1. ~Starting' /\ ~asked'
    BY <1>1, <1>3 DEF Starting, InFirstCall, Early, Scans
  <2> QED
    BY <1>1, <1>3, <2>1 DEF CacheInv, NotYet, Asked, SlabsHeld
<1> QED
  BY <1>2, <1>3 DEF kmem_getpages

\* The page the cache was waiting for becomes a slab.
LEMMA GrowKeepsCache ==
    ASSUME PlainMachines, Inv, ExactInv, CacheInv, cache_grow PROVE CacheInv'
<1>1. /\ pc = "idle" /\ asked /\ asked' = FALSE /\ UNCHANGED <<pc, held, call>>
      /\ \/ call.page < MappedPages /\ grown' = grown \union {call.page}
         \/ UNCHANGED grown
  BY DEF cache_grow, vars, S!GrowWith
<1>2. held[<<call.page, 0>>] = 1 /\ call.page \in PageIndex
  BY <1>1 DEF CacheInv, Asked, Inv, TypeOK
<1>3. ~Starting' /\ ~asked'
  BY <1>1 DEF Starting, InFirstCall, Early, Scans
<1>4. SlabsHeld'
  BY <1>1, <1>2 DEF CacheInv, SlabsHeld
<1> QED
  BY <1>1, <1>3, <1>4 DEF CacheInv, NotYet, Asked

\* Nobody frees the pages under the slabs.
LEMMA OthersKeepCache ==
    ASSUME PlainMachines, MAX_ORDER # 0, Inv, ExactInv, CacheInv, OtherCaller
    PROVE  CacheInv'
<1>1. /\ Client /\ slab_pc = "idle" /\ UNCHANGED <<asked, slab_pc, grown, avail>> /\ Moves
  BY DEF OtherCaller, slab_vars, Moves, Next
<1>2. NotYet'
  BY <1>1, NotYetStays DEF CacheInv
<1>3. ~asked /\ ~asked'
  BY <1>1 DEF CacheInv, Asked
<1>4. SlabsHeld'
  <2>1. CASE \E o \in Requests : AllocPages(o) \/ AllocFails(o)
    <3>1. UNCHANGED held
      BY <2>1 DEF AllocPages, AllocFails, Alloc, Rmqueue
    <3> QED
      BY <1>1, <3>1 DEF CacheInv, SlabsHeld
  <2>2. ASSUME NEW p \in PageIndex, NEW o \in FreeOrders, FreePages(p, o) PROVE SlabsHeld'
    <3>1. held' = [held EXCEPT ![<<p, o>>] = @ - 1] /\ o # 0
      BY <2>2 DEF FreePages, StartFree, PlainMachines
    <3>2. held \in [Blocks -> Nat] /\ 0 \in Orders
      BY OrderFacts DEF Inv, TypeOK
    <3>3. \A q \in PageIndex : held'[<<q, 0>>] = held[<<q, 0>>]
      BY <3>1, <3>2 DEF Blocks
    <3> QED
      BY <1>1, <3>3 DEF CacheInv, SlabsHeld
  <2> QED
    BY <1>1, <2>1, <2>2 DEF Client
<1>5. asked' \in BOOLEAN /\ Asked'
  BY <1>1, <1>3 DEF CacheInv, Asked
<1> QED
  BY <1>2, <1>4, <1>5 DEF CacheInv

\* Every step of the whole keeps CacheInv.
LEMMA StepCache ==
    ASSUME PlainMachines, MAX_ORDER # 0, Inv, ExactInv, CacheInv, [KernelMemNext]_all_vars
    PROVE  CacheInv'
<1>1. CASE PageStep \/ CacheCall \/ CacheStep
  BY <1>1, PageStepKeepsCache, CacheKeepsCache
<1>2. CASE kmem_getpages \/ cache_grow \/ OtherCaller
  BY <1>2, GetPagesKeepsCache, GrowKeepsCache, OthersKeepCache
<1>3. CASE Stopped \/ UNCHANGED all_vars
  <2>1. UNCHANGED <<pc, call, held, asked, slab_pc, grown, avail>>
    BY <1>3 DEF Stopped, all_vars, vars, slab_vars
  <2> QED
    BY <2>1 DEF CacheInv, NotYet, Asked, SlabsHeld, Starting, InFirstCall
<1> QED
  BY <1>1, <1>2, <1>3 DEF KernelMemNext, Work

\* The cache starts without pages.
LEMMA InitCache == ASSUME S!Init, asked = FALSE PROVE CacheInv
  BY DEF S!Init, CacheInv, NotYet, Asked, SlabsHeld

\* The page under a slab is held as one block and in no other claim.
LEMMA SlabsApart ==
    ASSUME PlainMachines, Inv, ExactInv, CacheInv PROVE ObjectsApart
<1> SUFFICES ASSUME NEW p \in grown
             PROVE  /\ p >= DmaPages /\ p < MappedPages
                    /\ held[<<p, 0>>] = 1
                    /\ pc = "idle" => TimesFree(p) = 0 /\ TimesHeld(p) = 1
  BY DEF ObjectsApart
<1>1. p \in PageIndex /\ p < MappedPages /\ held[<<p, 0>>] = 1
  BY DEF CacheInv, SlabsHeld
<1>2. <<p, 0>> \in Blocks /\ held[<<p, 0>>] > 0
  BY <1>1, OrderFacts DEF Blocks
<1>3. p \in DmaPages .. total - 1 /\ p \in Nat
  <2> DEFINE b == <<p, 0>>
  <2>1. b \in Blocks /\ held[b] > 0 /\ b[1] = p
    BY <1>2
  <2> HIDE DEF b
  <2> QED
    BY <1>1, <2>1 DEF Inv, HeldIsNormal, NormalPages, PageIndex
<1>4. ASSUME pc = "idle" PROVE TimesFree(p) = 0 /\ TimesHeld(p) = 1
  <2>1. p \in resv .. total - 1
    BY <1>3, PlainFacts
  <2>2. <<p, 0>> \in HeldAt(p)
    <3>1. p \in PagesOf(<<p, 0>>)
      BY <1>3, OrderFacts DEF PagesOf
    <3> QED
      BY <1>2, <3>1 DEF HeldAt
  <2>3. FreeAt(p) = {} /\ \E b : HeldAt(p) = {b}
    BY <1>4, <2>1, <2>2, OneClaimEach
  <2>4. Cardinality({}) = 0 /\ \A b : Cardinality({b}) = 1
    BY FS_EmptySet, FS_Singleton
  <2>5. TimesFree(p) = Cardinality(FreeAt(p)) /\ TimesHeld(p) = Cardinality(HeldAt(p))
    BY DEF TimesFree, TimesHeld, FreeAt, HeldAt
  <2> QED
    BY <2>3, <2>4, <2>5
<1> QED
  BY <1>1, <1>3, <1>4, PlainFacts

(* ObjectsApart: the pages under the slabs are mapped, held by the slab     *)
(* alone as one block, and on no free list.                                *)
THEOREM SlabsKeepApart ==
    ASSUME PlainMachines, MAX_ORDER # 0 PROVE KernelMemSpec => []ObjectsApart
<1> DEFINE All == Inv /\ BootInv /\ ExactInv /\ CacheInv
<1>1. KernelMemInit => All
  BY InitInv, InitBoot, InitExact, InitCache DEF KernelMemInit
<1>2. All /\ [KernelMemNext]_all_vars => All'
  BY KernelMemMoves, MovesKeepInv, MovesKeepBootInv, MovesKeepExact, StepCache
     DEF PlainMachines
<1>3. All => ObjectsApart
  BY SlabsApart
<1> QED
  BY <1>1, <1>2, <1>3, PTL DEF KernelMemSpec

-----------------------------------------------------------------------------
(* UpExactlyOn.  A free in mm_test leaves nothing on the lists it has been  *)
(* through, so the highest block is first again, and the first page handed  *)
(* out is the first of it.                                                  *)
LowerGone ==
    pc = "merge" /\ call.by = "mm_test" =>
        \A o \in Orders : o < call.order => nr_free["NORMAL"][o] = 0

\* A merge leaves the list it has been through empty.
LEMMA LowerStaysGone ==
    ASSUME PlainMachines, Inv, ExactInv, LowerGone, Moves PROVE LowerGone'
<1> SUFFICES ASSUME pc' = "merge", call'.by = "mm_test"
             PROVE  \A o \in Orders : o < call'.order => nr_free'["NORMAL"][o] = 0
  BY DEF LowerGone
<1>1. CASE UNCHANGED <<pc, call, nr_free>>
  BY <1>1 DEF LowerGone
<1>2. CASE MmTestFree
  <2>1. call'.order = 0
    BY <1>2 DEF MmTestFree, StartFree
  <2> QED
    BY <2>1 DEF Orders
<1>3. CASE Merge
  <2> DEFINE o == call.order
             q == page_find_buddy(call.page, o)
  <2>1. PICK L : Tiled(L)
    BY DEF ExactInv
  <2>2. pc = "merge" /\ o < MAX_ORDER
    BY <1>3 DEF Merge
  <2>3. /\ InFirstCall /\ call.by = "mm_test" /\ o \in Orders \ {MAX_ORDER}
        /\ call.zone = "NORMAL" /\ FirstCall(L)
        /\ call \in [by : {"client", "mm_test"}, zone : Zones, want : Orders,
                     order : Orders, page : PageIndex]
    BY <2>1, <2>2, FirstFree, CallFacts
  <2>4. nr_free["NORMAL"][o] = 1 /\ o \in Nat
    BY <2>3, OrderFacts DEF FirstCall, Orders
  <2>5. nr_free' = AddFree("NORMAL", o, -1) /\ call' = join_with(q)
    <3>1. IF q >= total
          THEN pc' = "wild" /\ UNCHANGED <<mem, nr_free, call>>
          ELSE /\ page_is_buddy(q)
               /\ mem' = list_del(mem, <<"page", call.page>>)
               /\ nr_free' = AddFree("NORMAL", o, -1)
               /\ call' = join_with(q)
               /\ UNCHANGED pc
      BY <1>3, <2>3 DEF Merge
    <3> HIDE DEF q, o
    <3> QED
      BY <3>1
  <2>6. call'.order = o + 1
    <3> HIDE DEF q
    <3> QED
      BY <2>3, <2>5 DEF join_with
  <2> HIDE DEF q, o
  <2>7. nr_free' = [nr_free EXCEPT !["NORMAL"][o] = 0]
    <3>1. nr_free' = [nr_free EXCEPT !["NORMAL"][o] = (1 + (-1)) % ULong]
      BY <2>4, <2>5 DEF AddFree
    <3>2. (1 + (-1)) % ULong = 0
      BY PlainFacts
    <3> QED
      BY <3>1, <3>2
  <2>8. ASSUME NEW k \in Orders, k < o + 1 PROVE nr_free'["NORMAL"][k] = 0
    <3>1. nr_free \in Depths
      BY PlainFacts
    <3>2. CASE k = o
      BY <2>7, <3>1, <3>2, NormalIsZone DEF Depths
    <3>3. CASE k # o
      <4>1. k < o
        BY <2>4, <2>8, <3>3 DEF Orders
      <4>2. nr_free["NORMAL"][k] = 0
        BY <2>2, <2>3, <4>1 DEF LowerGone, o
      <4> QED
        BY <2>7, <3>1, <3>3, <4>2, NormalIsZone DEF Depths
    <3> QED
      BY <3>2, <3>3
  <2> QED
    BY <2>6, <2>8
<1>4. CASE Kernel /\ ~Merge /\ ~MmTestFree
  BY <1>4 DEF Kernel, MmReservedInit, ZoneInit, PageInit, AreaBegin, AreaScan, AreaEnd,
     MmTest, Alloc, Rmqueue, Split, AllocReturns, FreeReturns
<1>5. CASE Client
  <2>1. CASE \E o \in Requests : AllocPages(o) \/ AllocFails(o)
    <3>1. pc' # "merge"
      BY <2>1 DEF AllocPages, AllocFails, Alloc, Rmqueue
    <3> QED
      BY <3>1
  <2>2. CASE \E p \in PageIndex, o \in FreeOrders : FreePages(p, o)
    <3>1. pc' = "wild" \/ call'.by = "client"
      BY <2>2 DEF FreePages, StartFree
    <3> QED
      BY <3>1
  <2> QED
    BY <1>5, <2>1, <2>2 DEF Client
<1>6. CASE GetsPage \/ GetsNone
  BY <1>6 DEF GetsPage, GetsNone, Alloc, Rmqueue
<1>7. CASE Halted
  BY <1>1, <1>7 DEF Halted, vars
<1> QED
  BY <1>1, <1>2, <1>3, <1>4, <1>5, <1>6, <1>7 DEF Moves, Next, vars

\* Only the highest block is where the first caller gets its page from.
Fresh ==
    /\ \A o \in Orders \ {MAX_ORDER} : nr_free["NORMAL"][o] = 0
    /\ mem.next[<<"NORMAL", MAX_ORDER>>] = Pg(HighBlock)

FirstUp ==
    /\ pc \in {"split", "merge"} /\ call.by = "client" /\ ~asked => grown # {}
    /\ pc = "idle" /\ ~asked /\ grown = {} => slab_pc = "fault" \/ Fresh
    /\ asked /\ grown = {} /\ pc # "wild" => call.page = HighBlock
    /\ UpExactlyOn

\* The size of the machine is a constant of the run.
LEMMA TotalStays == ASSUME Moves PROVE total' = total /\ HighBlock' = HighBlock
<1>1. total' = total
  BY DEF Moves, GetsPage, GetsNone, Next, Kernel, Client, Halted, vars, MmReservedInit,
     ZoneInit, PageInit, AreaBegin, AreaScan, AreaEnd, MmTest, MmTestFree, Alloc, Rmqueue,
     Split, AllocReturns, Merge, FreeReturns, AllocPages, AllocFails, FreePages, StartFree
<1> QED
  BY <1>1 DEF HighBlock

\* The end of the free in mm_test.
LEMMA FreshAgain ==
    ASSUME PlainMachines, Inv, ExactInv, LowerGone, FreeReturns, call.by = "mm_test"
    PROVE  Fresh'
<1> DEFINE h == <<"NORMAL", MAX_ORDER>>
           c == Pg(HighBlock)
<1>1. PICK L : Tiled(L)
  BY DEF ExactInv
<1>2. /\ pc = "merge" /\ call.zone = "NORMAL" /\ call.order = MAX_ORDER
      /\ FirstCall(L) /\ HighBlock' = HighBlock
  <2>1. pc = "merge" /\ HighBlock' = HighBlock
    BY DEF FreeReturns, HighBlock
  <2> QED
    BY <1>1, <2>1, CallFacts, FreesEndLargest
<1>3. call.page = HighBlock
  BY <1>2 DEF FirstCall, InFirstCall
<1>4. mem' = list_add(mem, c, h) /\ nr_free' = AddFree("NORMAL", MAX_ORDER, 1)
  BY <1>2, <1>3 DEF FreeReturns, Pg
<1>5. /\ mem \in Memory(Cell) /\ nr_free \in Depths /\ MAX_ORDER \in Orders
      /\ h \in Cell /\ c \in Cell /\ h # c
  <2>1. call.page \in PageIndex
    BY <1>1, <1>2, CallFacts
  <2> QED
    BY <1>3, <2>1, PlainFacts, OrderFacts, CellsApart, NormalIsZone
<1>6. mem'.next[h] = c
  <2> HIDE DEF h, c
  <2> QED
    BY <1>4, <1>5, AddFields
<1>7. ASSUME NEW o \in Orders \ {MAX_ORDER} PROVE nr_free'["NORMAL"][o] = 0
  <2>1. o < MAX_ORDER
    BY OrderFacts DEF Orders
  <2>2. nr_free["NORMAL"][o] = 0
    BY <1>2, <2>1 DEF LowerGone
  <2> QED
    BY <1>4, <1>5, <2>2, NormalIsZone DEF AddFree, Depths
<1> QED
  BY <1>2, <1>6, <1>7 DEF Fresh

\* Mm's own steps: up to the end of mm_test, and within a call.
LEMMA PageStepFirstUp ==
    ASSUME PlainMachines, Inv, ExactInv, CacheInv, LowerGone, FirstUp, PageStep
    PROVE  FirstUp'
<1>1. /\ Kernel /\ Moves /\ UNCHANGED <<asked, slab_pc, grown>>
  BY DEF PageStep, slab_vars, Moves, Next
<1>2. UpExactlyOn'
  <2>1. total' = total
    BY <1>1, TotalStays
  <2> QED
    BY <1>1, <2>1 DEF FirstUp, UpExactlyOn
<1>3. HighBlock' = HighBlock
  BY <1>1, TotalStays
<1>4. CASE Split \/ AllocReturns
  <2>1. /\ pc = "split" /\ pc' \in {"split", "wild", "idle", "mm_test_free"}
        /\ pc' = "idle" => call.by # "mm_test"
    BY <1>4 DEF Split, AllocReturns
  <2>2. call'.by = call.by /\ call'.page = call.page /\ call.by \in {"client", "mm_test"}
    <3>1. call \in [by : {"client", "mm_test"}, zone : Zones, want : Orders,
                    order : Orders, page : PageIndex]
      BY DEF Inv, TypeOK
    <3>2. call' = [call EXCEPT !.order = call.order - 1] \/ call' = call
      BY <1>4 DEF Split, AllocReturns
    <3> QED
      BY <3>1, <3>2
  <2> QED
    BY <1>1, <1>2, <1>3, <2>1, <2>2 DEF FirstUp
<1>5. CASE FreeReturns
  <2>1. pc = "merge" /\ pc' = "idle" /\ call' = call
    BY <1>5 DEF FreeReturns
  <2>2. ~asked
    BY <2>1 DEF CacheInv, Asked
  <2>3. call.by = "mm_test" => Fresh'
    BY <1>5, FreshAgain
  <2>4. call.by # "mm_test" => grown # {}
    <3>1. call.by \in {"client", "mm_test"}
      BY DEF Inv, TypeOK
    <3> QED
      BY <2>1, <2>2, <3>1 DEF FirstUp
  <2> QED
    BY <1>1, <1>2, <2>1, <2>2, <2>3, <2>4 DEF FirstUp
<1>6. CASE Merge
  <2>1. pc = "merge" /\ pc' \in {"merge", "wild"}
    BY <1>6 DEF Merge
  <2>2. ~asked
    BY <2>1 DEF CacheInv, Asked
  <2>3. call'.by = call.by
    <3> DEFINE b == page_find_buddy(call.page, call.order)
    <3>1. call \in [by : {"client", "mm_test"}, zone : Zones, want : Orders,
                    order : Orders, page : PageIndex]
      BY DEF Inv, TypeOK
    <3>2. call' = join_with(b) \/ call' = call
      BY <1>6 DEF Merge
    <3> HIDE DEF b
    <3> QED
      BY <3>1, <3>2 DEF join_with
  <2> QED
    BY <1>1, <1>2, <2>1, <2>2, <2>3 DEF FirstUp
<1>7. CASE MmTest \/ MmTestFree
  <2>1. /\ pc \in {"mm_test", "mm_test_free"} /\ pc' \in {"split", "merge", "wild"}
        /\ pc' # "wild" => call'.by = "mm_test"
    <3>1. CASE MmTest
      <4>1. CASE \E z : Rmqueue("mm_test", z, 0)
        <5>1. PICK z, k :
                 \/ /\ call' = [by |-> "mm_test", zone |-> z, want |-> 0, order |-> k,
                                page |-> mem.next[<<z, k>>][2]]
                    /\ pc' = "split"
                 \/ pc' = "wild"
          BY <4>1 DEF Rmqueue
        <5>2. call'.by = "mm_test" \/ pc' = "wild"
          BY <5>1
        <5> QED
          BY <3>1, <5>1, <5>2 DEF MmTest
      <4>2. CASE pc' = "wild"
        BY <3>1, <4>2 DEF MmTest
      <4> QED
        BY <3>1, <4>1, <4>2 DEF MmTest, Alloc
    <3>2. CASE MmTestFree
      BY <3>2 DEF MmTestFree, StartFree
    <3> QED
      BY <1>7, <3>1, <3>2
  <2>2. ~asked
    BY <2>1 DEF CacheInv, Asked
  <2> QED
    BY <1>1, <1>2, <2>1, <2>2 DEF FirstUp
<1>8. CASE MmReservedInit \/ ZoneInit \/ PageInit \/ AreaBegin \/ AreaScan \/ AreaEnd
  <2>1. /\ pc \notin {"split", "idle", "wild"}
        /\ pc' \notin {"split", "merge", "idle"}
    BY <1>8 DEF MmReservedInit, ZoneInit, PageInit, AreaBegin, AreaScan, AreaEnd
  <2>2. ~asked
    BY <2>1 DEF CacheInv, Asked
  <2> QED
    BY <1>1, <1>2, <2>1, <2>2 DEF FirstUp
<1> QED
  BY <1>1, <1>4, <1>5, <1>6, <1>7, <1>8 DEF Kernel

\* kmem_cache_alloc between its calls of the page allocator.
LEMMA CacheFirstUp ==
    ASSUME CacheInv, FirstUp, CacheCall \/ CacheStep PROVE FirstUp'
<1>1. /\ UNCHANGED <<pc, total, nr_free, mem, call, asked, grown>>
      /\ slab_pc # "fault" /\ slab_pc' # "fault"
  BY DEF CacheCall, CacheStep, vars, S!KmemCacheAlloc, S!FindSlab, S!NoSlabToTake,
     S!TakeObject, S!Relist, S!Refilled, S!slabs, S!PopEntry, S!Retry
<1>2. HighBlock' = HighBlock /\ Fresh' = Fresh
  BY <1>1 DEF HighBlock, Fresh
<1> QED
  BY <1>1, <1>2 DEF FirstUp, UpExactlyOn

\* The first page handed out is that of the highest block.
LEMMA GetPagesFirstUp ==
    ASSUME PlainMachines, Inv, ExactInv, CacheInv, FirstUp, kmem_getpages
    PROVE  FirstUp'
<1>1. /\ pc = "idle" /\ ~asked /\ slab_pc = "must_grow"
      /\ UNCHANGED <<grown, total>>
  BY DEF kmem_getpages, slab_vars, Alloc, Rmqueue, NoPageForSlab, S!GrowFails, S!slabs
<1>2. HighBlock' = HighBlock
  BY <1>1 DEF HighBlock
<1>3. CASE Alloc("client", 0) /\ asked' = TRUE /\ UNCHANGED slab_vars
  <2>1. slab_pc' = "must_grow"
    BY <1>1, <1>3 DEF slab_vars
  <2>2. ASSUME grown = {} PROVE pc' = "wild" \/ call'.page = HighBlock
    <3>1. Fresh
      BY <1>1, <2>2 DEF FirstUp
    <3>2. Rmqueue("client", "NORMAL", 0)
      BY <1>3 DEF Alloc, zonelist
    <3>3. PICK k \in Orders :
            /\ FirstArea("NORMAL", 0, k)
            /\ pc' = "wild" \/ call'.page = mem.next[<<"NORMAL", k>>][2]
      BY <3>2 DEF Rmqueue
    <3>4. k = MAX_ORDER
      BY <3>1, <3>3 DEF Fresh, FirstArea
    <3> QED
      BY <3>1, <3>3, <3>4 DEF Fresh, Pg
  <2> QED
    BY <1>1, <1>2, <1>3, <2>1, <2>2 DEF FirstUp, UpExactlyOn
<1>4. CASE UNCHANGED <<pc, nr_free, mem, call, asked>> /\ NoPageForSlab
  <2>1. slab_pc' = "BUG"
    BY <1>4 DEF NoPageForSlab, S!GrowFails
  <2>2. Fresh' = Fresh
    BY <1>2, <1>4 DEF Fresh
  <2> QED
    BY <1>1, <1>2, <1>4, <2>1, <2>2 DEF FirstUp, UpExactlyOn
<1> QED
  BY <1>3, <1>4 DEF kmem_getpages, area

\* The first page decides between the first slab and a fault.
LEMMA GrowFirstUp ==
    ASSUME PlainMachines, Inv, CacheInv, FirstUp, cache_grow PROVE FirstUp'
<1>1. /\ pc = "idle" /\ pc' = "idle" /\ asked /\ asked' = FALSE /\ total' = total
      /\ IF call.page < MappedPages
         THEN grown' = grown \union {call.page} /\ slab_pc' = "find"
         ELSE slab_pc' = "fault" /\ grown' = grown
  BY DEF cache_grow, vars, S!GrowWith, S!Retry
<1>2. slab_pc = "must_grow"
  BY <1>1 DEF CacheInv, Asked
<1>3. grown = {} => call.page = total - Size[MAX_ORDER]
  BY <1>1 DEF FirstUp, HighBlock
<1>4. call.page \in Int /\ MappedPages \in Int
  BY KernelMemAssumption DEF Inv, TypeOK, PageIndex
<1>5. UpExactlyOn'
  BY <1>1, <1>2, <1>3, <1>4 DEF FirstUp, UpExactlyOn
<1>6. grown' # {} \/ slab_pc' = "fault"
  BY <1>1
<1> QED
  BY <1>1, <1>5, <1>6 DEF FirstUp

\* Other callers come after the first slab.
LEMMA OthersFirstUp ==
    ASSUME PlainMachines, Inv, FirstUp, OtherCaller PROVE FirstUp'
<1>1. grown # {} /\ slab_pc = "idle" /\ Moves /\ UNCHANGED <<asked, slab_pc, grown>>
  BY DEF OtherCaller, slab_vars, Moves, Next
<1>2. total' = total
  BY <1>1, TotalStays
<1> QED
  BY <1>1, <1>2 DEF FirstUp, UpExactlyOn

\* Every step of the whole keeps FirstUp.
LEMMA StepFirstUp ==
    ASSUME PlainMachines, Inv, ExactInv, CacheInv, LowerGone, FirstUp,
           [KernelMemNext]_all_vars
    PROVE  FirstUp'
<1>1. CASE PageStep \/ CacheCall \/ CacheStep
  BY <1>1, PageStepFirstUp, CacheFirstUp
<1>2. CASE kmem_getpages \/ cache_grow \/ OtherCaller
  BY <1>2, GetPagesFirstUp, GrowFirstUp, OthersFirstUp
<1>3. CASE Stopped \/ UNCHANGED all_vars
  <2>1. UNCHANGED <<pc, total, call, mem, nr_free, asked, slab_pc, grown>>
    BY <1>3 DEF Stopped, all_vars, vars, slab_vars
  <2> QED
    BY <2>1 DEF FirstUp, UpExactlyOn, Fresh, HighBlock
<1> QED
  BY <1>1, <1>2, <1>3 DEF KernelMemNext, Work

\* Nothing is claimed of the cache before it asks for a page.
LEMMA InitFirstUp == ASSUME KernelMemInit PROVE LowerGone /\ FirstUp
  BY DEF KernelMemInit, Init, S!Init, LowerGone, FirstUp, UpExactlyOn

(* UpExactlyOn: the cache gets its first slab if the highest block starts   *)
(* below the end of the page tables, and faults on its first page if not.   *)
THEOREM UpExactlyWhenMapped ==
    ASSUME PlainMachines, MAX_ORDER # 0 PROVE KernelMemSpec => []UpExactlyOn
<1> DEFINE All == Inv /\ BootInv /\ ExactInv /\ CacheInv /\ LowerGone /\ FirstUp
<1>1. KernelMemInit => All
  BY InitInv, InitBoot, InitExact, InitCache, InitFirstUp DEF KernelMemInit
<1>2. All /\ [KernelMemNext]_all_vars => All'
  BY KernelMemMoves, MovesKeepInv, MovesKeepBootInv, MovesKeepExact, StepCache,
     LowerStaysGone, StepFirstUp
     DEF PlainMachines
<1>3. All => UpExactlyOn
  BY DEF FirstUp
<1> QED
  BY <1>1, <1>2, <1>3, PTL DEF KernelMemSpec

-----------------------------------------------------------------------------
(* ImplementsSlab.  A page cache_grow is given is none of the cache's own,  *)
(* and a fault leaves the cache where it waits for a page.                  *)
LEMMA CacheBegins == ASSUME KernelMemInit PROVE OneCache!Init
  BY DEF KernelMemInit, S!Init, OneCache!Init, S!Obj, OneCache!Obj, S!Index,
     OneCache!Index

\* A step of the cache between its pages is the same step of Slab.
LEMMA CacheStepsAlone ==
    ASSUME CacheCall \/ CacheStep PROVE OneCache!Next
<1>1. CASE S!KmemCacheAlloc
  <2>1. OneCache!KmemCacheAlloc
    BY <1>1 DEF S!KmemCacheAlloc, OneCache!KmemCacheAlloc, S!PopEntry, OneCache!PopEntry,
       S!Retry, OneCache!Retry, S!slabs, OneCache!slabs
  <2> QED
    BY <2>1 DEF OneCache!Next
<1>2. CASE S!FindSlab \/ S!NoSlabToTake
  <2>1. OneCache!FindSlab \/ OneCache!NoSlabToTake
    BY <1>2 DEF S!FindSlab, OneCache!FindSlab, S!NoSlabToTake, OneCache!NoSlabToTake,
       S!Source, OneCache!Source, S!slabs, OneCache!slabs
  <2> QED
    BY <2>1 DEF OneCache!Next, OneCache!Refill
<1>3. CASE S!TakeObject
  <2>1. OneCache!TakeObject
    BY <1>3 DEF S!TakeObject, OneCache!TakeObject, S!TakesMore, OneCache!TakesMore
  <2> QED
    BY <2>1 DEF OneCache!Next, OneCache!Refill
<1>4. CASE S!Relist
  <2>1. OneCache!Relist
    BY <1>4 DEF S!Relist, OneCache!Relist, S!TakesMore, OneCache!TakesMore, S!ListFor,
       OneCache!ListFor, S!BUFCTL_END, OneCache!BUFCTL_END, S!slabs, OneCache!slabs
  <2> QED
    BY <2>1 DEF OneCache!Next, OneCache!Refill
<1>5. CASE S!Refilled
  <2>1. OneCache!Refilled
    BY <1>5 DEF S!Refilled, OneCache!Refilled, S!PopEntry, OneCache!PopEntry, S!slabs,
       OneCache!slabs
  <2> QED
    BY <2>1 DEF OneCache!Next, OneCache!Refill
<1> QED
  BY <1>1, <1>2, <1>3, <1>4, <1>5 DEF CacheCall, CacheStep

\* cache_grow is CacheGrow with a page not in use, or a fault.
LEMMA GrowsAlone ==
    ASSUME PlainMachines, Inv, CacheInv, cache_grow
    PROVE  OneCache!CacheGrow \/ UNCHANGED OneCache!vars
<1>1. pc = "idle" /\ asked /\ slab_pc = "must_grow" /\ avail = 0
      /\ call.page \in PageIndex \ grown
  BY DEF cache_grow, CacheInv, Asked, Inv, TypeOK
<1>2. CASE call.page < MappedPages
  <2>1. S!GrowWith(call.page)
    BY <1>2 DEF cache_grow
  <2>2. slab_pc' = "find"
    BY <2>1 DEF S!GrowWith, S!Retry
  <2>3. OneCache!GrowWith(call.page)
    BY <2>1, <2>2 DEF S!GrowWith, OneCache!GrowWith, S!Retry, OneCache!Retry,
       S!cache_init_objs, OneCache!cache_init_objs, S!Index, OneCache!Index,
       S!BUFCTL_END, OneCache!BUFCTL_END
  <2> QED
    BY <1>1, <2>3 DEF OneCache!CacheGrow
<1>3. CASE ~(call.page < MappedPages)
  BY <1>1, <1>3 DEF cache_grow, OneCache!vars
<1> QED
  BY <1>2, <1>3

\* Every step of the whole is a step of Slab or changes nothing of it.
LEMMA StepsAsOneCache ==
    ASSUME PlainMachines, Inv, CacheInv, [KernelMemNext]_all_vars
    PROVE  [OneCache!Next]_(OneCache!vars)
<1>1. CASE CacheCall \/ CacheStep
  BY <1>1, CacheStepsAlone
<1>2. CASE cache_grow
  <2>1. OneCache!CacheGrow => OneCache!Next
    BY DEF OneCache!Next, OneCache!Refill
  <2> QED
    BY <1>2, <2>1, GrowsAlone
<1>3. CASE UNCHANGED slab_vars
  BY <1>3 DEF slab_vars, OneCache!vars
<1>4. CASE kmem_getpages
  <2>1. CASE S!GrowFails
    <3>1. OneCache!GrowFails
      BY <2>1 DEF S!GrowFails, OneCache!GrowFails, S!slabs, OneCache!slabs
    <3> QED
      BY <3>1 DEF OneCache!Next
  <2> QED
    BY <1>3, <1>4, <2>1 DEF kmem_getpages, NoPageForSlab
<1>5. CASE PageStep \/ OtherCaller \/ Stopped \/ UNCHANGED all_vars
  BY <1>3, <1>5 DEF PageStep, OtherCaller, Stopped, all_vars
<1> QED
  BY <1>1, <1>2, <1>4, <1>5 DEF KernelMemNext, Work

(* ImplementsSlab: fed by the page allocator of the kernel the cache takes  *)
(* no step that Slab does not allow with an allocator that returns any page *)
(* not in use, or none.                                                     *)
THEOREM RunsAsOneCache ==
    ASSUME PlainMachines, MAX_ORDER # 0 PROVE KernelMemSpec => ImplementsSlab
<1> DEFINE All == Inv /\ BootInv /\ ExactInv /\ CacheInv
<1>1. KernelMemInit => All /\ OneCache!Init
  BY InitInv, InitBoot, InitExact, InitCache, CacheBegins DEF KernelMemInit
<1>2. All /\ [KernelMemNext]_all_vars => All' /\ [OneCache!Next]_(OneCache!vars)
  BY KernelMemMoves, MovesKeepInv, MovesKeepBootInv, MovesKeepExact, StepCache,
     StepsAsOneCache
     DEF PlainMachines
<1> QED
  BY <1>1, <1>2, PTL DEF KernelMemSpec, ImplementsSlab
-----------------------------------------------------------------------------
(* The sums of the pages that are counted.  MapThenSumSet takes the members *)
(* of a set in the order of Pick: f[s] is what it makes of the subset s.    *)
Pick(s) == CHOOSE x \in s : TRUE

\* The subsets of A of at most n members.
UpTo(A, n) == {s \in SUBSET A : Cardinality(s) <= n}

Sums(f, g, D) ==
    f = [s \in D |-> IF s = {} THEN 0 ELSE g[Pick(s)] + f[s \ {Pick(s)}]]

\* Without the member it starts with, a set has one member less.
LEMMA OneLess ==
    ASSUME NEW A, IsFiniteSet(A), NEW s \in SUBSET A, s # {}
    PROVE  /\ Pick(s) \in s /\ s \ {Pick(s)} \in SUBSET A
           /\ Cardinality(s) \in Nat
           /\ Cardinality(s \ {Pick(s)}) = Cardinality(s) - 1
<1>1. Pick(s) \in s
  BY DEF Pick
<1>2. IsFiniteSet(s)
  BY FS_Subset
<1> QED
  BY <1>1, <1>2, FS_RemoveElement, FS_CardinalityType

\* There is such a function on the subsets of up to n members.
LEMMA SumsUpTo ==
    ASSUME NEW A, IsFiniteSet(A), NEW g, NEW n \in Nat
    PROVE  \E f : Sums(f, g, UpTo(A, n))
<1> DEFINE Bad == {m \in Nat : ~ \E f : Sums(f, g, UpTo(A, m))}
<1>1. Bad = {}
  <2> SUFFICES ASSUME Bad # {} PROVE FALSE
    OBVIOUS
  <2>1. PICK k \in Bad : \A m \in Bad : k <= m
    <3>1. Bad \in SUBSET Nat
      OBVIOUS
    <3> HIDE DEF Bad
    <3> QED
      BY <3>1, Least
  <2>2. k \in Nat /\ ~ \E f : Sums(f, g, UpTo(A, k))
    BY <2>1
  <2>3. CASE k = 0
    <3>1. ASSUME NEW s \in UpTo(A, 0), s # {} PROVE FALSE
      <4>1. s \in SUBSET A /\ Cardinality(s) <= 0
        BY DEF UpTo
      <4>2. Cardinality(s) \in Nat /\ Cardinality(s) # 0
        BY <3>1, <4>1, FS_Subset, FS_EmptySet, FS_CardinalityType
      <4> QED
        BY <4>1, <4>2
    <3>2. Sums([s \in UpTo(A, 0) |-> 0], g, UpTo(A, 0))
      BY <3>1 DEF Sums
    <3> QED
      BY <2>2, <2>3, <3>2
  <2>4. CASE k # 0
    <3> DEFINE D == UpTo(A, k - 1)
               E == UpTo(A, k)
    <3>1. k - 1 \in Nat /\ ~ (k <= k - 1)
      BY <2>2, <2>4
    <3>2. PICK f : Sums(f, g, D)
      BY <2>1, <3>1
    <3> DEFINE h == [s \in E |-> IF s = {} THEN 0 ELSE g[Pick(s)] + f[s \ {Pick(s)}]]
    <3>3. D \subseteq E
      <4>1. \A s \in SUBSET A : Cardinality(s) \in Nat
        BY FS_Subset, FS_CardinalityType
      <4> QED
        BY <2>2, <4>1 DEF UpTo
    <3>4. \A s \in E : s # {} => s \ {Pick(s)} \in D
      <4> SUFFICES ASSUME NEW s \in E, s # {} PROVE s \ {Pick(s)} \in D
        OBVIOUS
      <4>1. s \in SUBSET A /\ Cardinality(s) <= k
        BY DEF UpTo
      <4> QED
        BY <2>2, <4>1, OneLess DEF UpTo
    <3> HIDE DEF D, E
    <3>5. \A s \in D : h[s] = f[s]
      <4> SUFFICES ASSUME NEW s \in D PROVE h[s] = f[s]
        OBVIOUS
      <4>1. f[s] = IF s = {} THEN 0 ELSE g[Pick(s)] + f[s \ {Pick(s)}]
        BY <3>2 DEF Sums
      <4> QED
        BY <3>3, <4>1
    <3>6. Sums(h, g, E)
      <4>1. \A s \in E : s # {} => f[s \ {Pick(s)}] = h[s \ {Pick(s)}]
        BY <3>4, <3>5, Zenon
      <4>2. h = [s \in E |-> IF s = {} THEN 0 ELSE g[Pick(s)] + h[s \ {Pick(s)}]]
        BY <4>1
      <4> QED
        BY <4>2 DEF Sums
    <3> QED
      BY <2>2, <3>6 DEF E
  <2> QED
    BY <2>3, <2>4
<1> QED
  BY <1>1

\* The function MapThenSumSet is defined by exists.
LEMMA SumsExist ==
    ASSUME NEW A, IsFiniteSet(A), NEW g
    PROVE  \E f : Sums(f, g, SUBSET A)
<1>1. PICK n \in Nat : n = Cardinality(A)
  BY FS_CardinalityType
<1>2. UpTo(A, n) = SUBSET A
  <2>1. \A s \in SUBSET A : Cardinality(s) <= n
    BY <1>1, FS_Subset
  <2> QED
    BY <2>1 DEF UpTo
<1>3. \E f : Sums(f, g, UpTo(A, n))
  BY SumsUpTo
<1> QED
  BY <1>2, <1>3, Zenon

\* g and h are numbers for the members of A, and differ at most at e.
DifferAt(g, h, A, e) ==
    /\ g \in [A -> Int] /\ h \in [A -> Int] /\ e \in A
    /\ \A x \in A : x # e => h[x] = g[x]

\* Changing one summand changes the sum by as much.
LEMMA SumChanges ==
    ASSUME NEW A, IsFiniteSet(A), NEW g, NEW h, NEW e, DifferAt(g, h, A, e),
           NEW f, Sums(f, g, SUBSET A), NEW k, Sums(k, h, SUBSET A)
    PROVE  f[A] \in Int /\ k[A] = f[A] + (h[e] - g[e])
<1> DEFINE Right(s) == /\ f[s] \in Int
                       /\ k[s] = f[s] + IF e \in s THEN h[e] - g[e] ELSE 0
           Bad == {n \in Nat : \E s \in SUBSET A : Cardinality(s) = n /\ ~Right(s)}
<1>1. Bad = {}
  <2> SUFFICES ASSUME Bad # {} PROVE FALSE
    OBVIOUS
  <2>1. PICK n \in Bad : \A m \in Bad : n <= m
    <3>1. Bad \in SUBSET Nat
      OBVIOUS
    <3> HIDE DEF Bad
    <3> QED
      BY <3>1, Least
  <2>2. PICK s \in SUBSET A : Cardinality(s) = n /\ ~Right(s)
    BY <2>1
  <2> DEFINE p == Pick(s)
             t == s \ {p}
  <2>3. /\ f[s] = IF s = {} THEN 0 ELSE g[p] + f[t]
        /\ k[s] = IF s = {} THEN 0 ELSE h[p] + k[t]
    BY DEF Sums
  <2>4. s # {}
    BY <2>2, <2>3
  <2>5. p \in s /\ t \in SUBSET A /\ n \in Nat /\ Cardinality(t) = n - 1
    BY <2>2, <2>4, OneLess
  <2>6. n - 1 \in Nat /\ ~ (n <= n - 1)
    <3>1. Cardinality(t) \in Nat
      BY <2>5, FS_Subset, FS_CardinalityType
    <3> QED
      BY <2>5, <3>1
  <2>7. Right(t)
    BY <2>1, <2>5, <2>6
  <2>8. g[p] \in Int /\ h[p] \in Int /\ g[e] \in Int /\ h[e] \in Int
    BY <2>5 DEF DifferAt
  <2>9. (e \in s /\ e # p <=> e \in t) /\ (p # e => h[p] = g[p])
    BY <2>5 DEF DifferAt
  <2> HIDE DEF p, t
  <2>10. Right(s)
    <3>1. CASE e = p
      BY <2>3, <2>4, <2>5, <2>7, <2>8, <2>9, <3>1
    <3>2. CASE e # p
      BY <2>3, <2>4, <2>7, <2>8, <2>9, <3>2
    <3> QED
      BY <3>1, <3>2
  <2> QED
    BY <2>2, <2>10
<1>2. Cardinality(A) \in Nat /\ A \in SUBSET A
  BY FS_CardinalityType
<1>3. Right(A) /\ e \in A
  BY <1>1, <1>2 DEF DifferAt
<1> QED
  BY <1>3

\* There are finitely many orders and blocks.
LEMMA BlocksFinite == IsFiniteSet(Orders) /\ IsFiniteSet(Blocks)
<1>1. IsFiniteSet(Orders) /\ IsFiniteSet(PageIndex)
  BY OrderFacts, FS_Interval DEF Orders, PageIndex
<1> QED
  BY <1>1, FS_Product DEF Blocks

\* The two sums of AccountedPages, of any counters.
FreeIn(nf) == MapThenSumSet(LAMBDA o : nf[o] * Size[o], Orders)

HeldIn(h) == MapThenSumSet(LAMBDA b : h[b] * Size[b[2]], Blocks)

\* They are such functions of the whole set.
LEMMA FreeInIsSum ==
    ASSUME NEW nf
    PROVE  \E f : /\ Sums(f, [o \in Orders |-> nf[o] * Size[o]], SUBSET Orders)
                  /\ FreeIn(nf) = f[Orders]
<1> DEFINE P(f) == f = [s \in SUBSET Orders |-> IF s = {} THEN 0
                            ELSE nf[CHOOSE x \in s : TRUE] * Size[CHOOSE x \in s : TRUE]
                                   + f[s \ {CHOOSE x \in s : TRUE}]]
           w == CHOOSE f : P(f)
           g == [o \in Orders |-> nf[o] * Size[o]]
<1>1. \A f : P(f) <=> Sums(f, g, SUBSET Orders)
  BY DEF Sums, Pick
<1>2. FreeIn(nf) = w[Orders]
  BY DEF FreeIn, MapThenSumSet, MapThenFoldSet
<1> HIDE DEF P
<1>3. \E f : P(f)
  <2> HIDE DEF g
  <2>1. PICK f : Sums(f, g, SUBSET Orders)
    BY OrderFacts, BlocksFinite, SumsExist
  <2> QED
    BY <1>1, <2>1
<1>4. P(w)
  BY <1>3
<1> HIDE DEF w, g
<1>5. Sums(w, g, SUBSET Orders)
  BY <1>1, <1>4
<1> QED
  BY <1>2, <1>5 DEF g
\* And so is the sum of the blocks held.
LEMMA HeldInIsSum ==
    ASSUME NEW h
    PROVE  \E f : /\ Sums(f, [b \in Blocks |-> h[b] * Size[b[2]]], SUBSET Blocks)
                  /\ HeldIn(h) = f[Blocks]
<1> DEFINE P(f) == f = [s \in SUBSET Blocks |-> IF s = {} THEN 0
                            ELSE h[CHOOSE x \in s : TRUE] * Size[(CHOOSE x \in s : TRUE)[2]]
                                   + f[s \ {CHOOSE x \in s : TRUE}]]
           w == CHOOSE f : P(f)
           g == [b \in Blocks |-> h[b] * Size[b[2]]]
<1>1. \A f : P(f) <=> Sums(f, g, SUBSET Blocks)
  BY DEF Sums, Pick
<1>2. HeldIn(h) = w[Blocks]
  BY DEF HeldIn, MapThenSumSet, MapThenFoldSet
<1> HIDE DEF P
<1>3. \E f : P(f)
  <2> HIDE DEF g
  <2>1. PICK f : Sums(f, g, SUBSET Blocks)
    BY BlocksFinite, SumsExist
  <2> QED
    BY <1>1, <2>1
<1>4. P(w)
  BY <1>3
<1> HIDE DEF w, g
<1>5. Sums(w, g, SUBSET Blocks)
  BY <1>1, <1>4
<1> QED
  BY <1>2, <1>5 DEF g

\* Division with a remainder.
LEMMA DivMod ==
    ASSUME NEW a \in Int, NEW u \in Nat \ {0}
    PROVE  a \div u \in Int /\ a % u \in 0 .. u - 1 /\ (a % u) = a - (a \div u) * u
  OBVIOUS

\* Adding n to the counter of order k adds n blocks of that order, but for a
\* multiple of the width of a counter.
LEMMA FreeChanges ==
    ASSUME NEW nf \in [Orders -> Int], NEW k \in Orders, NEW n \in Int
    PROVE  /\ FreeIn(nf) \in Int
           /\ \E c \in Int : FreeIn([nf EXCEPT ![k] = (@ + n) % ULong])
                               = FreeIn(nf) + n * Size[k] + c * ULong
<1> DEFINE nh == [nf EXCEPT ![k] = (@ + n) % ULong]
           g == [o \in Orders |-> nf[o] * Size[o]]
           h == [o \in Orders |-> nh[o] * Size[o]]
           a == nf[k] + n
           q == a \div ULong
<1>1. /\ ULong \in Nat \ {0} /\ nf[k] \in Int /\ Size[k] \in Int
      /\ \A o \in Orders : Size[o] \in Int
  BY OrderFacts
<1>2. q \in Int /\ (nf[k] + n) % ULong = (nf[k] + n) - q * ULong
  <2>1. a \in Int
    BY <1>1
  <2>2. q \in Int /\ (a % ULong) = a - q * ULong
    <3> HIDE DEF a
    <3> QED
      BY <1>1, <2>1, DivMod
  <2> QED
    BY <1>1, <2>2
<1>3. nh \in [Orders -> Int] /\ nh[k] = (nf[k] + n) % ULong
  BY <1>1
<1>4. g \in [Orders -> Int] /\ h \in [Orders -> Int]
  <2> HIDE DEF nh
  <2> QED
    BY <1>1, <1>3
<1>5. (\A o \in Orders : o # k => h[o] = g[o]) /\ g[k] = nf[k] * Size[k]
      /\ h[k] = nh[k] * Size[k]
  OBVIOUS
<1>6. PICK f : Sums(f, g, SUBSET Orders) /\ FreeIn(nf) = f[Orders]
  BY FreeInIsSum
<1>7. PICK f2 : Sums(f2, h, SUBSET Orders) /\ FreeIn(nh) = f2[Orders]
  BY FreeInIsSum
<1> HIDE DEF nh, g, h, q
<1>8. FreeIn(nf) \in Int /\ FreeIn(nh) = FreeIn(nf) + (h[k] - g[k])
  <2>1. f[Orders] \in Int /\ f2[Orders] = f[Orders] + (h[k] - g[k])
    <3>1. DifferAt(g, h, Orders, k)
      BY <1>4, <1>5 DEF DifferAt
    <3>2. Sums(f, g, SUBSET Orders) /\ Sums(f2, h, SUBSET Orders)
      BY <1>6, <1>7
    <3> QED
      BY <3>1, <3>2, BlocksFinite, SumChanges
  <2> QED
    BY <1>6, <1>7, <2>1
<1>9. h[k] - g[k] = n * Size[k] + (-(q * Size[k])) * ULong
  <2>1. h[k] = ((nf[k] + n) - q * ULong) * Size[k]
    BY <1>2, <1>3, <1>5
  <2>2. ((nf[k] + n) - q * ULong) * Size[k]
          = nf[k] * Size[k] + n * Size[k] - (q * ULong) * Size[k]
    BY <1>1, <1>2
  <2>3. (q * ULong) * Size[k] = (q * Size[k]) * ULong
    BY <1>1, <1>2
  <2>4. (-(q * Size[k])) * ULong = -((q * Size[k]) * ULong)
    BY <1>1, <1>2
  <2>5. /\ nf[k] * Size[k] \in Int /\ n * Size[k] \in Int
        /\ (q * Size[k]) * ULong \in Int
    BY <1>1, <1>2
  <2> QED
    BY <1>5, <2>1, <2>2, <2>3, <2>4, <2>5
<1>10. -(q * Size[k]) \in Int /\ n * Size[k] \in Int /\ (-(q * Size[k])) * ULong \in Int
  BY <1>1, <1>2
<1>11. FreeIn(nh) = FreeIn(nf) + n * Size[k] + (-(q * Size[k])) * ULong
  BY <1>8, <1>9, <1>10
<1> QED
  BY <1>8, <1>10, <1>11 DEF nh

\* A block more or less in the callers' hands.
LEMMA HeldChanges ==
    ASSUME NEW hd \in [Blocks -> Int], NEW b \in Blocks, NEW n \in Int,
           NEW he, he = [hd EXCEPT ![b] = @ + n]
    PROVE  HeldIn(hd) \in Int /\ HeldIn(he) = HeldIn(hd) + n * Size[b[2]]
<1> DEFINE g == [x \in Blocks |-> hd[x] * Size[x[2]]]
           h == [x \in Blocks |-> he[x] * Size[x[2]]]
<1>1. hd[b] \in Int /\ \A x \in Blocks : Size[x[2]] \in Int
  <2>1. \A x \in Blocks : x[2] \in Orders
    BY DEF Blocks
  <2>2. \A o \in Orders : Size[o] \in Int
    BY OrderFacts
  <2>3. hd[b] \in Int
    OBVIOUS
  <2> QED
    BY <2>1, <2>2, <2>3
<1>2. he \in [Blocks -> Int] /\ he[b] = hd[b] + n
  BY <1>1
<1>3. g \in [Blocks -> Int] /\ h \in [Blocks -> Int]
  BY <1>1, <1>2
<1>4. (\A x \in Blocks : x # b => h[x] = g[x]) /\ g[b] = hd[b] * Size[b[2]]
      /\ h[b] = he[b] * Size[b[2]]
  BY <1>2, he = [hd EXCEPT ![b] = @ + n]
<1>5. PICK f : Sums(f, g, SUBSET Blocks) /\ HeldIn(hd) = f[Blocks]
  BY HeldInIsSum
<1>6. PICK f2 : Sums(f2, h, SUBSET Blocks) /\ HeldIn(he) = f2[Blocks]
  BY HeldInIsSum
<1> HIDE DEF g, h
<1>7. HeldIn(hd) \in Int /\ HeldIn(he) = HeldIn(hd) + (h[b] - g[b])
  <2>1. f[Blocks] \in Int /\ f2[Blocks] = f[Blocks] + (h[b] - g[b])
    <3>1. DifferAt(g, h, Blocks, b)
      BY <1>3, <1>4 DEF DifferAt
    <3>2. Sums(f, g, SUBSET Blocks) /\ Sums(f2, h, SUBSET Blocks)
      BY <1>5, <1>6
    <3> QED
      BY <3>1, <3>2, BlocksFinite, SumChanges
  <2> QED
    BY <1>5, <1>6, <2>1
<1>8. h[b] - g[b] = n * Size[b[2]]
  BY <1>1, <1>2, <1>4
<1> QED
  BY <1>7, <1>8

\* A multiple of the width of a counter does not show.
LEMMA ModShift ==
    ASSUME NEW u \in Nat \ {0}, NEW x \in Int, NEW k \in Int
    PROVE  (x + k * u) % u = x % u
<1> DEFINE q == x \div u
           r == x % u
<1>1. q \in Int /\ r \in 0 .. u - 1 /\ r = x - q * u
  BY DivMod
<1> HIDE DEF q, r
<1>2. x + k * u = (q + k) * u + r
  BY <1>1
<1>3. q + k \in Int
  BY <1>1
<1>4. ((q + k) * u + r) % u = r
  BY <1>1, <1>3
<1> QED
  BY <1>2, <1>4 DEF r

\* What AccountedPages adds up.
LEMMA Accounted ==
    /\ AccountedPages = (FreeIn(nr_free["NORMAL"]) + HeldIn(held) + InFlight) % ULong
    /\ AccountedPages' = (FreeIn(nr_free'["NORMAL"]) + HeldIn(held') + InFlight') % ULong
  BY DEF AccountedPages, Held, FreeIn, HeldIn, MapThenSumSet, MapThenFoldSet

\* Steps that trade pages between the three keep their sum.
LEMMA SumStays ==
    ASSUME Inv, NEW c \in Int, FreeIn(nr_free["NORMAL"]) \in Int, HeldIn(held) \in Int,
           NEW i \in Int, NEW j \in Int, InFlight = i, InFlight' = j,
           FreeIn(nr_free'["NORMAL"]) + HeldIn(held') + j
             = FreeIn(nr_free["NORMAL"]) + HeldIn(held) + i + c * ULong
    PROVE  AccountedPages' = AccountedPages
<1> DEFINE x == FreeIn(nr_free["NORMAL"]) + HeldIn(held) + i
<1>1. x \in Int /\ ULong \in Nat \ {0}
  BY OrderFacts
<1>2. AccountedPages = x % ULong /\ AccountedPages' = (x + c * ULong) % ULong
  BY Accounted
<1> HIDE DEF x
<1> QED
  BY <1>1, <1>2, ModShift

\* What one block has of pages, and what two halves have.
LEMMA SizeFacts ==
    /\ \A o \in Orders : Size[o] \in Int /\ 2 * Size[o] \in Int
    /\ \A o \in Orders \ {MAX_ORDER} : Size[o + 1] = 2 * Size[o]
  BY OrderFacts

\* The two sums are numbers.
LEMMA SumsTyped ==
    ASSUME Inv
    PROVE  /\ nr_free["NORMAL"] \in [Orders -> Int] /\ held \in [Blocks -> Int]
           /\ FreeIn(nr_free["NORMAL"]) \in Int /\ HeldIn(held) \in Int
<1>1. nr_free["NORMAL"] \in [Orders -> Int] /\ held \in [Blocks -> Int]
  <2>1. nr_free["NORMAL"] \in [Orders -> 0 .. ULong - 1] /\ ULong \in Nat
    BY OrderFacts, NormalIsZone DEF Inv, TypeOK
  <2>2. held \in [Blocks -> Nat]
    BY DEF Inv, TypeOK
  <2> QED
    BY <2>1, <2>2
<1>2. 0 \in Orders /\ 0 \in Int
  BY OrderFacts
<1>3. FreeIn(nr_free["NORMAL"]) \in Int
  BY <1>1, <1>2, FreeChanges
<1>4. HeldIn(held) \in Int
  <2>1. total \in Nat \ {0} /\ total <= MaxPages /\ MaxPages \in Nat
    BY MmAssumption DEF Inv, TypeOK
  <2>2. <<0, 0>> \in Blocks
    BY <1>2, <2>1 DEF Blocks, PageIndex
  <2> QED
    BY <1>1, <1>2, <2>2, HeldChanges
<1> QED
  BY <1>1, <1>3, <1>4

\* Counting a block of order k more or less.
LEMMA CountMoves ==
    ASSUME Inv, NEW k \in Orders, NEW n \in Int, nr_free' = AddFree("NORMAL", k, n)
    PROVE  \E c \in Int : FreeIn(nr_free'["NORMAL"])
                            = FreeIn(nr_free["NORMAL"]) + n * Size[k] + c * ULong
<1>1. nr_free \in [Zones -> [Orders -> 0 .. ULong - 1]]
  BY DEF Inv, TypeOK
<1>2. nr_free'["NORMAL"] = [nr_free["NORMAL"] EXCEPT ![k] = (@ + n) % ULong]
  BY <1>1, NormalIsZone DEF AddFree
<1> QED
  BY <1>2, SumsTyped, FreeChanges

\* rmqueue takes a block off the counter of its order and into the call.
LEMMA RmqueueKeepsPages ==
    ASSUME Inv, pc \in {"mm_test", "idle"}, Booted', NEW by, NEW o,
           Rmqueue(by, "NORMAL", o)
    PROVE  AccountedPages' = AccountedPages
<1>1. PICK k \in Orders :
        \/ /\ nr_free' = AddFree("NORMAL", k, -1) /\ UNCHANGED held
           /\ call'.order = k /\ pc' = "split"
        \/ pc' = "wild"
  BY DEF Rmqueue
<1>2. /\ nr_free' = AddFree("NORMAL", k, -1) /\ UNCHANGED held
      /\ call'.order = k /\ pc' = "split"
  BY <1>1 DEF Booted
<1>3. InFlight = 0 /\ InFlight' = Size[k] /\ Size[k] \in Int
  BY <1>2, OrderFacts DEF InFlight
<1>4. PICK c \in Int : FreeIn(nr_free'["NORMAL"])
                         = FreeIn(nr_free["NORMAL"]) + (-1) * Size[k] + c * ULong
  BY <1>2, CountMoves
<1>5. FreeIn(nr_free'["NORMAL"]) + HeldIn(held') + Size[k]
        = FreeIn(nr_free["NORMAL"]) + HeldIn(held) + 0 + c * ULong
  <2>1. HeldIn(held') = HeldIn(held)
    BY <1>2
  <2>2. c * ULong \in Int
    BY OrderFacts
  <2> QED
    BY <1>3, <1>4, <2>1, <2>2, SumsTyped
<1> QED
  BY <1>3, <1>5, SumsTyped, SumStays

\* A split puts the second half of the call's block back.
LEMMA SplitKeepsPages ==
    ASSUME Inv, Booted', Split
    PROVE  AccountedPages' = AccountedPages
<1> DEFINE o == call.order - 1
<1>1. /\ nr_free' = AddFree(call.zone, o, 1) /\ UNCHANGED held
      /\ call' = [call EXCEPT !.order = o] /\ pc = "split" /\ pc' = "split"
      /\ call.order > call.want
  BY DEF Split, Booted
<1>2. call.zone = "NORMAL"
  BY <1>1 DEF Inv, CallIsNormal
<1>3. /\ call.order \in Orders /\ call.want \in Orders /\ call'.order = o
  BY <1>1 DEF Inv, TypeOK
<1>4. o \in Orders \ {MAX_ORDER} /\ o + 1 = call.order
  BY <1>1, <1>3, OrderFacts DEF Orders
<1> HIDE DEF o
<1>5. /\ InFlight = 2 * Size[o] /\ InFlight' = Size[o] /\ Size[o] \in Int
      /\ 2 * Size[o] \in Int
  BY <1>1, <1>3, <1>4, OrderFacts DEF InFlight
<1>6. PICK c \in Int : FreeIn(nr_free'["NORMAL"])
                         = FreeIn(nr_free["NORMAL"]) + 1 * Size[o] + c * ULong
  BY <1>1, <1>2, <1>4, CountMoves
<1>7. FreeIn(nr_free'["NORMAL"]) + HeldIn(held') + Size[o]
        = FreeIn(nr_free["NORMAL"]) + HeldIn(held) + 2 * Size[o] + c * ULong
  <2>1. HeldIn(held') = HeldIn(held)
    BY <1>1
  <2>2. c * ULong \in Int
    BY OrderFacts
  <2> QED
    BY <1>5, <1>6, <2>1, <2>2, SumsTyped
<1> QED
  BY <1>5, <1>7, SumsTyped, SumStays

\* A merge takes a block off the counter of its order and doubles the call's.
LEMMA MergeKeepsPages ==
    ASSUME Inv, Booted', Merge
    PROVE  AccountedPages' = AccountedPages
<1> DEFINE o == call.order
<1>1. /\ nr_free' = AddFree(call.zone, o, -1) /\ UNCHANGED held
      /\ call'.order = o + 1 /\ pc = "merge" /\ pc' = "merge" /\ o < MAX_ORDER
  <2>1. call \in [by : {"client", "mm_test"}, zone : Zones, want : Orders,
                  order : Orders, page : PageIndex]
    BY DEF Inv, TypeOK
  <2>2. /\ nr_free' = AddFree(call.zone, o, -1) /\ UNCHANGED held
        /\ call' = join_with(page_find_buddy(call.page, o))
        /\ pc = "merge" /\ pc' = "merge" /\ o < MAX_ORDER
    BY DEF Merge, Booted
  <2> QED
    BY <2>1, <2>2 DEF join_with
<1>2. call.zone = "NORMAL" /\ o \in Orders
  BY <1>1 DEF Inv, CallIsNormal, TypeOK
<1> HIDE DEF o
<1>3. o \in Orders \ {MAX_ORDER}
  BY <1>1, <1>2, OrderFacts DEF Orders
<1>4. /\ InFlight = Size[o] /\ InFlight' = 2 * Size[o] /\ Size[o] \in Int
      /\ 2 * Size[o] \in Int
  BY <1>1, <1>3, SizeFacts DEF InFlight, o
<1>5. PICK c \in Int : FreeIn(nr_free'["NORMAL"])
                         = FreeIn(nr_free["NORMAL"]) + (-1) * Size[o] + c * ULong
  BY <1>1, <1>2, CountMoves
<1>6. FreeIn(nr_free'["NORMAL"]) + HeldIn(held') + 2 * Size[o]
        = FreeIn(nr_free["NORMAL"]) + HeldIn(held) + Size[o] + c * ULong
  <2>1. HeldIn(held') = HeldIn(held)
    BY <1>1
  <2>2. c * ULong \in Int
    BY OrderFacts
  <2> QED
    BY <1>4, <1>5, <2>1, <2>2, SumsTyped
<1> QED
  BY <1>4, <1>6, SumsTyped, SumStays

\* The end of a free puts the call's block on the counter of its order.
LEMMA FreeReturnsKeepsPages ==
    ASSUME Inv, FreeReturns
    PROVE  AccountedPages' = AccountedPages
<1> DEFINE o == call.order
<1>1. /\ nr_free' = AddFree(call.zone, o, 1) /\ UNCHANGED held
      /\ pc = "merge" /\ pc' = "idle"
  BY DEF FreeReturns
<1>2. call.zone = "NORMAL" /\ o \in Orders
  BY <1>1 DEF Inv, CallIsNormal, TypeOK
<1>3. InFlight = Size[o] /\ InFlight' = 0 /\ Size[o] \in Int
  BY <1>1, <1>2, SizeFacts DEF InFlight
<1> HIDE DEF o
<1>4. PICK c \in Int : FreeIn(nr_free'["NORMAL"])
                         = FreeIn(nr_free["NORMAL"]) + 1 * Size[o] + c * ULong
  BY <1>1, <1>2, CountMoves
<1>5. FreeIn(nr_free'["NORMAL"]) + HeldIn(held') + 0
        = FreeIn(nr_free["NORMAL"]) + HeldIn(held) + Size[o] + c * ULong
  <2>1. HeldIn(held') = HeldIn(held)
    BY <1>1
  <2>2. c * ULong \in Int
    BY OrderFacts
  <2> QED
    BY <1>3, <1>4, <2>1, <2>2, SumsTyped
<1> QED
  BY <1>3, <1>5, SumsTyped, SumStays

\* alloc_pages hands the call's block to the caller.
LEMMA AllocReturnsKeepsPages ==
    ASSUME Inv, AllocReturns
    PROVE  AccountedPages' = AccountedPages
<1> DEFINE o == call.want
           b == <<call.page, o>>
<1>1. /\ UNCHANGED nr_free /\ held' = [held EXCEPT ![b] = @ + 1]
      /\ pc = "split" /\ pc' \in {"idle", "mm_test_free"} /\ call.order = o
  BY DEF AllocReturns, area
<1>2. o \in Orders /\ b \in Blocks /\ b[2] = o
  BY DEF Inv, TypeOK, Blocks
<1>3. InFlight = Size[o] /\ InFlight' = 0 /\ Size[o] \in Int
  BY <1>1, <1>2, SizeFacts DEF InFlight
<1> HIDE DEF o, b
<1>4. HeldIn(held') = HeldIn(held) + 1 * Size[o]
  <2>1. held \in [Blocks -> Int] /\ 1 \in Int
    BY SumsTyped
  <2>2. HeldIn(held') = HeldIn(held) + 1 * Size[b[2]]
    BY <1>1, <1>2, <2>1, HeldChanges, Zenon
  <2> QED
    BY <1>2, <2>2
<1>5. FreeIn(nr_free'["NORMAL"]) + HeldIn(held') + 0
        = FreeIn(nr_free["NORMAL"]) + HeldIn(held) + Size[o] + 0 * ULong
  <2>1. FreeIn(nr_free'["NORMAL"]) = FreeIn(nr_free["NORMAL"])
    BY <1>1
  <2>2. 0 * ULong = 0
    BY OrderFacts
  <2> QED
    BY <1>3, <1>4, <2>1, <2>2, SumsTyped
<1> QED
  BY <1>3, <1>5, SumsTyped, SumStays

\* __free_pages takes a block from the caller into the call.
LEMMA StartFreeKeepsPages ==
    ASSUME Inv, pc \in {"idle", "mm_test_free"}, Booted',
           NEW by, NEW p \in PageIndex, NEW o \in Orders, StartFree(by, p, o)
    PROVE  AccountedPages' = AccountedPages
<1> DEFINE b == <<p, o>>
<1>1. /\ UNCHANGED nr_free /\ held' = [held EXCEPT ![b] = @ - 1]
      /\ call'.order = o /\ pc' = "merge"
  BY DEF StartFree, area, Booted
<1>2. b \in Blocks /\ b[2] = o
  BY DEF Blocks
<1>3. InFlight = 0 /\ InFlight' = Size[o] /\ Size[o] \in Int
  BY <1>1, OrderFacts DEF InFlight
<1> HIDE DEF b
<1>4. HeldIn(held') = HeldIn(held) + (-1) * Size[o]
  <2>1. held[b] - 1 = held[b] + (-1)
    BY <1>2, SumsTyped
  <2>2. held' = [held EXCEPT ![b] = @ + (-1)]
    BY <1>1, <2>1
  <2>3. held \in [Blocks -> Int] /\ -1 \in Int
    BY SumsTyped
  <2>4. HeldIn(held') = HeldIn(held) + (-1) * Size[b[2]]
    BY <1>2, <2>2, <2>3, HeldChanges, Zenon
  <2> QED
    BY <1>2, <2>4
<1>5. FreeIn(nr_free'["NORMAL"]) + HeldIn(held') + Size[o]
        = FreeIn(nr_free["NORMAL"]) + HeldIn(held) + 0 + 0 * ULong
  <2>1. FreeIn(nr_free'["NORMAL"]) = FreeIn(nr_free["NORMAL"])
    BY <1>1
  <2>2. 0 * ULong = 0
    BY OrderFacts
  <2> QED
    BY <1>3, <1>4, <2>1, <2>2, SumsTyped
<1> QED
  BY <1>3, <1>5, SumsTyped, SumStays

\* A step that touches neither counters nor blocks nor the call.
LEMMA RestKeepsPages ==
    ASSUME UNCHANGED <<pc, nr_free, held, call>>
    PROVE  AccountedPages' = AccountedPages
  BY Accounted DEF InFlight

\* The steps after the boot keep the sum.
LEMMA StepKeepsPages ==
    Inv /\ [Next]_vars =>
        [Booted /\ Booted' => AccountedPages' = AccountedPages]_vars
<1> SUFFICES ASSUME Inv, [Next]_vars, Booted, Booted'
             PROVE  AccountedPages' = AccountedPages
  OBVIOUS
<1>1. ~ (MmReservedInit \/ ZoneInit \/ PageInit \/ AreaBegin \/ AreaScan \/ AreaEnd)
  BY DEF Booted, MmReservedInit, ZoneInit, PageInit, AreaBegin, AreaScan, AreaEnd
<1>2. CASE Split \/ AllocReturns \/ Merge \/ FreeReturns
  BY <1>2, SplitKeepsPages, AllocReturnsKeepsPages, MergeKeepsPages, FreeReturnsKeepsPages
<1>3. ASSUME NEW by, NEW o, pc \in {"mm_test", "idle"}, Alloc(by, o)
      PROVE  AccountedPages' = AccountedPages
  <2>1. Rmqueue(by, "NORMAL", o)
    BY <1>3 DEF Alloc, zonelist
  <2> QED
    BY <1>3, <2>1, RmqueueKeepsPages
<1>4. CASE MmTest
  <2>1. pc = "mm_test" /\ Alloc("mm_test", 0)
    BY <1>4 DEF MmTest, Booted
  <2> QED
    BY <1>3, <2>1
<1>5. CASE MmTestFree
  <2>1. call.page \in PageIndex /\ 0 \in Orders
    BY OrderFacts DEF Inv, TypeOK
  <2> QED
    BY <1>5, <2>1, StartFreeKeepsPages DEF MmTestFree
<1>6. ASSUME NEW o \in Requests, AllocPages(o) \/ AllocFails(o)
      PROVE  AccountedPages' = AccountedPages
  <2>1. CASE AllocPages(o)
    BY <1>3, <2>1 DEF AllocPages
  <2>2. CASE AllocFails(o)
    BY <2>2, RestKeepsPages DEF AllocFails, area
  <2> QED
    BY <1>6, <2>1, <2>2
<1>7. ASSUME NEW p \in PageIndex, NEW o \in FreeOrders, FreePages(p, o)
      PROVE  AccountedPages' = AccountedPages
  <2>1. o \in Orders
    BY MmAssumption
  <2> QED
    BY <1>7, <2>1, StartFreeKeepsPages DEF FreePages
<1>8. CASE Halted \/ UNCHANGED vars
  BY <1>8, RestKeepsPages DEF Halted, vars, area
<1> QED
  BY <1>1, <1>2, <1>4, <1>5, <1>6, <1>7, <1>8 DEF Next, Kernel, Client

(* PagesConserved: once the boot is over the pages counted as free, held    *)
(* and in a call add up to the same number, modulo the width of a counter,  *)
(* whatever the RAM held at power-on and however wrong the lists are.       *)
THEOREM CallsConservePages == Spec => PagesConserved
  BY InvHolds, StepKeepsPages, PTL DEF Spec, PagesConserved
=============================================================================
