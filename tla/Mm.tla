--------------------------------- MODULE Mm ---------------------------------
(***************************************************************************)
(* kernel/mm.c: the boot of the page allocator (mm_init) and its two       *)
(* operations, alloc_pages and __free_pages, down to the list pointers.    *)
(*                                                                         *)
(* The kernel is one thread of control with every interrupt masked, so the *)
(* steps of the code follow one another; pc names the loop that is running *)
(* and `call' holds its locals.  A list_head is a cell: <<"page", p>> is   *)
(* mem_map[p].lru and <<zone, order>> is the free_list of a free_area.     *)
(*                                                                         *)
(* `held' is not in the code: it is what the callers of alloc_pages hold.  *)
(***************************************************************************)
EXTENDS KList, Integers, Sequences, FiniteSets, FiniteSetsExt

CONSTANTS
    NULL,
    MAX_ORDER,
    Size,         \* Size[o] = 1 << o, the pages of a block of order o
    DmaPages,     \* ZONE_DMA_SIZE >> PAGE_SHIFT
    MemSizes,     \* the memory sizes of the machines considered, in pages
    MaxPages,     \* the largest of them
    KernelSizes,  \* pages below free_mem_start: the kernel and its tables
    RamImages,    \* what the memory mem_map lies in may hold
    ULong,        \* 2^32, the modulus of unsigned long
    Requests,     \* the orders clients ask for
    FreeOrders,   \* the orders clients free
    HoldLimit,    \* bound: pages clients hold at a time
    CountLimit    \* bound: clients stop once a free_area counts more blocks

Orders == 0 .. MAX_ORDER

Zones == {"DMA", "NORMAL"}

PageIndex == 0 .. MaxPages - 1

\* count, the PG_RVSD flag, and the zone number in the top bits of flags.
StructPage == [count : {0, 1}, rvsd : BOOLEAN, zone : Zones \union {"HIGHMEM"}]

ASSUME MmAssumption ==
    /\ MAX_ORDER \in Nat
    /\ Size \in [Orders -> Nat \ {0}] /\ Size[0] = 1
    /\ \A o \in Orders \ {MAX_ORDER} : Size[o + 1] = 2 * Size[o]
    /\ DmaPages \in Nat /\ \A o \in Orders : DmaPages % Size[o] = 0
    /\ MaxPages \in Nat /\ MemSizes \subseteq 1 .. MaxPages
    /\ KernelSizes \subseteq Nat /\ \A k \in KernelSizes, m \in MemSizes : k <= m
    /\ RamImages \subseteq [PageIndex -> StructPage]
    /\ ULong \in Nat /\ ULong > MaxPages + Size[MAX_ORDER]
    /\ Requests \subseteq Nat /\ FreeOrders \subseteq Orders
    /\ HoldLimit \in Nat /\ CountLimit \in Nat

ASSUME AddressesDiffer ==
    /\ NULL \notin {LIST_POISON1, LIST_POISON2}
    /\ {NULL, LIST_POISON1, LIST_POISON2}
         \intersect (({"page"} \X PageIndex) \union (Zones \X Orders)) = {}

PageCells == {"page"} \X PageIndex

Cell == PageCells \union (Zones \X Orders) \union {NULL, LIST_POISON1, LIST_POISON2}

Blocks == PageIndex \X Orders

VARIABLES
    pc,
    total,       \* total_pages
    resv,        \* free_page_start - mem_map
    mem,         \* the list pointers
    page,        \* the rest of each struct page
    spanned,     \* spanned_pages of each zone
    nr_free,     \* nr_free of each free_area
    scan,        \* the locals of free_area_init
    call,        \* the locals of alloc_pages or __free_pages
    held,        \* how many callers hold each block
    reply        \* what the latest call returned

area == <<spanned, nr_free>>
vars == <<pc, total, resv, mem, page, spanned, nr_free, scan, call, held, reply>>

NoScan == [zone |-> "DMA", order |-> MAX_ORDER, i |-> 0, pagenum |-> 0]

NoCall == [by |-> "client", zone |-> "NORMAL", want |-> 0, order |-> 0, page |-> 0]

\* The bss is zero; mem_map lies in memory nobody has written.
Init ==
    /\ pc = "mm_reserved_init"
    /\ total \in MemSizes
    /\ resv \in KernelSizes
    /\ mem = [next |-> [c \in Cell |-> NULL], prev |-> [c \in Cell |-> NULL]]
    /\ page \in RamImages
    /\ spanned = [z \in Zones |-> 0]
    /\ nr_free = [z \in Zones |-> [o \in Orders |-> 0]]
    /\ scan = NoScan
    /\ call = NoCall
    /\ held = [b \in Blocks |-> 0]
    /\ reply = <<"none", 0>>
-----------------------------------------------------------------------------
\* Mutant: the first page of ZONE_NORMAL is counted for ZONE_DMA.
zone_one_late(p) == IF p <= DmaPages THEN "DMA" ELSE "NORMAL"

PageZone(p) == IF p < DmaPages THEN "DMA" ELSE "NORMAL"

ZoneMemMap(z) == IF z = "DMA" THEN 0 ELSE DmaPages

page_isfree(p) == page[p].count = 0 /\ ~page[p].rvsd

\* Mutants: a signed counter, and one that stops at zero.
AddSigned(z, o, n) == [nr_free EXCEPT ![z][o] = @ + n]

AddSaturating(z, o, n) == [nr_free EXCEPT ![z][o] = IF @ + n < 0 THEN 0 ELSE @ + n]

AddFree(z, o, n) == [nr_free EXCEPT ![z][o] = (@ + n) % ULong]

MmReservedInit ==
    /\ pc = "mm_reserved_init"
    /\ page' = [p \in PageIndex |->
                   IF p < resv THEN [count |-> 1, rvsd |-> TRUE, zone |-> "DMA"]
                               ELSE page[p]]
    /\ pc' = "zone_init"
    /\ UNCHANGED <<total, resv, mem, area, scan, call, held, reply>>

\* memset clears the list heads, the counts and spanned_pages of both zones.
ZoneInit ==
    /\ pc = "zone_init"
    /\ mem' = [link \in {"next", "prev"} |->
                  [c \in Cell |-> IF c \in Zones \X Orders THEN NULL ELSE mem[link][c]]]
    /\ spanned' = [z \in Zones |-> 0]
    /\ nr_free' = [z \in Zones |-> [o \in Orders |-> 0]]
    /\ pc' = "page_init"
    /\ UNCHANGED <<total, resv, page, scan, call, held, reply>>

\* Mutants: the assignment of NULL to zones[1] is missing, or the zones are swapped.
both_zones == <<"NORMAL", "DMA">>

dma_first == <<"DMA", "NORMAL">>

\* zones[1] is set to ZONE_DMA and then to NULL, so the list has one zone.
zonelist == <<"NORMAL">>

\* page_setzone ORs the number of the zone into what flags holds.
PageInit ==
    /\ pc = "page_init"
    /\ mem' = [link \in {"next", "prev"} |->
                  [c \in Cell |-> IF c \in {"page"} \X (0 .. total - 1)
                                  THEN c ELSE mem[link][c]]]
    /\ spanned' = [z \in Zones |->
                      Cardinality({p \in 0 .. total - 1 : PageZone(p) = z})]
    /\ page' = [p \in PageIndex |-> IF p < total /\ page[p].zone = "DMA"
                                    THEN [page[p] EXCEPT !.zone = PageZone(p)]
                                    ELSE page[p]]
    /\ scan' = NoScan
    /\ pc' = "area_begin"
    /\ UNCHANGED <<total, resv, nr_free, call, held, reply>>

\* free_area_init, one free_area after another from the largest order down.
AreaBegin ==
    LET z == scan.zone
        o == scan.order
    IN  /\ pc = "area_begin"
        /\ mem' = INIT_LIST_HEAD(mem, <<z, o>>)
        /\ nr_free' = [nr_free EXCEPT ![z][o] = 0]
        /\ scan' = [scan EXCEPT !.i = 0,
                       !.pagenum = IF o = MAX_ORDER THEN spanned[z] ELSE @]
        /\ pc' = "area_scan"
        /\ UNCHANGED <<total, resv, page, spanned, call, held, reply>>

unit(o) == Size[o]

AreaScan ==
    LET z == scan.zone
        o == scan.order
        p == ZoneMemMap(z) + scan.i
    IN  /\ pc = "area_scan"
        /\ scan.i < scan.pagenum
        /\ IF page_isfree(p)
           THEN /\ mem' = list_add(mem, <<"page", p>>, <<z, o>>)
                /\ nr_free' = AddFree(z, o, 1)
           ELSE UNCHANGED <<mem, nr_free>>
        /\ scan' = [scan EXCEPT !.i = @ + unit(o)]
        /\ UNCHANGED <<pc, total, resv, page, spanned, call, held, reply>>

\* pagenum is unsigned: taking off more than is left wraps it around.
AreaEnd ==
    LET z    == scan.zone
        o    == scan.order
        left == (scan.pagenum - nr_free[z][o] * Size[o]) % ULong
    IN  /\ pc = "area_scan"
        /\ scan.i >= scan.pagenum
        /\ IF left > spanned[z]
           THEN pc' = "BUG" /\ UNCHANGED scan
           ELSE IF left # 0 /\ o > 0
           THEN /\ scan' = [scan EXCEPT !.order = o - 1, !.pagenum = left]
                /\ pc' = "area_begin"
           ELSE IF z = "DMA"
           THEN scan' = [NoScan EXCEPT !.zone = "NORMAL"] /\ pc' = "area_begin"
           ELSE scan' = NoScan /\ pc' = "mm_test"
        /\ UNCHANGED <<total, resv, mem, page, area, call, held, reply>>
-----------------------------------------------------------------------------
\* What the callers hold, in pages.
Held == MapThenSumSet(LAMBDA b : held[b] * Size[b[2]], Blocks)

\* Mutant: larger blocks are not looked at.
HasRoomExactly(z, o) == o \in Orders /\ nr_free[z][o] # 0

HasRoom(z, o) == \E k \in Orders : k >= o /\ nr_free[z][k] # 0

\* A wrong merge can take nr_free below zero; clients are not followed further.
Counting == \A o \in Orders : nr_free["NORMAL"][o] <= CountLimit

\* The area rmqueue takes its block from.
FirstArea(z, o, k) ==
    /\ k >= o /\ nr_free[z][k] # 0
    /\ \A j \in Orders : j >= o /\ j < k => nr_free[z][j] = 0

\* list_entry makes a struct page of whatever the head points to.
Rmqueue(by, z, o) ==
    \E k \in Orders :
        /\ FirstArea(z, o, k)
        /\ LET cell == mem.next[<<z, k>>]
           IN  IF cell \in PageCells
               THEN /\ mem' = list_del(mem, cell)
                    /\ nr_free' = AddFree(z, k, -1)
                    /\ call' = [by |-> by, zone |-> z, want |-> o, order |-> k,
                                page |-> cell[2]]
                    /\ pc' = "split"
               ELSE pc' = "wild" /\ UNCHANGED <<mem, nr_free, call>>
        /\ UNCHANGED <<total, resv, page, spanned, scan, held, reply>>

Alloc(by, o) ==
    \E i \in DOMAIN zonelist :
        /\ \A j \in 1 .. i - 1 : ~HasRoom(zonelist[j], o)
        /\ Rmqueue(by, zonelist[i], o)

NoZoneHasRoom(o) == \A i \in DOMAIN zonelist : ~HasRoom(zonelist[i], o)

AllocPages(o) ==
    /\ pc = "idle"
    /\ o <= MAX_ORDER
    /\ Counting /\ Held + Size[o] <= HoldLimit
    /\ Alloc("client", o)

AllocFails(o) ==
    /\ pc = "idle"
    /\ o > MAX_ORDER \/ NoZoneHasRoom(o)
    /\ reply' = <<"null", o>>
    /\ UNCHANGED <<pc, total, resv, mem, page, area, scan, call, held>>

\* Mutant: the half that is handed out goes back as well.
first_half(p, o) == p

second_half(p, o) == p + Size[o]

\* The second half of a larger block goes back, one order lower.
Split ==
    LET o     == call.order - 1
        buddy == second_half(call.page, o)
    IN  /\ pc = "split"
        /\ call.order > call.want
        /\ IF buddy < total
           THEN /\ mem' = list_add(mem, <<"page", buddy>>, <<call.zone, o>>)
                /\ nr_free' = AddFree(call.zone, o, 1)
                /\ call' = [call EXCEPT !.order = o]
                /\ UNCHANGED pc
           ELSE pc' = "wild" /\ UNCHANGED <<mem, nr_free, call>>
        /\ UNCHANGED <<total, resv, page, spanned, scan, held, reply>>

AllocReturns ==
    /\ pc = "split"
    /\ call.order = call.want
    /\ page' = [page EXCEPT ![call.page].count = 1]
    /\ held' = [held EXCEPT ![<<call.page, call.want>>] = @ + 1]
    /\ reply' = <<"block", call.want>>
    /\ pc' = IF call.by = "mm_test" THEN "mm_test_free" ELSE "idle"
    /\ UNCHANGED <<total, resv, mem, area, scan, call>>
-----------------------------------------------------------------------------
page_find_buddy(p, o) ==
    IF (p \div Size[o]) % 2 = 0 THEN p + Size[o] ELSE p - Size[o]

page_is_buddy(p) == page_isfree(p)

StartFree(by, p, o) ==
    /\ held[<<p, o>>] > 0
    /\ held' = [held EXCEPT ![<<p, o>>] = @ - 1]
    /\ reply' = <<"freed", o>>
    /\ IF page[p].zone \in Zones
       THEN /\ call' = [by |-> by, zone |-> page[p].zone, want |-> o, order |-> o,
                        page |-> p]
            /\ pc' = "merge"
       ELSE pc' = "wild" /\ UNCHANGED call
    /\ UNCHANGED <<total, resv, mem, page, area, scan>>

FreePages(p, o) == pc = "idle" /\ Counting /\ StartFree("client", p, o)

\* Mutant: order++ is missing.
join_same_order(buddy) ==
    [call EXCEPT !.page = IF buddy < @ THEN buddy ELSE @]

join_with(buddy) ==
    [call EXCEPT !.order = @ + 1, !.page = IF buddy < @ THEN buddy ELSE @]

\* The entry taken off a list is the page being freed, not its buddy.
Merge ==
    LET o     == call.order
        p     == call.page
        buddy == page_find_buddy(p, o)
    IN  /\ pc = "merge"
        /\ o < MAX_ORDER
        /\ IF buddy >= total
           THEN pc' = "wild" /\ UNCHANGED <<mem, nr_free, call>>
           ELSE /\ page_is_buddy(buddy)
                /\ mem' = list_del(mem, <<"page", p>>)
                /\ nr_free' = AddFree(call.zone, o, -1)
                /\ call' = join_with(buddy)
                /\ UNCHANGED pc
        /\ UNCHANGED <<total, resv, page, spanned, scan, held, reply>>

FreeReturns ==
    LET buddy == page_find_buddy(call.page, call.order)
    IN  /\ pc = "merge"
        /\ \/ call.order = MAX_ORDER
           \/ buddy < total /\ ~page_is_buddy(buddy)
        /\ mem' = list_add(mem, <<"page", call.page>>, <<call.zone, call.order>>)
        /\ page' = [page EXCEPT ![call.page].count = 0]
        /\ nr_free' = AddFree(call.zone, call.order, 1)
        /\ pc' = "idle"
        /\ UNCHANGED <<total, resv, spanned, scan, call, held, reply>>

\* mm_test allocates one page and frees it; it does not look for NULL.
MmTest ==
    /\ pc = "mm_test"
    /\ \/ Alloc("mm_test", 0)
       \/ /\ NoZoneHasRoom(0)
          /\ pc' = "wild"
          /\ UNCHANGED <<total, resv, mem, page, area, scan, call, held, reply>>

MmTestFree == pc = "mm_test_free" /\ StartFree("mm_test", call.page, 0)

\* BUG() stops the machine; after a wild pointer nothing is known.
Halted ==
    /\ pc \in {"BUG", "wild"} \/ (pc = "idle" /\ ~Counting)
    /\ UNCHANGED vars

Kernel ==
    \/ MmReservedInit \/ ZoneInit \/ PageInit
    \/ AreaBegin \/ AreaScan \/ AreaEnd
    \/ MmTest \/ MmTestFree
    \/ Split \/ AllocReturns \/ Merge \/ FreeReturns

Client ==
    \/ \E o \in Requests : AllocPages(o) \/ AllocFails(o)
    \/ \E p \in PageIndex, o \in FreeOrders : FreePages(p, o)

Next == Kernel \/ Client \/ Halted

\* The processor goes on executing a call it has begun.
Spec == Init /\ [][Next]_vars /\ WF_vars(Kernel)
-----------------------------------------------------------------------------
TypeOK ==
    /\ pc \in {"mm_reserved_init", "zone_init", "page_init", "area_begin", "area_scan",
               "mm_test", "mm_test_free", "idle", "split", "merge", "BUG", "wild"}
    /\ total \in MemSizes
    /\ resv \in KernelSizes
    /\ mem \in Memory(Cell)
    /\ page \in [PageIndex -> StructPage]
    /\ spanned \in [Zones -> Nat]
    /\ nr_free \in [Zones -> [Orders -> 0 .. ULong - 1]]
    /\ scan \in [zone : Zones, order : Orders, i : Nat, pagenum : Nat]
    /\ call \in [by : {"client", "mm_test"}, zone : Zones, want : Orders,
                 order : Orders, page : PageIndex]
    /\ held \in [Blocks -> Nat]
    /\ reply \in {"none", "block", "freed", "null"} \X Nat

Booted == pc \in {"mm_test", "split", "merge", "mm_test_free", "idle"}

PagesOf(b) == b[1] .. b[1] + Size[b[2]] - 1

\* The entries nr_free says are on a list, from the head on.
Listed(z, o) ==
    LET at[i \in 0 .. nr_free[z][o]] == IF i = 0 THEN <<z, o>> ELSE mem.next[at[i - 1]]
    IN  [i \in 1 .. nr_free[z][o] |-> at[i]]

FreeBlocks == {f \in Zones \X Orders \X (1 .. MaxPages) : f[3] <= nr_free[f[1]][f[2]]}

\* MaxPages, past every page, stands for a cell that is no page.
PageOf(f) == LET cell == Listed(f[1], f[2])[f[3]]
             IN  IF cell \in PageCells THEN cell[2] ELSE MaxPages

TimesFree(p) == Cardinality({f \in FreeBlocks : p \in PagesOf(<<PageOf(f), f[2]>>)})

TimesHeld(p) == Cardinality({b \in Blocks : held[b] > 0 /\ p \in PagesOf(b)})

(* Between calls every page above the kernel belongs to exactly one block, *)
(* on a free list or in a caller's hands, and the kernel's pages to none:  *)
(* no page is handed out twice and none is lost, although mm_test leaves   *)
(* stale entries on the lists.  nr_free, not the head, ends a list.        *)
EveryPageOnce ==
    pc \in {"mm_test", "idle"} =>
        /\ \A p \in 0 .. total - 1 :
              TimesFree(p) + TimesHeld(p) = IF p < resv THEN 0 ELSE 1
        /\ \A f \in FreeBlocks : PageOf(f) % Size[f[2]] = 0
        /\ \A b \in Blocks : held[b] <= 1

InFlight == IF pc \in {"split", "merge"} THEN Size[call.order] ELSE 0

\* The pages nr_free counts, those callers hold and those of the running call.
AccountedPages ==
    (MapThenSumSet(LAMBDA o : nr_free["NORMAL"][o] * Size[o], Orders) + Held + InFlight)
        % ULong

(* From the end of free_area_init on no call changes the sum of the pages  *)
(* that are counted as free, held and in a call, modulo the width of a     *)
(* counter: every split and every merge keeps it, even a merge with the    *)
(* wrong block and whatever mem_map held at power-on.                      *)
PagesConserved == [][Booted /\ Booted' => AccountedPages' = AccountedPages]_vars

(* alloc_pages never hands out a page of ZONE_DMA, where the kernel lies,  *)
(* and the kernel's own pages stay reserved, whatever clients free and     *)
(* whatever the memory of mem_map held at power-on.                        *)
KernelPagesSafe ==
    Booted =>
        /\ \A b \in Blocks : held[b] > 0 => b[1] >= DmaPages
        /\ \A p \in 0 .. resv - 1 : p < DmaPages => page[p].count = 1 /\ page[p].rvsd

\* The memory of mem_map read as zero, as far as the scans look at it.
CleanRam == \A p \in resv .. total - 1 : page_isfree(p)

(* The machines the allocator boots on, if mem_map lies in memory that is  *)
(* zero: those whose ZONE_NORMAL is a whole number of largest blocks.  A   *)
(* ragged zone ends in BUG, and a machine without ZONE_NORMAL has mm_test  *)
(* use a NULL page, before any call has returned.                          *)
BootsExactlyOn ==
    CleanRam =>
        /\ pc = "mm_test" /\ total > DmaPages =>
              (total - DmaPages) % Size[MAX_ORDER] = 0
        /\ pc = "BUG" => total > DmaPages /\ (total - DmaPages) % Size[MAX_ORDER] # 0
        /\ pc = "wild" /\ reply[1] = "none" => total <= DmaPages

(* The boot comes to an end, in BUG or in a first call if not in the idle  *)
(* loop, and every call of alloc_pages or __free_pages returns: the scans  *)
(* and merges stop whatever mem_map held and however corrupt the lists are.*)
CallsEnd == []<>(pc \in {"idle", "BUG", "wild"})

(* list.h:94-97: the poison pointers serve to catch uses of an entry that  *)
(* is on no list, so nothing is ever stored through one.                   *)
NoPoisonUse ==
    [][\A c \in {LIST_POISON1, LIST_POISON2} :
          mem'.next[c] = mem.next[c] /\ mem'.prev[c] = mem.prev[c]]_vars

(* mm.c:67-68 takes it for a bug that the free blocks of a zone exceed it. *)
BlocksFitZone == pc # "BUG"

(* mm.c:260-262: a free joins a block with the buddy of its pair, so that  *)
(* the combined block holds no page of a caller.                           *)
MergesPairs ==
    [][pc = "merge" /\ call'.order = call.order + 1 =>
          \A b \in Blocks : held[b] > 0 =>
             PagesOf(b) \intersect PagesOf(<<call'.page, call'.order>>) = {}]_vars

(* With the frees the kernel makes, the allocator keeps PageAlloc's promise: *)
(* disjoint aligned blocks of ZONE_NORMAL, and NULL only when none is left.  *)
Promise == INSTANCE PageAlloc
    WITH first <- DmaPages, last <- total, held <- {b \in Blocks : held[b] > 0}

KeepsPromise == Promise!Spec
=============================================================================
