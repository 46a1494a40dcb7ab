----------------------------- MODULE KernelMem ------------------------------
(***************************************************************************)
(* The kernel's memory as mm_init leaves it and kmem_cache_init and later  *)
(* callers use it: the page allocator (Mm), one cache of the slab          *)
(* allocator (Slab) that takes its pages from alloc_pages, and the page    *)
(* tables of the boot, of which only the pages they map matter here.       *)
(*                                                                         *)
(* There is one thread: pc is where it is in the page allocator, slab_pc   *)
(* where it is in kmem_cache_alloc, and a call of alloc_pages out of       *)
(* cache_grow runs to its end before the refill goes on.                   *)
(***************************************************************************)
EXTENDS Mm

CONSTANTS
    MappedPages,        \* pages from 0 that default_page_map maps
    Num,                \* cache_cache.num
    Limit,              \* BOOT_CPUCACHE_ENTRIES
    BatchCount,
    BATCHREFILL_LIMIT

ASSUME KernelMemAssumption == MappedPages \in Nat

VARIABLES
    slab_pc,
    asked,              \* cache_grow is waiting for alloc_pages
    grown, lists, inuse, free, bufctl, avail, entry, touched, batchcount, slabp, from,
    handed

S == INSTANCE Slab WITH pc <- slab_pc, Pages <- PageIndex

slab_vars == <<slab_pc, grown, lists, inuse, free, bufctl, avail, entry, touched,
               batchcount, slabp, from, handed>>
all_vars == <<vars, asked, slab_vars>>

KernelMemInit == Init /\ S!Init /\ asked = FALSE

\* mm_init up to the end of mm_test, and the inside of every call.
PageStep == Kernel /\ UNCHANGED <<asked, slab_vars>>

\* kmem_cache_init asks for the first object as soon as mm_test is over.
CacheCall ==
    /\ pc = "idle" /\ Counting
    /\ S!KmemCacheAlloc
    /\ UNCHANGED <<vars, asked>>

CacheStep ==
    /\ pc = "idle"
    /\ S!FindSlab \/ S!NoSlabToTake \/ S!TakeObject \/ S!Relist \/ S!Refilled
    /\ UNCHANGED <<vars, asked>>

\* Mutant: the failure is returned to the caller of kmem_cache_alloc.
ReturnsNull ==
    /\ slab_pc' = "idle"
    /\ UNCHANGED <<grown, lists, inuse, free, bufctl, avail, entry, touched, batchcount,
                   slabp, from, handed>>

NoPageForSlab == S!GrowFails

\* kmem_getpages; gfporder of cache_cache is 0.
kmem_getpages ==
    /\ pc = "idle" /\ ~asked
    /\ slab_pc = "must_grow" /\ avail = 0
    /\ \/ /\ Alloc("client", 0)
          /\ asked' = TRUE
          /\ UNCHANGED slab_vars
       \/ /\ NoZoneHasRoom(0)
          /\ reply' = <<"null", 0>>
          /\ NoPageForSlab
          /\ UNCHANGED <<pc, total, resv, mem, page, area, scan, call, held, asked>>

\* page_address is the page's place in the kernel's half of the addresses;
\* alloc_slabmgmt writes there, whether or not it is mapped.
cache_grow ==
    /\ pc = "idle" /\ asked
    /\ asked' = FALSE
    /\ IF call.page < MappedPages
       THEN S!GrowWith(call.page)
       ELSE /\ slab_pc' = "fault"
            /\ UNCHANGED <<grown, lists, inuse, free, bufctl, avail, entry, touched,
                           batchcount, slabp, from, handed>>
    /\ UNCHANGED vars

\* Other callers of the page allocator come after kmem_cache_init.
OtherCaller ==
    /\ slab_pc = "idle" /\ grown # {}
    /\ Client
    /\ UNCHANGED <<asked, slab_vars>>

Stopped ==
    /\ Halted \/ slab_pc \in {"BUG", "fault"}
    /\ UNCHANGED all_vars

Work == PageStep \/ CacheStep \/ kmem_getpages \/ cache_grow

KernelMemNext == Work \/ CacheCall \/ OtherCaller \/ Stopped

\* The processor goes on executing a call it has begun.
KernelMemSpec == KernelMemInit /\ [][KernelMemNext]_all_vars /\ WF_all_vars(Work)
-----------------------------------------------------------------------------
(* An object kmem_cache_alloc has returned lies in memory of its own: in a *)
(* mapped page of ZONE_NORMAL that the slab alone holds, as one block, and *)
(* that is on no free list, so that no other caller of alloc_pages gets it.*)
ObjectsApart ==
    \A p \in grown :
        /\ p >= DmaPages /\ p < MappedPages
        /\ held[<<p, 0>>] = 1
        /\ pc = "idle" => TimesFree(p) = 0 /\ TimesHeld(p) = 1

(* The machines on which kmem_cache_init gets its first object.  A zone's  *)
(* blocks are put on their list from the bottom up, each in front, so the  *)
(* first page handed out is that of the highest block; the first slab is   *)
(* mapped exactly if that block starts below the end of the page tables.   *)
UpExactlyOn ==
    /\ grown # {} => total - Size[MAX_ORDER] < MappedPages
    /\ slab_pc = "fault" /\ grown = {} => total - Size[MAX_ORDER] >= MappedPages

(* Fed by the real page allocator, the cache behaves as Slab does with an  *)
(* allocator that returns any page not in use or none; a page that is not  *)
(* mapped leaves it where it waits for one.                                *)
OneCache == INSTANCE Slab
    WITH Pages <- PageIndex, pc <- IF slab_pc = "fault" THEN "must_grow" ELSE slab_pc

ImplementsSlab == OneCache!Init /\ [][OneCache!Next]_(OneCache!vars)
=============================================================================
