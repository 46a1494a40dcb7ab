-------------------------------- MODULE Slab --------------------------------
(***************************************************************************)
(* kernel/slab.c: one cache, from kmem_cache_alloc through                 *)
(* cache_alloc_refill and cache_grow.  An object is <<slab, index>>.       *)
(*                                                                         *)
(* The slab lists are the sequences that include/list.h implements (module *)
(* Lists); alloc_pages gives any page that is not in use, or none.         *)
(* `handed' is not in the code: it counts how often each object was given  *)
(* to a caller.  The code has no way to give an object back.               *)
(***************************************************************************)
EXTENDS Integers, Sequences, FiniteSets

CONSTANTS
    Pages,              \* what alloc_pages may return for this cache
    Num,                \* cachep->num, objects in a slab
    Limit,              \* array->limit
    BatchCount,         \* array->batchcount
    BATCHREFILL_LIMIT,
    NULL

ASSUME SlabAssumption ==
    /\ Num \in Nat \ {0}
    /\ Limit \in Nat \ {0} /\ BatchCount \in 1 .. Limit
    /\ BATCHREFILL_LIMIT \in Nat \ {0}
    /\ NULL \notin Pages /\ NULL \notin Pages \X (0 .. Num - 1)

BUFCTL_END == -1

Index == 0 .. Num - 1

Obj == Pages \X Index

VARIABLES
    pc,
    grown,      \* the pages that hold a slab
    lists,      \* slabs_partial, slabs_full and slabs_free
    inuse,      \* of each slab
    free,       \* of each slab, the first free index or BUFCTL_END
    bufctl,     \* of each slab, the index that follows each free one
    avail,      \* of the array cache
    entry,
    touched,
    batchcount, \* local of cache_alloc_refill
    slabp,      \* local of cache_alloc_refill
    from,       \* the list slabp was found on
    handed

slabs == <<grown, inuse, free, bufctl>>
vars == <<pc, grown, lists, inuse, free, bufctl, avail, entry, touched, batchcount,
          slabp, from, handed>>

\* kmem_cache_init leaves an empty cache behind.
Init ==
    /\ pc = "idle"
    /\ grown = {}
    /\ lists = [partial |-> << >>, full |-> << >>, free |-> << >>]
    /\ inuse = [s \in Pages |-> 0]
    /\ free = [s \in Pages |-> 0]
    /\ bufctl = [s \in Pages |-> [i \in Index |-> 0]]
    /\ avail = 0
    /\ entry = [k \in 0 .. Limit - 1 |-> NULL]
    /\ touched = FALSE
    /\ batchcount = 0
    /\ slabp = NULL
    /\ from = "free"
    /\ handed = [o \in Obj |-> 0]

\* Mutant: avail is not decremented.
PeekEntry ==
    /\ handed' = [handed EXCEPT ![entry[avail - 1]] = @ + 1]
    /\ pc' = "idle"
    /\ UNCHANGED avail

\* return ac->entry[--ac->avail]
PopEntry ==
    /\ avail' = avail - 1
    /\ handed' = [handed EXCEPT ![entry[avail - 1]] = @ + 1]
    /\ pc' = "idle"

Retry ==
    /\ batchcount' = IF ~touched /\ BatchCount > BATCHREFILL_LIMIT
                     THEN BATCHREFILL_LIMIT ELSE BatchCount
    /\ pc' = "find"

KmemCacheAlloc ==
    /\ pc = "idle"
    /\ \/ /\ avail > 0
          /\ PopEntry
          /\ UNCHANGED batchcount
       \/ /\ avail = 0
          /\ Retry
          /\ UNCHANGED <<avail, handed>>
    /\ UNCHANGED <<slabs, lists, entry, touched, slabp, from>>

\* Mutant: the partial list is not looked at.
OnlyFreeSlabs == IF lists.free # << >> THEN {"free"} ELSE {}

\* The partial list first, then the free list.
Source == IF lists.partial # << >> THEN {"partial"}
          ELSE IF lists.free # << >> THEN {"free"} ELSE {}

FindSlab ==
    /\ pc = "find" /\ batchcount > 0
    /\ \E l \in Source :
          /\ slabp' = Head(lists[l])
          /\ from' = l
    /\ pc' = "take"
    /\ UNCHANGED <<slabs, lists, avail, entry, touched, batchcount, handed>>

NoSlabToTake ==
    /\ pc = "find"
    /\ batchcount <= 0 \/ Source = {}
    /\ pc' = "must_grow"
    /\ UNCHANGED <<slabs, lists, avail, entry, touched, batchcount, slabp, from, handed>>

\* Mutant: a refill empties the slab, whatever the batch.
SlabHasMore == inuse[slabp] < Num

TakesMore == inuse[slabp] < Num /\ batchcount # 0

\* ac->entry[ac->avail++] = slab_get_obj(cachep, slabp, 0)
TakeObject ==
    /\ pc = "take" /\ TakesMore
    /\ batchcount' = batchcount - 1
    /\ entry' = [entry EXCEPT ![avail] = <<slabp, free[slabp]>>]
    /\ avail' = avail + 1
    /\ inuse' = [inuse EXCEPT ![slabp] = @ + 1]
    /\ free' = [free EXCEPT ![slabp] = bufctl[slabp][free[slabp]]]
    /\ UNCHANGED <<pc, grown, bufctl, lists, touched, slabp, from, handed>>

\* Mutants: a slab is full one object early, or never.
ListOneEarly == IF free[slabp] \in {BUFCTL_END, Num - 1} THEN "full" ELSE "partial"

ListNeverFull == "partial"

ListFor == IF free[slabp] = BUFCTL_END THEN "full" ELSE "partial"

\* batchcount-- is evaluated once more when it is what ends the inner loop.
Relist ==
    LET rest == [lists EXCEPT ![from] = Tail(@)]
    IN  /\ pc = "take" /\ ~TakesMore
        /\ batchcount' = IF inuse[slabp] < Num THEN batchcount - 1 ELSE batchcount
        /\ lists' = [rest EXCEPT ![ListFor] = <<slabp>> \o @]
        /\ pc' = "find"
        /\ UNCHANGED <<slabs, avail, entry, touched, slabp, from, handed>>

\* Mutant: the list of free objects ends one too early.
init_objs_short == [i \in Index |-> IF i >= Num - 2 THEN BUFCTL_END ELSE i + 1]

cache_init_objs == [i \in Index |-> IF i = Num - 1 THEN BUFCTL_END ELSE i + 1]

\* alloc_slabmgmt and cache_init_objs on page s, and the end of cache_grow.
GrowWith(s) ==
    /\ grown' = grown \union {s}
    /\ inuse' = [inuse EXCEPT ![s] = 0]
    /\ free' = [free EXCEPT ![s] = 0]
    /\ bufctl' = [bufctl EXCEPT ![s] = cache_init_objs]
    /\ lists' = [lists EXCEPT !.free = Append(@, s)]
    /\ Retry
    /\ UNCHANGED <<avail, entry, touched, slabp, from, handed>>

\* kmem_getpages is given a page that is not in use.
CacheGrow ==
    /\ pc = "must_grow" /\ avail = 0
    /\ \E s \in Pages \ grown : GrowWith(s)

\* alloc_pages returned NULL; cache_grow does not return in that case.
GrowFails ==
    /\ pc = "must_grow" /\ avail = 0
    /\ pc' = "BUG"
    /\ UNCHANGED <<slabs, lists, avail, entry, touched, batchcount, slabp, from, handed>>

Refilled ==
    /\ pc = "must_grow" /\ avail > 0
    /\ touched' = TRUE
    /\ PopEntry
    /\ UNCHANGED <<slabs, lists, entry, batchcount, slabp, from>>

Halted == pc = "BUG" /\ UNCHANGED vars

Refill == FindSlab \/ NoSlabToTake \/ TakeObject \/ Relist \/ CacheGrow \/ Refilled

Next == KmemCacheAlloc \/ Refill \/ GrowFails \/ Halted

\* The processor goes on executing a call it has begun.
Spec == Init /\ [][Next]_vars /\ WF_vars(Refill \/ GrowFails)
-----------------------------------------------------------------------------
TypeOK ==
    /\ pc \in {"idle", "find", "take", "must_grow", "BUG"}
    /\ grown \subseteq Pages
    /\ lists \in [partial : Seq(grown), full : Seq(grown), free : Seq(grown)]
    /\ inuse \in [Pages -> 0 .. Num]
    /\ free \in [Pages -> Index \union {BUFCTL_END}]
    /\ bufctl \in [Pages -> [Index -> Index \union {BUFCTL_END}]]
    /\ avail \in 0 .. Limit
    /\ entry \in [0 .. Limit - 1 -> Obj \union {NULL}]
    /\ touched \in BOOLEAN
    /\ batchcount \in -1 .. Limit
    /\ slabp \in grown \union {NULL}
    /\ from \in {"partial", "free"}
    /\ handed \in [Obj -> Nat]

(* kmem_cache_alloc never returns an object twice, and what waits in the   *)
(* array cache is distinct and in nobody's hands.                          *)
NoDoubleHandout ==
    /\ \A o \in Obj : handed[o] <= 1
    /\ \A k \in 0 .. avail - 1 :
          /\ entry[k] \in Obj /\ handed[entry[k]] = 0
          /\ \A j \in 0 .. avail - 1 : entry[j] = entry[k] => j = k

\* The indices a slab's free list leads through.
FreeChain(s) ==
    LET at[n \in 0 .. Num] ==
            IF n = 0 THEN free[s]
            ELSE LET i == at[n - 1]
                 IN  IF i = BUFCTL_END THEN BUFCTL_END ELSE bufctl[s][i]
    IN  {at[n] : n \in 0 .. Num} \ {BUFCTL_END}

(* The free list of a slab leads through exactly the objects nobody holds: *)
(* none is lost and none is both free and in use, and inuse counts the rest. *)
FreeChainExact ==
    \A s \in grown :
        LET used == {i \in Index : \/ handed[<<s, i>>] > 0
                                   \/ \E k \in 0 .. avail - 1 : entry[k] = <<s, i>>}
        IN  FreeChain(s) = Index \ used /\ inuse[s] = Cardinality(used)

\* How often slab s is on list l.
Times(s, l) == Cardinality({i \in DOMAIN lists[l] : lists[l][i] = s})

(* slab.c:28: "Slabs are chained into three list: fully used, partial,     *)
(* fully free slabs."  Between calls every slab is on one list, the one    *)
(* that fits its use.                                                      *)
ListsMatchUse ==
    pc \in {"idle", "must_grow"} =>
        \A s \in grown :
            /\ Times(s, "full") = IF inuse[s] = Num THEN 1 ELSE 0
            /\ Times(s, "partial") = IF inuse[s] \in 1 .. Num - 1 THEN 1 ELSE 0
            /\ Times(s, "free") = IF inuse[s] = 0 THEN 1 ELSE 0

(* slab.c:228-229: cache_grow is called "when there are no active objs     *)
(* left in a cache": every object of every slab is with a caller.          *)
GrowsWhenExhausted ==
    [][grown' # grown => \A s \in grown, i \in Index : handed[<<s, i>>] = 1]_vars

(* A call of kmem_cache_alloc returns or ends in BUG.                      *)
AllocEnds == pc # "idle" ~> pc \in {"idle", "BUG"}
=============================================================================
