---------------------------- MODULE SlabProofs ------------------------------
(***************************************************************************)
(* Slab's type invariant and NoDoubleHandout, for every number of pages,   *)
(* every slab size and every batch and limit.  The argument: the objects   *)
(* of a slab leave it in index order, because its free list still leads    *)
(* from `inuse' upwards, so an object not yet reached can be neither in    *)
(* the array cache nor with a caller.                                      *)
(***************************************************************************)
EXTENDS Slab, FiniteSetTheorems, WellFoundedInduction, TLAPS

(* A set of natural numbers has a least member: the form in which the      *)
(* proofs below use induction.                                             *)
LEMMA Least ==
    ASSUME NEW T \in SUBSET Nat, T # {}
    PROVE  \E n \in T : \A m \in T : n <= m
<1> DEFINE Less == {p \in Nat \X Nat : p[1] < p[2]}
<1>1. IsWellFoundedOn(Less, Nat)
  BY NatLessThanWellFounded DEF OpToRel
<1>2. \A m, n \in Nat : m < n => <<m, n>> \in Less
  OBVIOUS
<1> HIDE DEF Less
<1>3. PICK n \in T : \A m \in T : ~ (<<m, n>> \in Less)
  BY <1>1, WFMin
<1>4. ASSUME NEW m \in T PROVE n <= m
  <2>1. m \in Nat /\ n \in Nat
    OBVIOUS
  <2>2. ~ (m < n)
    BY <1>2, <1>3, <2>1, Zenon
  <2> QED
    BY <2>1, <2>2
<1> QED
  BY <1>4

\* The free list of a grown slab is the run of indices from inuse upwards.
FreeListIsTail ==
    \A s \in grown :
        /\ free[s] = IF inuse[s] = Num THEN BUFCTL_END ELSE inuse[s]
        /\ \A i \in Index : bufctl[s][i] = IF i = Num - 1 THEN BUFCTL_END ELSE i + 1

\* Whoever has an object has one the slab has given out.
HandedBelowInuse ==
    \A s \in Pages, i \in Index : handed[<<s, i>>] # 0 => s \in grown /\ i < inuse[s]

CachedBelowInuse ==
    \A k \in 0 .. avail - 1 :
        /\ entry[k] \in Obj
        /\ entry[k][1] \in grown
        /\ entry[k][2] < inuse[entry[k][1]]

\* What the loops of cache_alloc_refill know.
LoopState ==
    /\ pc \in {"find", "take"} => avail + batchcount <= Limit
    /\ pc = "take" => slabp \in grown /\ lists[from] # << >> /\ batchcount >= 0

Inv == /\ TypeOK /\ FreeListIsTail /\ HandedBelowInuse /\ CachedBelowInuse
       /\ LoopState /\ NoDoubleHandout

LEMMA InitInv == Init => Inv
<1> SUFFICES ASSUME Init PROVE Inv
  OBVIOUS
<1>1. Num \in Nat \ {0} /\ Limit \in Nat \ {0} /\ 0 \in Index
  BY SlabAssumption DEF Index
<1>2. lists \in [partial : Seq(grown), full : Seq(grown), free : Seq(grown)]
  BY DEF Init
<1>3. bufctl \in [Pages -> [Index -> Index \union {BUFCTL_END}]]
  BY <1>1 DEF Init
<1>4. TypeOK
  <2>1. /\ inuse \in [Pages -> 0 .. Num] /\ avail \in 0 .. Limit
        /\ batchcount \in -1 .. Limit /\ handed \in [Obj -> Nat]
    BY <1>1 DEF Init
  <2>2. free \in [Pages -> Index \union {BUFCTL_END}]
    BY <1>1 DEF Init
  <2>3. entry \in [0 .. Limit - 1 -> Obj \union {NULL}]
    BY DEF Init
  <2> QED
    BY <1>2, <1>3, <2>1, <2>2, <2>3 DEF Init, TypeOK
<1>5. FreeListIsTail /\ HandedBelowInuse /\ CachedBelowInuse /\ LoopState
  BY <1>1 DEF Init, FreeListIsTail, HandedBelowInuse, CachedBelowInuse, LoopState, Obj
<1>6. NoDoubleHandout
  BY <1>1 DEF Init, NoDoubleHandout
<1> QED
  BY <1>4, <1>5, <1>6 DEF Inv

(* One object moves from the top of the array cache to a caller. *)
LEMMA PopKeepsOwners ==
    ASSUME Inv, avail > 0, PopEntry, UNCHANGED <<slabs, entry>>
    PROVE  /\ avail' \in 0 .. Limit /\ handed' \in [Obj -> Nat]
           /\ HandedBelowInuse' /\ CachedBelowInuse' /\ NoDoubleHandout'
<1> DEFINE o == entry[avail - 1]
<1>0. Limit \in Nat
  BY SlabAssumption
<1>1. /\ o \in Obj /\ handed[o] = 0 /\ o[1] \in grown /\ o[2] < inuse[o[1]]
      /\ avail \in 1 .. Limit /\ avail' = avail - 1
      /\ handed \in [Obj -> Nat] /\ Limit \in Nat
  BY SMTT(30), <1>0 DEF Inv, TypeOK, CachedBelowInuse, NoDoubleHandout, PopEntry
<1>2. handed' = [handed EXCEPT ![o] = 1]
  BY <1>1 DEF PopEntry
<1>3. avail' \in 0 .. Limit /\ handed' \in [Obj -> Nat]
  BY <1>1, <1>2
<1>4. HandedBelowInuse'
  <2> SUFFICES ASSUME NEW s \in Pages, NEW i \in Index, handed'[<<s, i>>] # 0
               PROVE  s \in grown /\ i < inuse[s]
    BY DEF HandedBelowInuse, slabs
  <2>1. <<s, i>> \in Obj
    BY DEF Obj
  <2>2. CASE <<s, i>> = o
    BY <1>1, <2>2
  <2>3. CASE <<s, i>> # o
    BY <1>1, <1>2, <2>1, <2>3 DEF Inv, HandedBelowInuse
  <2> QED
    BY <2>2, <2>3
<1>5. CachedBelowInuse'
  BY <1>1 DEF Inv, CachedBelowInuse, slabs
<1>6. NoDoubleHandout'
  <2>1. \A x \in Obj : handed'[x] <= 1
    BY <1>1, <1>2 DEF Inv, NoDoubleHandout
  <2>2. ASSUME NEW k \in 0 .. avail' - 1
        PROVE  /\ entry'[k] \in Obj /\ handed'[entry'[k]] = 0
               /\ \A j \in 0 .. avail' - 1 : entry'[j] = entry'[k] => j = k
    <3>1. k \in 0 .. avail - 1 /\ avail - 1 \in 0 .. avail - 1 /\ k # avail - 1
      BY <1>1
    <3>2. entry[k] \in Obj /\ handed[entry[k]] = 0 /\ entry[k] # o
      BY <3>1 DEF Inv, NoDoubleHandout
    <3>3. handed'[entry[k]] = 0
      BY <1>1, <1>2, <3>2
    <3> QED
      BY <1>1, <3>1, <3>2, <3>3 DEF Inv, NoDoubleHandout
  <2> QED
    BY <2>1, <2>2 DEF NoDoubleHandout
<1> QED
  BY <1>3, <1>4, <1>5, <1>6

LEMMA StepInv == Inv /\ [Next]_vars => Inv'
<1> SUFFICES ASSUME Inv, [Next]_vars PROVE Inv'
  OBVIOUS
<1>0. /\ Num \in Nat \ {0}
      /\ Limit \in Nat \ {0} /\ BatchCount \in 1 .. Limit
      /\ BATCHREFILL_LIMIT \in Nat \ {0}
  BY SlabAssumption
<1> USE <1>0
<1>1. CASE KmemCacheAlloc
  <2>1. CASE avail > 0 /\ PopEntry /\ UNCHANGED batchcount
    <3>1. UNCHANGED <<slabs, entry>>
      BY <1>1 DEF KmemCacheAlloc
    <3>2. HandedBelowInuse' /\ CachedBelowInuse' /\ NoDoubleHandout'
          /\ avail' \in 0 .. Limit /\ handed' \in [Obj -> Nat]
      BY <2>1, <3>1, PopKeepsOwners
    <3>3. TypeOK'
      BY <1>1, <2>1, <3>2 DEF Inv, TypeOK, KmemCacheAlloc, PopEntry, slabs
    <3> QED
      BY <1>1, <2>1, <3>2, <3>3 DEF Inv, KmemCacheAlloc, PopEntry, slabs,
         FreeListIsTail, LoopState
  <2>2. CASE avail = 0 /\ Retry /\ UNCHANGED <<avail, handed>>
    <3>1. TypeOK'
      BY <1>1, <2>2 DEF Inv, TypeOK, KmemCacheAlloc, Retry, slabs
    <3> QED
      BY <1>1, <2>2, <3>1 DEF Inv, TypeOK, KmemCacheAlloc, Retry, slabs, FreeListIsTail,
         HandedBelowInuse, CachedBelowInuse, LoopState, NoDoubleHandout
  <2> QED
    BY <1>1, <2>1, <2>2 DEF KmemCacheAlloc
<1>2. CASE FindSlab
  <2>1. PICK l \in {"partial", "free"} :
           lists[l] # << >> /\ slabp' = Head(lists[l]) /\ from' = l
    BY <1>2 DEF FindSlab, Source
  <2>2. Head(lists[l]) \in grown
    BY <2>1 DEF Inv, TypeOK
  <2>3. TypeOK'
    BY <1>2, <2>1, <2>2 DEF Inv, TypeOK, FindSlab, Source, slabs
  <2> QED
    BY SMTT(30), <1>2, <2>1, <2>2, <2>3 DEF Inv, TypeOK, FindSlab, Source, slabs, FreeListIsTail,
       HandedBelowInuse, CachedBelowInuse, LoopState, NoDoubleHandout
<1>3. CASE NoSlabToTake
  BY ZenonT(40), <1>3 DEF Inv, TypeOK, NoSlabToTake, slabs, FreeListIsTail,
     HandedBelowInuse, CachedBelowInuse, LoopState, NoDoubleHandout
<1>4. CASE TakeObject
  <2> DEFINE o == <<slabp, inuse[slabp]>>
  <2>1. /\ slabp \in grown /\ slabp \in Pages
        /\ inuse[slabp] \in Index /\ free[slabp] = inuse[slabp]
        /\ batchcount \in 1 .. Limit /\ avail \in 0 .. Limit - 1
        /\ o \in Obj /\ Limit \in Nat /\ Num \in Nat \ {0}
    <3>1. slabp \in grown /\ slabp \in Pages /\ inuse[slabp] < Num /\ batchcount # 0
      BY <1>4 DEF Inv, TypeOK, TakeObject, TakesMore, LoopState
    <3>2. inuse[slabp] \in 0 .. Num /\ Num \in Nat \ {0} /\ Limit \in Nat
      BY <3>1 DEF Inv, TypeOK
    <3>3. inuse[slabp] \in Index
      BY <3>1, <3>2 DEF Index
    <3>4. free[slabp] = inuse[slabp]
      BY <3>1, <3>2 DEF Inv, FreeListIsTail
    <3>5. avail + batchcount <= Limit /\ batchcount \in 1 .. Limit /\ avail \in 0 .. Limit
      BY SMTT(30), <1>4, <3>1, <3>2 DEF Inv, TypeOK, LoopState, TakeObject, TakesMore
    <3> QED
      BY <3>1, <3>2, <3>3, <3>4, <3>5 DEF Obj
  <2>2. /\ entry' = [entry EXCEPT ![avail] = o] /\ avail' = avail + 1
        /\ inuse' = [inuse EXCEPT ![slabp] = inuse[slabp] + 1]
        /\ free' = [free EXCEPT ![slabp] = bufctl[slabp][inuse[slabp]]]
        /\ batchcount' = batchcount - 1
        /\ UNCHANGED <<pc, grown, bufctl, lists, touched, slabp, from, handed>>
    BY <1>4, <2>1 DEF TakeObject, TakesMore
  <2>3. /\ entry \in [0 .. Limit - 1 -> Obj \union {NULL}]
        /\ inuse \in [Pages -> 0 .. Num] /\ handed \in [Obj -> Nat]
        /\ free \in [Pages -> Index \union {BUFCTL_END}] /\ grown \subseteq Pages
        /\ bufctl \in [Pages -> [Index -> Index \union {BUFCTL_END}]]
    BY DEF Inv, TypeOK
  <2>4. handed[o] = 0 /\ \A k \in 0 .. avail - 1 : entry[k] # o
    BY <2>1, <2>3 DEF Inv, HandedBelowInuse, CachedBelowInuse, Index
  <2>5. TypeOK'
    <3>1. bufctl[slabp][inuse[slabp]] \in Index \union {BUFCTL_END}
      BY <2>1, <2>3
    <3>2. free' \in [Pages -> Index \union {BUFCTL_END}]
      BY <2>2, <2>3, <3>1
    <3>3. inuse' \in [Pages -> 0 .. Num]
      BY <2>1, <2>2, <2>3 DEF Index
    <3>4. entry' \in [0 .. Limit - 1 -> Obj \union {NULL}]
      BY <2>1, <2>2, <2>3
    <3>5. avail' \in 0 .. Limit /\ batchcount' \in -1 .. Limit
      BY <2>1, <2>2
    <3> QED
      BY <2>2, <3>2, <3>3, <3>4, <3>5 DEF Inv, TypeOK
  <2>6. FreeListIsTail'
    BY <2>1, <2>2, <2>3 DEF Inv, FreeListIsTail, Index, BUFCTL_END
  <2>7. HandedBelowInuse'
    BY <2>1, <2>2, <2>3 DEF Inv, HandedBelowInuse, Index
  <2>8. CachedBelowInuse'
    <3> SUFFICES ASSUME NEW k \in 0 .. avail
                 PROVE  /\ entry'[k] \in Obj /\ entry'[k][1] \in grown
                        /\ entry'[k][2] < inuse'[entry'[k][1]]
      BY <2>1, <2>2 DEF CachedBelowInuse
    <3>1. CASE k = avail
      BY <2>1, <2>2, <2>3, <3>1 DEF Index
    <3>2. CASE k # avail
      <4>1. k \in 0 .. avail - 1 /\ entry'[k] = entry[k]
        BY <2>1, <2>2, <2>3, <3>2
      <4>2. entry[k] \in Obj /\ entry[k][1] \in grown /\ entry[k][2] < inuse[entry[k][1]]
        BY <4>1 DEF Inv, CachedBelowInuse
      <4>3. entry[k][1] \in Pages /\ entry[k][2] \in Index
        BY <4>2 DEF Obj
      <4> QED
        BY SMTT(30), <2>1, <2>2, <2>3, <4>1, <4>2, <4>3 DEF Index
    <3> QED
      BY <3>1, <3>2
  <2>9. NoDoubleHandout'
    <3>1. ASSUME NEW k \in 0 .. avail PROVE entry'[k] \in Obj /\ handed[entry'[k]] = 0
      BY <2>1, <2>2, <2>3, <2>4 DEF Inv, NoDoubleHandout
    <3>2. ASSUME NEW k \in 0 .. avail, NEW j \in 0 .. avail, entry'[j] = entry'[k]
          PROVE  j = k
      <4>1. entry'[avail] = o /\ \A n \in 0 .. avail - 1 : entry'[n] = entry[n]
        BY <2>1, <2>2, <2>3
      <4>2. CASE k = avail \/ j = avail
        BY <2>1, <2>4, <3>2, <4>1, <4>2
      <4>3. CASE k # avail /\ j # avail
        <5>1. k \in 0 .. avail - 1 /\ j \in 0 .. avail - 1
          BY <2>1, <4>3
        <5> QED
          BY <3>2, <4>1, <5>1 DEF Inv, NoDoubleHandout
      <4> QED
        BY <4>2, <4>3
    <3> QED
      BY <2>1, <2>2, <3>1, <3>2 DEF Inv, NoDoubleHandout
  <2>10. LoopState'
    BY <1>4, <2>1, <2>2 DEF Inv, LoopState, TakeObject, TakesMore
  <2> QED
    BY <2>5, <2>6, <2>7, <2>8, <2>9, <2>10 DEF Inv
<1>5. CASE Relist
  <2> DEFINE to == IF free[slabp] = BUFCTL_END THEN "full" ELSE "partial"
  <2>1. /\ slabp \in grown /\ lists[from] # << >> /\ from \in {"partial", "free"}
        /\ lists \in [partial : Seq(grown), full : Seq(grown), free : Seq(grown)]
    BY <1>5 DEF Inv, TypeOK, LoopState, Relist
  <2>2. Tail(lists[from]) \in Seq(grown)
    BY <2>1
  <2>3. lists' \in [partial : Seq(grown), full : Seq(grown), free : Seq(grown)]
    <3> DEFINE rest == [lists EXCEPT ![from] = Tail(lists[from])]
    <3>1. rest \in [partial : Seq(grown), full : Seq(grown), free : Seq(grown)]
      BY <2>1, <2>2
    <3>2. ASSUME NEW q \in Seq(grown) PROVE <<slabp>> \o q \in Seq(grown)
      BY <2>1
    <3>3. lists' = [rest EXCEPT ![to] = <<slabp>> \o rest[to]]
      BY <1>5, <2>1 DEF Relist, ListFor
    <3> QED
      BY <3>1, <3>2, <3>3
  <2>4. TypeOK'
    <3>1. batchcount' \in -1 .. Limit
      BY <1>5 DEF Inv, TypeOK, Relist, TakesMore, LoopState
    <3> QED
      BY <1>5, <2>3, <3>1 DEF Inv, TypeOK, Relist, slabs
  <2>5. LoopState'
    BY <1>5 DEF Inv, TypeOK, Relist, TakesMore, LoopState
  <2> QED
    BY <1>5, <2>4, <2>5 DEF Inv, Relist, slabs, FreeListIsTail,
       HandedBelowInuse, CachedBelowInuse, NoDoubleHandout
<1>6. CASE CacheGrow
  <2>1. PICK s \in Pages \ grown :
          /\ grown' = grown \union {s}
          /\ inuse' = [inuse EXCEPT ![s] = 0]
          /\ free' = [free EXCEPT ![s] = 0]
          /\ bufctl' = [bufctl EXCEPT ![s] =
                           [i \in Index |-> IF i = Num - 1 THEN BUFCTL_END ELSE i + 1]]
          /\ lists' = [lists EXCEPT !.free = Append(@, s)]
    BY <1>6 DEF CacheGrow, GrowWith, cache_init_objs
  <2>2. /\ pc' = "find" /\ avail = 0 /\ batchcount' \in 1 .. Limit
        /\ UNCHANGED <<avail, entry, touched, slabp, from, handed>>
    BY <1>6 DEF CacheGrow, GrowWith, Retry
  <2>3. lists' \in [partial : Seq(grown'), full : Seq(grown'), free : Seq(grown')]
    <3>1. ASSUME NEW q \in Seq(grown) PROVE q \in Seq(grown') /\ Append(q, s) \in Seq(grown')
      BY <2>1, <3>1
    <3> QED
      BY <2>1, <3>1 DEF Inv, TypeOK
  <2>4. TypeOK'
    <3>1. 0 \in Index /\ Num \in Nat \ {0}
      BY DEF Index
    <3>2. /\ inuse' \in [Pages -> 0 .. Num]
          /\ free' \in [Pages -> Index \union {BUFCTL_END}]
      BY SMTT(30), <2>1, <3>1 DEF Inv, TypeOK
    <3>3. [i \in Index |-> IF i = Num - 1 THEN BUFCTL_END ELSE i + 1]
             \in [Index -> Index \union {BUFCTL_END}]
      BY <3>1 DEF Index
    <3>4. bufctl' \in [Pages -> [Index -> Index \union {BUFCTL_END}]]
      BY <2>1, <3>3 DEF Inv, TypeOK
    <3>5. grown' \subseteq Pages /\ slabp' \in grown' \union {NULL}
      BY <2>1, <2>2 DEF Inv, TypeOK
    <3>6. batchcount' \in -1 .. Limit
      BY <2>2
    <3> QED
      BY <2>2, <2>3, <3>2, <3>4, <3>5, <3>6 DEF Inv, TypeOK
  <2>5. FreeListIsTail'
    BY SMTT(30), <2>1 DEF Inv, TypeOK, FreeListIsTail, Index, BUFCTL_END
  <2>6. HandedBelowInuse'
    BY <2>1, <2>2 DEF Inv, TypeOK, HandedBelowInuse
  <2>7. CachedBelowInuse' /\ NoDoubleHandout'
    BY <2>2 DEF Inv, CachedBelowInuse, NoDoubleHandout
  <2>8. LoopState'
    BY <2>2 DEF LoopState
  <2> QED
    BY <2>4, <2>5, <2>6, <2>7, <2>8 DEF Inv
<1>7. CASE GrowFails
  BY <1>7 DEF Inv, TypeOK, GrowFails, slabs, FreeListIsTail,
     HandedBelowInuse, CachedBelowInuse, LoopState, NoDoubleHandout
<1>8. CASE Refilled
  <2>1. avail > 0 /\ PopEntry /\ UNCHANGED <<slabs, entry>>
    BY <1>8 DEF Refilled
  <2>2. HandedBelowInuse' /\ CachedBelowInuse' /\ NoDoubleHandout'
        /\ avail' \in 0 .. Limit /\ handed' \in [Obj -> Nat]
    BY <2>1, PopKeepsOwners
  <2>3. TypeOK'
    BY <1>8, <2>1, <2>2 DEF Inv, TypeOK, Refilled, PopEntry, slabs
  <2> QED
    BY <1>8, <2>1, <2>2, <2>3 DEF Inv, Refilled, PopEntry, slabs, FreeListIsTail, LoopState
<1>9. CASE UNCHANGED vars
  BY SMTT(30), <1>9 DEF Inv, TypeOK, vars, FreeListIsTail,
     HandedBelowInuse, CachedBelowInuse, LoopState, NoDoubleHandout
<1> QED
  BY <1>1, <1>2, <1>3, <1>4, <1>5, <1>6, <1>7, <1>8, <1>9 DEF Next, Refill, Halted

(* The invariant holds in every behaviour. *)
THEOREM InvHolds == Spec => []Inv
  BY InitInv, StepInv, PTL DEF Spec

(* Slab's variables keep their types: above all, avail never passes the    *)
(* limit of the array cache, although the code never looks at it.          *)
THEOREM TypeCorrect == Spec => []TypeOK
<1>1. Inv => TypeOK
  BY DEF Inv
<1> QED
  BY <1>1, InvHolds, PTL

(* No object is ever given to two callers. *)
THEOREM HandsOutOnce == Spec => []NoDoubleHandout
<1>1. Inv => NoDoubleHandout
  BY DEF Inv
<1> QED
  BY <1>1, InvHolds, PTL
-----------------------------------------------------------------------------
(***************************************************************************)
(* Where every slab and every object is.  Inv says who has an object that  *)
(* was given out; what follows says the converse, that an object given out *)
(* is still with somebody, and that a slab is on the list that fits it     *)
(* unless it is the one a refill is taking objects from.                   *)
(***************************************************************************)
ListNames == {"partial", "full", "free"}

Members(q) == {q[i] : i \in DOMAIN q}

Distinct(q) == \A i, j \in DOMAIN q : q[i] = q[j] => i = j

ByUse(n) == IF n = Num THEN "full" ELSE IF n = 0 THEN "free" ELSE "partial"

Where(s) == IF pc = "take" /\ s = slabp THEN from ELSE ByUse(inuse[s])

Placed ==
    /\ \A l \in ListNames : Distinct(lists[l])
    /\ \A s \in grown, l \in ListNames : s \in Members(lists[l]) <=> l = Where(s)
    /\ pc = "take" => slabp = Head(lists[from])

Accounted ==
    \A s \in grown, i \in Index :
        i < inuse[s] =>
            handed[<<s, i>>] = 1 \/ \E k \in 0 .. avail - 1 : entry[k] = <<s, i>>

\* A refill takes an object before it stops looking at slabs.
Progress ==
    /\ pc = "take" /\ batchcount = 0 => inuse[slabp] > 0
    /\ avail = 0 =>
          /\ pc \in {"find", "take"} => batchcount > 0
          /\ pc = "take" => inuse[slabp] < Num
          /\ pc = "must_grow" => lists.partial = << >> /\ lists.free = << >>

(* The head of a list of distinct members is not on its tail. *)
LEMMA TailMembers ==
    ASSUME NEW S, NEW q \in Seq(S), q # << >>, Distinct(q)
    PROVE  /\ Tail(q) \in Seq(S) /\ Distinct(Tail(q))
           /\ Members(Tail(q)) = Members(q) \ {Head(q)}
           /\ Head(q) \in Members(q)
<1>1. /\ Len(q) \in Nat \ {0} /\ DOMAIN q = 1 .. Len(q) /\ Head(q) = q[1]
      /\ Tail(q) \in Seq(S) /\ Len(Tail(q)) = Len(q) - 1
      /\ DOMAIN Tail(q) = 1 .. Len(q) - 1
  OBVIOUS
<1>2. \A i \in 1 .. Len(q) - 1 : Tail(q)[i] = q[i + 1]
  OBVIOUS
<1>3. Distinct(Tail(q))
  <2> SUFFICES ASSUME NEW i \in 1 .. Len(q) - 1, NEW j \in 1 .. Len(q) - 1,
                      Tail(q)[i] = Tail(q)[j]
               PROVE  i = j
    BY <1>1 DEF Distinct
  <2>1. i + 1 \in DOMAIN q /\ j + 1 \in DOMAIN q /\ q[i + 1] = q[j + 1]
    BY <1>1, <1>2
  <2>2. i + 1 = j + 1
    BY <2>1 DEF Distinct
  <2> QED
    BY <1>1, <2>2
<1>4. ASSUME NEW x \in Members(Tail(q)) PROVE x \in Members(q) \ {Head(q)}
  <2>1. PICK i \in 1 .. Len(q) - 1 : x = q[i + 1]
    BY <1>1, <1>2, <1>4 DEF Members
  <2>2. i + 1 \in DOMAIN q /\ 1 \in DOMAIN q /\ i + 1 # 1
    BY <1>1
  <2>3. x # q[1]
    BY <2>1, <2>2 DEF Distinct
  <2> QED
    BY <1>1, <2>1, <2>2, <2>3 DEF Members
<1>5. ASSUME NEW x \in Members(q) \ {Head(q)} PROVE x \in Members(Tail(q))
  <2>1. PICK i \in DOMAIN q : x = q[i]
    BY <1>5 DEF Members
  <2>2. i - 1 \in 1 .. Len(q) - 1 /\ (i - 1) + 1 = i
    BY <1>1, <1>5, <2>1
  <2>3. Tail(q)[i - 1] = x
    BY <1>2, <2>1, <2>2
  <2> QED
    BY <1>1, <2>2, <2>3 DEF Members
<1> QED
  BY <1>1, <1>3, <1>4, <1>5 DEF Members

(* Putting a new member in front of a list. *)
LEMMA FrontMembers ==
    ASSUME NEW S, NEW q \in Seq(S), NEW x \in S, Distinct(q), x \notin Members(q)
    PROVE  /\ <<x>> \o q \in Seq(S) /\ Distinct(<<x>> \o q)
           /\ Members(<<x>> \o q) = Members(q) \union {x}
<1> DEFINE p == <<x>> \o q
<1>1. /\ p \in Seq(S) /\ Len(q) \in Nat /\ DOMAIN q = 1 .. Len(q)
      /\ Len(p) = Len(q) + 1 /\ DOMAIN p = 1 .. Len(q) + 1 /\ p[1] = x
  OBVIOUS
<1>2. \A i \in 2 .. Len(q) + 1 : i - 1 \in DOMAIN q /\ p[i] = q[i - 1]
  OBVIOUS
<1>3. \A i \in DOMAIN q : i + 1 \in 2 .. Len(q) + 1 /\ p[i + 1] = q[i]
  OBVIOUS
<1> HIDE DEF p
<1>4. ASSUME NEW i \in DOMAIN p, NEW j \in DOMAIN p, p[i] = p[j] PROVE i = j
  <2>1. \A k \in DOMAIN p : k = 1 \/ (k \in 2 .. Len(q) + 1 /\ p[k] = q[k - 1] /\ k - 1 \in DOMAIN q)
    BY <1>1, <1>2
  <2>2. \A k \in DOMAIN p : k # 1 => p[k] # x
    BY <2>1 DEF Members
  <2>3. CASE i = 1 \/ j = 1
    BY <1>1, <1>4, <2>2, <2>3
  <2>4. CASE i # 1 /\ j # 1
    <3>1. i - 1 = j - 1
      BY <1>4, <2>1, <2>4 DEF Distinct
    <3> QED
      BY <1>1, <3>1
  <2> QED
    BY <2>3, <2>4
<1>5. ASSUME NEW y \in Members(p) PROVE y \in Members(q) \union {x}
  <2>1. PICK k \in DOMAIN p : y = p[k]
    BY <1>5 DEF Members
  <2> QED
    BY SMTT(30), <1>1, <1>2, <2>1 DEF Members
<1>6. ASSUME NEW y \in Members(q) \union {x} PROVE y \in Members(p)
  <2>1. CASE y = x
    BY <1>1, <2>1 DEF Members
  <2>2. CASE y \in Members(q)
    <3>1. PICK k \in DOMAIN q : y = q[k]
      BY <2>2 DEF Members
    <3> QED
      BY <1>1, <1>3, <3>1 DEF Members
  <2> QED
    BY <2>1, <2>2
<1> QED
  BY <1>1, <1>4, <1>5, <1>6 DEF Distinct, p

(* Putting a new member at the end of a list. *)
LEMMA EndMembers ==
    ASSUME NEW S, NEW q \in Seq(S), NEW x \in S, Distinct(q), x \notin Members(q)
    PROVE  /\ Append(q, x) \in Seq(S) /\ Distinct(Append(q, x))
           /\ Members(Append(q, x)) = Members(q) \union {x}
<1> DEFINE p == Append(q, x)
<1>1. /\ p \in Seq(S) /\ Len(q) \in Nat /\ DOMAIN q = 1 .. Len(q)
      /\ DOMAIN p = 1 .. Len(q) + 1 /\ p[Len(q) + 1] = x
      /\ \A i \in 1 .. Len(q) : p[i] = q[i]
  OBVIOUS
<1> HIDE DEF p
<1>2. \A k \in DOMAIN p : k # Len(q) + 1 => k \in DOMAIN q /\ p[k] = q[k]
  BY <1>1
<1>3. \A k \in DOMAIN p : k # Len(q) + 1 => p[k] # x
  BY <1>2 DEF Members
<1>4. Distinct(p)
  BY <1>1, <1>2, <1>3 DEF Distinct
<1>5. Members(p) = Members(q) \union {x}
  <2>1. \A y \in Members(p) : y \in Members(q) \union {x}
    BY <1>1, <1>2 DEF Members
  <2>2. DOMAIN q \subseteq DOMAIN p
    BY <1>1
  <2>3. \A y \in Members(q) : y \in Members(p)
    BY <1>1, <2>2 DEF Members
  <2>4. x \in Members(p)
    <3>1. Len(q) + 1 \in DOMAIN p
      BY <1>1
    <3> QED
      BY <1>1, <3>1 DEF Members
  <2> QED
    BY <2>1, <2>3, <2>4
<1> QED
  BY <1>1, <1>4, <1>5 DEF p

LEMMA StepPlaced ==
    ASSUME Inv, Inv', Placed, Accounted, Progress, [Next]_vars
    PROVE  Placed'
<1>0. /\ Num \in Nat \ {0} /\ grown \subseteq Pages
      /\ lists \in [partial : Seq(grown), full : Seq(grown), free : Seq(grown)]
      /\ \A s \in grown : inuse[s] \in 0 .. Num
      /\ from \in {"partial", "free"}
  BY SlabAssumption DEF Inv, TypeOK
<1>1. ASSUME UNCHANGED <<grown, lists, inuse>>, pc # "take", pc' # "take" PROVE Placed'
  BY <1>1 DEF Placed, Where
<1>2. CASE KmemCacheAlloc
  BY <1>1, <1>2 DEF KmemCacheAlloc, PopEntry, Retry, slabs
<1>3. CASE FindSlab
  <2>1. PICK l \in {"partial", "free"} :
           lists[l] # << >> /\ slabp' = Head(lists[l]) /\ from' = l
    BY <1>3 DEF FindSlab, Source
  <2>2. Head(lists[l]) \in Members(lists[l]) /\ Head(lists[l]) \in grown
    <3>1. lists[l] \in Seq(grown)
      BY <1>0
    <3>2. Distinct(lists[l])
      BY DEF Placed, ListNames
    <3> QED
      BY <2>1, <3>1, <3>2, TailMembers
  <2>3. \A s \in grown : Where(s)' = Where(s)
    BY <1>3, <2>1, <2>2 DEF FindSlab, slabs, Placed, Where, ListNames
  <2> QED
    BY <1>3, <2>1, <2>3 DEF FindSlab, slabs, Placed
<1>4. CASE NoSlabToTake
  BY <1>1, <1>4 DEF NoSlabToTake, slabs
<1>5. CASE TakeObject
  <2>1. \A s \in grown : Where(s)' = Where(s)
    BY <1>5 DEF TakeObject, Where, Inv, TypeOK
  <2> QED
    BY <1>5, <2>1 DEF TakeObject, Placed
<1>6. CASE Relist
  <2> DEFINE to == ByUse(inuse[slabp])
             rest == [lists EXCEPT ![from] = Tail(lists[from])]
  <2>1. /\ pc = "take" /\ pc' = "find" /\ slabp \in grown /\ lists[from] # << >>
        /\ slabp = Head(lists[from]) /\ inuse[slabp] \in 1 .. Num
        /\ UNCHANGED <<grown, inuse>>
    BY <1>0, <1>6 DEF Inv, LoopState, Relist, TakesMore, slabs, Placed, Progress
  <2>2. to \in {"full", "partial"} /\ ListFor = to
    BY <1>0, <2>1 DEF ListFor, ByUse, Inv, FreeListIsTail, BUFCTL_END
  <2>3. lists' = [rest EXCEPT ![to] = <<slabp>> \o rest[to]]
    BY <1>6, <2>2 DEF Relist
  <2>4. /\ \A l \in ListNames : lists[l] \in Seq(grown) /\ Distinct(lists[l])
        /\ \A s \in grown, l \in ListNames : s \in Members(lists[l]) <=> l = Where(s)
        /\ Where(slabp) = from /\ from \in ListNames /\ to \in ListNames
    BY <1>0, <2>1, <2>2 DEF Placed, ListNames, Where
  <2>5. /\ Tail(lists[from]) \in Seq(grown) /\ Distinct(Tail(lists[from]))
        /\ Members(Tail(lists[from])) = Members(lists[from]) \ {slabp}
    BY <2>1, <2>4, TailMembers
  <2>6. /\ \A l \in ListNames : rest[l] \in Seq(grown) /\ Distinct(rest[l])
        /\ \A s \in grown, l \in ListNames :
              s \in Members(rest[l]) <=> l = Where(s) /\ s # slabp
        /\ DOMAIN rest = ListNames
    BY <1>0, <2>4, <2>5 DEF ListNames
  <2> HIDE DEF rest, to
  <2>7. /\ Distinct(<<slabp>> \o rest[to])
        /\ Members(<<slabp>> \o rest[to]) = Members(rest[to]) \union {slabp}
    BY <2>1, <2>4, <2>6, FrontMembers
  <2>8. \A l \in ListNames : lists'[l] = IF l = to THEN <<slabp>> \o rest[to] ELSE rest[l]
    BY <2>3, <2>6
  <2>9. \A s \in grown : Where(s)' = IF s = slabp THEN to ELSE Where(s)
    BY <2>1 DEF Where, to
  <2>10. \A l \in ListNames : Distinct(lists'[l])
    BY <2>6, <2>7, <2>8
  <2>11. \A s \in grown, l \in ListNames : s \in Members(lists'[l]) <=> l = Where(s)'
    BY <2>6, <2>7, <2>8, <2>9
  <2> QED
    BY <2>1, <2>10, <2>11 DEF Placed
<1>7. CASE CacheGrow
  <2>1. PICK s \in Pages \ grown :
          /\ grown' = grown \union {s} /\ inuse' = [inuse EXCEPT ![s] = 0]
          /\ lists' = [lists EXCEPT !.free = Append(@, s)]
          /\ pc = "must_grow" /\ pc' = "find"
    BY <1>7 DEF CacheGrow, GrowWith, Retry
  <2>2. \A l \in ListNames : lists[l] \in Seq(grown) /\ Distinct(lists[l])
                             /\ s \notin Members(lists[l])
    <3>1. \A l \in ListNames : lists[l] \in Seq(grown)
      BY <1>0 DEF ListNames
    <3>2. \A l \in ListNames : Members(lists[l]) \subseteq grown
      BY <3>1 DEF Members
    <3> QED
      BY <2>1, <3>1, <3>2 DEF Placed
  <2>3. lists["free"] \in Seq(Pages)
    <3>1. lists["free"] \in Seq(grown)
      BY <2>2 DEF ListNames
    <3> QED
      BY <1>0, <3>1
  <2>4. /\ Distinct(Append(lists["free"], s))
        /\ Members(Append(lists["free"], s)) = Members(lists["free"]) \union {s}
    BY <2>1, <2>2, <2>3, EndMembers DEF ListNames
  <2>5. \A l \in ListNames :
           lists'[l] = IF l = "free" THEN Append(lists["free"], s) ELSE lists[l]
    BY <1>0, <2>1 DEF ListNames
  <2>6. \A t \in grown' : Where(t)' = IF t = s THEN "free" ELSE Where(t)
    BY <1>0, <2>1 DEF Where, ByUse, Inv, TypeOK
  <2>7. \A t \in grown, l \in ListNames : t \in Members(lists[l]) <=> l = Where(t)
    BY DEF Placed
  <2>8. \A l \in ListNames : Distinct(lists'[l])
    BY <2>2, <2>4, <2>5
  <2>9. \A t \in grown', l \in ListNames : t \in Members(lists'[l]) <=> l = Where(t)'
    <3> SUFFICES ASSUME NEW t \in grown', NEW l \in ListNames
                 PROVE  t \in Members(lists'[l]) <=> l = Where(t)'
      OBVIOUS
    <3>1. CASE t = s
      BY <2>2, <2>4, <2>5, <2>6, <3>1
    <3>2. CASE t # s
      <4>1. t \in grown /\ Where(t)' = Where(t)
        BY <2>1, <2>6, <3>2
      <4>2. t \in Members(lists'[l]) <=> t \in Members(lists[l])
        BY <2>4, <2>5, <3>2
      <4> QED
        BY <2>7, <4>1, <4>2
    <3> QED
      BY <3>1, <3>2
  <2> QED
    BY <2>1, <2>8, <2>9 DEF Placed
<1>8. CASE GrowFails
  BY <1>1, <1>8 DEF GrowFails, slabs
<1>9. CASE Refilled
  BY <1>1, <1>9 DEF Refilled, PopEntry, slabs
<1>10. CASE UNCHANGED vars
  BY <1>10 DEF vars, Placed, Where
<1> QED
  BY <1>2, <1>3, <1>4, <1>5, <1>6, <1>7, <1>8, <1>9, <1>10 DEF Next, Refill, Halted

(* An object leaves the array cache only for a caller. *)
LEMMA PopAccounts ==
    ASSUME Inv, Accounted, avail > 0, PopEntry, UNCHANGED <<grown, inuse, entry>>
    PROVE  Accounted'
<1> SUFFICES ASSUME NEW s \in grown, NEW i \in Index, i < inuse[s]
             PROVE  \/ handed'[<<s, i>>] = 1
                    \/ \E k \in 0 .. avail' - 1 : entry[k] = <<s, i>>
  BY DEF Accounted
<1> DEFINE o == entry[avail - 1]
<1>1. /\ avail \in Nat /\ avail' = avail - 1 /\ handed \in [Obj -> Nat] /\ <<s, i>> \in Obj
      /\ o \in Obj /\ handed[o] = 0 /\ handed' = [handed EXCEPT ![o] = handed[o] + 1]
  BY SMTT(30), SlabAssumption DEF Inv, TypeOK, NoDoubleHandout, PopEntry, Obj
<1>2. CASE handed[<<s, i>>] = 1
  BY <1>1, <1>2
<1>3. CASE \E k \in 0 .. avail - 1 : entry[k] = <<s, i>>
  <2>1. PICK k \in 0 .. avail - 1 : entry[k] = <<s, i>>
    BY <1>3
  <2>2. CASE k = avail - 1
    BY <1>1, <2>1, <2>2
  <2>3. CASE k # avail - 1
    BY <1>1, <2>1, <2>3
  <2> QED
    BY <2>2, <2>3
<1> QED
  BY <1>2, <1>3 DEF Accounted

LEMMA StepAccounted ==
    ASSUME Inv, Inv', Placed, Accounted, Progress, [Next]_vars
    PROVE  Accounted'
<1>1. ASSUME UNCHANGED <<grown, inuse, handed, avail, entry>> PROVE Accounted'
  BY <1>1 DEF Accounted
<1>2. CASE KmemCacheAlloc
  BY <1>1, <1>2, PopAccounts DEF KmemCacheAlloc, Retry, slabs
<1>3. CASE FindSlab \/ NoSlabToTake \/ Relist \/ GrowFails
  BY <1>1, <1>3 DEF FindSlab, NoSlabToTake, Relist, GrowFails, slabs
<1>4. CASE TakeObject
  <2> SUFFICES ASSUME NEW s \in grown, NEW i \in Index, i < inuse'[s]
               PROVE  \/ handed[<<s, i>>] = 1
                      \/ \E k \in 0 .. avail' - 1 : entry'[k] = <<s, i>>
    BY <1>4 DEF TakeObject, Accounted
  <2>1. /\ avail \in 0 .. Limit - 1 /\ avail' = avail + 1 /\ Limit \in Nat
        /\ slabp \in grown /\ slabp \in Pages /\ Num \in Nat
        /\ inuse[slabp] \in 0 .. Num - 1 /\ inuse[s] \in 0 .. Num
        /\ free[slabp] = inuse[slabp]
        /\ inuse' = [inuse EXCEPT ![slabp] = inuse[slabp] + 1]
        /\ entry' = [entry EXCEPT ![avail] = <<slabp, inuse[slabp]>>]
    <3>1. /\ avail' \in 0 .. Limit /\ avail \in 0 .. Limit /\ Limit \in Nat /\ Num \in Nat
          /\ inuse \in [Pages -> 0 .. Num] /\ grown \subseteq Pages
      BY SlabAssumption DEF Inv, TypeOK
    <3>2. slabp \in grown /\ inuse[slabp] < Num /\ avail' = avail + 1
      BY <1>4 DEF Inv, LoopState, TakeObject, TakesMore
    <3>3. inuse[slabp] \in 0 .. Num - 1 /\ inuse[s] \in 0 .. Num
      BY <3>1, <3>2
    <3>4. free[slabp] = inuse[slabp]
      BY <3>1, <3>2, <3>3 DEF Inv, FreeListIsTail
    <3> QED
      BY <1>4, <3>1, <3>2, <3>3, <3>4 DEF TakeObject
  <2>2. /\ entry'[avail] = <<slabp, inuse[slabp]>>
        /\ \A k \in 0 .. avail - 1 : entry'[k] = entry[k]
    BY <2>1 DEF Inv, TypeOK
  <2>3. CASE s = slabp /\ i = inuse[slabp]
    BY <2>1, <2>2, <2>3
  <2>4. CASE ~ (s = slabp /\ i = inuse[slabp])
    <3>1. i < inuse[s]
      <4>1. inuse'[s] = IF s = slabp THEN inuse[slabp] + 1 ELSE inuse[s]
        BY <2>1 DEF Inv, TypeOK
      <4>2. i \in Nat
        BY <2>1 DEF Index
      <4> QED
        BY <2>1, <2>4, <4>1, <4>2
    <3> QED
      BY <2>1, <2>2, <3>1 DEF Accounted
  <2> QED
    BY <2>3, <2>4
<1>5. CASE CacheGrow
  <2>1. PICK s \in Pages \ grown :
          grown' = grown \union {s} /\ inuse' = [inuse EXCEPT ![s] = 0]
    BY <1>5 DEF CacheGrow, GrowWith
  <2>2. UNCHANGED <<avail, entry, handed>>
    BY <1>5 DEF CacheGrow, GrowWith
  <2>3. \A t \in grown' : IF t = s THEN inuse'[t] = 0 ELSE t \in grown /\ inuse'[t] = inuse[t]
    BY <2>1 DEF Inv, TypeOK
  <2> QED
    BY <2>2, <2>3 DEF Accounted, Index
<1>6. CASE Refilled
  BY <1>6, PopAccounts DEF Refilled, slabs
<1>7. CASE UNCHANGED vars
  BY <1>1, <1>7 DEF vars
<1> QED
  BY <1>2, <1>3, <1>4, <1>5, <1>6, <1>7 DEF Next, Refill, Halted

LEMMA StepProgress ==
    ASSUME Inv, Inv', Placed, Accounted, Progress, [Next]_vars
    PROVE  Progress'
<1>0. /\ Num \in Nat \ {0} /\ avail \in Nat /\ batchcount \in Int
      /\ BatchCount \in Nat \ {0} /\ BATCHREFILL_LIMIT \in Nat \ {0} /\ Limit \in Nat
      /\ \A s \in grown : inuse[s] \in 0 .. Num
  BY SMTT(30), SlabAssumption DEF Inv, TypeOK
<1>1. CASE KmemCacheAlloc
  BY <1>0, <1>1 DEF KmemCacheAlloc, PopEntry, Retry, Progress
<1>2. CASE FindSlab
  <2>1. PICK l \in {"partial", "free"} :
           lists[l] # << >> /\ slabp' = Head(lists[l]) /\ from' = l
    BY <1>2 DEF FindSlab, Source
  <2>2. Head(lists[l]) \in Members(lists[l]) /\ Head(lists[l]) \in grown
    <3>1. lists[l] \in Seq(grown)
      BY DEF Inv, TypeOK
    <3>2. Distinct(lists[l])
      BY DEF Placed, ListNames
    <3> QED
      BY <2>1, <3>1, <3>2, TailMembers
  <2>3. inuse[slabp'] < Num
    BY <1>0, <1>2, <2>1, <2>2 DEF FindSlab, Placed, ListNames, Where, ByUse
  <2> QED
    BY <1>0, <1>2, <2>3 DEF FindSlab, slabs, Progress
<1>3. CASE NoSlabToTake
  <2>1. Source = {} => lists.partial = << >> /\ lists.free = << >>
    BY DEF Source
  <2> QED
    BY <1>0, <1>3, <2>1 DEF NoSlabToTake, slabs, Progress
<1>4. CASE TakeObject
  <2>1. slabp \in grown /\ slabp \in Pages
    BY <1>4 DEF Inv, TypeOK, LoopState, TakeObject
  <2>2. inuse'[slabp] = inuse[slabp] + 1
    BY <1>4, <2>1 DEF TakeObject, Inv, TypeOK
  <2> QED
    BY <1>0, <1>4, <2>1, <2>2 DEF TakeObject, Progress
<1>5. CASE Relist
  BY <1>0, <1>5 DEF Relist, TakesMore, Progress, Inv, LoopState
<1>6. CASE CacheGrow
  BY <1>0, <1>6 DEF CacheGrow, GrowWith, Retry, Progress
<1>7. CASE GrowFails
  BY <1>7 DEF GrowFails, Progress
<1>8. CASE Refilled
  BY <1>8 DEF Refilled, PopEntry, Progress
<1>9. CASE UNCHANGED vars
  BY <1>9 DEF vars, Progress
<1> QED
  BY <1>1, <1>2, <1>3, <1>4, <1>5, <1>6, <1>7, <1>8, <1>9 DEF Next, Refill, Halted

Inv2 == Inv /\ Placed /\ Accounted /\ Progress

LEMMA Inv2Holds == Spec => []Inv2
<1>1. Init => Placed /\ Accounted /\ Progress
  BY DEF Init, Placed, Accounted, Progress, ListNames, Distinct
<1>2. Inv /\ Inv' /\ Placed /\ Accounted /\ Progress /\ [Next]_vars
         => (Placed /\ Accounted /\ Progress)'
  BY StepPlaced, StepAccounted, StepProgress
<1> QED
  BY <1>1, <1>2, InvHolds, PTL DEF Spec, Inv2

(* Between calls every slab is on exactly one list, the one for its use.   *)
THEOREM ListsFitUse == Spec => []ListsMatchUse
<1>1. ASSUME Inv2 PROVE ListsMatchUse
  <2> SUFFICES ASSUME pc \in {"idle", "must_grow"}, NEW s \in grown
               PROVE  /\ Times(s, "full") = IF inuse[s] = Num THEN 1 ELSE 0
                      /\ Times(s, "partial") = IF inuse[s] \in 1 .. Num - 1 THEN 1 ELSE 0
                      /\ Times(s, "free") = IF inuse[s] = 0 THEN 1 ELSE 0
    BY DEF ListsMatchUse
  <2>1. Num \in Nat \ {0} /\ inuse[s] \in 0 .. Num
    BY <1>1, SlabAssumption DEF Inv2, Inv, TypeOK
  <2>2. ASSUME NEW l \in ListNames PROVE Times(s, l) = IF l = ByUse(inuse[s]) THEN 1 ELSE 0
    <3> DEFINE at == {i \in DOMAIN lists[l] : lists[l][i] = s}
    <3>1. Distinct(lists[l]) /\ (s \in Members(lists[l]) <=> l = ByUse(inuse[s]))
      BY <1>1 DEF Inv2, Placed, Where
    <3>2. CASE l = ByUse(inuse[s])
      <4>1. PICK i \in DOMAIN lists[l] : lists[l][i] = s
        BY <3>1, <3>2 DEF Members
      <4>2. at = {i}
        BY <3>1, <4>1 DEF Distinct
      <4> QED
        BY <3>2, <4>2, FS_Singleton DEF Times
    <3>3. CASE l # ByUse(inuse[s])
      <4>1. at = {}
        BY <3>1, <3>3 DEF Members
      <4> QED
        BY <3>3, <4>1, FS_EmptySet DEF Times
    <3> QED
      BY <3>2, <3>3
  <2> QED
    BY <2>1, <2>2 DEF ListNames, ByUse
<1> QED
  BY <1>1, Inv2Holds, PTL

(* A cache grows only when each of its objects is with a caller.           *)
THEOREM GrowsOnlyWhenExhausted == Spec => GrowsWhenExhausted
<1>1. ASSUME Inv2, [Next]_vars, grown' # grown, NEW s \in grown, NEW i \in Index
      PROVE  handed[<<s, i>>] = 1
  <2>1. pc = "must_grow" /\ avail = 0
    BY <1>1 DEF Next, KmemCacheAlloc, Refill, FindSlab, NoSlabToTake, TakeObject, Relist,
       CacheGrow, Refilled, GrowFails, Halted, slabs, vars
  <2>2. lists.partial = << >> /\ lists.free = << >>
    BY <1>1, <2>1 DEF Inv2, Progress
  <2>3. s \notin Members(lists["partial"]) /\ s \notin Members(lists["free"])
    BY <2>2 DEF Members
  <2>4. inuse[s] = Num
    BY <1>1, <2>1, <2>3 DEF Inv2, Placed, Where, ByUse, ListNames
  <2>5. i < inuse[s] /\ ~ \E k \in 0 .. avail - 1 : TRUE
    BY <2>1, <2>4, SlabAssumption DEF Index
  <2> QED
    BY <1>1, <2>5 DEF Inv2, Accounted
<1>2. Inv2 /\ [Next]_vars =>
         [grown' # grown => \A s \in grown, i \in Index : handed[<<s, i>>] = 1]_vars
  BY <1>1
<1> QED
  BY <1>2, Inv2Holds, PTL DEF Spec, GrowsWhenExhausted

(* What the recursive function of FreeChain computes on a free list that   *)
(* is the run of indices from first upwards.                               *)
LEMMA ChainOfTail ==
    ASSUME NEW s \in grown, Inv
    PROVE  FreeChain(s) = inuse[s] .. Num - 1
<1> DEFINE step(at) == [n \in 0 .. Num |->
                           IF n = 0 THEN free[s]
                           ELSE LET i == at[n - 1]
                                IN  IF i = BUFCTL_END THEN BUFCTL_END ELSE bufctl[s][i]]
           chain == [n \in 0 .. Num |-> IF inuse[s] + n < Num THEN inuse[s] + n ELSE BUFCTL_END]
           at == CHOOSE f : f = step(f)
<1>1. /\ Num \in Nat \ {0} /\ inuse[s] \in 0 .. Num
      /\ free[s] = IF inuse[s] = Num THEN BUFCTL_END ELSE inuse[s]
      /\ \A i \in 0 .. Num - 1 : bufctl[s][i] = IF i = Num - 1 THEN BUFCTL_END ELSE i + 1
  BY SlabAssumption DEF Inv, TypeOK, FreeListIsTail, Index
<1>2. FreeChain(s) = {at[n] : n \in 0 .. Num} \ {BUFCTL_END}
  BY DEF FreeChain
<1>3. \A n \in 0 .. Num : step(chain)[n] = chain[n]
  <2> SUFFICES ASSUME NEW n \in 0 .. Num PROVE step(chain)[n] = chain[n]
    OBVIOUS
  <2>1. CASE n = 0
    BY <1>1, <2>1
  <2>2. CASE n # 0
    <3>1. n - 1 \in 0 .. Num
      BY <1>1, <2>2
    <3> QED
      BY <1>1, <2>2, <3>1 DEF BUFCTL_END
  <2> QED
    BY <2>1, <2>2
<1>4. chain = step(chain)
  BY <1>3
<1>5. at = step(at)
  <2> HIDE DEF step, chain
  <2> QED
    BY <1>4
<1> HIDE DEF at
<1>6. /\ at[0] = chain[0]
      /\ \A n \in 1 .. Num : at[n - 1] = chain[n - 1] => at[n] = chain[n]
  <2>1. at[0] = chain[0]
    BY <1>1, <1>5
  <2>2. ASSUME NEW n \in 1 .. Num, at[n - 1] = chain[n - 1] PROVE at[n] = chain[n]
    <3>1. n \in 0 .. Num /\ n # 0
      BY <1>1
    <3>2. at[n] = step(at)[n]
      BY <1>5
    <3>3. chain[n] = step(chain)[n]
      BY <1>3, <3>1
    <3> QED
      BY <2>2, <3>1, <3>2, <3>3
  <2> QED
    BY <2>1, <2>2
<1> HIDE DEF step, chain
<1>7. \A n \in 0 .. Num : at[n] = chain[n]
  <2> DEFINE wrong == {n \in 0 .. Num : at[n] # chain[n]}
  <2> SUFFICES ASSUME wrong # {} PROVE FALSE
    OBVIOUS
  <2>1. PICK n \in wrong : \A m \in wrong : n <= m
    <3>1. wrong \in SUBSET Nat
      BY <1>1
    <3> HIDE DEF wrong
    <3> QED
      BY <3>1, Least
  <2>2. n \in 1 .. Num /\ n - 1 \in 0 .. Num /\ ~ (n <= n - 1)
    BY <1>1, <1>6
  <2>3. n - 1 \notin wrong
    BY <2>1, <2>2
  <2> QED
    BY <1>6, <2>2, <2>3
<1>8. {chain[n] : n \in 0 .. Num} \ {BUFCTL_END} = inuse[s] .. Num - 1
  <2>1. ASSUME NEW n \in 0 .. Num, chain[n] # BUFCTL_END PROVE chain[n] \in inuse[s] .. Num - 1
    BY <1>1, <2>1 DEF chain, BUFCTL_END
  <2>2. ASSUME NEW i \in inuse[s] .. Num - 1
        PROVE  i - inuse[s] \in 0 .. Num /\ chain[i - inuse[s]] = i /\ i # BUFCTL_END
    BY <1>1, <2>2 DEF chain, BUFCTL_END
  <2> QED
    BY <2>1, <2>2
<1>9. {at[n] : n \in 0 .. Num} = {chain[n] : n \in 0 .. Num}
  BY <1>7
<1> QED
  BY <1>2, <1>8, <1>9

(* The free list of a slab is exact: no object is lost, and none is both   *)
(* free and in use.                                                        *)
THEOREM FreeListsExact == Spec => []FreeChainExact
<1>1. ASSUME Inv2 PROVE FreeChainExact
  <2> SUFFICES ASSUME NEW s \in grown
               PROVE  LET used == {i \in Index : \/ handed[<<s, i>>] > 0
                                       \/ \E k \in 0 .. avail - 1 : entry[k] = <<s, i>>}
                      IN  FreeChain(s) = Index \ used /\ inuse[s] = Cardinality(used)
    BY DEF FreeChainExact
  <2> DEFINE used == {i \in Index : \/ handed[<<s, i>>] > 0
                                    \/ \E k \in 0 .. avail - 1 : entry[k] = <<s, i>>}
  <2>1. Num \in Nat \ {0} /\ inuse[s] \in 0 .. Num /\ s \in Pages /\ handed \in [Obj -> Nat]
    BY <1>1, SlabAssumption DEF Inv2, Inv, TypeOK
  <2>2. ASSUME NEW i \in used PROVE i \in 0 .. inuse[s] - 1
    <3>1. CASE handed[<<s, i>>] > 0
      BY <1>1, <2>1, <3>1 DEF Inv2, Inv, HandedBelowInuse, Index
    <3>2. CASE \E k \in 0 .. avail - 1 : entry[k] = <<s, i>>
      BY <1>1, <2>1, <3>2 DEF Inv2, Inv, CachedBelowInuse, Index
    <3> QED
      BY <3>1, <3>2
  <2>3. ASSUME NEW i \in 0 .. inuse[s] - 1 PROVE i \in used
    <3>1. i \in Index /\ i < inuse[s]
      BY <2>1 DEF Index
    <3> QED
      BY <1>1, <3>1 DEF Inv2, Accounted
  <2>4. used = 0 .. inuse[s] - 1
    BY <2>2, <2>3
  <2>5. Cardinality(0 .. inuse[s] - 1) = inuse[s]
    <3> DEFINE b == inuse[s] - 1
    <3>1. b \in Int /\ 0 \in Int /\ b >= -1 /\ b + 1 = inuse[s]
      BY <2>1
    <3> HIDE DEF b
    <3>2. Cardinality(0 .. b) = IF 0 > b THEN 0 ELSE b - 0 + 1
      BY <3>1, FS_Interval
    <3>3. Cardinality(0 .. b) = b + 1
      BY <3>1, <3>2
    <3> QED
      BY <3>1, <3>3 DEF b
  <2>6. FreeChain(s) = inuse[s] .. Num - 1
    BY <1>1, ChainOfTail DEF Inv2
  <2>7. Index \ (0 .. inuse[s] - 1) = inuse[s] .. Num - 1
    BY <2>1 DEF Index
  <2> QED
    BY <2>4, <2>5, <2>6, <2>7
<1> QED
  BY <1>1, Inv2Holds, PTL
=============================================================================
