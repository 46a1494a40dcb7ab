-------------------------- MODULE SlabLayoutProofs --------------------------
(***************************************************************************)
(* cache_estimate never lays out more than its pages hold, for every slab  *)
(* size, object size and alignment with buffer_size >= align; and it never *)
(* lays out less than they hold, for every alignment.                      *)
(***************************************************************************)
EXTENDS SlabLayout, TLAPS

(* The quotient times the divisor falls short of the dividend by less than *)
(* the divisor.                                                            *)
LEMMA DivBounds ==
    ASSUME NEW x \in Nat, NEW b \in Nat \ {0}
    PROVE  /\ x \div b \in Nat
           /\ (x \div b) * b <= x
           /\ x < (x \div b) * b + b
  OBVIOUS

(* ALIGN rounds up by less than the alignment. *)
LEMMA AlignBounds ==
    ASSUME NEW a \in Nat, NEW b \in Nat \ {0}
    PROVE  ALIGN(a, b) \in Nat /\ a <= ALIGN(a, b) /\ ALIGN(a, b) <= a + b - 1
<1> DEFINE q == (a + b - 1) \div b
<1>1. a + b - 1 \in Nat
  OBVIOUS
<1>2. q \in Nat /\ q * b <= a + b - 1 /\ a + b - 1 < q * b + b
  BY <1>1, DivBounds
<1>3. q * b \in Nat
  BY <1>2
<1> HIDE DEF q
<1>4. a <= q * b
  BY <1>2, <1>3
<1> QED
  BY <1>2, <1>3, <1>4 DEF ALIGN, q

(* What a number of objects needs, up to the rounding. *)
LEMMA UsedBound ==
    ASSUME NEW n \in Nat, NEW b \in Nat, NEW a \in Nat \ {0}
    PROVE  /\ Used(n, b, a) \in Nat
           /\ Used(n, b, a) <= SlabStruct + n * (b + Bufctl) + a - 1
<1>1. SlabStruct \in Nat /\ Bufctl \in Nat
  BY LayoutAssumption
<1> DEFINE raw == SlabStruct + n * Bufctl
<1>2. n * Bufctl \in Nat /\ n * b \in Nat /\ n * (b + Bufctl) = n * b + n * Bufctl
  BY <1>1
<1>3. raw \in Nat
  BY <1>1, <1>2
<1>4. Used(n, b, a) = ALIGN(raw, a) + n * b
  BY DEF Used, slab_mgmt_size
<1> HIDE DEF raw
<1>5. ALIGN(raw, a) \in Nat /\ ALIGN(raw, a) <= raw + a - 1
  BY <1>3, AlignBounds
<1> QED
  BY <1>1, <1>2, <1>3, <1>4, <1>5 DEF raw

(* Any number below the first guess of cache_estimate fits. *)
LEMMA BelowGuessFits ==
    ASSUME NEW size \in Nat, size >= SlabStruct,
           NEW b \in Nat \ {0}, NEW a \in Nat \ {0}, b >= a,
           NEW j \in Nat, j < (size - SlabStruct) \div (b + Bufctl)
    PROVE  Used(j, b, a) <= size
<1> DEFINE most == (size - SlabStruct) \div (b + Bufctl)
           unit == b + Bufctl
<1>1. SlabStruct \in Nat /\ Bufctl \in Nat /\ size - SlabStruct \in Nat
      /\ unit \in Nat \ {0}
  BY LayoutAssumption
<1>2. most \in Nat /\ most * unit <= size - SlabStruct
  BY <1>1, DivBounds
<1>3. j + 1 <= most
  BY <1>2
<1> HIDE DEF most
<1>4. Used(j, b, a) \in Nat /\ Used(j, b, a) <= SlabStruct + j * unit + a - 1
  BY UsedBound
<1> HIDE DEF unit
<1>5. (j + 1) * unit <= most * unit
  BY <1>1, <1>2, <1>3
<1>6. (j + 1) * unit = j * unit + unit /\ j * unit \in Nat /\ most * unit \in Nat
  BY <1>1, <1>2
<1>7. a <= unit
  BY <1>1 DEF unit
<1> QED
  BY <1>1, <1>2, <1>4, <1>5, <1>6, <1>7

(* What cache_estimate settles for fits, whatever SLAB_LIMIT takes off. *)
LEMMA EstimateFits ==
    ASSUME NEW size \in Nat, size >= PAGE_SIZE,
           NEW b \in BufferSizes, NEW a \in Aligns, b >= a
    PROVE  /\ at_most(SLAB_LIMIT, estimate(size, b, a)) \in Nat
           /\ Used(at_most(SLAB_LIMIT, estimate(size, b, a)), b, a) <= size
<1> DEFINE most == (size - SlabStruct) \div (b + Bufctl)
           n    == estimate(size, b, a)
<1>1. /\ SlabStruct \in Nat /\ Bufctl \in Nat /\ PAGE_SIZE \in Nat /\ SLAB_LIMIT \in Nat
      /\ b \in Nat \ {0} /\ a \in Nat \ {0} /\ a <= PAGE_SIZE - SlabStruct
      /\ size >= SlabStruct
  BY LayoutAssumption
<1>2. most \in Nat
  <2>1. size - SlabStruct \in Nat /\ b + Bufctl \in Nat \ {0}
    BY <1>1
  <2> QED
    BY <2>1, DivBounds
<1>3. Used(0, b, a) <= size
  <2>1. Used(0, b, a) \in Nat /\ Used(0, b, a) <= SlabStruct + 0 * (b + Bufctl) + a - 1
    BY <1>1, UsedBound
  <2>2. 0 * (b + Bufctl) = 0
    BY <1>1
  <2> QED
    BY <1>1, <2>1, <2>2
<1>4. \A j \in Nat : j < most => Used(j, b, a) <= size
  BY <1>1, BelowGuessFits
<1>5. n = IF Used(most, b, a) > size THEN most - 1 ELSE most
  BY DEF estimate
<1> HIDE DEF most, n
<1>6. Used(most, b, a) \in Nat
  BY <1>1, <1>2, UsedBound
<1>7. CASE Used(most, b, a) > size
  <2>1. most # 0
    BY <1>3, <1>6, <1>7
  <2>2. n \in Nat /\ n < most
    BY <1>2, <1>5, <1>7, <2>1
  <2>3. at_most(SLAB_LIMIT, n) \in Nat /\ at_most(SLAB_LIMIT, n) < most
    BY <1>1, <1>2, <2>2 DEF at_most
  <2> QED
    BY <1>4, <2>3 DEF n
<1>8. CASE ~(Used(most, b, a) > size)
  <2>1. n = most /\ Used(most, b, a) <= size
    BY <1>1, <1>5, <1>6, <1>8
  <2>2. CASE n > SLAB_LIMIT
    <3>1. at_most(SLAB_LIMIT, n) = SLAB_LIMIT /\ SLAB_LIMIT < most
      BY <1>1, <1>2, <2>1, <2>2 DEF at_most
    <3> QED
      BY <1>1, <1>4, <3>1 DEF n
  <2>3. CASE ~(n > SLAB_LIMIT)
    <3>1. at_most(SLAB_LIMIT, n) = most
      BY <2>1, <2>3 DEF at_most
    <3> QED
      BY <1>2, <2>1, <3>1 DEF n
  <2> QED
    BY <2>2, <2>3
<1> QED
  BY <1>7, <1>8
-----------------------------------------------------------------------------
Inv ==
    /\ buffer_size \in BufferSizes /\ align \in Aligns
    /\ slab_size \in Nat /\ slab_size >= PAGE_SIZE
    /\ buffer_size >= align =>
          num \in Nat /\ Used(num, buffer_size, align) <= slab_size

LEMMA InitInv == Init => Inv
<1> SUFFICES ASSUME Init PROVE Inv
  OBVIOUS
<1>1. /\ buffer_size \in BufferSizes /\ align \in Aligns /\ num = 0
      /\ slab_size = PAGE_SIZE /\ PAGE_SIZE \in Nat
  BY LayoutAssumption DEF Init
<1>2. /\ SlabStruct \in Nat /\ Bufctl \in Nat
      /\ buffer_size \in Nat /\ align \in Nat \ {0} /\ align <= PAGE_SIZE - SlabStruct
  BY <1>1, LayoutAssumption
<1>3. /\ Used(0, buffer_size, align) \in Nat
      /\ Used(0, buffer_size, align) <= SlabStruct + 0 * (buffer_size + Bufctl) + align - 1
  BY <1>2, UsedBound
<1>4. 0 * (buffer_size + Bufctl) = 0
  BY <1>2
<1> QED
  BY <1>1, <1>2, <1>3, <1>4 DEF Inv

LEMMA StepInv == Inv /\ [Next]_vars => Inv'
<1> SUFFICES ASSUME Inv, [Next]_vars PROVE Inv'
  OBVIOUS
<1>1. CASE TryOrder
  <2>1. /\ num' = at_most(SLAB_LIMIT, estimate(slab_size, buffer_size, align))
        /\ slab_size' \in {slab_size, 2 * slab_size}
        /\ UNCHANGED <<buffer_size, align>>
    BY <1>1 DEF TryOrder
  <2>2. PAGE_SIZE \in Nat /\ slab_size' \in Nat /\ slab_size' >= slab_size
        /\ slab_size' >= PAGE_SIZE
    BY <2>1, LayoutAssumption DEF Inv
  <2>3. ASSUME buffer_size >= align
        PROVE  num' \in Nat /\ Used(num', buffer_size, align) <= slab_size'
    <3>1. num' \in Nat /\ Used(num', buffer_size, align) <= slab_size
      BY <2>1, <2>3, EstimateFits DEF Inv
    <3>2. buffer_size \in Nat /\ align \in Nat \ {0}
      BY LayoutAssumption DEF Inv
    <3>3. Used(num', buffer_size, align) \in Nat
      BY <3>1, <3>2, UsedBound
    <3> QED
      BY <2>2, <3>1, <3>3 DEF Inv
  <2> QED
    BY <2>1, <2>2, <2>3 DEF Inv
<1>2. CASE GiveUp \/ Done \/ UNCHANGED vars
  BY <1>2 DEF GiveUp, Done, vars, Inv
<1> QED
  BY <1>1, <1>2 DEF Next

(* No slab is ever laid out beyond its pages, for every size of a page, of *)
(* the management structures and of an object, every alignment up to the   *)
(* object's size and every SLAB_LIMIT.                                     *)
THEOREM LayoutFits == Spec => []Fits
<1>1. Inv => Fits
  BY DEF Inv, Fits
<1> QED
  BY <1>1, InitInv, StepInv, PTL DEF Spec
-----------------------------------------------------------------------------
(* What a number of objects needs at the least. *)
LEMMA UsedAtLeast ==
    ASSUME NEW n \in Nat, NEW b \in Nat, NEW a \in Nat \ {0}
    PROVE  Used(n, b, a) \in Nat /\ Used(n, b, a) >= SlabStruct + n * (b + Bufctl)
<1>1. SlabStruct \in Nat /\ Bufctl \in Nat
  BY LayoutAssumption
<1> DEFINE raw == SlabStruct + n * Bufctl
<1>2. n * Bufctl \in Nat /\ n * b \in Nat /\ n * (b + Bufctl) = n * b + n * Bufctl
  BY <1>1
<1>3. raw \in Nat
  BY <1>1, <1>2
<1>4. Used(n, b, a) = ALIGN(raw, a) + n * b
  BY DEF Used, slab_mgmt_size
<1> HIDE DEF raw
<1>5. ALIGN(raw, a) \in Nat /\ raw <= ALIGN(raw, a)
  BY <1>3, AlignBounds
<1> QED
  BY <1>1, <1>2, <1>3, <1>4, <1>5 DEF raw

(* One object more than cache_estimate settles for does not fit. *)
LEMMA OneMoreIsTooMany ==
    ASSUME NEW size \in Nat, size >= PAGE_SIZE,
           NEW b \in BufferSizes, NEW a \in Aligns
    PROVE  /\ estimate(size, b, a) \in Nat
           /\ Used(estimate(size, b, a) + 1, b, a) > size
<1> DEFINE unit == b + Bufctl
           most == (size - SlabStruct) \div unit
<1>1. /\ SlabStruct \in Nat /\ Bufctl \in Nat /\ PAGE_SIZE \in Nat
      /\ b \in Nat /\ a \in Nat \ {0} /\ a <= PAGE_SIZE - SlabStruct
      /\ size - SlabStruct \in Nat /\ unit \in Nat \ {0}
  BY LayoutAssumption
<1>2. most \in Nat /\ size - SlabStruct < most * unit + unit
  BY <1>1, DivBounds
<1>3. estimate(size, b, a) = IF Used(most, b, a) > size THEN most - 1 ELSE most
  BY DEF estimate
<1> HIDE DEF most
<1>4. Used(0, b, a) <= size
  <2>1. Used(0, b, a) \in Nat /\ Used(0, b, a) <= SlabStruct + 0 * (b + Bufctl) + a - 1
    BY <1>1, UsedBound
  <2>2. 0 * (b + Bufctl) = 0
    BY <1>1
  <2> QED
    BY <1>1, <2>1, <2>2
<1>5. CASE Used(most, b, a) > size
  <2>1. most # 0
    <3> SUFFICES ASSUME most = 0 PROVE FALSE
      OBVIOUS
    <3>1. Used(0, b, a) > size /\ Used(0, b, a) \in Nat
      BY <1>1, <1>5, UsedAtLeast
    <3> QED
      BY <1>4, <3>1
  <2>2. estimate(size, b, a) = most - 1 /\ most - 1 \in Nat /\ (most - 1) + 1 = most
    BY <1>2, <1>3, <1>5, <2>1
  <2> QED
    BY <1>5, <2>2
<1>6. CASE ~(Used(most, b, a) > size)
  <2>1. estimate(size, b, a) = most /\ most + 1 \in Nat
    BY <1>2, <1>3, <1>6
  <2>2. /\ Used(most + 1, b, a) \in Nat
        /\ Used(most + 1, b, a) >= SlabStruct + (most + 1) * unit
    BY <1>1, <2>1, UsedAtLeast
  <2> HIDE DEF unit
  <2>3. (most + 1) * unit = most * unit + unit /\ most * unit \in Nat
    BY <1>1, <1>2
  <2>4. SlabStruct + (most + 1) * unit > size
    BY <1>1, <1>2, <2>3
  <2>5. Used(most + 1, b, a) > size
    BY <1>1, <1>2, <2>2, <2>3, <2>4
  <2> QED
    BY <1>2, <2>1, <2>5
<1> QED
  BY <1>5, <1>6

(* The orders that were tried hold not even one object, and the number that *)
(* was settled for is the estimate.                                        *)
Tight ==
    /\ buffer_size \in BufferSizes /\ align \in Aligns /\ order \in Nat
    /\ slab_size \in Nat /\ slab_size >= PAGE_SIZE
    /\ pc = "done" /\ order < MAX_ORDER =>
          num = at_most(SLAB_LIMIT, estimate(slab_size, buffer_size, align))
    /\ order > 0 => Used(1, buffer_size, align) > slab_size \div 2

LEMMA StepTight == Tight /\ [Next]_vars => Tight'
<1> SUFFICES ASSUME Tight, [Next]_vars PROVE Tight'
  OBVIOUS
<1>0. PAGE_SIZE \in Nat /\ SLAB_LIMIT \in Nat \ {0} /\ MAX_ORDER \in Nat
  BY LayoutAssumption
<1>1. CASE TryOrder
  <2> DEFINE n == estimate(slab_size, buffer_size, align)
  <2>1. n \in Nat /\ Used(n + 1, buffer_size, align) > slab_size
    BY OneMoreIsTooMany DEF Tight
  <2>2. /\ num' = at_most(SLAB_LIMIT, n) /\ UNCHANGED <<buffer_size, align>>
        /\ pc = "try"
    BY <1>1 DEF TryOrder
  <2>3. CASE num' # 0
    <3>1. UNCHANGED <<order, slab_size>>
      BY <1>1, <2>3 DEF TryOrder
    <3> QED
      BY <2>2, <3>1 DEF Tight
  <2>4. CASE num' = 0
    <3>1. order' = order + 1 /\ slab_size' = 2 * slab_size /\ pc' = "try"
      BY <1>1, <2>4 DEF TryOrder
    <3> HIDE DEF n
    <3>2. n = 0
      BY <1>0, <2>1, <2>2, <2>4 DEF at_most
    <3>3. Used(1, buffer_size, align) > slab_size
      BY <2>1, <3>2
    <3>4. slab_size' \div 2 = slab_size /\ slab_size' \in Nat /\ slab_size' >= slab_size
      BY <3>1 DEF Tight
    <3> QED
      BY <1>0, <2>2, <3>1, <3>3, <3>4 DEF Tight
  <2> QED
    BY <2>3, <2>4
<1>2. CASE GiveUp
  BY <1>0, <1>2 DEF GiveUp, Tight
<1>3. CASE Done \/ UNCHANGED vars
  BY <1>3 DEF Done, vars, Tight
<1> QED
  BY <1>1, <1>2, <1>3 DEF Next

(* No room of a slab is given away: beyond what was laid out there is no   *)
(* room for one object more unless SLAB_LIMIT stopped, and no smaller      *)
(* order of pages would have held an object.                               *)
THEOREM LayoutTight == Spec => []NoRoomWasted
<1>1. Init => Tight
  BY LayoutAssumption DEF Init, Tight
<1>2. Tight => NoRoomWasted
  <2> SUFFICES ASSUME Tight PROVE NoRoomWasted
    OBVIOUS
  <2>1. ASSUME pc = "done", num < SLAB_LIMIT, order < MAX_ORDER
        PROVE  Used(num + 1, buffer_size, align) > slab_size
    <3> DEFINE n == estimate(slab_size, buffer_size, align)
    <3>1. n \in Nat /\ Used(n + 1, buffer_size, align) > slab_size
      BY OneMoreIsTooMany DEF Tight
    <3>2. num = at_most(SLAB_LIMIT, n)
      BY <2>1 DEF Tight
    <3> HIDE DEF n
    <3>3. num = n
      BY <2>1, <3>1, <3>2, LayoutAssumption DEF at_most
    <3> QED
      BY <3>1, <3>3
  <2> QED
    BY <2>1 DEF NoRoomWasted, Tight
<1> QED
  BY <1>1, <1>2, StepTight, PTL DEF Spec
=============================================================================
