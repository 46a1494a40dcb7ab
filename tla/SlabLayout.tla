----------------------------- MODULE SlabLayout -----------------------------
(***************************************************************************)
(* kernel/slab.c: cache_estimate, and the search kmem_cache_init makes for *)
(* the smallest order of pages that holds at least one object.  A slab     *)
(* starts with its struct slab and one index per object, rounded up to the *)
(* alignment; the objects follow.  Sizes are in bytes.                     *)
(***************************************************************************)
EXTENDS Integers

CONSTANTS
    PAGE_SIZE,
    SlabStruct,     \* sizeof(struct slab)
    Bufctl,         \* sizeof(kmem_bufctl_t)
    SLAB_LIMIT,
    MAX_ORDER,
    Word,           \* 2^32, the modulus of size_t
    BufferSizes,    \* the object sizes considered
    Aligns          \* the alignments considered

ASSUME LayoutAssumption ==
    /\ SlabStruct \in Nat /\ Bufctl \in Nat \ {0}
    /\ PAGE_SIZE \in Nat /\ PAGE_SIZE >= SlabStruct
    /\ SLAB_LIMIT \in Nat \ {0} /\ MAX_ORDER \in Nat /\ Word \in Nat
    /\ BufferSizes \subseteq Nat \ {0}
    /\ Aligns \subseteq 1 .. PAGE_SIZE - SlabStruct

\* The mask of the code rounds to a multiple because alignments are powers of two.
ALIGN(a, b) == ((a + b - 1) \div b) * b

slab_mgmt_size(nr_objs, align) == ALIGN(SlabStruct + nr_objs * Bufctl, align)

Used(nr_objs, buffer_size, align) ==
    slab_mgmt_size(nr_objs, align) + nr_objs * buffer_size

\* Mutants: nothing is taken off, or an exact fit is refused.
guess(slab_size, buffer_size, align) ==
    (slab_size - SlabStruct) \div (buffer_size + Bufctl)

refuse_exact(slab_size, buffer_size, align) ==
    LET most == guess(slab_size, buffer_size, align)
    IN  IF Used(most, buffer_size, align) >= slab_size THEN most - 1 ELSE most

estimate(slab_size, buffer_size, align) ==
    LET most == (slab_size - SlabStruct) \div (buffer_size + Bufctl)
    IN  IF Used(most, buffer_size, align) > slab_size THEN most - 1 ELSE most

at_most(limit, n) == IF n > limit THEN limit ELSE n

\* mgmt_size is that of the number before SLAB_LIMIT is applied.
left_over_of(slab_size, buffer_size, align) ==
    LET n == estimate(slab_size, buffer_size, align)
    IN  (slab_size - at_most(SLAB_LIMIT, n) * buffer_size
            - slab_mgmt_size(n, align)) % Word

VARIABLES pc, buffer_size, align, order, slab_size, num, left_over

vars == <<pc, buffer_size, align, order, slab_size, num, left_over>>

Init ==
    /\ pc = "try"
    /\ buffer_size \in BufferSizes
    /\ align \in Aligns
    /\ order = 0
    /\ slab_size = PAGE_SIZE
    /\ num = 0
    /\ left_over = 0

TryOrder ==
    /\ pc = "try" /\ order < MAX_ORDER
    /\ num' = at_most(SLAB_LIMIT, estimate(slab_size, buffer_size, align))
    /\ left_over' = left_over_of(slab_size, buffer_size, align)
    /\ IF num' # 0
       THEN pc' = "done" /\ UNCHANGED <<order, slab_size>>
       ELSE order' = order + 1 /\ slab_size' = 2 * slab_size /\ UNCHANGED pc
    /\ UNCHANGED <<buffer_size, align>>

GiveUp ==
    /\ pc = "try" /\ order = MAX_ORDER
    /\ pc' = "done"
    /\ UNCHANGED <<buffer_size, align, order, slab_size, num, left_over>>

Done == pc = "done" /\ UNCHANGED vars

Next == TryOrder \/ GiveUp \/ Done

Spec == Init /\ [][Next]_vars
-----------------------------------------------------------------------------
(* The management part and the objects of a slab fit into its pages when   *)
(* objects are no smaller than the alignment: the one object that          *)
(* cache_estimate takes off makes room for any rounding.                   *)
Fits ==
    pc = "done" /\ buffer_size >= align => Used(num, buffer_size, align) <= slab_size

(* No room is given away: one object more would not fit into the slab, and *)
(* not even one object fits into a slab of the next smaller order.         *)
NoRoomWasted ==
    /\ pc = "done" /\ num < SLAB_LIMIT /\ order < MAX_ORDER =>
          Used(num + 1, buffer_size, align) > slab_size
    /\ pc = "done" /\ order > 0 /\ buffer_size >= align =>
          Used(1, buffer_size, align) > slab_size \div 2
=============================================================================
