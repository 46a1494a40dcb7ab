----------------------------- MODULE PageAlloc ------------------------------
(***************************************************************************)
(* What alloc_pages and __free_pages promise to the rest of the kernel:    *)
(* blocks of 2^order pages of ZONE_NORMAL, aligned to their size, of which *)
(* no two share a page, and NULL only when there is no such block left.    *)
(***************************************************************************)
EXTENDS Integers

CONSTANTS Requests,  \* the orders callers ask for
          Orders,    \* the orders that exist
          Size       \* Size[o], the pages of a block of order o

VARIABLES first, last,   \* ZONE_NORMAL is the pages first .. last - 1
          held,          \* blocks <<page, order>> the callers hold
          reply          \* the answer to the latest call

vars == <<first, last, held, reply>>

Pages(b) == b[1] .. b[1] + Size[b[2]] - 1

Available(b) ==
    /\ Pages(b) \subseteq first .. last - 1
    /\ b[1] % Size[b[2]] = 0
    /\ \A h \in held : Pages(b) \intersect Pages(h) = {}

Init ==
    /\ first \in Nat /\ last \in Nat
    /\ held = {}
    /\ reply = <<"none", 0>>

Alloc(o) ==
    /\ o \in Orders
    /\ \E p \in first .. last - 1 :
          /\ Available(<<p, o>>)
          /\ held' = held \union {<<p, o>>}
    /\ reply' = <<"block", o>>
    /\ UNCHANGED <<first, last>>

Refuse(o) ==
    /\ o \in Orders => \A p \in first .. last - 1 : ~Available(<<p, o>>)
    /\ reply' = <<"null", o>>
    /\ UNCHANGED <<first, last, held>>

Free(b) ==
    /\ held' = held \ {b}
    /\ reply' = <<"freed", b[2]>>
    /\ UNCHANGED <<first, last>>

Next ==
    \/ \E o \in Requests : Alloc(o) \/ Refuse(o)
    \/ \E b \in held : Free(b)

Spec == Init /\ [][Next]_vars
=============================================================================
