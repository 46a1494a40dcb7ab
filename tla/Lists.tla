------------------------------- MODULE Lists --------------------------------
(***************************************************************************)
(* A client that applies the operations of include/list.h, each within the *)
(* precondition its comment states, to a few heads and entries.  The state *)
(* is the memory; what a head holds is found by following pointers.        *)
(* `side' says at which end the latest operation put something.            *)
(***************************************************************************)
EXTENDS KList, SequencesExt, Naturals, FiniteSets

CONSTANTS Heads, Entries, NULL

ASSUME CellsDiffer ==
    /\ IsFiniteSet(Entries)
    /\ Heads \intersect Entries = {}
    /\ {LIST_POISON1, LIST_POISON2, NULL} \intersect (Heads \union Entries) = {}
    /\ NULL \notin {LIST_POISON1, LIST_POISON2}

Cell == Heads \union Entries \union {LIST_POISON1, LIST_POISON2, NULL}

VARIABLES mem, ready, side

vars == <<mem, ready, side>>

\* The cells met from h along `link' until h comes back; a ring that does not
\* come back shows as a sequence longer than there are entries.
Walk(link, h) ==
    LET Laps == 1 .. Cardinality(Entries) + 1
        at[n \in Laps] ==
            IF n = 1 THEN link[h] ELSE IF at[n - 1] = h THEN h ELSE link[at[n - 1]]
    IN  [n \in 1 .. Cardinality({k \in Laps : at[k] # h}) |-> at[n]]

Content == [h \in Heads |-> IF h \in ready THEN Walk(mem.next, h) ELSE << >>]

On(h) == ToSet(Content[h])

Linked == UNION {On(h) : h \in ready}

Empty(h) == h \notin ready \/ list_empty(mem, h)

Init ==
    /\ mem = [next |-> [c \in Cell |-> NULL], prev |-> [c \in Cell |-> NULL]]
    /\ ready = {}
    /\ side = "none"

Store(m, end) == mem' = m /\ side' = end /\ UNCHANGED ready

InitHead(h) ==
    /\ Empty(h)
    /\ mem' = INIT_LIST_HEAD(mem, h)
    /\ ready' = ready \union {h}
    /\ side' = "none"

Add(e, h) ==
    /\ e \notin Linked
    /\ \/ Store(list_add(mem, e, h), "front")
       \/ Store(list_add_tail(mem, e, h), "back")

Del(e, h) ==
    /\ e \in On(h)
    /\ Store(list_del(mem, e), "none") \/ Store(list_del_init(mem, e), "none")

Move(e, from, to) ==
    /\ e \in On(from)
    /\ \/ Store(list_move(mem, e, to), "front")
       \/ Store(list_move_tail(mem, e, to), "back")

Replace(old, new) ==
    /\ old \in Linked /\ new \notin Linked
    /\ \/ Store(list_replace(mem, old, new), "none")
       \/ Store(list_replace_init(mem, old, new), "none")

\* "@list should be an empty list", "@entry an element you know is on @head".
Cut(list, head, entry) ==
    /\ list # head /\ Empty(list)
    /\ entry \in On(head) \union {head}
    /\ Store(list_cut_position(mem, list, head, entry), "none")

Splice(list, to) ==
    /\ list # to
    /\ \/ mem' = list_splice(mem, list, to) /\ side' = "front"
       \/ mem' = list_splice_tail(mem, list, to) /\ side' = "back"
    /\ ready' = IF list_empty(mem, list) THEN ready ELSE ready \ {list}

SpliceInit(list, to) ==
    /\ list # to
    /\ \/ Store(list_splice_init(mem, list, to), "front")
       \/ Store(list_splice_tail_init(mem, list, to), "back")

Next ==
    \/ \E h \in Heads : InitHead(h)
    \/ \E h \in ready, e \in Entries : Add(e, h) \/ Del(e, h)
    \/ \E from, to \in ready, e \in Entries : Move(e, from, to)
    \/ \E old, new \in Entries : Replace(old, new)
    \/ \E list, head \in ready, entry \in Heads \union Entries : Cut(list, head, entry)
    \/ \E list, to \in ready : Splice(list, to) \/ SpliceInit(list, to)

Spec == Init /\ [][Next]_vars
-----------------------------------------------------------------------------
(* Pointers lead to list_heads, and nothing is stored through NULL or a     *)
(* poison pointer by a client that keeps the preconditions (list.h:94-97).  *)
TypeOK ==
    /\ mem \in Memory(Cell)
    /\ \A c \in {LIST_POISON1, LIST_POISON2, NULL} : mem.next[c] = NULL /\ mem.prev[c] = NULL
    /\ ready \subseteq Heads
    /\ side \in {"none", "front", "back"}

(* Every ring reached from a head is made of entries that are on no other *)
(* list, followed backwards it visits them in the reverse order (the two   *)
(* pointers of every linked structure stay each other's inverse), and the  *)
(* tests of list.h say of it what their comments say.                      *)
RingsWellFormed ==
    \A h \in ready :
        /\ On(h) \subseteq Entries
        /\ Walk(mem.prev, h) = Reverse(Content[h])
        /\ \A g \in ready \ {h} : On(h) \intersect On(g) = {}
        /\ list_empty_careful(mem, h) <=> Content[h] = << >>
        /\ list_is_singular(mem, h) <=> Len(Content[h]) = 1
        /\ \A e \in On(h) : list_is_last(mem, e, h) <=> e = Last(Content[h])

(* Pointer surgery implements the sequence operations of ListSpec.         *)
Abstract == INSTANCE ListSpec WITH content <- Content

ImplementsSequences == Abstract!Spec
=============================================================================
