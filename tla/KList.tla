------------------------------- MODULE KList --------------------------------
(***************************************************************************)
(* include/list.h: circular doubly linked lists threaded through the       *)
(* structures they link.                                                   *)
(*                                                                         *)
(* A memory m is a record of two functions, m.next and m.prev, from the    *)
(* addresses of list_head structures (cells) to the pointers stored there. *)
(* An operation maps a memory to the memory it leaves behind.  EXCEPT      *)
(* applies its updates from left to right, so the updates are written in   *)
(* the order of the assignments in the code: when two of the cells         *)
(* coincide, the later store wins here exactly as it does there.           *)
(*                                                                         *)
(* The poison pointers are ordinary addresses of this kernel (it maps low  *)
(* memory one to one), so a memory that list_del may be applied to twice   *)
(* has them among its cells.                                               *)
(***************************************************************************)
CONSTANTS LIST_POISON1, LIST_POISON2

ASSUME PoisonsDiffer == LIST_POISON1 # LIST_POISON2

Memory(Cell) == [next : [Cell -> Cell], prev : [Cell -> Cell]]

INIT_LIST_HEAD(m, list) == [m EXCEPT !.next[list] = list, !.prev[list] = list]

\* Mutant: next->prev is forgotten.
insert_one_way(m, new, prev, next) ==
    [m EXCEPT !.next[new] = next, !.prev[new] = prev, !.next[prev] = new]

insert_between(m, new, prev, next) ==
    [m EXCEPT !.prev[next] = new, !.next[new] = next,
              !.prev[new] = prev, !.next[prev] = new]

\* Mutant: the new entry becomes the last one.
add_behind(m, new, head) == insert_between(m, new, m.prev[head], head)

list_add(m, new, head) == insert_between(m, new, head, m.next[head])

\* Mutant: the new entry becomes the first one.
add_in_front(m, new, head) == insert_between(m, new, head, m.next[head])

list_add_tail(m, new, head) == insert_between(m, new, m.prev[head], head)

join(m, prev, next) == [m EXCEPT !.prev[next] = prev, !.next[prev] = next]

\* Mutant: the entry is poisoned before its neighbours are read from it.
poison_first(m, entry) ==
    LET poisoned == [m EXCEPT !.next[entry] = LIST_POISON1, !.prev[entry] = LIST_POISON2]
    IN  join(poisoned, poisoned.prev[entry], poisoned.next[entry])

list_del(m, entry) ==
    [join(m, m.prev[entry], m.next[entry])
        EXCEPT !.next[entry] = LIST_POISON1, !.prev[entry] = LIST_POISON2]

list_del_init(m, entry) ==
    INIT_LIST_HEAD(join(m, m.prev[entry], m.next[entry]), entry)

list_move(m, list, head) ==
    list_add(join(m, m.prev[list], m.next[list]), list, head)

list_move_tail(m, list, head) ==
    list_add_tail(join(m, m.prev[list], m.next[list]), list, head)

\* new->next->prev and new->prev->next are read back from new, after it was set.
list_replace(m, old, new) ==
    LET forward  == [m EXCEPT !.next[new] = m.next[old]]
        backlink == [forward EXCEPT !.prev[forward.next[new]] = new]
        backward == [backlink EXCEPT !.prev[new] = backlink.prev[old]]
    IN  [backward EXCEPT !.next[backward.prev[new]] = new]

list_replace_init(m, old, new) == INIT_LIST_HEAD(list_replace(m, old, new), old)

list_empty(m, head) == m.next[head] = head

list_empty_careful(m, head) == m.next[head] = head /\ m.prev[head] = head

list_is_last(m, list, head) == m.next[list] = head

list_is_singular(m, head) == ~list_empty(m, head) /\ m.next[head] = m.prev[head]

cut_after(m, list, head, entry) ==
    LET new_first == m.next[entry]
    IN  [m EXCEPT !.next[list] = m.next[head], !.prev[m.next[head]] = list,
                  !.prev[list] = entry, !.next[entry] = list,
                  !.next[head] = new_first, !.prev[new_first] = head]

list_cut_position(m, list, head, entry) ==
    IF \/ list_empty(m, head)
       \/ list_is_singular(m, head) /\ m.next[head] # entry /\ head # entry
    THEN m
    ELSE IF entry = head THEN INIT_LIST_HEAD(m, list)
                         ELSE cut_after(m, list, head, entry)

splice_between(m, list, prev, next) ==
    LET first == m.next[list]
        last  == m.prev[list]
    IN  [m EXCEPT !.prev[first] = prev, !.next[prev] = first,
                  !.next[last] = next, !.prev[next] = last]

list_splice(m, list, head) ==
    IF list_empty(m, list) THEN m ELSE splice_between(m, list, head, m.next[head])

list_splice_tail(m, list, head) ==
    IF list_empty(m, list) THEN m ELSE splice_between(m, list, m.prev[head], head)

list_splice_init(m, list, head) ==
    IF list_empty(m, list) THEN m
    ELSE INIT_LIST_HEAD(list_splice(m, list, head), list)

list_splice_tail_init(m, list, head) ==
    IF list_empty(m, list) THEN m
    ELSE INIT_LIST_HEAD(list_splice_tail(m, list, head), list)
=============================================================================
