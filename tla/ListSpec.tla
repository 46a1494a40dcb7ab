------------------------------ MODULE ListSpec ------------------------------
(***************************************************************************)
(* What include/list.h promises: a head stands for a finite sequence of    *)
(* entries, an entry is in at most one sequence at a time, and every       *)
(* operation is the sequence operation its comment describes.  `ready' are *)
(* the heads that have been initialised and whose contents have not been   *)
(* spliced away since; `side' is the end the latest operation added at.    *)
(***************************************************************************)
EXTENDS SequencesExt, Naturals

CONSTANTS Heads, Entries

VARIABLES content, ready, side

vars == <<content, ready, side>>

Linked == UNION {ToSet(content[h]) : h \in Heads}

Init == content = [h \in Heads |-> << >>] /\ ready = {} /\ side = "none"

InitHead(h) ==
    /\ content[h] = << >>
    /\ ready' = ready \union {h}
    /\ side' = "none"
    /\ UNCHANGED content

\* In contents c, the entries `added' are put at the front or the back of list h.
Extends(c, added, h) ==
    \/ side' = "front" /\ content' = [c EXCEPT ![h] = added \o c[h]]
    \/ side' = "back" /\ content' = [c EXCEPT ![h] = c[h] \o added]

Add(e, h) ==
    /\ e \notin Linked
    /\ Extends(content, <<e>>, h)
    /\ UNCHANGED ready

Del(i, h) ==
    /\ content' = [content EXCEPT ![h] = RemoveAt(@, i)]
    /\ side' = "none"
    /\ UNCHANGED ready

Move(i, from, to) ==
    /\ Extends([content EXCEPT ![from] = RemoveAt(@, i)], <<content[from][i]>>, to)
    /\ UNCHANGED ready

Replace(i, h, new) ==
    /\ new \notin Linked
    /\ content' = [content EXCEPT ![h] = ReplaceAt(@, i, new)]
    /\ side' = "none"
    /\ UNCHANGED ready

\* The first n entries of `from' become the whole of `list'.
Cut(list, from, n) ==
    /\ list # from /\ content[list] = << >>
    /\ content' = [content EXCEPT ![list] = SubSeq(content[from], 1, n),
                                  ![from] = SubSeq(@, n + 1, Len(@))]
    /\ side' = "none"
    /\ UNCHANGED ready

\* list_splice and list_splice_tail leave `list' to be initialised again.
Splice(list, to, keeps) ==
    /\ list # to
    /\ Extends([h \in Heads |-> IF h = list THEN << >> ELSE content[h]],
               content[list], to)
    /\ ready' = IF keeps \/ content[list] = << >> THEN ready ELSE ready \ {list}

Next ==
    \/ \E h \in Heads : InitHead(h)
    \/ \E h \in ready, e \in Entries : Add(e, h)
    \/ \E h \in ready : \E i \in DOMAIN content[h] :
          \/ Del(i, h)
          \/ \E to \in ready : Move(i, h, to)
          \/ \E new \in Entries : Replace(i, h, new)
    \/ \E list, from \in ready : \E n \in 0 .. Len(content[from]) : Cut(list, from, n)
    \/ \E list, to \in ready, keeps \in BOOLEAN : Splice(list, to, keeps)

Spec == Init /\ [][Next]_vars
=============================================================================
