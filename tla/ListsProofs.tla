---------------------------- MODULE ListsProofs -----------------------------
(***************************************************************************)
(* What the operations of include/list.h do to the pointers, for every set *)
(* of cells; and, for any number of heads and entries and any sequence of  *)
(* operations, that clients which keep the documented preconditions get    *)
(* the sequence operations of ListSpec.                                    *)
(***************************************************************************)
EXTENDS Lists, FiniteSetTheorems, SequenceTheorems, WellFoundedInduction, TLAPS

(* The cells of S form rings: inside S, next and prev are each other's     *)
(* inverse, and neither leaves S.                                          *)

Rings(m, S) ==
    \A c \in S : /\ m.next[c] \in S /\ m.prev[m.next[c]] = c
                 /\ m.prev[c] \in S /\ m.next[m.prev[c]] = c

(* The pointers of a memory after list_del, cell by cell. *)
LEMMA DelFields ==
    ASSUME NEW Cells, NEW m \in Memory(Cells), NEW e \in Cells
    PROVE  \A c \in Cells :
              /\ list_del(m, e).next[c] = IF c = e THEN LIST_POISON1
                                          ELSE IF c = m.prev[e] THEN m.next[e]
                                          ELSE m.next[c]
              /\ list_del(m, e).prev[c] = IF c = e THEN LIST_POISON2
                                          ELSE IF c = m.next[e] THEN m.prev[e]
                                          ELSE m.prev[c]
  BY DEF list_del, join, Memory

(* __list_add of a cell that is on no ring, between a cell and its successor, *)
(* leaves rings over the old cells and the new one.                           *)
THEOREM InsertKeepsRings ==
    ASSUME NEW Cells, NEW S \in SUBSET Cells, NEW m \in Memory(Cells), Rings(m, S),
           NEW new \in Cells \ S, NEW prev \in S
    PROVE  Rings(insert_between(m, new, prev, m.next[prev]), S \union {new})
<1> DEFINE next == m.next[prev]
           r == insert_between(m, new, prev, next)
<1>1. next \in S /\ m.prev[next] = prev
  BY DEF Rings
<1>2. /\ r.next = [m.next EXCEPT ![new] = next, ![prev] = new]
      /\ r.prev = [m.prev EXCEPT ![next] = new, ![new] = prev]
  BY <1>1 DEF insert_between, Memory
<1>3. m.next \in [Cells -> Cells] /\ m.prev \in [Cells -> Cells]
  BY DEF Memory
<1> HIDE DEF r
<1>4. ASSUME NEW c \in S \union {new}
      PROVE  r.next[c] \in S \union {new} /\ r.prev[r.next[c]] = c
  BY <1>1, <1>2, <1>3 DEF Rings
<1>5. ASSUME NEW c \in S \union {new}
      PROVE  r.prev[c] \in S \union {new} /\ r.next[r.prev[c]] = c
  BY <1>1, <1>2, <1>3 DEF Rings
<1> QED
  BY <1>4, <1>5 DEF Rings, r

(* list_add and list_add_tail of an unlinked entry keep every ring intact. *)
THEOREM AddKeepsRings ==
    ASSUME NEW Cells, NEW S \in SUBSET Cells, NEW m \in Memory(Cells), Rings(m, S),
           NEW new \in Cells \ S, NEW head \in S
    PROVE  /\ Rings(list_add(m, new, head), S \union {new})
           /\ Rings(list_add_tail(m, new, head), S \union {new})
<1>1. m.prev[head] \in S /\ m.next[m.prev[head]] = head
  BY DEF Rings
<1> QED
  BY <1>1, InsertKeepsRings DEF list_add, list_add_tail

(* list_del of a linked entry keeps the ring of the others, and that of every *)
(* other list.                                                                *)
THEOREM DelKeepsRings ==
    ASSUME NEW Cells, NEW S \in SUBSET Cells, NEW m \in Memory(Cells), Rings(m, S),
           NEW e \in S
    PROVE  Rings(list_del(m, e), S \ {e})
<1> DEFINE r == list_del(m, e)
<1>1. \A c \in Cells :
         /\ r.next[c] = IF c = e THEN LIST_POISON1
                        ELSE IF c = m.prev[e] THEN m.next[e] ELSE m.next[c]
         /\ r.prev[c] = IF c = e THEN LIST_POISON2
                        ELSE IF c = m.next[e] THEN m.prev[e] ELSE m.prev[c]
  BY DelFields
<1> HIDE DEF r
<1>3. ASSUME NEW c \in S \ {e}
      PROVE  r.next[c] \in S \ {e} /\ r.prev[r.next[c]] = c
  BY <1>1 DEF Rings
<1>4. ASSUME NEW c \in S \ {e}
      PROVE  r.prev[c] \in S \ {e} /\ r.next[r.prev[c]] = c
  BY <1>1 DEF Rings
<1> QED
  BY <1>3, <1>4 DEF Rings, r

(* list_del undoes list_add: every other pointer is what it was. *)
THEOREM DelUndoesAdd ==
    ASSUME NEW Cells, NEW S \in SUBSET Cells, NEW m \in Memory(Cells), Rings(m, S),
           NEW new \in Cells \ S, NEW head \in S,
           NEW c \in Cells \ {new}
    PROVE  /\ list_del(list_add(m, new, head), new).next[c] = m.next[c]
           /\ list_del(list_add(m, new, head), new).prev[c] = m.prev[c]
<1> DEFINE next == m.next[head]
           a == list_add(m, new, head)
<1>1. next \in S /\ m.prev[next] = head
  BY DEF Rings
<1>2. /\ a \in Memory(Cells)
      /\ a.next = [m.next EXCEPT ![new] = next, ![head] = new]
      /\ a.prev = [m.prev EXCEPT ![next] = new, ![new] = head]
  BY <1>1 DEF insert_between, Memory, list_add
<1>3. m.next \in [Cells -> Cells] /\ m.prev \in [Cells -> Cells]
  BY DEF Memory
<1> HIDE DEF a
<1>4. a.next[new] = next /\ a.prev[new] = head
  BY <1>1, <1>2, <1>3
<1> QED
  BY <1>1, <1>2, <1>3, <1>4, DelFields DEF a

(* list_del of an entry that was already deleted leaves every ring alone:   *)
(* the two stores it makes go through the poison pointers.  This is why the *)
(* list_del in __free_pages, whose entry is never on a list, does not       *)
(* remove the buddy it was meant to remove.                                 *)
THEOREM DelOfDeletedKeepsRings ==
    ASSUME NEW Cells, NEW S \in SUBSET Cells, NEW m \in Memory(Cells), Rings(m, S),
           NEW e \in Cells \ S,
           LIST_POISON1 \in Cells \ S, LIST_POISON2 \in Cells \ S,
           m.next[e] = LIST_POISON1, m.prev[e] = LIST_POISON2,
           NEW c \in S
    PROVE  list_del(m, e).next[c] = m.next[c] /\ list_del(m, e).prev[c] = m.prev[c]
  BY DelFields
-----------------------------------------------------------------------------
(***************************************************************************)
(* Lists.  The state is described by the sequences c the heads stand for:  *)
(* Sound says that the pointers of every head that may be used thread      *)
(* exactly its sequence, in both directions, that no entry is in two       *)
(* places, and that nothing was stored through NULL or a poison pointer.   *)
(* There is one lemma for what each operation does to a sound memory.      *)
(***************************************************************************)

(* The k-th cell of the ring of h: h itself before the first and behind    *)
(* the last entry.                                                         *)
Stop(h, s, k) == IF k \in 1 .. Len(s) THEN s[k] ELSE h

Ring(m, h, s) ==
    \A k \in 0 .. Len(s) : /\ m.next[Stop(h, s, k)] = Stop(h, s, k + 1)
                           /\ m.prev[Stop(h, s, k + 1)] = Stop(h, s, k)

Once(s) == \A i, j \in 1 .. Len(s) : s[i] = s[j] => i = j

Apart(c) ==
    \A g \in Heads : /\ Once(c[g])
                     /\ \A h \in Heads \ {g} : ToSet(c[g]) \intersect ToSet(c[h]) = {}

NowhereIn(e, c) == \A h \in Heads : e \notin ToSet(c[h])

Sentinels == {LIST_POISON1, LIST_POISON2, NULL}

Clean(m) == \A x \in Sentinels : m.next[x] = NULL /\ m.prev[x] = NULL

Sound(m, R, c) ==
    /\ m \in Memory(Cell) /\ Clean(m)
    /\ R \subseteq Heads
    /\ c \in [Heads -> Seq(Entries)] /\ \A h \in Heads \ R : c[h] = << >>
    /\ Apart(c)
    /\ \A h \in R : Ring(m, h, c[h])

(* A set of natural numbers has a least member: the form in which the      *)
(* proofs below use induction.                                             *)
LEMMA Least ==
    ASSUME NEW T \in SUBSET Nat, T # {}
    PROVE  \E n \in T : \A m \in T : n <= m
<1> DEFINE Below == {q \in Nat \X Nat : q[1] < q[2]}
<1>1. IsWellFoundedOn(Below, Nat)
  BY NatLessThanWellFounded DEF OpToRel
<1>2. \A m, n \in Nat : m < n => <<m, n>> \in Below
  OBVIOUS
<1> HIDE DEF Below
<1>3. PICK n \in T : \A m \in T : ~ (<<m, n>> \in Below)
  BY <1>1, WFMin
<1>4. ASSUME NEW m \in T PROVE n <= m
  <2>1. m \in Nat /\ n \in Nat
    OBVIOUS
  <2>2. ~ (m < n)
    BY <1>2, <1>3, <2>1, Zenon
  <2> QED
    BY <2>1, <2>2
<1> QED
  BY <1>4

(* The cells of a ring are different ones.                                 *)
LEMMA StopFacts ==
    ASSUME NEW h \in Heads, NEW s \in Seq(Entries), Once(s)
    PROVE  /\ Len(s) \in Nat
           /\ \A k \in Int : Stop(h, s, k) \in Entries \union {h}
           /\ \A k \in Int : k \in 1 .. Len(s) => Stop(h, s, k) = s[k] /\ s[k] \in Entries
           /\ \A k \in Int : k \notin 1 .. Len(s) => Stop(h, s, k) = h
           /\ \A i, j \in 0 .. Len(s) : Stop(h, s, i) = Stop(h, s, j) => i = j
           /\ \A i, j \in 1 .. Len(s) + 1 : Stop(h, s, i) = Stop(h, s, j) => i = j
<1>1. Len(s) \in Nat /\ \A k \in 1 .. Len(s) : s[k] \in Entries /\ s[k] # h
  BY CellsDiffer, ElementOfSeq
<1>2. \A k \in Int : Stop(h, s, k) \in Entries \union {h}
  BY <1>1 DEF Stop
<1>3. \A k \in Int : k \in 1 .. Len(s) => Stop(h, s, k) = s[k] /\ s[k] \in Entries
  BY <1>1 DEF Stop
<1>4. \A k \in Int : k \notin 1 .. Len(s) => Stop(h, s, k) = h
  BY DEF Stop
<1>5. ASSUME NEW i \in 0 .. Len(s), NEW j \in 0 .. Len(s), Stop(h, s, i) = Stop(h, s, j)
      PROVE  i = j
  BY <1>1, <1>5 DEF Stop, Once
<1>6. ASSUME NEW i \in 1 .. Len(s) + 1, NEW j \in 1 .. Len(s) + 1,
             Stop(h, s, i) = Stop(h, s, j)
      PROVE  i = j
  BY <1>1, <1>6 DEF Stop, Once
<1> QED
  BY <1>1, <1>2, <1>3, <1>4, <1>5, <1>6

LEMMA CountTo == ASSUME NEW n \in Nat PROVE Cardinality(1 .. n) = n
<1>1. PICK one \in Int : one = 1
  OBVIOUS
<1>2. Cardinality(one .. n) = IF one > n THEN 0 ELSE n - one + 1
  BY FS_Interval
<1> QED
  BY <1>1, <1>2

(* A sequence of different entries is no longer than there are entries.    *)
LEMMA NoLonger ==
    ASSUME NEW s \in Seq(Entries), Once(s)
    PROVE  Cardinality(Entries) \in Nat /\ Len(s) <= Cardinality(Entries)
<1>1. IsFiniteSet(Entries)
  BY CellsDiffer
<1>2. s \in Injection(1 .. Len(s), Entries) /\ Len(s) \in Nat
  <2>1. s \in [1 .. Len(s) -> Entries] /\ Len(s) \in Nat
    BY LenProperties
  <2> QED
    BY <2>1 DEF Injection, IsInjective, Once
<1>3. Cardinality(1 .. Len(s)) <= Cardinality(Entries)
  BY <1>1, <1>2, FS_Injection
<1>4. Cardinality(1 .. Len(s)) = Len(s)
  BY <1>2, CountTo
<1> QED
  BY <1>1, <1>3, <1>4, FS_CardinalityType

(* Following the links of a ring shows its sequence.                       *)
LEMMA WalkRound ==
    ASSUME NEW h \in Heads, NEW s \in Seq(Entries), Once(s), NEW link,
           \A k \in 0 .. Len(s) : link[Stop(h, s, k)] = Stop(h, s, k + 1)
    PROVE  Walk(link, h) = s
<1> DEFINE Laps == 1 .. Cardinality(Entries) + 1
           Solves(f) == f = [n \in Laps |-> IF n = 1 THEN link[h]
                                            ELSE IF f[n - 1] = h THEN h
                                            ELSE link[f[n - 1]]]
           at == CHOOSE f : Solves(f)
           g == [n \in Laps |-> Stop(h, s, n)]
<1>1. /\ Cardinality(Entries) \in Nat /\ Len(s) <= Cardinality(Entries)
      /\ Len(s) \in Nat
  BY NoLonger, LenProperties
<1>2. \A k \in Int : /\ k \in 1 .. Len(s) => Stop(h, s, k) = s[k] /\ s[k] # h
                     /\ k \notin 1 .. Len(s) => Stop(h, s, k) = h
  BY StopFacts, CellsDiffer
<1>3. Solves(g)
  <2> SUFFICES ASSUME NEW n \in Laps
               PROVE  Stop(h, s, n) = IF n = 1 THEN link[h] ELSE IF g[n - 1] = h THEN h
                                      ELSE link[g[n - 1]]
    OBVIOUS
  <2>1. CASE n = 1
    BY <1>1, <1>2, <2>1
  <2>2. CASE n # 1
    <3>1. g[n - 1] = Stop(h, s, n - 1) /\ n - 1 \in Laps
      BY <1>1, <2>2
    <3>2. CASE n - 1 \in 1 .. Len(s)
      BY <1>1, <1>2, <2>2, <3>1, <3>2
    <3>3. CASE n - 1 \notin 1 .. Len(s)
      BY <1>1, <1>2, <2>2, <3>1, <3>3
    <3> QED
      BY <3>2, <3>3
  <2> QED
    BY <2>1, <2>2
<1>4. Solves(at)
  <2> HIDE DEF Solves, g
  <2> QED
    BY <1>3
<1>5. \A n \in Laps : at[n] = IF n = 1 THEN link[h] ELSE IF at[n - 1] = h THEN h
                              ELSE link[at[n - 1]]
  <2> HIDE DEF at
  <2> QED
    BY <1>4
<1>6. \A n \in Laps : g[n] = IF n = 1 THEN link[h] ELSE IF g[n - 1] = h THEN h
                             ELSE link[g[n - 1]]
  <2> HIDE DEF g
  <2> QED
    BY <1>3
<1>7. \A n \in Laps : at[n] = g[n]
  <2> HIDE DEF at, g, Solves
  <2> SUFFICES ASSUME NEW n0 \in Laps, at[n0] # g[n0] PROVE FALSE
    OBVIOUS
  <2> DEFINE T == {n \in Laps : at[n] # g[n]}
  <2>1. T \in SUBSET Nat /\ T # {}
    BY <1>1
  <2>2. PICK n \in T : \A m \in T : n <= m
    BY <2>1, Least
  <2>3. n # 1
    BY <1>5, <1>6, <2>2
  <2>4. n - 1 \in Laps /\ n - 1 \notin T
    BY <1>1, <2>2, <2>3
  <2> QED
    BY <1>5, <1>6, <2>2, <2>3, <2>4
<1>8. {k \in Laps : at[k] # h} = 1 .. Len(s)
  <2>1. \A k \in Laps : at[k] = Stop(h, s, k)
    <3> HIDE DEF at
    <3> QED
      BY <1>7
  <2>2. \A k \in Laps : k \in Int /\ (k \in 1 .. Len(s) <=> at[k] # h)
    <3> HIDE DEF at
    <3> QED
      BY <1>1, <1>2, <2>1
  <2>3. \A k \in 1 .. Len(s) : k \in Laps
    BY <1>1
  <2> HIDE DEF at, Laps
  <2> QED
    BY <2>2, <2>3
<1>9. Walk(link, h) = [n \in 1 .. Len(s) |-> at[n]]
  <2>1. Walk(link, h) = [n \in 1 .. Cardinality({k \in Laps : at[k] # h}) |-> at[n]]
    BY DEF Walk
  <2> HIDE DEF at, Laps
  <2> QED
    BY <1>1, <1>8, <2>1, CountTo
<1>10. \A n \in 1 .. Len(s) : at[n] = s[n]
  <2> HIDE DEF at
  <2> QED
    BY <1>1, <1>2, <1>7
<1>11. s = [n \in 1 .. Len(s) |-> s[n]]
  BY LenProperties
<1> HIDE DEF at
<1> QED
  BY <1>9, <1>10, <1>11

(* The members of a sequence.                                              *)
LEMMA Members ==
    ASSUME NEW s \in Seq(Entries)
    PROVE  /\ ToSet(s) \subseteq Entries
           /\ \A x : x \in ToSet(s) <=> \E i \in 1 .. Len(s) : s[i] = x
<1>1. DOMAIN s = 1 .. Len(s) /\ \A i \in 1 .. Len(s) : s[i] \in Entries
  BY LenProperties, ElementOfSeq
<1> QED
  BY <1>1 DEF ToSet

LEMMA StopIn ==
    ASSUME NEW h, NEW s \in Seq(Entries), NEW k \in Int
    PROVE  Stop(h, s, k) = h \/ Stop(h, s, k) \in ToSet(s)
  BY Members DEF Stop

(* What is known of one head of a sound memory, and of two.                *)
LEMMA SoundHead ==
    ASSUME NEW m, NEW R, NEW c, Sound(m, R, c), NEW h \in Heads
    PROVE  /\ c[h] \in Seq(Entries) /\ Len(c[h]) \in Nat /\ Once(c[h])
           /\ \A k \in Int : Stop(h, c[h], k) \in Entries \union {h}
           /\ \A k \in Int : Stop(h, c[h], k) \in Cell \ Sentinels
<1>1. c[h] \in Seq(Entries) /\ Once(c[h])
  BY DEF Sound, Apart
<1>2. Len(c[h]) \in Nat /\ \A k \in Int : Stop(h, c[h], k) \in Entries \union {h}
  BY <1>1, StopFacts
<1>3. \A x \in Entries \union {h} : x \in Cell \ Sentinels
  BY CellsDiffer DEF Cell, Sentinels
<1> QED
  BY <1>1, <1>2, <1>3

LEMMA RingsApart ==
    ASSUME NEW m, NEW R, NEW c, Sound(m, R, c), NEW g \in Heads, NEW h \in Heads, g # h,
           NEW k \in Int, NEW l \in Int
    PROVE  Stop(g, c[g], k) # Stop(h, c[h], l)
<1>1. /\ Stop(g, c[g], k) = g \/ Stop(g, c[g], k) \in ToSet(c[g])
      /\ Stop(h, c[h], l) = h \/ Stop(h, c[h], l) \in ToSet(c[h])
  BY StopIn, SoundHead
<1>2. ToSet(c[g]) \subseteq Entries /\ ToSet(c[h]) \subseteq Entries
  BY SoundHead, Members
<1>3. Heads \intersect Entries = {} /\ ToSet(c[g]) \intersect ToSet(c[h]) = {}
  BY CellsDiffer DEF Sound, Apart
<1> QED
  BY <1>1, <1>2, <1>3

(* A ring none of whose pointers was written is still one.                 *)
LEMMA RingKept ==
    ASSUME NEW h, NEW s, Len(s) \in Nat, NEW m, NEW r, Ring(m, h, s),
           \A k \in 0 .. Len(s) + 1 : LET x == Stop(h, s, k)
                                      IN  r.next[x] = m.next[x] /\ r.prev[x] = m.prev[x]
    PROVE  Ring(r, h, s)
<1> SUFFICES ASSUME NEW k \in 0 .. Len(s)
             PROVE  /\ r.next[Stop(h, s, k)] = Stop(h, s, k + 1)
                    /\ r.prev[Stop(h, s, k + 1)] = Stop(h, s, k)
  BY DEF Ring
<1>1. k \in 0 .. Len(s) + 1 /\ k + 1 \in 0 .. Len(s) + 1
  OBVIOUS
<1>2. m.next[Stop(h, s, k)] = Stop(h, s, k + 1) /\ m.prev[Stop(h, s, k + 1)] = Stop(h, s, k)
  BY DEF Ring
<1>3. r.next[Stop(h, s, k)] = m.next[Stop(h, s, k)]
  BY <1>1
<1>4. r.prev[Stop(h, s, k + 1)] = m.prev[Stop(h, s, k + 1)]
  BY <1>1
<1> QED
  BY <1>2, <1>3, <1>4

(* What the heads of a sound memory hold is found by walking along it.     *)
LEMMA SoundWalk ==
    ASSUME NEW m, NEW R, NEW c, Sound(m, R, c), NEW h \in R
    PROVE  Walk(m.next, h) = c[h] /\ Walk(m.prev, h) = Reverse(c[h])
<1> DEFINE s == c[h]
           n == Len(s)
           t == Reverse(s)
<1>1. /\ h \in Heads /\ s \in Seq(Entries) /\ n \in Nat /\ Once(s) /\ Ring(m, h, s)
  <2>1. h \in Heads /\ Ring(m, h, c[h])
    BY DEF Sound
  <2> QED
    BY <2>1, SoundHead
<1>2. Walk(m.next, h) = s
  <2>1. \A k \in 0 .. Len(s) : m.next[Stop(h, s, k)] = Stop(h, s, k + 1)
    BY <1>1 DEF Ring
  <2> HIDE DEF s
  <2> QED
    BY <1>1, <2>1, WalkRound
<1>3. t \in Seq(Entries) /\ Len(t) = n /\ \A k \in 1 .. n : t[k] = s[n + 1 - k]
  <2>1. \A k \in 1 .. n : s[n - k + 1] \in Entries /\ n - k + 1 = n + 1 - k
    <3>1. \A k \in 1 .. n : n - k + 1 \in 1 .. n /\ n - k + 1 = n + 1 - k
      BY <1>1
    <3> HIDE DEF s
    <3> QED
      BY <1>1, <3>1, ElementOfSeq
  <2>2. t = [k \in 1 .. n |-> s[n - k + 1]]
    BY DEF Reverse
  <2>3. t \in [1 .. n -> Entries]
    <3> HIDE DEF s, n, t
    <3> QED
      BY <2>1, <2>2
  <2> HIDE DEF s, n, t
  <2>4. t \in Seq(Entries) /\ Len(t) = n
    BY <1>1, <2>3
  <2> QED
    BY <2>1, <2>2, <2>4
<1> HIDE DEF t
<1>4. Once(t)
  <2> SUFFICES ASSUME NEW i \in 1 .. n, NEW j \in 1 .. n, t[i] = t[j] PROVE i = j
    BY <1>3 DEF Once
  <2>1. n + 1 - i \in 1 .. n /\ n + 1 - j \in 1 .. n
    BY <1>1
  <2>2. s[n + 1 - i] = s[n + 1 - j]
    BY <1>3
  <2>3. n + 1 - i = n + 1 - j
    BY <1>1, <2>1, <2>2 DEF Once
  <2> QED
    BY <1>1, <2>3
<1>5. \A k \in 0 .. n + 1 : Stop(h, t, k) = Stop(h, s, n + 1 - k)
  <2> SUFFICES ASSUME NEW k \in 0 .. n + 1 PROVE Stop(h, t, k) = Stop(h, s, n + 1 - k)
    OBVIOUS
  <2>1. k \in 1 .. n <=> n + 1 - k \in 1 .. n
    BY <1>1
  <2> HIDE DEF s, n
  <2> QED
    BY <1>3, <2>1 DEF Stop, s, n
<1>6. ASSUME NEW k \in 0 .. n PROVE m.prev[Stop(h, t, k)] = Stop(h, t, k + 1)
  <2>1. n - k \in 0 .. n /\ k \in 0 .. n + 1 /\ k + 1 \in 0 .. n + 1
        /\ n + 1 - k = (n - k) + 1 /\ n + 1 - (k + 1) = n - k
    <3> HIDE DEF n
    <3> QED
      BY <1>1
  <2>2. m.prev[Stop(h, s, (n - k) + 1)] = Stop(h, s, n - k)
    BY <1>1, <2>1 DEF Ring
  <2> HIDE DEF s, n
  <2> QED
    BY <1>5, <2>1, <2>2
<1>7. Walk(m.prev, h) = t
  <2> HIDE DEF s, n
  <2> QED
    BY <1>1, <1>3, <1>4, <1>6, WalkRound
<1> QED
  BY <1>2, <1>7 DEF t

(* Stores into an entry that is on no list.                                *)
LEMMA SoundTouched ==
    ASSUME NEW m, NEW R, NEW c, Sound(m, R, c),
           NEW e \in Entries, NowhereIn(e, c), NEW x \in Cell, NEW y \in Cell
    PROVE  Sound([m EXCEPT !.next[e] = x, !.prev[e] = y], R, c)
<1> DEFINE r == [m EXCEPT !.next[e] = x, !.prev[e] = y]
<1>1. /\ m \in Memory(Cell) /\ Clean(m) /\ R \subseteq Heads
      /\ \A h \in R : Ring(m, h, c[h])
  BY DEF Sound
<1>2. e \in Cell /\ e \notin Sentinels /\ e \notin Heads
  BY CellsDiffer DEF Cell, Sentinels
<1>3. /\ r \in Memory(Cell)
      /\ \A z \in Cell : z # e => r.next[z] = m.next[z] /\ r.prev[z] = m.prev[z]
  BY <1>1, <1>2 DEF Memory
<1> HIDE DEF r
<1>4. Clean(r)
  BY <1>1, <1>2, <1>3 DEF Clean, Sentinels, Cell
<1>5. ASSUME NEW h \in R PROVE Ring(r, h, c[h])
  <2>1. h \in Heads /\ Ring(m, h, c[h]) /\ Len(c[h]) \in Nat
    BY <1>1, SoundHead
  <2>2. \A k \in Int : Stop(h, c[h], k) \in Cell
    BY <2>1, SoundHead
  <2>3. \A k \in Int : Stop(h, c[h], k) # e
    BY <1>2, <2>1, StopIn, SoundHead DEF NowhereIn
  <2> QED
    BY <1>3, <2>1, <2>2, <2>3, RingKept
<1> QED
  BY <1>3, <1>4, <1>5 DEF Sound, r

(* INIT_LIST_HEAD of a head without entries.                               *)
LEMMA SoundInit ==
    ASSUME NEW m, NEW R, NEW c, Sound(m, R, c), NEW h \in Heads, c[h] = << >>
    PROVE  Sound(INIT_LIST_HEAD(m, h), R \union {h}, c)
<1> DEFINE r == INIT_LIST_HEAD(m, h)
<1>1. /\ m \in Memory(Cell) /\ Clean(m) /\ R \subseteq Heads
      /\ \A g \in R : Ring(m, g, c[g])
  BY DEF Sound
<1>2. h \in Cell /\ h \notin Sentinels
  BY CellsDiffer DEF Cell, Sentinels
<1>3. /\ r \in Memory(Cell)
      /\ \A z \in Cell : z # h => r.next[z] = m.next[z] /\ r.prev[z] = m.prev[z]
      /\ r.next[h] = h /\ r.prev[h] = h
  BY <1>1, <1>2 DEF Memory, INIT_LIST_HEAD
<1> HIDE DEF r
<1>4. Clean(r)
  BY <1>1, <1>2, <1>3 DEF Clean, Sentinels, Cell
<1>5. ASSUME NEW g \in R \union {h} PROVE Ring(r, g, c[g])
  <2>1. CASE g = h
    <3>1. Len(c[h]) = 0
      BY EmptySeq
    <3>2. \A k \in Int : Stop(h, c[h], k) = h
      BY <3>1 DEF Stop
    <3> QED
      BY <1>3, <2>1, <3>1, <3>2 DEF Ring
  <2>2. CASE g # h
    <3>1. g \in Heads /\ Ring(m, g, c[g]) /\ Len(c[g]) \in Nat
      BY <1>1, <2>2, SoundHead
    <3>2. \A k \in Int : Stop(g, c[g], k) \in Cell
      BY <3>1, SoundHead
    <3>3. \A k \in Int : Stop(g, c[g], k) # Stop(h, c[h], 0)
      BY <2>2, <3>1, RingsApart
    <3>4. Stop(h, c[h], 0) = h
      BY DEF Stop
    <3> QED
      BY <1>3, <3>1, <3>2, <3>3, <3>4, RingKept
  <2> QED
    BY <2>1, <2>2
<1> QED
  BY <1>1, <1>3, <1>4, <1>5 DEF Sound, r

(* An operation rewrites the heads in S, and may link the entries in X that *)
(* were on no list: what is left to show of it are the rings it makes.      *)
Rewrites(m, R, c, S, X, r, Q, d) ==
    /\ S \subseteq Heads /\ X \subseteq Entries /\ \A x \in X : NowhereIn(x, c)
    /\ r \in Memory(Cell) /\ d \in [Heads -> Seq(Entries)]
    /\ Q \subseteq R /\ R \ Q \subseteq S
    /\ \A h \in Heads \ S : d[h] = c[h]
    /\ \A x \in Cell \ (S \union X) : (\A g \in S : x \notin ToSet(c[g]))
            => r.next[x] = m.next[x] /\ r.prev[x] = m.prev[x]
    /\ \A g \in S :
          /\ Once(d[g]) /\ (g \in Q => Ring(r, g, d[g])) /\ (g \notin Q => d[g] = << >>)
          /\ \A x \in ToSet(d[g]) : x \in X \/ \E f \in S : x \in ToSet(c[f])
          /\ \A f \in S \ {g} : ToSet(d[f]) \intersect ToSet(d[g]) = {}

LEMMA SoundStep ==
    ASSUME NEW m, NEW R, NEW c, Sound(m, R, c), NEW S, NEW X, NEW r, NEW Q, NEW d,
           Rewrites(m, R, c, S, X, r, Q, d)
    PROVE  Sound(r, Q, d)
<1>0. /\ S \subseteq Heads /\ X \subseteq Entries /\ \A x \in X : NowhereIn(x, c)
      /\ r \in Memory(Cell) /\ d \in [Heads -> Seq(Entries)]
      /\ Q \subseteq R /\ \A h \in R : h \notin Q => h \in S
      /\ \A h \in Heads \ S : d[h] = c[h]
      /\ \A x \in Cell \ (S \union X) : (\A g \in S : x \notin ToSet(c[g]))
              => r.next[x] = m.next[x] /\ r.prev[x] = m.prev[x]
      /\ \A g \in S :
            /\ Once(d[g]) /\ (g \in Q => Ring(r, g, d[g])) /\ (g \notin Q => d[g] = << >>)
            /\ \A x \in ToSet(d[g]) : x \in X \/ \E f \in S : x \in ToSet(c[f])
            /\ \A f \in S : f # g => ToSet(d[f]) \intersect ToSet(d[g]) = {}
  BY DEF Rewrites
<1>1. /\ Clean(m) /\ R \subseteq Heads /\ \A h \in R : Ring(m, h, c[h])
      /\ \A h \in Heads \ R : c[h] = << >>
      /\ \A g \in Heads : Once(c[g])
      /\ \A g, h \in Heads : g # h => ToSet(c[g]) \intersect ToSet(c[h]) = {}
  BY DEF Sound, Apart
<1>2. \A g \in Heads : ToSet(c[g]) \subseteq Entries
  BY SoundHead, Members
<1>3. Clean(r)
  <2> SUFFICES ASSUME NEW x \in Sentinels PROVE r.next[x] = NULL /\ r.prev[x] = NULL
    BY DEF Clean
  <2>1. x \in Cell /\ x \notin Heads /\ x \notin Entries
    BY CellsDiffer DEF Cell, Sentinels
  <2>2. m.next[x] = NULL /\ m.prev[x] = NULL
    BY <1>1 DEF Clean
  <2>3. x \in Cell \ (S \union X) /\ \A g \in S : x \notin ToSet(c[g])
    BY <1>0, <1>2, <2>1
  <2> QED
    BY <1>0, <2>2, <2>3
<1>4. \A h \in Heads \ Q : d[h] = << >>
  BY <1>0, <1>1
<1>5. Apart(d)
  <2>1. \A g \in Heads : Once(d[g])
    BY <1>0, <1>1
  <2>2. ASSUME NEW f \in Heads, NEW g \in Heads, f # g
        PROVE  ToSet(d[f]) \intersect ToSet(d[g]) = {}
    <3>1. CASE f \in S /\ g \in S
      BY <1>0, <2>2, <3>1
    <3>2. CASE f \notin S /\ g \notin S
      BY <1>0, <1>1, <2>2, <3>2
    <3>3. ASSUME NEW p \in S, NEW q \in Heads \ S
          PROVE  ToSet(d[p]) \intersect ToSet(d[q]) = {}
      <4> SUFFICES ASSUME NEW x \in ToSet(d[p]), x \in ToSet(c[q]) PROVE FALSE
        BY <1>0, <3>3
      <4>1. CASE x \in X
        BY <1>0, <3>3, <4>1 DEF NowhereIn
      <4>2. CASE \E h \in S : x \in ToSet(c[h])
        BY <1>0, <1>1, <3>3, <4>2
      <4>3. p \in S /\ x \in ToSet(d[p])
        BY <3>3
      <4>4. x \in X \/ \E h \in S : x \in ToSet(c[h])
        BY <1>0, <4>3
      <4> QED
        BY <4>1, <4>2, <4>4
    <3> QED
      BY <2>2, <3>1, <3>2, <3>3
  <2> QED
    BY <2>1, <2>2 DEF Apart
<1>6. ASSUME NEW h \in Q PROVE Ring(r, h, d[h])
  <2>1. CASE h \in S
    BY <1>0, <2>1
  <2>2. CASE h \notin S
    <3>1. h \in Heads /\ d[h] = c[h] /\ Ring(m, h, c[h]) /\ Len(c[h]) \in Nat
      BY <1>0, <1>1, <2>2, SoundHead
    <3>2. ASSUME NEW k \in 0 .. Len(c[h]) + 1
          PROVE  LET x == Stop(h, c[h], k)
                 IN  r.next[x] = m.next[x] /\ r.prev[x] = m.prev[x]
      <4>1. PICK x \in Cell : x = Stop(h, c[h], k)
        BY <3>1, SoundHead
      <4>2. x = h \/ x \in ToSet(c[h])
        BY <3>1, <4>1, StopIn, SoundHead
      <4>3. x \notin S /\ x \notin X
        BY <1>0, <1>2, <2>2, <3>1, <4>2, CellsDiffer DEF NowhereIn
      <4>4. ASSUME NEW g \in S PROVE x \notin ToSet(c[g])
        <5>1. g \in Heads /\ g # h /\ ToSet(c[g]) \intersect ToSet(c[h]) = {}
          BY <1>0, <1>1, <2>2, <3>1
        <5>2. ToSet(c[g]) \subseteq Entries /\ h \notin Entries
          BY <1>2, <3>1, <5>1, CellsDiffer
        <5> QED
          BY <4>2, <5>1, <5>2
      <4> QED
        BY <1>0, <4>1, <4>3, <4>4
    <3> QED
      BY <3>1, <3>2, RingKept
  <2> QED
    BY <2>1, <2>2
<1> QED
  BY <1>0, <1>1, <1>3, <1>4, <1>5, <1>6 DEF Sound

(* The same for an operation on one list.                                  *)
LEMMA SoundOne ==
    ASSUME NEW m, NEW R, NEW c, Sound(m, R, c), NEW h \in R, h \in Heads,
           NEW X \in SUBSET Entries, \A x \in X : NowhereIn(x, c),
           NEW r \in Memory(Cell), NEW t \in Seq(Entries),
           Once(t), ToSet(t) \subseteq ToSet(c[h]) \union X, Ring(r, h, t),
           \A x \in Cell : x # h /\ x \notin X /\ x \notin ToSet(c[h])
                 => r.next[x] = m.next[x] /\ r.prev[x] = m.prev[x]
    PROVE  Sound(r, R, [c EXCEPT ![h] = t])
<1> DEFINE d == [c EXCEPT ![h] = t]
           S == {h}
<1>1. /\ d \in [Heads -> Seq(Entries)] /\ d[h] = t
      /\ \A g \in Heads \ {h} : d[g] = c[g]
  BY DEF Sound
<1> HIDE DEF d
<1>2. S \in SUBSET Heads /\ R \in SUBSET R
  OBVIOUS
<1>3. \A g \in Heads \ S : d[g] = c[g]
  BY <1>1
<1>4. \A x \in Cell \ (S \union X) : (\A g \in S : x \notin ToSet(c[g]))
              => r.next[x] = m.next[x] /\ r.prev[x] = m.prev[x]
  OBVIOUS
<1>5. \A g \in S : Once(d[g])
  BY <1>1
<1>6. \A g \in S : \A x \in ToSet(d[g]) : x \in X \/ \E f \in S : x \in ToSet(c[f])
  BY <1>1
<1>7. \A f, g \in S : f # g => ToSet(d[f]) \intersect ToSet(d[g]) = {}
  OBVIOUS
<1>8. \A g \in S \intersect R : Ring(r, g, d[g])
  BY <1>1
<1>9. (\A g \in S : g \notin R => d[g] = << >>) /\ (\A g \in R : g \notin R => g \in S)
  OBVIOUS
<1> HIDE DEF S
<1>10. Rewrites(m, R, c, S, X, r, R, d)
  BY <1>1, <1>2, <1>3, <1>4, <1>5, <1>6, <1>7, <1>8, <1>9 DEF Rewrites
<1>11. Sound(r, R, d)
  BY <1>10, SoundStep
<1> QED
  BY <1>11 DEF d

(* t is u with s inserted behind its q-th member.                          *)
Inserted(t, u, q, s) ==
    /\ t \in Seq(Entries) /\ u \in Seq(Entries) /\ s \in Seq(Entries)
    /\ q \in 0 .. Len(u)
    /\ Len(t) = Len(u) + Len(s)
    /\ \A k \in 1 .. q : t[k] = u[k]
    /\ \A k \in 1 .. Len(s) : t[q + k] = s[k]
    /\ \A k \in q + 1 .. Len(u) : t[k + Len(s)] = u[k]

LEMMA InsertedMembers ==
    ASSUME NEW t, NEW u, NEW q, NEW s, Inserted(t, u, q, s)
    PROVE  ToSet(t) = ToSet(u) \union ToSet(s)
<1>1. PICK n \in Nat, l \in Nat : n = Len(s) /\ l = Len(u)
  BY LenProperties DEF Inserted
<1>2. q \in 0 .. l /\ Len(t) = l + n
  BY <1>1 DEF Inserted
<1>3. ASSUME NEW x \in ToSet(t) PROVE x \in ToSet(u) \union ToSet(s)
  <2>1. PICK i \in 1 .. l + n : t[i] = x
    BY <1>2, <1>3, Members DEF Inserted
  <2>2. CASE i \in 1 .. q
    <3>1. i \in 1 .. l /\ u[i] = x
      BY <1>2, <2>1, <2>2 DEF Inserted
    <3> QED
      BY <1>1, <3>1, Members DEF Inserted
  <2>3. CASE i - q \in 1 .. n
    <3>1. PICK k \in 1 .. n : i = q + k
      BY <1>2, <2>1, <2>3
    <3>2. s[k] = x
      BY <1>1, <2>1, <3>1 DEF Inserted
    <3> QED
      BY <1>1, <3>2, Members DEF Inserted
  <2>4. CASE i - n \in q + 1 .. l
    <3>1. PICK k \in q + 1 .. l : i = k + n /\ k \in 1 .. l
      BY <1>2, <2>1, <2>4
    <3>2. u[k] = x
      BY <1>1, <2>1, <3>1 DEF Inserted
    <3> QED
      BY <1>1, <3>1, <3>2, Members DEF Inserted
  <2> QED
    BY <1>2, <2>1, <2>2, <2>3, <2>4
<1>4. ASSUME NEW x \in ToSet(u) PROVE x \in ToSet(t)
  <2>1. PICK i \in 1 .. l : u[i] = x
    BY <1>1, <1>4, Members DEF Inserted
  <2>2. CASE i \in 1 .. q
    <3>1. i \in 1 .. l + n /\ t[i] = x
      BY <1>2, <2>1, <2>2 DEF Inserted
    <3> QED
      BY <1>2, <3>1, Members DEF Inserted
  <2>3. CASE i \in q + 1 .. l
    <3>1. i + n \in 1 .. l + n /\ t[i + n] = x
      BY <1>1, <1>2, <2>1, <2>3 DEF Inserted
    <3> QED
      BY <1>2, <3>1, Members DEF Inserted
  <2> QED
    BY <1>2, <2>2, <2>3
<1>5. ASSUME NEW x \in ToSet(s) PROVE x \in ToSet(t)
  <2>1. PICK i \in 1 .. n : s[i] = x
    BY <1>1, <1>5, Members DEF Inserted
  <2>2. q + i \in 1 .. l + n /\ t[q + i] = x
    BY <1>1, <1>2, <2>1 DEF Inserted
  <2> QED
    BY <1>2, <2>2, Members DEF Inserted
<1> QED
  BY <1>3, <1>4, <1>5

LEMMA InsertedOnce ==
    ASSUME NEW t, NEW u, NEW q, NEW s, Inserted(t, u, q, s),
           Once(u), Once(s), ToSet(u) \intersect ToSet(s) = {}
    PROVE  Once(t)
<1>1. PICK n \in Nat, l \in Nat : n = Len(s) /\ l = Len(u)
  BY LenProperties DEF Inserted
<1>2. q \in 0 .. l /\ Len(t) = l + n
  BY <1>1 DEF Inserted
<1> DEFINE Place(i) == IF i <= q THEN i ELSE IF i <= q + n THEN i - q ELSE i - n
           InS(i) == q < i /\ i <= q + n
<1>3. ASSUME NEW i \in 1 .. l + n
      PROVE  /\ InS(i) => Place(i) \in 1 .. n /\ t[i] = s[Place(i)]
             /\ ~ InS(i) => Place(i) \in 1 .. l /\ t[i] = u[Place(i)]
  <2>1. CASE i \in 1 .. q
    BY <1>2, <2>1 DEF Inserted
  <2>2. CASE i - q \in 1 .. n
    <3>1. PICK k \in 1 .. n : i = q + k
      BY <1>2, <2>2
    <3>2. t[q + k] = s[k]
      BY <1>1 DEF Inserted
    <3> QED
      BY <1>2, <3>1, <3>2
  <2>3. CASE i - n \in q + 1 .. l
    <3>1. PICK k \in q + 1 .. l : i = k + n
      BY <1>2, <2>3
    <3>2. t[k + n] = u[k]
      BY <1>1 DEF Inserted
    <3> QED
      BY <1>2, <3>1, <3>2
  <2> QED
    BY <1>2, <2>1, <2>2, <2>3
<1>4. \A i, j \in 1 .. l + n : (InS(i) <=> InS(j)) /\ Place(i) = Place(j) => i = j
  BY <1>2
<1>5. \A i \in 1 .. l + n : /\ InS(i) => t[i] \in ToSet(s)
                            /\ ~ InS(i) => t[i] \in ToSet(u)
  <2> HIDE DEF InS, Place
  <2> QED
    BY <1>1, <1>3, Members DEF Inserted
<1> HIDE DEF InS, Place
<1> SUFFICES ASSUME NEW i \in 1 .. l + n, NEW j \in 1 .. l + n, t[i] = t[j] PROVE i = j
  BY <1>2 DEF Once
<1>6. InS(i) <=> InS(j)
  BY <1>5
<1>7. Place(i) = Place(j)
  <2>1. CASE InS(i)
    BY <1>1, <1>3, <1>6, <2>1 DEF Once
  <2>2. CASE ~ InS(i)
    BY <1>1, <1>3, <1>6, <2>2 DEF Once
  <2> QED
    BY <2>1, <2>2
<1> QED
  BY <1>4, <1>6, <1>7

LEMMA PartsOnce ==
    ASSUME NEW t, NEW u, NEW q, NEW s, Inserted(t, u, q, s), Once(t)
    PROVE  Once(u) /\ Once(s) /\ ToSet(u) \intersect ToSet(s) = {}
<1>1. PICK n \in Nat, l \in Nat : n = Len(s) /\ l = Len(u)
  BY LenProperties DEF Inserted
<1>2. q \in 0 .. l /\ Len(t) = l + n
  BY <1>1 DEF Inserted
<1> DEFINE Place(i) == IF i <= q THEN i ELSE i + n
<1>3. \A i \in 1 .. l : Place(i) \in 1 .. l + n /\ t[Place(i)] = u[i]
  <2> SUFFICES ASSUME NEW i \in 1 .. l
               PROVE  Place(i) \in 1 .. l + n /\ t[Place(i)] = u[i]
    OBVIOUS
  <2>1. CASE i \in 1 .. q
    BY <1>2, <2>1 DEF Inserted
  <2>2. CASE i \in q + 1 .. l
    BY <1>1, <1>2, <2>2 DEF Inserted
  <2> QED
    BY <1>2, <2>1, <2>2
<1>4. \A i \in 1 .. n : q + i \in 1 .. l + n /\ t[q + i] = s[i]
  BY <1>1, <1>2 DEF Inserted
<1>5. \A i, j \in 1 .. l : Place(i) = Place(j) => i = j
  BY <1>2
<1>6. \A i \in 1 .. l : \A j \in 1 .. n : Place(i) # q + j
  BY <1>2
<1> HIDE DEF Place
<1>7. Once(u)
  BY <1>1, <1>2, <1>3, <1>5 DEF Once
<1>8. Once(s)
  <2>1. \A i, j \in 1 .. n : q + i = q + j => i = j
    BY <1>2
  <2> QED
    BY <1>1, <1>2, <1>4, <2>1 DEF Once
<1>9. ASSUME NEW x \in ToSet(u), x \in ToSet(s) PROVE FALSE
  <2>1. PICK i \in 1 .. l : u[i] = x
    BY <1>1, Members DEF Inserted
  <2>2. PICK j \in 1 .. n : s[j] = x
    BY <1>1, <1>9, Members DEF Inserted
  <2>3. Place(i) = q + j
    BY <1>2, <1>3, <1>4, <2>1, <2>2 DEF Once
  <2> QED
    BY <1>6, <2>3
<1> QED
  BY <1>7, <1>8, <1>9

(* The ring of t goes through u, with a detour through s behind its q-th    *)
(* cell.                                                                    *)
LEMMA InsertedStops ==
    ASSUME NEW t, NEW u, NEW q, NEW s, Inserted(t, u, q, s), NEW h
    PROVE  /\ \A k \in 0 .. q : Stop(h, t, k) = Stop(h, u, k)
           /\ \A k \in 1 .. Len(s) : Stop(h, t, q + k) = s[k]
           /\ \A k \in q + 1 .. Len(u) + 1 : Stop(h, t, k + Len(s)) = Stop(h, u, k)
<1>1. PICK n \in Nat, l \in Nat : n = Len(s) /\ l = Len(u)
  BY LenProperties DEF Inserted
<1>2. q \in 0 .. l /\ Len(t) = l + n
  BY <1>1 DEF Inserted
<1>3. ASSUME NEW k \in 0 .. q PROVE Stop(h, t, k) = Stop(h, u, k)
  <2>1. k \in 1 .. l + n <=> k \in 1 .. l
    BY <1>2
  <2>2. k \in 1 .. l => k \in 1 .. q
    BY <1>2
  <2> QED
    BY <1>1, <1>2, <2>1, <2>2 DEF Stop, Inserted
<1>4. ASSUME NEW k \in 1 .. n PROVE Stop(h, t, q + k) = s[k]
  <2>1. q + k \in 1 .. l + n
    BY <1>2
  <2> QED
    BY <1>1, <1>2, <2>1 DEF Stop, Inserted
<1>5. ASSUME NEW k \in q + 1 .. l + 1 PROVE Stop(h, t, k + n) = Stop(h, u, k)
  <2>1. /\ k + n \in 1 .. l + n <=> k \in 1 .. l
        /\ k \in 1 .. l => k \in q + 1 .. l
    BY <1>2
  <2> QED
    BY <1>1, <1>2, <2>1 DEF Stop, Inserted
<1> QED
  BY <1>1, <1>3, <1>4, <1>5

(* The pointers of such a ring: those of u but for the one behind its q-th  *)
(* cell, those inside s, and the two joints.                                *)
Threads(r, s, first, last) ==
    \A k \in first .. last - 1 : r.next[s[k]] = s[k + 1] /\ r.prev[s[k + 1]] = s[k]

Detour(r, h, u, q, s) ==
    /\ \A k \in 0 .. Len(u) \ {q} : /\ r.next[Stop(h, u, k)] = Stop(h, u, k + 1)
                                    /\ r.prev[Stop(h, u, k + 1)] = Stop(h, u, k)
    /\ Threads(r, s, 1, Len(s))
    /\ r.next[Stop(h, u, q)] = s[1] /\ r.prev[s[1]] = Stop(h, u, q)
    /\ r.next[s[Len(s)]] = Stop(h, u, q + 1) /\ r.prev[Stop(h, u, q + 1)] = s[Len(s)]

LEMMA RingDetour ==
    ASSUME NEW t, NEW u, NEW q, NEW s, Inserted(t, u, q, s), s # << >>, NEW h, NEW r
    PROVE  Ring(r, h, t) <=> Detour(r, h, u, q, s)
<1>1. PICK n \in Nat, l \in Nat : n = Len(s) /\ l = Len(u)
  BY LenProperties DEF Inserted
<1>2. q \in 0 .. l /\ Len(t) = l + n /\ n >= 1
  BY <1>1, EmptySeq DEF Inserted
<1>3. /\ \A k \in 0 .. q : Stop(h, t, k) = Stop(h, u, k)
      /\ \A k \in 1 .. n : Stop(h, t, q + k) = s[k]
      /\ \A k \in q + 1 .. l + 1 : Stop(h, t, k + n) = Stop(h, u, k)
  <2>1. \A k \in 0 .. q : Stop(h, t, k) = Stop(h, u, k)
    BY InsertedStops
  <2>2. \A k \in 1 .. Len(s) : Stop(h, t, q + k) = s[k]
    BY InsertedStops
  <2>3. \A k \in q + 1 .. Len(u) + 1 : Stop(h, t, k + Len(s)) = Stop(h, u, k)
    BY InsertedStops
  <2> QED
    BY <1>1, <2>1, <2>2, <2>3
<1> DEFINE Tied(x, y) == r.next[x] = y /\ r.prev[y] = x
           T(k) == Stop(h, t, k)
           U(k) == Stop(h, u, k)
<1>4. Ring(r, h, t) <=> \A k \in 0 .. l + n : Tied(T(k), T(k + 1))
  BY <1>2 DEF Ring
<1>5. Detour(r, h, u, q, s) <=> /\ \A k \in 0 .. l \ {q} : Tied(U(k), U(k + 1))
                                /\ \A k \in 1 .. n - 1 : Tied(s[k], s[k + 1])
                                /\ Tied(U(q), s[1]) /\ Tied(s[n], U(q + 1))
  BY <1>1 DEF Detour, Threads
<1>6. /\ \A k \in 0 .. q : T(k) = U(k)
      /\ \A k \in 1 .. n : T(q + k) = s[k]
      /\ \A k \in q + 1 .. l + 1 : T(k + n) = U(k)
  BY <1>3
<1> HIDE DEF Tied, T, U
<1>7. ASSUME \A k \in 0 .. l + n : Tied(T(k), T(k + 1))
      PROVE  /\ \A k \in 0 .. l \ {q} : Tied(U(k), U(k + 1))
             /\ \A k \in 1 .. n - 1 : Tied(s[k], s[k + 1])
             /\ Tied(U(q), s[1]) /\ Tied(s[n], U(q + 1))
  <2>1. ASSUME NEW k \in 0 .. l \ {q} PROVE Tied(U(k), U(k + 1))
    <3>1. CASE k < q
      <4>1. k \in 0 .. l + n /\ k \in 0 .. q /\ k + 1 \in 0 .. q
        BY <1>2, <3>1
      <4> QED
        BY <1>6, <1>7, <4>1
    <3>2. CASE k > q
      <4>1. /\ k + n \in 0 .. l + n /\ k \in q + 1 .. l + 1 /\ k + 1 \in q + 1 .. l + 1
            /\ (k + 1) + n = (k + n) + 1
        BY <1>2, <3>2
      <4> QED
        BY <1>6, <1>7, <4>1
    <3> QED
      BY <1>2, <3>1, <3>2
  <2>2. ASSUME NEW k \in 1 .. n - 1 PROVE Tied(s[k], s[k + 1])
    <3>1. /\ q + k \in 0 .. l + n /\ k \in 1 .. n /\ k + 1 \in 1 .. n
          /\ q + (k + 1) = (q + k) + 1
      BY <1>2
    <3> QED
      BY <1>6, <1>7, <3>1
  <2>3. Tied(U(q), s[1])
    <3>1. q \in 0 .. l + n /\ q \in 0 .. q /\ 1 \in 1 .. n
      BY <1>2
    <3> QED
      BY <1>6, <1>7, <3>1
  <2>4. Tied(s[n], U(q + 1))
    <3>1. q + n \in 0 .. l + n /\ n \in 1 .. n /\ q + 1 \in q + 1 .. l + 1
          /\ (q + 1) + n = (q + n) + 1
      BY <1>2
    <3> QED
      BY <1>6, <1>7, <3>1
  <2> QED
    BY <2>1, <2>2, <2>3, <2>4
<1>8. ASSUME \A k \in 0 .. l \ {q} : Tied(U(k), U(k + 1)),
             \A k \in 1 .. n - 1 : Tied(s[k], s[k + 1]),
             Tied(U(q), s[1]), Tied(s[n], U(q + 1)), NEW i \in 0 .. l + n
      PROVE  Tied(T(i), T(i + 1))
  <2>1. CASE i < q
    <3>1. i \in 0 .. l \ {q} /\ i \in 0 .. q /\ i + 1 \in 0 .. q
      BY <1>2, <2>1
    <3> QED
      BY <1>6, <1>8, <3>1
  <2>2. CASE i = q
    <3>1. q \in 0 .. q /\ 1 \in 1 .. n
      BY <1>2
    <3> QED
      BY <1>6, <1>8, <2>2, <3>1
  <2>3. CASE q < i /\ i < q + n
    <3>1. PICK k \in 1 .. n - 1 : i = q + k
      BY <1>2, <2>3
    <3>2. k \in 1 .. n /\ k + 1 \in 1 .. n /\ i + 1 = q + (k + 1)
      BY <1>2, <3>1
    <3> QED
      BY <1>6, <1>8, <3>1, <3>2
  <2>4. CASE i = q + n
    <3>1. n \in 1 .. n /\ q + 1 \in q + 1 .. l + 1 /\ i + 1 = (q + 1) + n
      BY <1>2, <2>4
    <3> QED
      BY <1>6, <1>8, <2>4, <3>1
  <2>5. CASE i > q + n
    <3>1. PICK k \in q + 1 .. l : i = k + n
      BY <1>2, <2>5
    <3>2. /\ k \in 0 .. l \ {q} /\ k \in q + 1 .. l + 1 /\ k + 1 \in q + 1 .. l + 1
          /\ i + 1 = (k + 1) + n
      BY <1>2, <3>1
    <3> QED
      BY <1>6, <1>8, <3>1, <3>2
  <2> QED
    BY <1>2, <2>1, <2>2, <2>3, <2>4, <2>5
<1> QED
  BY <1>4, <1>5, <1>7, <1>8

(* The cells of one ring, seen from both ends.                             *)
LEMMA RingCells ==
    ASSUME NEW m, NEW R, NEW c, Sound(m, R, c), NEW h \in R
    PROVE  \E n \in Nat :
              /\ n = Len(c[h]) /\ h \in Heads
              /\ \A k \in 0 .. n + 1 : /\ Stop(h, c[h], k) \in Cell
                                       /\ Stop(h, c[h], k) \in {h} \union ToSet(c[h])
              /\ \A k \in 0 .. n :
                    /\ m.next[Stop(h, c[h], k)] = Stop(h, c[h], k + 1)
                    /\ m.prev[Stop(h, c[h], k + 1)] = Stop(h, c[h], k)
              /\ \A i, j \in 0 .. n : i # j => Stop(h, c[h], i) # Stop(h, c[h], j)
              /\ \A i, j \in 1 .. n + 1 : i # j => Stop(h, c[h], i) # Stop(h, c[h], j)
<1>1. h \in Heads /\ Ring(m, h, c[h])
  BY DEF Sound
<1>2. c[h] \in Seq(Entries) /\ Once(c[h])
  BY <1>1, SoundHead
<1>3. PICK n \in Nat : n = Len(c[h])
  BY <1>2, LenProperties
<1>4. \A k \in 0 .. n : /\ m.next[Stop(h, c[h], k)] = Stop(h, c[h], k + 1)
                        /\ m.prev[Stop(h, c[h], k + 1)] = Stop(h, c[h], k)
  BY <1>1, <1>3 DEF Ring
<1>5. \A k \in 0 .. n + 1 : Stop(h, c[h], k) \in Cell
  <2>1. \A k \in Int : Stop(h, c[h], k) \in Cell
    BY <1>1, SoundHead
  <2> QED
    BY <2>1
<1>6. \A k \in 0 .. n + 1 : Stop(h, c[h], k) \in {h} \union ToSet(c[h])
  <2>1. \A k \in Int : Stop(h, c[h], k) \in {h} \union ToSet(c[h])
    BY <1>2, StopIn
  <2> QED
    BY <2>1
<1>7. \A i, j \in 0 .. n : i # j => Stop(h, c[h], i) # Stop(h, c[h], j)
  BY <1>1, <1>2, <1>3, StopFacts
<1>8. \A i, j \in 1 .. n + 1 : i # j => Stop(h, c[h], i) # Stop(h, c[h], j)
  BY <1>1, <1>2, <1>3, StopFacts
<1> QED
  BY <1>1, <1>3, <1>4, <1>5, <1>6, <1>7, <1>8

LEMMA OneMember ==
    ASSUME NEW e \in Entries
    PROVE  /\ <<e>> \in Seq(Entries) /\ Len(<<e>>) = 1 /\ <<e>> # << >>
           /\ ToSet(<<e>>) = {e} /\ Once(<<e>>) /\ <<e>>[1] = e
<1>1. <<e>> \in Seq(Entries) /\ Len(<<e>>) = 1 /\ <<e>>[1] = e /\ <<e>> # << >>
  OBVIOUS
<1>2. ToSet(<<e>>) = {e}
  BY DEF ToSet
<1>3. Once(<<e>>)
  BY <1>1 DEF Once
<1> QED
  BY <1>1, <1>2, <1>3

(* __list_add of an unlinked entry between two neighbours on a ring.       *)
LEMMA SoundInsert ==
    ASSUME NEW m, NEW R, NEW c, Sound(m, R, c), NEW h \in R,
           NEW e \in Entries, NowhereIn(e, c), NEW q, NEW t, Inserted(t, c[h], q, <<e>>)
    PROVE  Sound(insert_between(m, e, Stop(h, c[h], q), Stop(h, c[h], q + 1)),
                 R, [c EXCEPT ![h] = t])
<1>1. PICK n \in Nat :
              /\ n = Len(c[h]) /\ h \in Heads
              /\ \A k \in 0 .. n + 1 : /\ Stop(h, c[h], k) \in Cell
                                       /\ Stop(h, c[h], k) \in {h} \union ToSet(c[h])
              /\ \A k \in 0 .. n :
                    /\ m.next[Stop(h, c[h], k)] = Stop(h, c[h], k + 1)
                    /\ m.prev[Stop(h, c[h], k + 1)] = Stop(h, c[h], k)
              /\ \A i, j \in 0 .. n : i # j => Stop(h, c[h], i) # Stop(h, c[h], j)
              /\ \A i, j \in 1 .. n + 1 : i # j => Stop(h, c[h], i) # Stop(h, c[h], j)
  BY RingCells
<1>2. q \in 0 .. n /\ t \in Seq(Entries) /\ c[h] \in Seq(Entries)
  BY <1>1 DEF Inserted
<1>3. PICK a \in Cell, b \in Cell : a = Stop(h, c[h], q) /\ b = Stop(h, c[h], q + 1)
  <2>1. q \in 0 .. n + 1 /\ q + 1 \in 0 .. n + 1
    BY <1>2
  <2> QED
    BY <1>1, <2>1
<1> DEFINE r == insert_between(m, e, a, b)
<1>4. e \in Cell /\ e \notin Heads /\ m \in Memory(Cell)
  BY CellsDiffer DEF Cell, Sound
<1>5. /\ r \in Memory(Cell)
      /\ r.next = [m.next EXCEPT ![e] = b, ![a] = e]
      /\ r.prev = [m.prev EXCEPT ![b] = e, ![e] = a]
  BY <1>4 DEF insert_between, Memory
<1>6. m.next \in [Cell -> Cell] /\ m.prev \in [Cell -> Cell]
  BY <1>4 DEF Memory
<1> HIDE DEF r
<1>7. a # e /\ b # e /\ \A k \in 0 .. n + 1 : Stop(h, c[h], k) # e
  <2>1. \A k \in 0 .. n + 1 : Stop(h, c[h], k) # e
    BY <1>1, <1>4 DEF NowhereIn
  <2> QED
    BY <1>2, <1>3, <2>1
<1>8. /\ \A x \in Cell : x # e /\ x # a => r.next[x] = m.next[x]
      /\ \A x \in Cell : x # e /\ x # b => r.prev[x] = m.prev[x]
      /\ r.next[e] = b /\ r.next[a] = e /\ r.prev[b] = e /\ r.prev[e] = a
  BY <1>4, <1>5, <1>6, <1>7
<1>9. Ring(r, h, t)
  <2>1. ASSUME NEW k \in 0 .. n \ {q}
        PROVE  /\ r.next[Stop(h, c[h], k)] = Stop(h, c[h], k + 1)
               /\ r.prev[Stop(h, c[h], k + 1)] = Stop(h, c[h], k)
    <3>1. k \in 0 .. n /\ k \in 0 .. n + 1 /\ k + 1 \in 0 .. n + 1 /\ k + 1 \in 1 .. n + 1
          /\ q + 1 \in 1 .. n + 1 /\ k + 1 # q + 1
      BY <1>2
    <3>2. Stop(h, c[h], k) # a /\ Stop(h, c[h], k + 1) # b
      BY <1>1, <1>2, <1>3, <2>1, <3>1
    <3> QED
      BY <1>1, <1>7, <1>8, <3>1, <3>2
  <2>2. Threads(r, <<e>>, 1, Len(<<e>>))
    BY OneMember DEF Threads
  <2>3. Detour(r, h, c[h], q, <<e>>)
    BY <1>1, <1>3, <1>8, <2>1, <2>2, OneMember DEF Detour
  <2> QED
    BY <2>3, RingDetour, OneMember
<1>10. Once(t) /\ ToSet(t) = ToSet(c[h]) \union {e}
  <2>1. Once(c[h]) /\ ToSet(c[h]) \intersect ToSet(<<e>>) = {}
    BY <1>1, SoundHead, OneMember DEF NowhereIn
  <2> QED
    BY <2>1, InsertedOnce, InsertedMembers, OneMember
<1>11. \A x \in Cell : x # h /\ x \notin {e} /\ x \notin ToSet(c[h])
            => r.next[x] = m.next[x] /\ r.prev[x] = m.prev[x]
  <2>1. a \in {h} \union ToSet(c[h]) /\ b \in {h} \union ToSet(c[h])
    <3>1. q \in 0 .. n + 1 /\ q + 1 \in 0 .. n + 1
      BY <1>2
    <3> QED
      BY <1>1, <1>3, <3>1
  <2> QED
    BY <1>8, <2>1
<1>12. Sound(r, R, [c EXCEPT ![h] = t])
  <2>1. {e} \in SUBSET Entries /\ \A x \in {e} : NowhereIn(x, c)
    OBVIOUS
  <2>2. h \in Heads /\ ToSet(t) \subseteq ToSet(c[h]) \union {e}
    BY <1>1, <1>10
  <2>3. t \in Seq(Entries) /\ r \in Memory(Cell) /\ Once(t)
    BY <1>2, <1>5, <1>10
  <2> QED
    BY <1>9, <1>11, <2>1, <2>2, <2>3, SoundOne
<1> QED
  BY <1>3, <1>12 DEF r

(* __list_del_entry: what joins the neighbours of an entry takes it out.   *)
LEMMA SoundUnlink ==
    ASSUME NEW m, NEW R, NEW c, Sound(m, R, c), NEW h \in R, NEW e \in Entries,
           NEW u, NEW q, Inserted(c[h], u, q, <<e>>)
    PROVE  /\ Sound(join(m, m.prev[e], m.next[e]), R, [c EXCEPT ![h] = u])
           /\ NowhereIn(e, [c EXCEPT ![h] = u])
           /\ m.prev[e] = Stop(h, u, q) /\ m.next[e] = Stop(h, u, q + 1)
           /\ m.prev[e] \in Cell \ {e} /\ m.next[e] \in Cell \ {e}
<1>1. h \in Heads /\ Ring(m, h, c[h]) /\ m \in Memory(Cell)
  BY DEF Sound
<1>2. c[h] \in Seq(Entries) /\ Once(c[h]) /\ u \in Seq(Entries)
  BY <1>1, SoundHead DEF Inserted
<1>3. /\ Once(u) /\ ToSet(u) \intersect {e} = {}
      /\ ToSet(c[h]) = ToSet(u) \union {e}
  <2>1. Once(u) /\ ToSet(u) \intersect ToSet(<<e>>) = {}
    BY <1>2, PartsOnce
  <2> QED
    BY <2>1, InsertedMembers, OneMember
<1>4. PICK l \in Nat : l = Len(u) /\ q \in 0 .. l
  BY <1>2, LenProperties DEF Inserted
<1>5. /\ \A k \in Int : Stop(h, u, k) \in Cell
      /\ \A k \in Int : Stop(h, u, k) \in {h} \union ToSet(u)
  <2>1. \A k \in Int : Stop(h, u, k) \in Entries \union {h}
    BY <1>1, <1>2, <1>3, StopFacts
  <2> QED
    BY <1>1, <1>2, <2>1, StopIn DEF Cell
<1>6. PICK a \in Cell, b \in Cell : a = Stop(h, u, q) /\ b = Stop(h, u, q + 1)
  <2>1. q \in Int /\ q + 1 \in Int
    BY <1>4
  <2> QED
    BY <1>5, <2>1
<1>7. a \in {h} \union ToSet(u) /\ b \in {h} \union ToSet(u) /\ h # e
  <2>1. q \in Int /\ q + 1 \in Int
    BY <1>4
  <2> QED
    BY <1>1, <1>5, <1>6, <2>1, CellsDiffer
<1>8. Detour(m, h, u, q, <<e>>)
  BY <1>1, RingDetour, OneMember
<1>9. m.prev[e] = a /\ m.next[e] = b
  BY <1>6, <1>8, OneMember DEF Detour
<1>10. \A k \in 0 .. l \ {q} : /\ m.next[Stop(h, u, k)] = Stop(h, u, k + 1)
                               /\ m.prev[Stop(h, u, k + 1)] = Stop(h, u, k)
  BY <1>4, <1>8 DEF Detour
<1> DEFINE r == join(m, a, b)
<1>11. /\ r \in Memory(Cell)
       /\ \A x \in Cell : x # a => r.next[x] = m.next[x]
       /\ \A x \in Cell : x # b => r.prev[x] = m.prev[x]
       /\ r.next[a] = b /\ r.prev[b] = a
  <2>1. /\ r \in Memory(Cell)
        /\ r.next = [m.next EXCEPT ![a] = b] /\ r.prev = [m.prev EXCEPT ![b] = a]
    BY <1>1 DEF join, Memory
  <2> HIDE DEF r
  <2> QED
    BY <1>1, <2>1 DEF Memory
<1> HIDE DEF r
<1>12. Ring(r, h, u)
  <2> SUFFICES ASSUME NEW k \in 0 .. l
               PROVE  /\ r.next[Stop(h, u, k)] = Stop(h, u, k + 1)
                      /\ r.prev[Stop(h, u, k + 1)] = Stop(h, u, k)
    BY <1>4 DEF Ring
  <2>1. CASE k = q
    BY <1>6, <1>11, <2>1
  <2>2. CASE k # q
    <3>1. k \in Int /\ k + 1 \in Int /\ k + 1 # q + 1
          /\ k + 1 \in 1 .. l + 1 /\ q + 1 \in 1 .. l + 1
      BY <1>4, <2>2
    <3>2. \A i, j \in 0 .. l : Stop(h, u, i) = Stop(h, u, j) => i = j
      BY <1>1, <1>2, <1>3, <1>4, StopFacts
    <3>3. \A i, j \in 1 .. l + 1 : Stop(h, u, i) = Stop(h, u, j) => i = j
      BY <1>1, <1>2, <1>3, <1>4, StopFacts
    <3>4. Stop(h, u, k) # a
      BY <1>4, <1>6, <2>2, <3>2
    <3>5. Stop(h, u, k + 1) # b
      BY <1>6, <3>1, <3>3
    <3> QED
      BY <1>5, <1>10, <1>11, <2>2, <3>1, <3>4, <3>5
  <2> QED
    BY <2>1, <2>2
<1>13. \A x \in Cell : x # h /\ x \notin ToSet(c[h])
            => r.next[x] = m.next[x] /\ r.prev[x] = m.prev[x]
  BY <1>3, <1>7, <1>11
<1>14. Sound(r, R, [c EXCEPT ![h] = u])
  <2>1. PICK X \in SUBSET Entries : X = {}
    OBVIOUS
  <2>2. ToSet(u) \subseteq ToSet(c[h]) \union X /\ \A x \in X : NowhereIn(x, c)
    BY <1>3, <2>1
  <2>3. \A x \in Cell : x # h /\ x \notin X /\ x \notin ToSet(c[h])
            => r.next[x] = m.next[x] /\ r.prev[x] = m.prev[x]
    BY <1>13, <2>1
  <2> QED
    BY <1>1, <1>2, <1>3, <1>11, <1>12, <2>2, <2>3, SoundOne
<1>15. NowhereIn(e, [c EXCEPT ![h] = u])
  <2> SUFFICES ASSUME NEW g \in Heads PROVE e \notin ToSet([c EXCEPT ![h] = u][g])
    BY DEF NowhereIn
  <2>1. c \in [Heads -> Seq(Entries)] /\ \A f \in Heads \ {h} : ToSet(c[h]) \intersect ToSet(c[f]) = {}
    BY <1>1 DEF Sound, Apart
  <2>2. CASE g = h
    BY <1>1, <1>3, <2>1, <2>2
  <2>3. CASE g # h
    BY <1>1, <1>3, <2>1, <2>3
  <2> QED
    BY <2>2, <2>3
<1> QED
  BY <1>3, <1>6, <1>7, <1>9, <1>14, <1>15 DEF r

(* __list_splice: the ring of a list that is not empty is linked in        *)
(* between two neighbours of another; its head keeps its old pointers.     *)
LEMMA SoundSplice ==
    ASSUME NEW m, NEW R, NEW c, Sound(m, R, c),
           NEW list \in R, NEW to \in R, list # to, c[list] # << >>,
           NEW q, NEW t, Inserted(t, c[to], q, c[list])
    PROVE  Sound(splice_between(m, list, Stop(to, c[to], q), Stop(to, c[to], q + 1)),
                 R \ {list}, [c EXCEPT ![list] = << >>, ![to] = t])
<1>1. PICK l \in Nat :
              /\ l = Len(c[to]) /\ to \in Heads
              /\ \A k \in 0 .. l + 1 : /\ Stop(to, c[to], k) \in Cell
                                       /\ Stop(to, c[to], k) \in {to} \union ToSet(c[to])
              /\ \A k \in 0 .. l :
                    /\ m.next[Stop(to, c[to], k)] = Stop(to, c[to], k + 1)
                    /\ m.prev[Stop(to, c[to], k + 1)] = Stop(to, c[to], k)
              /\ \A i, j \in 0 .. l : i # j => Stop(to, c[to], i) # Stop(to, c[to], j)
              /\ \A i, j \in 1 .. l + 1 : i # j => Stop(to, c[to], i) # Stop(to, c[to], j)
  BY RingCells
<1>2. PICK n \in Nat :
              /\ n = Len(c[list]) /\ list \in Heads
              /\ \A k \in 0 .. n + 1 : Stop(list, c[list], k) \in Cell
              /\ \A k \in 0 .. n :
                    /\ m.next[Stop(list, c[list], k)] = Stop(list, c[list], k + 1)
                    /\ m.prev[Stop(list, c[list], k + 1)] = Stop(list, c[list], k)
  BY RingCells
<1>3. /\ q \in 0 .. l /\ t \in Seq(Entries) /\ c[to] \in Seq(Entries)
      /\ c[list] \in Seq(Entries) /\ n >= 1 /\ Once(c[list]) /\ Once(c[to])
      /\ m \in Memory(Cell)
  <2>1. q \in 0 .. l /\ t \in Seq(Entries) /\ c[to] \in Seq(Entries) /\ c[list] \in Seq(Entries)
    BY <1>1 DEF Inserted
  <2>2. n >= 1
    BY <1>2, <2>1, EmptySeq
  <2> QED
    BY <1>1, <1>2, <2>1, <2>2, SoundHead DEF Sound
<1>4. PICK s \in Seq(Entries) : s = c[list]
  BY <1>3
<1>5. /\ \A k \in 1 .. n : s[k] \in Cell /\ s[k] \in ToSet(s)
      /\ \A k \in 1 .. n - 1 : m.next[s[k]] = s[k + 1] /\ m.prev[s[k + 1]] = s[k]
      /\ m.next[list] = s[1] /\ m.prev[list] = s[n]
  <2>1. /\ \A k \in 1 .. n : Stop(list, c[list], k) = s[k]
        /\ Stop(list, c[list], 0) = list /\ Stop(list, c[list], n + 1) = list
    BY <1>2, <1>4 DEF Stop
  <2>2. \A k \in 1 .. n : s[k] \in Cell /\ s[k] \in ToSet(s)
    <3>1. \A k \in 1 .. n : s[k] \in ToSet(s)
      BY <1>2, <1>4, Members
    <3> QED
      BY <1>2, <2>1, <3>1
  <2>3. m.next[list] = s[1] /\ m.prev[list] = s[n]
    <3>1. /\ m.next[Stop(list, c[list], 0)] = Stop(list, c[list], 1)
          /\ m.prev[Stop(list, c[list], n + 1)] = Stop(list, c[list], n)
      BY <1>2
    <3> QED
      BY <1>3, <2>1, <3>1
  <2>4. ASSUME NEW k \in 1 .. n - 1
        PROVE  m.next[s[k]] = s[k + 1] /\ m.prev[s[k + 1]] = s[k]
    <3>1. k \in 0 .. n /\ k \in 1 .. n /\ k + 1 \in 1 .. n
      OBVIOUS
    <3> QED
      BY <1>2, <2>1, <3>1
  <2> QED
    BY <2>2, <2>3, <2>4
<1>6. PICK a \in Cell, b \in Cell :
              /\ a = Stop(to, c[to], q) /\ a \in {to} \union ToSet(c[to])
              /\ b = Stop(to, c[to], q + 1) /\ b \in {to} \union ToSet(c[to])
  <2>1. q \in 0 .. l + 1 /\ q + 1 \in 0 .. l + 1
    BY <1>3
  <2> QED
    BY <1>1, <2>1
<1>7. /\ \A x \in ToSet(s) : x \in Entries /\ x # to /\ x # a /\ x # b /\ x # list
                             /\ x \notin ToSet(c[to])
      /\ list # a /\ list # b /\ list \notin ToSet(c[to])
  <2>1. ToSet(s) \subseteq Entries /\ ToSet(c[to]) \subseteq Entries
    BY <1>3, Members
  <2>2. ToSet(s) \intersect ToSet(c[to]) = {}
    BY <1>1, <1>2, <1>4 DEF Sound, Apart
  <2>3. to \notin Entries /\ list \notin Entries
    BY <1>1, <1>2, CellsDiffer
  <2> QED
    BY <1>6, <2>1, <2>2, <2>3
<1> DEFINE r == splice_between(m, list, a, b)
<1>8. PICK first \in Cell, last \in Cell : first = s[1] /\ last = s[n]
  <2>1. 1 \in 1 .. n /\ n \in 1 .. n
    BY <1>3
  <2> QED
    BY <1>5, <2>1
<1>9. first \in ToSet(s) /\ last \in ToSet(s)
  <2>1. 1 \in 1 .. n /\ n \in 1 .. n
    BY <1>3
  <2> QED
    BY <1>5, <1>8, <2>1
<1>10. /\ r \in Memory(Cell)
       /\ \A x \in Cell : x # a /\ x # last => r.next[x] = m.next[x]
       /\ \A x \in Cell : x # first /\ x # b => r.prev[x] = m.prev[x]
       /\ r.next[a] = first /\ r.next[last] = b /\ r.prev[first] = a /\ r.prev[b] = last
  <2>1. /\ r \in Memory(Cell)
        /\ r.next = [m.next EXCEPT ![a] = first, ![last] = b]
        /\ r.prev = [m.prev EXCEPT ![first] = a, ![b] = last]
    <3>1. list \in Cell
      BY <1>2 DEF Cell
    <3>2. m \in Memory(Cell)
      BY <1>3
    <3>3. /\ r \in Memory(Cell)
          /\ r.next = [m.next EXCEPT ![a] = m.next[list], ![m.prev[list]] = b]
          /\ r.prev = [m.prev EXCEPT ![m.next[list]] = a, ![b] = m.prev[list]]
      BY <3>1, <3>2 DEF splice_between, Memory
    <3> HIDE DEF r
    <3> QED
      BY <1>5, <1>8, <3>3
  <2>2. a # last /\ b # first
    BY <1>7, <1>9
  <2>3. m.next \in [Cell -> Cell] /\ m.prev \in [Cell -> Cell]
    BY <1>3 DEF Memory
  <2> HIDE DEF r
  <2> QED
    BY <2>1, <2>2, <2>3
<1> HIDE DEF r
<1>11. Ring(r, to, t)
  <2>1. ASSUME NEW k \in 0 .. l \ {q}
        PROVE  /\ r.next[Stop(to, c[to], k)] = Stop(to, c[to], k + 1)
               /\ r.prev[Stop(to, c[to], k + 1)] = Stop(to, c[to], k)
    <3>1. /\ k \in 0 .. l /\ k \in 0 .. l + 1 /\ k + 1 \in 0 .. l + 1 /\ k + 1 \in 1 .. l + 1
          /\ q + 1 \in 1 .. l + 1 /\ k + 1 # q + 1
      BY <1>3
    <3>2. Stop(to, c[to], k) # a /\ Stop(to, c[to], k + 1) # b
      BY <1>1, <1>3, <1>6, <2>1, <3>1
    <3>3. Stop(to, c[to], k) # last /\ Stop(to, c[to], k + 1) # first
      BY <1>1, <1>7, <1>9, <3>1
    <3> QED
      BY <1>1, <1>10, <3>1, <3>2, <3>3
  <2>2. ASSUME NEW k \in 1 .. n - 1
        PROVE  r.next[s[k]] = s[k + 1] /\ r.prev[s[k + 1]] = s[k]
    <3>1. k \in 1 .. n /\ k + 1 \in 1 .. n /\ k # n /\ k + 1 # 1 /\ n \in 1 .. n /\ 1 \in 1 .. n
      OBVIOUS
    <3>2. s[k] # last /\ s[k + 1] # first
      BY <1>2, <1>3, <1>4, <1>8, <3>1 DEF Once
    <3>3. s[k] # a /\ s[k + 1] # b
      BY <1>5, <1>7, <3>1
    <3> QED
      BY <1>5, <1>10, <3>1, <3>2, <3>3
  <2>3. Threads(r, s, 1, Len(s))
    BY <1>2, <1>4, <2>2 DEF Threads
  <2>4. Detour(r, to, c[to], q, s)
    BY <1>1, <1>2, <1>4, <1>6, <1>8, <1>10, <2>1, <2>3 DEF Detour
  <2> QED
    BY <1>4, <2>4, RingDetour
<1>12. Once(t) /\ ToSet(t) = ToSet(c[to]) \union ToSet(s)
  <2>1. ToSet(c[to]) \intersect ToSet(s) = {}
    BY <1>7
  <2> QED
    BY <1>3, <1>4, <2>1, InsertedOnce, InsertedMembers
<1> DEFINE d == [c EXCEPT ![list] = << >>, ![to] = t]
<1>13. /\ d \in [Heads -> Seq(Entries)] /\ d[list] = << >> /\ d[to] = t
       /\ \A g \in Heads \ {list, to} : d[g] = c[g]
  <2>1. c \in [Heads -> Seq(Entries)] /\ << >> \in Seq(Entries)
    BY EmptySeq DEF Sound
  <2> QED
    BY <1>1, <1>2, <1>3, <2>1
<1> HIDE DEF d
<1>14. ToSet(d[list]) = {} /\ Once(d[list])
  BY <1>13, EmptySeq DEF ToSet, Once
<1>15. Rewrites(m, R, c, {list, to}, {}, r, R \ {list}, d)
  <2>1. \A x \in Cell \ {list, to} : (\A g \in {list, to} : x \notin ToSet(c[g]))
            => r.next[x] = m.next[x] /\ r.prev[x] = m.prev[x]
    BY <1>4, <1>6, <1>9, <1>10
  <2>2. ASSUME NEW g \in {list, to}
        PROVE  /\ Once(d[g]) /\ (g \in R \ {list} => Ring(r, g, d[g]))
               /\ (g \notin R \ {list} => d[g] = << >>)
    BY <1>11, <1>12, <1>13, <1>14, <2>2
  <2>3. ASSUME NEW g \in {list, to}, NEW x \in ToSet(d[g])
        PROVE  \E f \in {list, to} : x \in ToSet(c[f])
    BY <1>4, <1>12, <1>13, <1>14, <2>3
  <2>4. ASSUME NEW g \in {list, to}, NEW f \in {list, to} \ {g}
        PROVE  ToSet(d[f]) \intersect ToSet(d[g]) = {}
    BY <1>14, <2>4
  <2> QED
    BY <1>1, <1>2, <1>10, <1>13, <2>1, <2>2, <2>3, <2>4 DEF Rewrites
<1> QED
  BY <1>6, <1>15, SoundStep DEF r, d

(* __list_cut_position: the entries up to `entry' become the ring of list. *)
LEMMA SoundCut ==
    ASSUME NEW m, NEW R, NEW c, Sound(m, R, c),
           NEW list \in R, NEW head \in R, list # head, c[list] = << >>,
           NEW s \in Seq(Entries), s # << >>, NEW u, Inserted(c[head], u, 0, s)
    PROVE  Sound(cut_after(m, list, head, s[Len(s)]),
                 R, [c EXCEPT ![list] = s, ![head] = u])
<1>1. /\ list \in Heads /\ head \in Heads /\ m \in Memory(Cell)
      /\ list \in Cell /\ head \in Cell /\ Ring(m, head, c[head])
  BY DEF Sound, Cell
<1>2. PICK n \in Nat, l \in Nat : n = Len(s) /\ l = Len(u) /\ n >= 1
  BY LenProperties, EmptySeq DEF Inserted
<1>3. /\ u \in Seq(Entries) /\ c[head] \in Seq(Entries) /\ Once(c[head])
      /\ Once(u) /\ Once(s) /\ ToSet(u) \intersect ToSet(s) = {}
      /\ ToSet(c[head]) = ToSet(u) \union ToSet(s)
  <2>1. u \in Seq(Entries) /\ c[head] \in Seq(Entries) /\ Once(c[head])
    BY <1>1, SoundHead DEF Inserted
  <2> QED
    BY <2>1, PartsOnce, InsertedMembers
<1>4. /\ \A k \in 1 .. n : s[k] \in Cell /\ s[k] \in ToSet(s)
      /\ \A x \in ToSet(s) : x \in Entries /\ x # head /\ x # list /\ x \notin ToSet(u)
      /\ \A x \in ToSet(u) : x \in Entries /\ x # head /\ x # list
  <2>1. /\ \A k \in 1 .. n : s[k] \in ToSet(s)
        /\ ToSet(s) \subseteq Entries /\ ToSet(u) \subseteq Entries
    BY <1>2, <1>3, Members
  <2>2. \A x \in Entries : x \in Cell /\ x # head /\ x # list
    BY <1>1, CellsDiffer DEF Cell
  <2> QED
    BY <1>3, <2>1, <2>2
<1>5. Detour(m, head, u, 0, s)
  BY <1>1, RingDetour
<1>6. PICK first \in Cell, last \in Cell : first = s[1] /\ last = s[n]
  <2>1. 1 \in 1 .. n /\ n \in 1 .. n
    BY <1>2
  <2> QED
    BY <1>4, <2>1
<1>7. first \in ToSet(s) /\ last \in ToSet(s)
  <2>1. 1 \in 1 .. n /\ n \in 1 .. n
    BY <1>2
  <2> QED
    BY <1>4, <1>6, <2>1
<1>8. \A k \in Int : Stop(head, u, k) \in Cell /\ Stop(head, u, k) \in {head} \union ToSet(u)
  <2>1. \A k \in Int : Stop(head, u, k) \in {head} \union ToSet(u)
    BY <1>3, StopIn
  <2>2. \A x \in {head} \union ToSet(u) : x \in Cell
    BY <1>1, <1>4 DEF Cell
  <2> QED
    BY <2>1, <2>2
<1>9. PICK b \in Cell : b = Stop(head, u, 1) /\ b \in {head} \union ToSet(u)
  BY <1>8
<1>10. Stop(head, u, 0) = head
  BY DEF Stop
<1>11. m.next[head] = first /\ m.next[last] = b
  BY <1>2, <1>5, <1>6, <1>9, <1>10 DEF Detour
<1> DEFINE r == cut_after(m, list, head, last)
<1>12. /\ r \in Memory(Cell)
       /\ \A x \in Cell : x # list /\ x # last /\ x # head => r.next[x] = m.next[x]
       /\ \A x \in Cell : x # first /\ x # list /\ x # b => r.prev[x] = m.prev[x]
       /\ r.next[list] = first /\ r.next[last] = list /\ r.next[head] = b
       /\ r.prev[first] = list /\ r.prev[list] = last /\ r.prev[b] = head
  <2>1. /\ r \in Memory(Cell)
        /\ r.next = [m.next EXCEPT ![list] = first, ![last] = list, ![head] = b]
        /\ r.prev = [m.prev EXCEPT ![first] = list, ![list] = last, ![b] = head]
    <3>1. /\ r \in Memory(Cell)
          /\ r.next = [m.next EXCEPT ![list] = m.next[head], ![last] = list,
                                     ![head] = m.next[last]]
          /\ r.prev = [m.prev EXCEPT ![m.next[head]] = list, ![list] = last,
                                     ![m.next[last]] = head]
      BY <1>1 DEF cut_after, Memory
    <3> HIDE DEF r
    <3> QED
      BY <1>11, <3>1
  <2>2. /\ list # last /\ last # head /\ list # first /\ first # b /\ list # b
    BY <1>4, <1>7, <1>9
  <2>3. m.next \in [Cell -> Cell] /\ m.prev \in [Cell -> Cell]
    BY <1>1 DEF Memory
  <2> HIDE DEF r
  <2>4. /\ \A x \in Cell : x # list /\ x # last /\ x # head => r.next[x] = m.next[x]
        /\ r.next[list] = first /\ r.next[last] = list /\ r.next[head] = b
    BY <1>1, <2>1, <2>2, <2>3
  <2>5. /\ \A x \in Cell : x # first /\ x # list /\ x # b => r.prev[x] = m.prev[x]
        /\ r.prev[first] = list /\ r.prev[list] = last /\ r.prev[b] = head
    BY <1>1, <2>1, <2>2, <2>3
  <2> QED
    BY <2>1, <2>4, <2>5
<1> HIDE DEF r
<1>13. ASSUME NEW k \in 1 .. n - 1
       PROVE  r.next[s[k]] = s[k + 1] /\ r.prev[s[k + 1]] = s[k]
  <2>1. k \in 1 .. n /\ k + 1 \in 1 .. n /\ k # n /\ k + 1 # 1 /\ n \in 1 .. n /\ 1 \in 1 .. n
    BY <1>2
  <2>2. s[k] # last /\ s[k + 1] # first
    BY <1>2, <1>3, <1>6, <2>1 DEF Once
  <2>3. s[k] # list /\ s[k] # head /\ s[k + 1] # list /\ s[k + 1] # b
    BY <1>4, <1>9, <2>1
  <2>4. m.next[s[k]] = s[k + 1] /\ m.prev[s[k + 1]] = s[k]
    BY <1>2, <1>5 DEF Detour, Threads
  <2> QED
    BY <1>4, <1>12, <2>1, <2>2, <2>3, <2>4
<1>14. Ring(r, list, s)
  <2>1. /\ \A k \in 1 .. n : Stop(list, s, k) = s[k]
        /\ Stop(list, s, 0) = list /\ Stop(list, s, n + 1) = list
    BY <1>2 DEF Stop
  <2> SUFFICES ASSUME NEW k \in 0 .. n
               PROVE  /\ r.next[Stop(list, s, k)] = Stop(list, s, k + 1)
                      /\ r.prev[Stop(list, s, k + 1)] = Stop(list, s, k)
    BY <1>2 DEF Ring
  <2>2. CASE k = 0
    <3>1. 1 \in 1 .. n /\ k + 1 = 1
      BY <1>2, <2>2
    <3> QED
      BY <1>6, <1>12, <2>1, <2>2, <3>1
  <2>3. CASE k = n
    <3>1. n \in 1 .. n
      BY <1>2
    <3> QED
      BY <1>6, <1>12, <2>1, <2>3, <3>1
  <2>4. CASE k \in 1 .. n - 1
    <3>1. k \in 1 .. n /\ k + 1 \in 1 .. n
      BY <1>2, <2>4
    <3> QED
      BY <1>13, <2>1, <2>4, <3>1
  <2> QED
    BY <1>2, <2>2, <2>3, <2>4
<1>15. Ring(r, head, u)
  <2> SUFFICES ASSUME NEW k \in 0 .. l
               PROVE  /\ r.next[Stop(head, u, k)] = Stop(head, u, k + 1)
                      /\ r.prev[Stop(head, u, k + 1)] = Stop(head, u, k)
    BY <1>2 DEF Ring
  <2>1. CASE k = 0
    BY <1>9, <1>10, <1>12, <2>1
  <2>2. CASE k # 0
    <3>1. /\ k \in Int /\ k + 1 \in Int /\ k + 1 \in 1 .. l + 1 /\ 1 \in 1 .. l + 1 /\ k + 1 # 1
          /\ k \in 1 .. l /\ 0 \in 0 .. l
      BY <2>2
    <3>2. Stop(head, u, k) # head /\ Stop(head, u, k + 1) # b
      <4>1. \A i, j \in 0 .. l : Stop(head, u, i) = Stop(head, u, j) => i = j
        BY <1>1, <1>2, <1>3, StopFacts
      <4>2. \A i, j \in 1 .. l + 1 : Stop(head, u, i) = Stop(head, u, j) => i = j
        BY <1>1, <1>2, <1>3, StopFacts
      <4>3. Stop(head, u, k) # head
        BY <1>10, <2>2, <3>1, <4>1
      <4>4. Stop(head, u, k + 1) # b
        BY <1>9, <3>1, <4>2
      <4> QED
        BY <4>3, <4>4
    <3>3. /\ Stop(head, u, k) # list /\ Stop(head, u, k) # last
          /\ Stop(head, u, k + 1) # list /\ Stop(head, u, k + 1) # first
      BY <1>4, <1>7, <1>8, <3>1
    <3>4. /\ m.next[Stop(head, u, k)] = Stop(head, u, k + 1)
          /\ m.prev[Stop(head, u, k + 1)] = Stop(head, u, k)
      BY <1>2, <1>5, <2>2 DEF Detour
    <3> QED
      BY <1>8, <1>12, <3>1, <3>2, <3>3, <3>4
  <2> QED
    BY <2>1, <2>2
<1> DEFINE d == [c EXCEPT ![list] = s, ![head] = u]
<1>16. /\ d \in [Heads -> Seq(Entries)] /\ d[list] = s /\ d[head] = u
       /\ \A g \in Heads \ {list, head} : d[g] = c[g]
  <2>1. c \in [Heads -> Seq(Entries)]
    BY DEF Sound
  <2> QED
    BY <1>1, <1>3, <2>1
<1> HIDE DEF d
<1>17. Rewrites(m, R, c, {list, head}, {}, r, R, d)
  <2>1. \A x \in Cell \ {list, head} : (\A g \in {list, head} : x \notin ToSet(c[g]))
            => r.next[x] = m.next[x] /\ r.prev[x] = m.prev[x]
    BY <1>3, <1>7, <1>9, <1>12
  <2>2. ASSUME NEW g \in {list, head}
        PROVE  Once(d[g]) /\ Ring(r, g, d[g])
    BY <1>3, <1>14, <1>15, <1>16, <2>2
  <2>3. ASSUME NEW g \in {list, head}, NEW x \in ToSet(d[g])
        PROVE  \E f \in {list, head} : x \in ToSet(c[f])
    BY <1>3, <1>16, <2>3
  <2>4. ASSUME NEW g \in {list, head}, NEW f \in {list, head} \ {g}
        PROVE  ToSet(d[f]) \intersect ToSet(d[g]) = {}
    BY <1>3, <1>16, <2>4
  <2> QED
    BY <1>1, <1>12, <1>16, <2>1, <2>2, <2>3, <2>4 DEF Rewrites
<1>18. Sound(r, R, d)
  BY <1>17, SoundStep
<1> QED
  BY <1>2, <1>6, <1>18 DEF r, d

(* The sequences of ListSpec as insertions.                                *)
LEMMA AtTheEnds ==
    ASSUME NEW s \in Seq(Entries), NEW u \in Seq(Entries)
    PROVE  Inserted(s \o u, u, 0, s) /\ Inserted(u \o s, u, Len(u), s)
<1>1. PICK n \in Nat, l \in Nat : n = Len(s) /\ l = Len(u)
  BY LenProperties
<1>2. /\ s \o u \in Seq(Entries) /\ Len(s \o u) = n + l
      /\ \A k \in 1 .. n : (s \o u)[k] = s[k]
      /\ \A k \in 1 .. l : (s \o u)[n + k] = u[k]
  BY <1>1
<1>3. /\ u \o s \in Seq(Entries) /\ Len(u \o s) = l + n
      /\ \A k \in 1 .. l : (u \o s)[k] = u[k]
      /\ \A k \in 1 .. n : (u \o s)[l + k] = s[k]
  BY <1>1
<1>4. Inserted(s \o u, u, 0, s)
  <2>1. PICK t \in Seq(Entries) : t = s \o u
    BY <1>2
  <2>2. \A k \in 1 .. n : 0 + k = k
    OBVIOUS
  <2>3. \A k \in 0 + 1 .. l : k \in 1 .. l /\ k + n = n + k
    OBVIOUS
  <2>4. Len(t) = l + n /\ (\A k \in 1 .. n : t[0 + k] = s[k])
    BY <1>2, <2>1, <2>2
  <2>5. \A k \in 0 + 1 .. l : t[k + n] = u[k]
    BY <1>2, <2>1, <2>3
  <2>6. \A k \in 1 .. 0 : t[k] = u[k]
    OBVIOUS
  <2>7. 0 \in 0 .. l
    OBVIOUS
  <2> QED
    BY <1>1, <2>1, <2>4, <2>5, <2>6, <2>7 DEF Inserted
<1>5. Inserted(u \o s, u, Len(u), s)
  <2>1. PICK t \in Seq(Entries) : t = u \o s
    BY <1>3
  <2>2. (\A k \in l + 1 .. l : t[k + n] = u[k]) /\ l \in 0 .. l
    OBVIOUS
  <2>3. Inserted(t, u, l, s)
    BY <1>1, <1>3, <2>1, <2>2 DEF Inserted
  <2> QED
    BY <1>1, <2>1, <2>3
<1> QED
  BY <1>4, <1>5

LEMMA CutInTwo ==
    ASSUME NEW t \in Seq(Entries), NEW n \in 0 .. Len(t)
    PROVE  /\ Inserted(t, SubSeq(t, n + 1, Len(t)), 0, SubSeq(t, 1, n))
           /\ Len(SubSeq(t, 1, n)) = n
           /\ n >= 1 => SubSeq(t, 1, n)[n] = t[n]
<1>1. PICK l \in Nat, v \in Nat : l = Len(t) /\ v = l - n /\ n \in Nat /\ n <= l
  BY LenProperties
<1>2. PICK s : s = SubSeq(t, 1, n)
  OBVIOUS
<1>3. PICK u : u = SubSeq(t, n + 1, l)
  OBVIOUS
<1>4. s \in Seq(Entries) /\ Len(s) = n /\ \A k \in 1 .. n : s[k] = t[k]
  BY <1>1, <1>2
<1>5. u \in Seq(Entries) /\ Len(u) = v /\ \A k \in 1 .. v : u[k] = t[n + k]
  BY <1>1, <1>3
<1>6. 0 \in 0 .. v /\ l = v + n /\ (\A k \in 1 .. 0 : t[k] = u[k])
  BY <1>1
<1>7. \A k \in 1 .. n : t[0 + k] = s[k]
  <2>1. \A k \in 1 .. n : 0 + k = k
    OBVIOUS
  <2> QED
    BY <1>4, <2>1
<1>8. \A k \in 0 + 1 .. v : t[k + n] = u[k]
  <2>1. \A k \in 0 + 1 .. v : k \in 1 .. v /\ k + n = n + k
    BY <1>1
  <2> QED
    BY <1>5, <2>1
<1>9. Inserted(t, u, 0, s)
  BY <1>1, <1>4, <1>5, <1>6, <1>7, <1>8 DEF Inserted
<1>10. n >= 1 => s[n] = t[n]
  BY <1>1, <1>4
<1> QED
  BY <1>1, <1>2, <1>3, <1>4, <1>9, <1>10

LEMMA OneOut ==
    ASSUME NEW t \in Seq(Entries), NEW i \in 1 .. Len(t), NEW e \in Entries
    PROVE  /\ Inserted(t, RemoveAt(t, i), i - 1, <<t[i]>>)
           /\ Inserted(ReplaceAt(t, i, e), RemoveAt(t, i), i - 1, <<e>>)
<1>1. PICK l \in Nat, q \in Nat : /\ l = Len(t) /\ q = i - 1 /\ i \in 1 .. l /\ i = q + 1
                                  /\ l - 1 \in Nat
  BY LenProperties
<1>2. PICK a : a = SubSeq(t, 1, i - 1)
  OBVIOUS
<1>3. PICK b : b = SubSeq(t, i + 1, l)
  OBVIOUS
<1>4. a \in Seq(Entries) /\ Len(a) = q /\ \A k \in 1 .. q : a[k] = t[k]
  BY <1>1, <1>2
<1>5. b \in Seq(Entries) /\ Len(b) = l - i /\ \A k \in 1 .. l - i : b[k] = t[i + k]
  BY <1>1, <1>3
<1>6. PICK u : u = a \o b
  OBVIOUS
<1>7. u = RemoveAt(t, i)
  BY <1>1, <1>2, <1>3, <1>6 DEF RemoveAt
<1>8. /\ u \in Seq(Entries) /\ Len(u) = l - 1
      /\ \A k \in 1 .. q : u[k] = a[k]
      /\ \A k \in 1 .. l - i : u[q + k] = b[k]
  <2>1. Len(u) = l - 1
    <3>1. Len(u) = Len(a) + Len(b)
      BY <1>4, <1>5, <1>6
    <3> QED
      BY <1>1, <1>4, <1>5, <3>1
  <2> QED
    BY <1>1, <1>4, <1>5, <1>6, <2>1
<1>9. \A k \in 1 .. q : u[k] = t[k]
  BY <1>4, <1>8
<1>10. ASSUME NEW k \in q + 1 .. l - 1 PROVE u[k] = t[k + 1]
  <2>1. PICK j \in 1 .. l - i : k = q + j /\ k + 1 = i + j
    BY <1>1
  <2> QED
    BY <1>5, <1>8, <2>1
<1>11. q \in 0 .. l - 1 /\ l = (l - 1) + 1 /\ \A k \in 1 .. 1 : k = 1 /\ q + k = i
  BY <1>1
<1>12. ASSUME NEW w \in Seq(Entries), NEW f \in Entries, Len(w) = l, w[i] = f,
              \A k \in 1 .. l : k # i => w[k] = t[k]
       PROVE  Inserted(w, u, q, <<f>>)
  <2>1. <<f>> \in Seq(Entries) /\ Len(<<f>>) = 1 /\ <<f>>[1] = f
    OBVIOUS
  <2>2. \A k \in 1 .. q : w[k] = u[k]
    BY <1>1, <1>9, <1>12
  <2>3. \A k \in 1 .. 1 : w[q + k] = <<f>>[k]
    BY <1>11, <1>12, <2>1
  <2>4. \A k \in q + 1 .. l - 1 : w[k + 1] = u[k]
    BY <1>1, <1>10, <1>12
  <2> QED
    BY <1>8, <1>11, <1>12, <2>1, <2>2, <2>3, <2>4 DEF Inserted
<1>13. Inserted(t, u, q, <<t[i]>>)
  <2>1. t[i] \in Entries
    BY ElementOfSeq
  <2> QED
    BY <1>1, <1>12, <2>1
<1>14. Inserted(ReplaceAt(t, i, e), u, q, <<e>>)
  <2>1. PICK w : w = [t EXCEPT ![i] = e]
    OBVIOUS
  <2>2. w \in Seq(Entries) /\ Len(w) = l /\ w[i] = e /\ \A k \in 1 .. l : k # i => w[k] = t[k]
    BY <1>1, <2>1
  <2>3. Inserted(w, u, q, <<e>>)
    BY <1>12, <2>2
  <2> QED
    BY <2>1, <2>3 DEF ReplaceAt
<1> QED
  BY <1>1, <1>7, <1>13, <1>14

(* What the heads show when the ones in R may be used.                     *)
Shown(m, R) == [h \in Heads |-> IF h \in R THEN Walk(m.next, h) ELSE << >>]

LEMMA ShownIs == ASSUME NEW m, NEW R, NEW c, Sound(m, R, c) PROVE Shown(m, R) = c
<1>1. /\ c \in [Heads -> Seq(Entries)] /\ R \subseteq Heads
      /\ \A h \in Heads \ R : c[h] = << >>
  BY DEF Sound
<1>2. \A h \in R : Walk(m.next, h) = c[h]
  BY SoundWalk
<1>3. \A h \in Heads : (IF h \in R THEN Walk(m.next, h) ELSE << >>) = c[h]
  BY <1>1, <1>2
<1>4. c = [h \in Heads |-> c[h]]
  BY <1>1
<1> QED
  BY <1>3, <1>4 DEF Shown

(* The inductive invariant: the memory threads what is read from it.       *)
Inv == side \in {"none", "front", "back"} /\ Sound(mem, ready, Content)

LEMMA Becomes ==
    ASSUME side' \in {"none", "front", "back"}, NEW d, Sound(mem', ready', d)
    PROVE  Inv' /\ Content' = d
<1>1. Content' = Shown(mem', ready')
  BY DEF Content, Shown
<1>2. Shown(mem', ready') = d
  BY ShownIs
<1> QED
  BY <1>1, <1>2 DEF Inv

LEMMA Unlinked ==
    ASSUME Inv, NEW e
    PROVE  e \notin Linked <=> NowhereIn(e, Content)
<1>1. ready \subseteq Heads /\ \A h \in Heads \ ready : Content[h] = << >>
  BY DEF Inv, Sound
<1>2. ToSet(<< >>) = {}
  BY DEF ToSet
<1> QED
  BY <1>1, <1>2 DEF Linked, On, NowhereIn

LEMMA SameLinked == ASSUME Inv PROVE Linked = Abstract!Linked
<1>1. ready \subseteq Heads /\ \A h \in Heads \ ready : Content[h] = << >>
  BY DEF Inv, Sound
<1>2. ToSet(<< >>) = {}
  BY DEF ToSet
<1> QED
  BY <1>1, <1>2 DEF Linked, On, ToSet, Abstract!Linked, Abstract!ToSet

LEMMA EmptyHead ==
    ASSUME NEW m, NEW R, NEW c, Sound(m, R, c), NEW h \in R
    PROVE  list_empty(m, h) <=> c[h] = << >>
<1>1. h \in Heads /\ Ring(m, h, c[h])
  BY DEF Sound
<1>2. c[h] \in Seq(Entries) /\ Len(c[h]) \in Nat
  BY <1>1, SoundHead
<1>3. m.next[h] = Stop(h, c[h], 1)
  <2>1. 0 \in 0 .. Len(c[h]) /\ 0 + 1 = 1
    BY <1>2
  <2>2. m.next[Stop(h, c[h], 0)] = Stop(h, c[h], 0 + 1)
    BY <1>1, <2>1 DEF Ring
  <2> QED
    BY <2>1, <2>2 DEF Stop
<1>4. CASE c[h] = << >>
  <2>1. Stop(h, c[h], 1) = h
    BY <1>4 DEF Stop
  <2> QED
    BY <1>3, <1>4, <2>1 DEF list_empty
<1>5. CASE c[h] # << >>
  <2>1. 1 \in 1 .. Len(c[h])
    BY <1>2, <1>5, EmptySeq
  <2>2. c[h][1] \in Entries /\ Stop(h, c[h], 1) = c[h][1]
    BY <1>2, <2>1, ElementOfSeq DEF Stop
  <2> QED
    BY <1>1, <1>3, <1>5, <2>2, CellsDiffer DEF list_empty
<1> QED
  BY <1>4, <1>5

(* list_add and list_add_tail of an unlinked entry.                        *)
LEMMA SoundAdd ==
    ASSUME NEW m, NEW R, NEW c, Sound(m, R, c), NEW h \in R,
           NEW e \in Entries, NowhereIn(e, c)
    PROVE  /\ Sound(list_add(m, e, h), R, [c EXCEPT ![h] = <<e>> \o c[h]])
           /\ Sound(list_add_tail(m, e, h), R, [c EXCEPT ![h] = c[h] \o <<e>>])
<1>1. h \in Heads /\ Ring(m, h, c[h])
  BY DEF Sound
<1>2. c[h] \in Seq(Entries) /\ Len(c[h]) \in Nat /\ <<e>> \in Seq(Entries)
  BY <1>1, SoundHead, OneMember
<1>3. PICK n \in Nat : n = Len(c[h])
  BY <1>2
<1>4. Stop(h, c[h], 0) = h /\ Stop(h, c[h], n + 1) = h
  BY <1>3 DEF Stop
<1>5. m.next[h] = Stop(h, c[h], 0 + 1)
  BY <1>1, <1>3, <1>4 DEF Ring
<1>6. m.prev[h] = Stop(h, c[h], n)
  <2>1. n \in 0 .. n
    OBVIOUS
  <2> QED
    BY <1>1, <1>3, <1>4, <2>1 DEF Ring
<1>7. Sound(insert_between(m, e, Stop(h, c[h], 0), Stop(h, c[h], 0 + 1)), R,
            [c EXCEPT ![h] = <<e>> \o c[h]])
  <2>1. PICK q : q = 0
    OBVIOUS
  <2>2. Inserted(<<e>> \o c[h], c[h], q, <<e>>)
    BY <1>2, <2>1, AtTheEnds
  <2>3. Sound(insert_between(m, e, Stop(h, c[h], q), Stop(h, c[h], q + 1)), R,
            [c EXCEPT ![h] = <<e>> \o c[h]])
    BY <2>2, SoundInsert
  <2> QED
    BY <2>1, <2>3
<1>8. Sound(insert_between(m, e, Stop(h, c[h], n), Stop(h, c[h], n + 1)), R,
            [c EXCEPT ![h] = c[h] \o <<e>>])
  <2>1. Inserted(c[h] \o <<e>>, c[h], n, <<e>>)
    BY <1>2, <1>3, AtTheEnds
  <2> QED
    BY <2>1, SoundInsert
<1> QED
  BY <1>4, <1>5, <1>6, <1>7, <1>8 DEF list_add, list_add_tail

(* Each operation, on a sound memory, is an operation of ListSpec.         *)
LEMMA InitHeadStep ==
    ASSUME Inv, NEW h \in Heads, InitHead(h)
    PROVE  Inv' /\ Abstract!InitHead(h)
<1>1. PICK c : c = Content
  OBVIOUS
<1>2. Sound(mem, ready, c)
  BY <1>1 DEF Inv
<1>3. c[h] = << >>
  <2>1. CASE h \in ready
    BY <1>2, <2>1, EmptyHead DEF InitHead, Empty
  <2>2. CASE h \notin ready
    BY <1>2, <2>2 DEF Sound
  <2> QED
    BY <2>1, <2>2
<1>4. Sound(INIT_LIST_HEAD(mem, h), ready \union {h}, c)
  BY <1>2, <1>3, SoundInit
<1>5. mem' = INIT_LIST_HEAD(mem, h) /\ ready' = ready \union {h} /\ side' = "none"
  BY DEF InitHead
<1>6. Sound(mem', ready', c)
  BY <1>4, <1>5
<1>7. Inv' /\ Content' = c
  BY <1>5, <1>6, Becomes
<1> QED
  BY <1>1, <1>3, <1>5, <1>7 DEF Abstract!InitHead

LEMMA AddStep ==
    ASSUME Inv, NEW h \in ready, NEW e \in Entries, Add(e, h)
    PROVE  Inv' /\ Abstract!Add(e, h)
<1>1. PICK c : c = Content
  OBVIOUS
<1>2. Sound(mem, ready, c)
  BY <1>1 DEF Inv
<1>3. e \notin Linked /\ NowhereIn(e, c) /\ ready' = ready
  BY <1>1, Unlinked DEF Add, Store
<1>4. /\ Sound(list_add(mem, e, h), ready, [c EXCEPT ![h] = <<e>> \o c[h]])
      /\ Sound(list_add_tail(mem, e, h), ready, [c EXCEPT ![h] = c[h] \o <<e>>])
  BY <1>2, <1>3, SoundAdd
<1>5. e \notin Abstract!Linked
  BY <1>3, SameLinked
<1>6. CASE Store(list_add(mem, e, h), "front")
  <2>1. mem' = list_add(mem, e, h) /\ side' = "front"
    BY <1>6 DEF Store
  <2>2. Inv' /\ Content' = [c EXCEPT ![h] = <<e>> \o c[h]]
    BY <1>3, <1>4, <2>1, Becomes
  <2>3. Abstract!Extends(c, <<e>>, h)
    BY <2>1, <2>2 DEF Abstract!Extends
  <2> QED
    BY <1>1, <1>3, <1>5, <2>2, <2>3 DEF Abstract!Add
<1>7. CASE Store(list_add_tail(mem, e, h), "back")
  <2>1. mem' = list_add_tail(mem, e, h) /\ side' = "back"
    BY <1>7 DEF Store
  <2>2. Inv' /\ Content' = [c EXCEPT ![h] = c[h] \o <<e>>]
    BY <1>3, <1>4, <2>1, Becomes
  <2>3. Abstract!Extends(c, <<e>>, h)
    BY <2>1, <2>2 DEF Abstract!Extends
  <2> QED
    BY <1>1, <1>3, <1>5, <2>2, <2>3 DEF Abstract!Add
<1> QED
  BY <1>6, <1>7 DEF Add

(* An entry that is on a list stands somewhere in its sequence, and can be *)
(* joined out of it.                                                       *)
LEMMA OnAt ==
    ASSUME Inv, NEW h \in ready, NEW e \in On(h)
    PROVE  \E i \in 1 .. Len(Content[h]) :
              /\ Content[h][i] = e /\ e \in Entries /\ Content[h] \in Seq(Entries)
              /\ Inserted(Content[h], RemoveAt(Content[h], i), i - 1, <<e>>)
<1>1. PICK s : s = Content[h]
  OBVIOUS
<1>2. s \in Seq(Entries)
  BY <1>1 DEF Inv, Sound
<1>3. PICK i \in 1 .. Len(s) : s[i] = e
  BY <1>1, <1>2, Members DEF On
<1>4. e \in Entries
  BY <1>2, <1>3, ElementOfSeq
<1>5. Inserted(s, RemoveAt(s, i), i - 1, <<e>>)
  BY <1>2, <1>3, <1>4, OneOut
<1> QED
  BY <1>1, <1>2, <1>3, <1>4, <1>5

LEMMA DelStep ==
    ASSUME Inv, NEW h \in ready, NEW e \in Entries, Del(e, h)
    PROVE  Inv' /\ \E i \in DOMAIN Content[h] : Abstract!Del(i, h)
<1>1. PICK c : c = Content
  OBVIOUS
<1>2. Sound(mem, ready, c)
  BY <1>1 DEF Inv
<1>3. PICK i \in 1 .. Len(c[h]) :
         c[h] \in Seq(Entries) /\ Inserted(c[h], RemoveAt(c[h], i), i - 1, <<e>>)
  BY <1>1, OnAt DEF Del
<1>4. PICK u : u = RemoveAt(c[h], i)
  OBVIOUS
<1>5. PICK m : m = join(mem, mem.prev[e], mem.next[e])
  OBVIOUS
<1>6. PICK d : d = [c EXCEPT ![h] = u]
  OBVIOUS
<1>7. Sound(m, ready, d) /\ NowhereIn(e, d)
  BY <1>2, <1>3, <1>4, <1>5, <1>6, SoundUnlink
<1>8. /\ Sound([m EXCEPT !.next[e] = LIST_POISON1, !.prev[e] = LIST_POISON2], ready, d)
      /\ Sound([m EXCEPT !.next[e] = e, !.prev[e] = e], ready, d)
  <2>1. e \in Cell /\ LIST_POISON1 \in Cell /\ LIST_POISON2 \in Cell
    BY DEF Cell
  <2> QED
    BY <1>7, <2>1, SoundTouched
<1>9. Sound(mem', ready', d) /\ side' = "none" /\ ready' = ready
  BY <1>5, <1>8 DEF Del, Store, list_del, list_del_init, INIT_LIST_HEAD
<1>10. Inv' /\ Content' = d
  BY <1>9, Becomes
<1>11. i \in DOMAIN c[h]
  BY <1>3, LenProperties
<1>12. Abstract!Del(i, h)
  BY <1>1, <1>4, <1>6, <1>9, <1>10 DEF Abstract!Del, Abstract!RemoveAt, RemoveAt
<1> QED
  BY <1>1, <1>10, <1>11, <1>12

LEMMA MoveStep ==
    ASSUME Inv, NEW h \in ready, NEW to \in ready, NEW e \in Entries, Move(e, h, to)
    PROVE  Inv' /\ \E i \in DOMAIN Content[h] : Abstract!Move(i, h, to)
<1>1. PICK c : c = Content
  OBVIOUS
<1>2. Sound(mem, ready, c)
  BY <1>1 DEF Inv
<1>3. PICK i \in 1 .. Len(c[h]) :
         /\ c[h] \in Seq(Entries) /\ c[h][i] = e
         /\ Inserted(c[h], RemoveAt(c[h], i), i - 1, <<e>>)
  BY <1>1, OnAt DEF Move
<1>4. PICK u : u = RemoveAt(c[h], i)
  OBVIOUS
<1>5. PICK m : m = join(mem, mem.prev[e], mem.next[e])
  OBVIOUS
<1>6. PICK d : d = [c EXCEPT ![h] = u]
  OBVIOUS
<1>7. Sound(m, ready, d) /\ NowhereIn(e, d)
  BY <1>2, <1>3, <1>4, <1>5, <1>6, SoundUnlink
<1>8. /\ Sound(list_add(m, e, to), ready, [d EXCEPT ![to] = <<e>> \o d[to]])
      /\ Sound(list_add_tail(m, e, to), ready, [d EXCEPT ![to] = d[to] \o <<e>>])
  BY <1>7, SoundAdd
<1>9. i \in DOMAIN c[h]
  BY <1>3, LenProperties
<1>10. ready' = ready
  BY DEF Move, Store
<1>11. ASSUME Abstract!Extends(d, <<e>>, to) PROVE Abstract!Move(i, h, to)
  BY <1>1, <1>3, <1>4, <1>6, <1>10, <1>11 DEF Abstract!Move, Abstract!RemoveAt, RemoveAt
<1>12. CASE Store(list_move(mem, e, to), "front")
  <2>1. mem' = list_add(m, e, to) /\ side' = "front"
    BY <1>5, <1>12 DEF Store, list_move
  <2>2. Inv' /\ Content' = [d EXCEPT ![to] = <<e>> \o d[to]]
    BY <1>8, <1>10, <2>1, Becomes
  <2>3. Abstract!Extends(d, <<e>>, to)
    BY <2>1, <2>2 DEF Abstract!Extends
  <2> QED
    BY <1>1, <1>9, <1>11, <2>2, <2>3
<1>13. CASE Store(list_move_tail(mem, e, to), "back")
  <2>1. mem' = list_add_tail(m, e, to) /\ side' = "back"
    BY <1>5, <1>13 DEF Store, list_move_tail
  <2>2. Inv' /\ Content' = [d EXCEPT ![to] = d[to] \o <<e>>]
    BY <1>8, <1>10, <2>1, Becomes
  <2>3. Abstract!Extends(d, <<e>>, to)
    BY <2>1, <2>2 DEF Abstract!Extends
  <2> QED
    BY <1>1, <1>9, <1>11, <2>2, <2>3
<1> QED
  BY <1>12, <1>13 DEF Move

(* The stores of list_replace are those of unlinking old and linking new   *)
(* in between its neighbours.                                              *)
LEMMA ReplaceAsInsert ==
    ASSUME NEW Cells, NEW m \in Memory(Cells), NEW old \in Cells, NEW new \in Cells,
           new # old, m.prev[old] # old, m.next[old] # old
    PROVE  list_replace(m, old, new) =
             insert_between(join(m, m.prev[old], m.next[old]), new, m.prev[old], m.next[old])
<1>1. PICK a \in Cells, b \in Cells : a = m.prev[old] /\ b = m.next[old]
  BY DEF Memory
<1>2. PICK nx \in [Cells -> Cells], pv \in [Cells -> Cells] : m = [next |-> nx, prev |-> pv]
  BY DEF Memory
<1>3. a # old /\ b # old /\ a = pv[old] /\ b = nx[old]
  BY <1>1, <1>2
<1> DEFINE fw == [nx EXCEPT ![new] = b]
           bl == [pv EXCEPT ![b] = new]
           bw == [bl EXCEPT ![new] = bl[old]]
<1>4. list_replace(m, old, new) = [next |-> [fw EXCEPT ![bw[new]] = new], prev |-> bw]
  <2>1. PICK f : f = [next |-> fw, prev |-> pv]
    OBVIOUS
  <2>2. [m EXCEPT !.next[new] = m.next[old]] = f
    BY <1>2, <1>3, <2>1
  <2>3. f.next[new] = b /\ [f EXCEPT !.prev[f.next[new]] = new] = [next |-> fw, prev |-> bl]
    BY <2>1
  <2>4. PICK g : g = [next |-> fw, prev |-> bl]
    OBVIOUS
  <2>5. [g EXCEPT !.prev[new] = g.prev[old]] = [next |-> fw, prev |-> bw]
    BY <2>4
  <2>6. PICK w : w = [next |-> fw, prev |-> bw]
    OBVIOUS
  <2>7. [w EXCEPT !.next[w.prev[new]] = new] = [next |-> [fw EXCEPT ![bw[new]] = new], prev |-> bw]
    BY <2>6
  <2> HIDE DEF fw, bl, bw
  <2>8. list_replace(m, old, new) = [w EXCEPT !.next[w.prev[new]] = new]
    BY <2>2, <2>3, <2>4, <2>5, <2>6 DEF list_replace
  <2> QED
    BY <2>7, <2>8
<1>5. bw[new] = a /\ bw = [bl EXCEPT ![new] = a]
  BY <1>3
<1>6. insert_between(join(m, a, b), new, a, b)
        = [next |-> [[[nx EXCEPT ![a] = b] EXCEPT ![new] = b] EXCEPT ![a] = new],
           prev |-> [[[pv EXCEPT ![b] = a] EXCEPT ![b] = new] EXCEPT ![new] = a]]
  <2>1. PICK j : j = join(m, a, b)
    OBVIOUS
  <2>2. /\ j \in Memory(Cells)
        /\ j.next = [m.next EXCEPT ![a] = b] /\ j.prev = [m.prev EXCEPT ![b] = a]
    BY <2>1 DEF join, Memory
  <2>3. PICK w : w = insert_between(j, new, a, b)
    OBVIOUS
  <2>4. /\ w \in Memory(Cells)
        /\ w.next = [j.next EXCEPT ![new] = b, ![a] = new]
        /\ w.prev = [j.prev EXCEPT ![b] = new, ![new] = a]
    BY <2>2, <2>3 DEF insert_between, Memory
  <2>5. w = [next |-> w.next, prev |-> w.prev]
    BY <2>4 DEF Memory
  <2> QED
    BY <1>2, <2>1, <2>2, <2>3, <2>4, <2>5
<1>7. [fw EXCEPT ![a] = new] = [[[nx EXCEPT ![a] = b] EXCEPT ![new] = b] EXCEPT ![a] = new]
  OBVIOUS
<1>8. [bl EXCEPT ![new] = a] = [[[pv EXCEPT ![b] = a] EXCEPT ![b] = new] EXCEPT ![new] = a]
  OBVIOUS
<1> HIDE DEF fw, bl, bw
<1> QED
  BY <1>1, <1>4, <1>5, <1>6, <1>7, <1>8

LEMMA ReplaceStep ==
    ASSUME Inv, NEW old \in Entries, NEW new \in Entries, Replace(old, new)
    PROVE  Inv' /\ \E h \in ready : \E i \in DOMAIN Content[h] : Abstract!Replace(i, h, new)
<1>1. PICK c : c = Content
  OBVIOUS
<1>2. Sound(mem, ready, c)
  BY <1>1 DEF Inv
<1>3. /\ ready' = ready /\ side' = "none" /\ old \in Linked /\ NowhereIn(new, c)
      /\ new \notin Abstract!Linked
  BY <1>1, Unlinked, SameLinked DEF Replace, Store
<1>4. PICK h \in ready : old \in On(h)
  BY <1>3 DEF Linked
<1>5. PICK i \in 1 .. Len(c[h]) :
         /\ c[h] \in Seq(Entries)
         /\ Inserted(c[h], RemoveAt(c[h], i), i - 1, <<old>>)
  BY <1>1, <1>4, OnAt
<1>6. PICK u : u = RemoveAt(c[h], i)
  OBVIOUS
<1>7. PICK q : q = i - 1
  OBVIOUS
<1>8. PICK t : t = ReplaceAt(c[h], i, new)
  OBVIOUS
<1>9. PICK d : d = [c EXCEPT ![h] = u]
  OBVIOUS
<1>10. PICK m : m = join(mem, mem.prev[old], mem.next[old])
  OBVIOUS
<1>11. Inserted(c[h], u, q, <<old>>) /\ Inserted(t, u, q, <<new>>)
  BY <1>5, <1>6, <1>7, <1>8, OneOut
<1>12. /\ Sound(m, ready, d) /\ NowhereIn(old, d)
       /\ mem.prev[old] = Stop(h, u, q) /\ mem.next[old] = Stop(h, u, q + 1)
       /\ mem.prev[old] \in Cell \ {old} /\ mem.next[old] \in Cell \ {old}
  <2>1. /\ Sound(join(mem, mem.prev[old], mem.next[old]), ready, [c EXCEPT ![h] = u])
        /\ NowhereIn(old, [c EXCEPT ![h] = u])
        /\ mem.prev[old] = Stop(h, u, q) /\ mem.next[old] = Stop(h, u, q + 1)
        /\ mem.prev[old] \in Cell \ {old} /\ mem.next[old] \in Cell \ {old}
    BY <1>2, <1>11, SoundUnlink
  <2> QED
    BY <1>9, <1>10, <2>1
<1>13. h \in Heads /\ c \in [Heads -> Seq(Entries)] /\ mem \in Memory(Cell)
  BY <1>2 DEF Sound
<1>14. ToSet(c[h]) = ToSet(u) \union {old} /\ ToSet(t) = ToSet(u) \union {new} /\ d[h] = u
  BY <1>9, <1>11, <1>13, InsertedMembers, OneMember
<1>15. new # old /\ NowhereIn(new, d)
  <2>1. \A g \in Heads : g # h => d[g] = c[g]
    BY <1>9, <1>13
  <2> QED
    BY <1>3, <1>13, <1>14, <2>1 DEF NowhereIn
<1>16. Sound(insert_between(m, new, Stop(h, d[h], q), Stop(h, d[h], q + 1)), ready,
             [d EXCEPT ![h] = t])
  <2>1. Inserted(t, d[h], q, <<new>>)
    BY <1>11, <1>14
  <2> QED
    BY <1>12, <1>15, <2>1, SoundInsert
<1>17. PICK e : e = [d EXCEPT ![h] = t]
  OBVIOUS
<1>18. e = [c EXCEPT ![h] = t]
  BY <1>9, <1>13, <1>17
<1>19. Sound(list_replace(mem, old, new), ready, e)
  <2>1. old \in Cell /\ new \in Cell
    BY DEF Cell
  <2>2. list_replace(mem, old, new)
          = insert_between(m, new, mem.prev[old], mem.next[old])
    BY <1>10, <1>12, <1>13, <1>15, <2>1, ReplaceAsInsert
  <2> QED
    BY <1>12, <1>14, <1>16, <1>17, <2>2
<1>20. NowhereIn(old, e)
  <2>1. old \notin ToSet(t)
    BY <1>12, <1>13, <1>14, <1>15 DEF NowhereIn
  <2>2. d \in [Heads -> Seq(Entries)]
    BY <1>12 DEF Sound
  <2>3. \A g \in Heads : e[g] = IF g = h THEN t ELSE d[g]
    BY <1>17, <2>2
  <2> QED
    BY <1>12, <2>1, <2>3 DEF NowhereIn
<1>21. Sound(list_replace_init(mem, old, new), ready, e)
  <2>1. old \in Cell
    BY DEF Cell
  <2> QED
    BY <1>19, <1>20, <2>1, SoundTouched DEF list_replace_init, INIT_LIST_HEAD
<1>22. Inv' /\ Content' = e
  <2>1. Sound(mem', ready', e)
    BY <1>3, <1>19, <1>21 DEF Replace, Store
  <2> QED
    BY <1>3, <2>1, Becomes
<1>23. i \in DOMAIN c[h]
  BY <1>5, LenProperties
<1>24. Abstract!Replace(i, h, new)
  <2>1. e = [c EXCEPT ![h] = Abstract!ReplaceAt(@, i, new)]
    BY <1>8, <1>18 DEF ReplaceAt, Abstract!ReplaceAt
  <2> QED
    BY <1>1, <1>3, <1>22, <2>1 DEF Abstract!Replace
<1> QED
  BY <1>1, <1>22, <1>23, <1>24

LEMMA CutStep ==
    ASSUME Inv, NEW list \in ready, NEW head \in ready, NEW entry \in Heads \union Entries,
           Cut(list, head, entry)
    PROVE  Inv' /\ \E n \in 0 .. Len(Content[head]) : Abstract!Cut(list, head, n)
<1>1. PICK c : c = Content
  OBVIOUS
<1>2. Sound(mem, ready, c)
  BY <1>1 DEF Inv
<1>3. /\ list # head /\ list \in Heads /\ head \in Heads
      /\ c \in [Heads -> Seq(Entries)] /\ c[head] \in Seq(Entries) /\ Len(c[head]) \in Nat
      /\ mem' = list_cut_position(mem, list, head, entry)
      /\ side' = "none" /\ ready' = ready /\ entry \in On(head) \union {head}
  BY <1>2, SoundHead DEF Cut, Store, Sound
<1>4. c[list] = << >>
  BY <1>2, EmptyHead DEF Cut, Empty
<1>5. ASSUME NEW n \in 0 .. Len(c[head]),
             Sound(mem', ready', [c EXCEPT ![list] = SubSeq(c[head], 1, n),
                                           ![head] = SubSeq(c[head], n + 1, Len(c[head]))])
      PROVE  Inv' /\ \E k \in 0 .. Len(Content[head]) : Abstract!Cut(list, head, k)
  <2>1. PICK d : d = [c EXCEPT ![list] = SubSeq(c[head], 1, n),
                               ![head] = SubSeq(c[head], n + 1, Len(c[head]))]
    OBVIOUS
  <2>2. Inv' /\ Content' = d
    BY <1>3, <1>5, <2>1, Becomes
  <2>3. d = [c EXCEPT ![list] = SubSeq(c[head], 1, n),
                      ![head] = SubSeq(@, n + 1, Len(@))]
    BY <1>3, <2>1
  <2>4. Abstract!Cut(list, head, n)
    BY <1>1, <1>3, <1>4, <2>2, <2>3 DEF Abstract!Cut
  <2> QED
    BY <1>1, <2>2, <2>4
<1>6. ASSUME entry = head \/ list_empty(mem, head)
      PROVE  Inv' /\ \E k \in 0 .. Len(Content[head]) : Abstract!Cut(list, head, k)
  <2>1. PICK n : n = 0 /\ n \in 0 .. Len(c[head])
    BY <1>3
  <2>2. SubSeq(c[head], 1, n) = << >> /\ SubSeq(c[head], n + 1, Len(c[head])) = c[head]
    <3>1. PICK s \in Seq(Entries) : s = c[head]
      BY <1>3
    <3>2. SubSeq(s, 1, 0) = << >> /\ SubSeq(s, 1, Len(s)) = s
      BY SubSeqEmpty, SubSeqFull
    <3> QED
      BY <2>1, <3>1, <3>2
  <2>3. [c EXCEPT ![list] = SubSeq(c[head], 1, n),
                  ![head] = SubSeq(c[head], n + 1, Len(c[head]))] = c
    BY <1>3, <1>4, <2>2
  <2>4. mem' = mem \/ mem' = INIT_LIST_HEAD(mem, list)
    BY <1>3, <1>6 DEF list_cut_position
  <2>5. Sound(mem', ready', c)
    <3>1. Sound(INIT_LIST_HEAD(mem, list), ready \union {list}, c)
      BY <1>2, <1>3, <1>4, SoundInit
    <3>2. ready \union {list} = ready
      OBVIOUS
    <3> QED
      BY <1>2, <1>3, <2>4, <3>1, <3>2
  <2> QED
    BY <1>5, <2>1, <2>3, <2>5
<1>7. ASSUME entry # head, ~ list_empty(mem, head)
      PROVE  Inv' /\ \E k \in 0 .. Len(Content[head]) : Abstract!Cut(list, head, k)
  <2>1. PICK n \in 1 .. Len(c[head]) : c[head][n] = entry /\ entry \in Entries
    BY <1>1, <1>3, <1>7, OnAt
  <2>2. n \in 0 .. Len(c[head]) /\ n >= 1
    BY <1>3
  <2>3. PICK s, u : s = SubSeq(c[head], 1, n) /\ u = SubSeq(c[head], n + 1, Len(c[head]))
    OBVIOUS
  <2>4. Inserted(c[head], u, 0, s) /\ Len(s) = n /\ s[n] = entry
    BY <1>3, <2>1, <2>2, <2>3, CutInTwo
  <2>5. s \in Seq(Entries) /\ s # << >>
    BY <2>2, <2>4 DEF Inserted
  <2>6. Sound(cut_after(mem, list, head, entry), ready, [c EXCEPT ![list] = s, ![head] = u])
    BY <1>2, <1>3, <1>4, <2>4, <2>5, SoundCut
  <2>7. ~ (list_is_singular(mem, head) /\ mem.next[head] # entry /\ head # entry)
    <3> SUFFICES ASSUME mem.next[head] = mem.prev[head] PROVE mem.next[head] = entry
      BY DEF list_is_singular
    <3>1. PICK l \in Nat :
             /\ l = Len(c[head])
             /\ \A k \in 0 .. l : /\ mem.next[Stop(head, c[head], k)] = Stop(head, c[head], k + 1)
                                  /\ mem.prev[Stop(head, c[head], k + 1)] = Stop(head, c[head], k)
             /\ \A i, j \in 1 .. l + 1 : i # j => Stop(head, c[head], i) # Stop(head, c[head], j)
      BY <1>2, RingCells
    <3>2. l >= 1 /\ n \in 1 .. l
      BY <2>1, <3>1
    <3>3. /\ Stop(head, c[head], 0) = head /\ Stop(head, c[head], l + 1) = head
          /\ Stop(head, c[head], n) = entry
      BY <2>1, <3>1, <3>2 DEF Stop
    <3>4. mem.next[head] = Stop(head, c[head], 1) /\ mem.prev[head] = Stop(head, c[head], l)
      <4>1. 0 \in 0 .. l /\ l \in 0 .. l /\ 0 + 1 = 1
        OBVIOUS
      <4>2. mem.next[Stop(head, c[head], 0)] = Stop(head, c[head], 0 + 1)
        BY <3>1, <4>1
      <4>3. mem.prev[Stop(head, c[head], l + 1)] = Stop(head, c[head], l)
        BY <3>1, <4>1
      <4> QED
        BY <3>3, <4>1, <4>2, <4>3
    <3>5. l = 1
      <4>1. 1 \in 1 .. l + 1 /\ l \in 1 .. l + 1
        BY <3>2
      <4>2. Stop(head, c[head], 1) = Stop(head, c[head], l)
        BY <3>4
      <4> QED
        BY <3>1, <4>1, <4>2
    <3> QED
      BY <3>2, <3>3, <3>4, <3>5
  <2>8. mem' = cut_after(mem, list, head, entry)
    BY <1>3, <1>7, <2>7 DEF list_cut_position
  <2> QED
    BY <1>3, <1>5, <2>2, <2>3, <2>6, <2>8
<1> QED
  BY <1>6, <1>7

LEMMA SoundSplices ==
    ASSUME NEW m, NEW R, NEW c, Sound(m, R, c),
           NEW list \in R, NEW to \in R, list # to, c[list] # << >>
    PROVE  /\ Sound(list_splice(m, list, to), R \ {list},
                    [c EXCEPT ![list] = << >>, ![to] = c[list] \o c[to]])
           /\ Sound(list_splice_tail(m, list, to), R \ {list},
                    [c EXCEPT ![list] = << >>, ![to] = c[to] \o c[list]])
<1>1. list \in Heads /\ to \in Heads /\ Ring(m, to, c[to]) /\ ~ list_empty(m, list)
  BY EmptyHead DEF Sound
<1>2. c[to] \in Seq(Entries) /\ Len(c[to]) \in Nat /\ c[list] \in Seq(Entries)
  BY <1>1, SoundHead
<1>3. PICK n \in Nat : n = Len(c[to])
  BY <1>2
<1>4. Stop(to, c[to], 0) = to /\ Stop(to, c[to], n + 1) = to
  BY <1>3 DEF Stop
<1>5. m.next[to] = Stop(to, c[to], 0 + 1)
  BY <1>1, <1>3, <1>4 DEF Ring
<1>6. m.prev[to] = Stop(to, c[to], n)
  <2>1. n \in 0 .. n
    OBVIOUS
  <2> QED
    BY <1>1, <1>3, <1>4, <2>1 DEF Ring
<1>7. Sound(splice_between(m, list, Stop(to, c[to], 0), Stop(to, c[to], 0 + 1)), R \ {list},
            [c EXCEPT ![list] = << >>, ![to] = c[list] \o c[to]])
  <2>1. PICK q : q = 0
    OBVIOUS
  <2>2. PICK t : t = c[list] \o c[to]
    OBVIOUS
  <2>3. Inserted(t, c[to], q, c[list])
    BY <1>2, <2>1, <2>2, AtTheEnds
  <2>4. Sound(splice_between(m, list, Stop(to, c[to], q), Stop(to, c[to], q + 1)),
              R \ {list}, [c EXCEPT ![list] = << >>, ![to] = t])
    BY <2>3, SoundSplice
  <2> QED
    BY <2>1, <2>2, <2>4
<1>8. Sound(splice_between(m, list, Stop(to, c[to], n), Stop(to, c[to], n + 1)), R \ {list},
            [c EXCEPT ![list] = << >>, ![to] = c[to] \o c[list]])
  <2>1. PICK t : t = c[to] \o c[list]
    OBVIOUS
  <2>2. Inserted(t, c[to], n, c[list])
    BY <1>2, <1>3, <2>1, AtTheEnds
  <2>3. Sound(splice_between(m, list, Stop(to, c[to], n), Stop(to, c[to], n + 1)),
              R \ {list}, [c EXCEPT ![list] = << >>, ![to] = t])
    BY <2>2, SoundSplice
  <2> QED
    BY <2>1, <2>3
<1>9. /\ list_splice(m, list, to)
           = splice_between(m, list, Stop(to, c[to], 0), Stop(to, c[to], 0 + 1))
      /\ list_splice_tail(m, list, to)
           = splice_between(m, list, Stop(to, c[to], n), Stop(to, c[to], n + 1))
  BY <1>1, <1>4, <1>5, <1>6 DEF list_splice, list_splice_tail
<1> QED
  BY <1>7, <1>8, <1>9

LEMMA SpliceStep ==
    ASSUME Inv, NEW list \in ready, NEW to \in ready,
           Splice(list, to) \/ SpliceInit(list, to)
    PROVE  Inv' /\ \E keeps \in BOOLEAN : Abstract!Splice(list, to, keeps)
<1>1. PICK c : c = Content
  OBVIOUS
<1>2. Sound(mem, ready, c)
  BY <1>1 DEF Inv
<1>3. /\ list # to /\ list \in Heads /\ to \in Heads /\ c \in [Heads -> Seq(Entries)]
      /\ list_empty(mem, list) <=> c[list] = << >>
  BY <1>2, EmptyHead DEF Splice, SpliceInit, Sound
<1>4. PICK s \in Seq(Entries), u \in Seq(Entries) : s = c[list] /\ u = c[to]
  BY <1>3
<1>5. PICK d : d = [h \in Heads |-> IF h = list THEN << >> ELSE c[h]]
  OBVIOUS
<1>6. PICK front : front = [c EXCEPT ![list] = << >>, ![to] = s \o u]
  OBVIOUS
<1>7. PICK back : back = [c EXCEPT ![list] = << >>, ![to] = u \o s]
  OBVIOUS
<1>8. front = [d EXCEPT ![to] = c[list] \o d[to]] /\ back = [d EXCEPT ![to] = d[to] \o c[list]]
  <2>1. d[to] = u /\ d = [c EXCEPT ![list] = << >>]
    BY <1>3, <1>4, <1>5
  <2> QED
    BY <1>3, <1>4, <1>6, <1>7, <2>1
<1>9. s = << >> => front = c /\ back = c
  <2>1. << >> \o u = u /\ u \o << >> = u
    BY ConcatEmptySeq
  <2> QED
    BY <1>3, <1>4, <1>6, <1>7, <2>1
<1>10. ASSUME NEW keeps \in BOOLEAN,
              ready' = (IF keeps \/ c[list] = << >> THEN ready ELSE ready \ {list}),
              \/ side' = "front" /\ Sound(mem', ready', front)
              \/ side' = "back" /\ Sound(mem', ready', back)
       PROVE  Inv' /\ \E k \in BOOLEAN : Abstract!Splice(list, to, k)
  <2>1. \/ side' = "front" /\ Inv' /\ Content' = front
        \/ side' = "back" /\ Inv' /\ Content' = back
    <3>1. CASE side' = "front" /\ Sound(mem', ready', front)
      BY <3>1, Becomes
    <3>2. CASE side' = "back" /\ Sound(mem', ready', back)
      BY <3>2, Becomes
    <3> QED
      BY <1>10, <3>1, <3>2
  <2>2. Abstract!Extends(d, c[list], to)
    BY <1>8, <2>1 DEF Abstract!Extends
  <2>3. Abstract!Splice(list, to, keeps)
    BY <1>1, <1>3, <1>5, <1>10, <2>2 DEF Abstract!Splice
  <2> QED
    BY <2>1, <2>3
<1>11. ASSUME list_empty(mem, list)
       PROVE  Inv' /\ \E k \in BOOLEAN : Abstract!Splice(list, to, k)
  <2>1. mem' = mem /\ ready' = ready /\ (side' = "front" \/ side' = "back")
    BY <1>11 DEF Splice, SpliceInit, Store, list_splice, list_splice_tail,
                 list_splice_init, list_splice_tail_init
  <2>2. c[list] = << >> /\ front = c /\ back = c
    BY <1>3, <1>4, <1>9, <1>11
  <2>3. \/ side' = "front" /\ Sound(mem', ready', front)
        \/ side' = "back" /\ Sound(mem', ready', back)
    BY <1>2, <2>1, <2>2
  <2>4. ready' = (IF TRUE \/ c[list] = << >> THEN ready ELSE ready \ {list})
    BY <2>1
  <2> QED
    BY <1>10, <2>3, <2>4
<1>12. ASSUME ~ list_empty(mem, list)
       PROVE  Inv' /\ \E k \in BOOLEAN : Abstract!Splice(list, to, k)
  <2>1. /\ Sound(list_splice(mem, list, to), ready \ {list}, front)
        /\ Sound(list_splice_tail(mem, list, to), ready \ {list}, back)
    BY <1>2, <1>3, <1>4, <1>6, <1>7, <1>12, SoundSplices
  <2>2. CASE Splice(list, to)
    <3>1. /\ ready' = ready \ {list}
          /\ \/ side' = "front" /\ Sound(mem', ready', front)
             \/ side' = "back" /\ Sound(mem', ready', back)
      BY <1>12, <2>1, <2>2 DEF Splice
    <3>2. ready' = (IF FALSE \/ c[list] = << >> THEN ready ELSE ready \ {list})
      BY <1>3, <1>12, <3>1
    <3> QED
      BY <1>10, <3>1, <3>2
  <2>3. CASE SpliceInit(list, to)
    <3>1. front[list] = << >> /\ back[list] = << >> /\ (ready \ {list}) \union {list} = ready
      BY <1>3, <1>6, <1>7
    <3>2. /\ Sound(list_splice_init(mem, list, to), ready, front)
          /\ Sound(list_splice_tail_init(mem, list, to), ready, back)
      <4>1. Sound(INIT_LIST_HEAD(list_splice(mem, list, to), list),
                  (ready \ {list}) \union {list}, front)
        BY <1>3, <2>1, <3>1, SoundInit
      <4>2. Sound(INIT_LIST_HEAD(list_splice_tail(mem, list, to), list),
                  (ready \ {list}) \union {list}, back)
        BY <1>3, <2>1, <3>1, SoundInit
      <4> QED
        BY <1>12, <3>1, <4>1, <4>2 DEF list_splice_init, list_splice_tail_init
    <3>3. /\ ready' = ready
          /\ \/ side' = "front" /\ Sound(mem', ready', front)
             \/ side' = "back" /\ Sound(mem', ready', back)
      BY <2>3, <3>2 DEF SpliceInit, Store
    <3>4. ready' = (IF TRUE \/ c[list] = << >> THEN ready ELSE ready \ {list})
      BY <3>3
    <3> QED
      BY <1>10, <3>3, <3>4
  <2> QED
    BY <2>2, <2>3
<1> QED
  BY <1>11, <1>12

(* Before the first operation no head may be used, and every list is empty. *)
LEMMA InitInv == Init => Inv /\ Abstract!Init
<1> SUFFICES ASSUME Init PROVE Inv /\ Abstract!Init
  OBVIOUS
<1>1. PICK c : c = [h \in Heads |-> << >>]
  OBVIOUS
<1>2. mem \in Memory(Cell) /\ Clean(mem)
  BY DEF Init, Memory, Cell, Clean, Sentinels
<1>3. c \in [Heads -> Seq(Entries)] /\ \A h \in Heads : c[h] = << >>
  BY <1>1
<1>4. Apart(c)
  <2>1. Once(<< >>) /\ ToSet(<< >>) = {}
    BY DEF Once, ToSet
  <2> QED
    BY <1>3, <2>1 DEF Apart
<1>5. ready = {} /\ side = "none"
  BY DEF Init
<1>6. Sound(mem, ready, c)
  BY <1>2, <1>3, <1>4, <1>5 DEF Sound
<1>7. Content = c
  BY <1>1, <1>5 DEF Content
<1> QED
  BY <1>1, <1>5, <1>6, <1>7 DEF Inv, Abstract!Init

(* Every step keeps the invariant and is a step of ListSpec.               *)
LEMMA NextStep ==
    ASSUME Inv, [Next]_vars
    PROVE  Inv' /\ [Abstract!Next]_(Abstract!vars)
<1>1. CASE UNCHANGED vars
  <2>1. mem' = mem /\ ready' = ready /\ side' = side
    BY <1>1 DEF vars
  <2>2. Content' = Content
    BY <2>1 DEF Content
  <2> QED
    BY <2>1, <2>2 DEF Inv, Abstract!vars
<1>2. ASSUME NEW h \in Heads, InitHead(h) PROVE Inv' /\ Abstract!Next
  <2>1. Inv' /\ Abstract!InitHead(h)
    BY <1>2, InitHeadStep
  <2> QED
    BY <2>1 DEF Abstract!Next
<1>3. ASSUME NEW h \in ready, NEW e \in Entries, Add(e, h) PROVE Inv' /\ Abstract!Next
  <2>1. Inv' /\ Abstract!Add(e, h)
    BY <1>3, AddStep
  <2> QED
    BY <2>1 DEF Abstract!Next
<1>4. ASSUME NEW h \in ready, NEW e \in Entries, Del(e, h) PROVE Inv' /\ Abstract!Next
  <2>1. Inv' /\ \E i \in DOMAIN Content[h] : Abstract!Del(i, h)
    BY <1>4, DelStep
  <2> QED
    BY <2>1 DEF Abstract!Next
<1>5. ASSUME NEW h \in ready, NEW to \in ready, NEW e \in Entries, Move(e, h, to)
      PROVE  Inv' /\ Abstract!Next
  <2>1. Inv' /\ \E i \in DOMAIN Content[h] : Abstract!Move(i, h, to)
    BY <1>5, MoveStep
  <2> QED
    BY <2>1 DEF Abstract!Next
<1>6. ASSUME NEW old \in Entries, NEW new \in Entries, Replace(old, new)
      PROVE  Inv' /\ Abstract!Next
  <2>1. Inv' /\ \E h \in ready : \E i \in DOMAIN Content[h] : Abstract!Replace(i, h, new)
    BY <1>6, ReplaceStep
  <2> QED
    BY <2>1 DEF Abstract!Next
<1>7. ASSUME NEW list \in ready, NEW head \in ready, NEW entry \in Heads \union Entries,
             Cut(list, head, entry)
      PROVE  Inv' /\ Abstract!Next
  <2>1. Inv' /\ \E n \in 0 .. Len(Content[head]) : Abstract!Cut(list, head, n)
    BY <1>7, CutStep
  <2> QED
    BY <2>1 DEF Abstract!Next
<1>8. ASSUME NEW list \in ready, NEW to \in ready,
             Splice(list, to) \/ SpliceInit(list, to)
      PROVE  Inv' /\ Abstract!Next
  <2>1. Inv' /\ \E keeps \in BOOLEAN : Abstract!Splice(list, to, keeps)
    BY <1>8, SpliceStep
  <2> QED
    BY <2>1 DEF Abstract!Next
<1> QED
  BY <1>1, <1>2, <1>3, <1>4, <1>5, <1>6, <1>7, <1>8 DEF Next

LEMMA InvAlways == Spec => []Inv
  BY InitInv, NextStep, PTL DEF Spec

(* Whatever a client that keeps the preconditions does, nothing is stored  *)
(* through NULL or a poison pointer: these cells keep their first contents *)
(* for any number of heads and entries (include/list.h:94-110).            *)
THEOREM NoStrayStores == Spec => []TypeOK
<1>1. Inv => TypeOK
  BY DEF Inv, Sound, Clean, Sentinels, TypeOK
<1> QED
  BY <1>1, InvAlways, PTL

(* Every ring stays well formed, in both directions and apart from all      *)
(* others, and the tests of list.h tell of it what their comments say, after *)
(* any sequence of operations on any number of heads and entries.           *)
THEOREM RingsStayWellFormed == Spec => []RingsWellFormed
<1>1. ASSUME Inv PROVE RingsWellFormed
  <2> SUFFICES ASSUME NEW h \in ready
               PROVE  /\ On(h) \subseteq Entries
                      /\ Walk(mem.prev, h) = Reverse(Content[h])
                      /\ \A g \in ready \ {h} : On(h) \intersect On(g) = {}
                      /\ list_empty_careful(mem, h) <=> Content[h] = << >>
                      /\ list_is_singular(mem, h) <=> Len(Content[h]) = 1
                      /\ \A e \in On(h) : list_is_last(mem, e, h) <=> e = Last(Content[h])
    BY DEF RingsWellFormed
  <2>1. PICK c : c = Content
    OBVIOUS
  <2>2. Sound(mem, ready, c)
    BY <1>1, <2>1 DEF Inv
  <2>3. PICK n \in Nat :
              /\ n = Len(c[h]) /\ h \in Heads
              /\ \A k \in 0 .. n :
                    /\ mem.next[Stop(h, c[h], k)] = Stop(h, c[h], k + 1)
                    /\ mem.prev[Stop(h, c[h], k + 1)] = Stop(h, c[h], k)
              /\ \A i, j \in 0 .. n : i # j => Stop(h, c[h], i) # Stop(h, c[h], j)
              /\ \A i, j \in 1 .. n + 1 : i # j => Stop(h, c[h], i) # Stop(h, c[h], j)
    BY <2>2, RingCells
  <2>4. PICK s \in Seq(Entries) : s = c[h]
    BY <2>2, <2>3 DEF Sound
  <2>5. On(h) \subseteq Entries
    BY <2>1, <2>4, Members DEF On
  <2>6. Walk(mem.prev, h) = Reverse(Content[h])
    BY <2>1, <2>2, SoundWalk
  <2>7. \A g \in ready \ {h} : On(h) \intersect On(g) = {}
    BY <2>1, <2>2, <2>3 DEF On, Sound, Apart
  <2>8. /\ Stop(h, s, 0) = h /\ Stop(h, s, n + 1) = h
        /\ \A k \in 1 .. n : Stop(h, s, k) = s[k]
    BY <2>3, <2>4 DEF Stop
  <2>9. mem.next[h] = Stop(h, s, 1) /\ mem.prev[h] = Stop(h, s, n)
    <3>1. 0 \in 0 .. n /\ n \in 0 .. n /\ 0 + 1 = 1
      OBVIOUS
    <3>2. mem.next[Stop(h, s, 0)] = Stop(h, s, 0 + 1)
      BY <2>3, <2>4, <3>1
    <3>3. mem.prev[Stop(h, s, n + 1)] = Stop(h, s, n)
      BY <2>3, <2>4, <3>1
    <3> QED
      BY <2>8, <3>1, <3>2, <3>3
  <2>10. list_empty(mem, h) <=> s = << >>
    BY <2>2, <2>4, EmptyHead
  <2>11. s = << >> <=> n = 0
    BY <2>3, <2>4, EmptySeq
  <2>12. list_empty_careful(mem, h) <=> s = << >>
    BY <2>8, <2>9, <2>10, <2>11 DEF list_empty_careful, list_empty
  <2>13. list_is_singular(mem, h) <=> Len(s) = 1
    <3>1. CASE n = 0
      BY <2>3, <2>4, <2>10, <2>11, <3>1 DEF list_is_singular
    <3>2. CASE n = 1
      BY <2>3, <2>4, <2>9, <2>10, <2>11, <3>2 DEF list_is_singular
    <3>3. CASE n > 1
      <4>1. 1 \in 1 .. n + 1 /\ n \in 1 .. n + 1 /\ n # 1
        BY <3>3
      <4>2. Stop(h, s, 1) # Stop(h, s, n)
        BY <2>3, <2>4, <4>1
      <4> QED
        BY <2>3, <2>4, <2>9, <4>1, <4>2 DEF list_is_singular
    <3> QED
      BY <3>1, <3>2, <3>3
  <2>14. ASSUME NEW e \in On(h) PROVE list_is_last(mem, e, h) <=> e = Last(s)
    <3>1. PICK i \in 1 .. n : s[i] = e
      BY <2>1, <2>3, <2>4, <2>14, Members DEF On
    <3>2. i \in 0 .. n /\ n \in 0 .. n /\ i + 1 \in 1 .. n + 1 /\ n + 1 \in 1 .. n + 1
          /\ n \in 1 .. n
      OBVIOUS
    <3>3. mem.next[e] = Stop(h, s, i + 1) /\ Stop(h, s, i) = e /\ Stop(h, s, n) = s[n]
      BY <2>3, <2>4, <2>8, <3>1, <3>2
    <3>4. Stop(h, s, i + 1) = h <=> i = n
      BY <2>3, <2>4, <2>8, <3>2
    <3>5. s[i] = s[n] <=> i = n
      BY <2>3, <2>4, <2>8, <3>1, <3>2
    <3> QED
      BY <2>3, <2>4, <3>1, <3>3, <3>4, <3>5 DEF list_is_last, Last
  <2> QED
    BY <2>1, <2>4, <2>5, <2>6, <2>7, <2>12, <2>13, <2>14
<1> QED
  BY <1>1, InvAlways, PTL

(* Every operation of list.h is, on the sequences the heads stand for, the  *)
(* operation its comment describes, whatever was done before and however    *)
(* many heads and entries there are.                                        *)
THEOREM OperationsImplementSequences == Spec => ImplementsSequences
<1>1. Init => Abstract!Init
  BY InitInv
<1>2. Inv /\ [Next]_vars => [Abstract!Next]_(Abstract!vars)
  BY NextStep
<1> QED
  BY <1>1, <1>2, InvAlways, PTL DEF Spec, ImplementsSequences, Abstract!Spec
=============================================================================
