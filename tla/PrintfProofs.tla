----------------------------- MODULE PrintfProofs ----------------------------
(***************************************************************************)
(* vsnprintf for every format, buffer and argument: it stays in the        *)
(* format, fills the field of each conversion and, as long as its output   *)
(* does not reach the top of the address space, stays in the buffer, which *)
(* may reach there by its size, and cuts its output off where the buffer   *)
(* ends; and what number() writes can be read back and is padded on one    *)
(* side.  Inv says what the memory holds while the format is read and      *)
(* after the terminator is stored.                                         *)
(*                                                                         *)
(* The numbers come first: what a text is worth (Value), the figures that  *)
(* Digits spells and how many there are, the text of number() from spaces, *)
(* sign, prefix, zeros and figures, and what Trimmed and Unsigned leave of *)
(* it.  The recursive functions, Digits, Power and skip_atoi, and the fold *)
(* in Value are shown to be defined before they are used.                  *)
(***************************************************************************)
EXTENDS Printf, SequenceTheorems, WellFoundedInduction, TLAPS

(* A set of natural numbers has a least member: the form in which the      *)
(* proofs below use induction.                                             *)
LEMMA Least ==
    ASSUME NEW T \in SUBSET Nat, T # {}
    PROVE  \E n \in T : \A m \in T : n <= m
<1> DEFINE Below == {q \in Nat \X Nat : q[1] < q[2]}
<1>1. IsWellFoundedOn(Below, Nat)
  BY NatLessThanWellFounded DEF OpToRel
<1>2. \A m, n \in Nat : m < n => <<m, n>> \in Below
  OBVIOUS
<1> HIDE DEF Below
<1>3. PICK n \in T : \A m \in T : ~ (<<m, n>> \in Below)
  BY <1>1, WFMin
<1>4. ASSUME NEW m \in T PROVE n <= m
  <2>1. m \in Nat /\ n \in Nat
    OBVIOUS
  <2>2. ~ (m < n)
    BY <1>2, <1>3, <2>1, Zenon
  <2> QED
    BY <2>1, <2>2
<1> QED
  BY <1>4

(* do_div makes a number smaller and leaves a digit.                       *)
LEMMA Divided ==
    ASSUME NEW n \in Nat, NEW base \in {8, 10, 16}
    PROVE  /\ n \div base \in 0 .. n /\ (n # 0 => n \div base < n)
           /\ n % base \in 0 .. 15
<1>1. CASE base = 8
  BY <1>1
<1>2. CASE base = 10
  BY <1>2
<1>3. CASE base = 16
  BY <1>3
<1> QED
  BY <1>1, <1>2, <1>3

\* The space, of which only Zenon sees the character.
Space == " "

\* The characters of digits.
Figure == {DigitChar[i] : i \in 1 .. 16}

(* The recursive function of Digits is defined, and its values are digits. *)
LEMMA DigitsDefined ==
    ASSUME NEW num \in Nat, NEW base \in {8, 10, 16}
    PROVE  \E of \in [0 .. num -> Seq(Figure)] :
              /\ of[0] = << >>
              /\ \A n \in 1 .. num :
                    of[n] = Append(of[n \div base], DigitChar[(n % base) + 1])
              /\ Digits(num, base) = IF num = 0 THEN <<"0">> ELSE of[num]
<1> DEFINE char(n) == DigitChar[(n % base) + 1]
           step(f) == [n \in 0 .. num |->
                          IF n = 0 THEN << >> ELSE Append(f[n \div base], char(n))]
           of == CHOOSE f : f = step(f)
<1>1. Digits(num, base) = IF num = 0 THEN <<"0">> ELSE of[num]
  BY DEF Digits
<1>2. ASSUME NEW n \in 0 .. num PROVE char(n) \in Figure
  <2>1. (n % base) + 1 \in 1 .. 16
    BY Divided
  <2> QED
    BY <2>1 DEF Figure
<1>3. ASSUME NEW n \in 1 .. num
      PROVE  n \div base \in 0 .. n - 1 /\ n \div base \in 0 .. num
  <2>1. n \in Nat /\ n # 0 /\ num \in Nat
    OBVIOUS
  <2> QED
    BY <2>1, Divided
<1> HIDE DEF char
<1> DEFINE Solved(f, n) == f[n] = IF n = 0 THEN << >> ELSE Append(f[n \div base], char(n))
           Text == [0 .. num -> Seq(Figure)]
           far == {m \in 0 .. num : \E f \in Text : \A n \in 0 .. m : Solved(f, n)}
<1>4. far = 0 .. num
  <2> SUFFICES ASSUME (0 .. num) \ far # {} PROVE FALSE
    OBVIOUS
  <2>1. PICK m \in (0 .. num) \ far : \A k \in (0 .. num) \ far : m <= k
    <3>1. (0 .. num) \ far \in SUBSET Nat
      OBVIOUS
    <3> HIDE DEF far
    <3> QED
      BY <3>1, Least
  <2>2. CASE m = 0
    <3> DEFINE g == [n \in 0 .. num |-> << >>]
    <3>1. g \in Text /\ \A n \in 0 .. m : Solved(g, n)
      BY <2>2
    <3> QED
      BY <2>1, <3>1
  <2>3. CASE m # 0
    <3>1. m \in 1 .. num /\ m - 1 \in 0 .. num /\ ~ (m <= m - 1)
      BY <2>3
    <3>2. m - 1 \in far
      BY <2>1, <3>1
    <3>3. PICK f \in Text : \A n \in 0 .. m - 1 : Solved(f, n)
      BY <3>2
    <3> DEFINE v == Append(f[m \div base], char(m))
               g == [f EXCEPT ![m] = v]
    <3>4. m \div base \in 0 .. m - 1 /\ m \div base \in 0 .. num
      BY <1>3, <3>1
    <3>5. v \in Seq(Figure)
      <4>1. f[m \div base] \in Seq(Figure) /\ char(m) \in Figure
        BY <1>2, <3>4
      <4> QED
        BY <4>1
    <3> HIDE DEF v
    <3>6. g \in Text /\ g[m] = v /\ \A n \in 0 .. m - 1 : g[n] = f[n]
      BY <3>1, <3>5
    <3> HIDE DEF g
    <3>7. ASSUME NEW n \in 0 .. m PROVE Solved(g, n)
      <4>1. CASE n = m
        <5>1. g[m \div base] = f[m \div base]
          BY <3>4, <3>6
        <5> QED
          BY <2>3, <3>6, <4>1, <5>1 DEF v
      <4>2. CASE n # m
        <5>0. n \in 0 .. m - 1
          <6> HIDE DEF far
          <6> QED
            BY <4>2
        <5>1. n \in 0 .. m - 1 /\ g[n] = f[n] /\ Solved(f, n)
          BY <3>3, <3>6, <5>0, Zenon
        <5>2. CASE n = 0
          BY <5>1, <5>2
        <5>3. CASE n # 0
          <6>1. n \in 1 .. num
            BY <3>1, <5>1, <5>3
          <6>2. n \div base \in 0 .. m - 1
            <7>1. n \div base \in 0 .. n - 1
              BY <1>3, <6>1, Zenon
            <7> HIDE DEF far
            <7> QED
              BY <5>0, <7>1
          <6>3. g[n \div base] = f[n \div base]
            BY <3>6, <6>2
          <6> QED
            BY <5>1, <5>3, <6>3
        <5> QED
          BY <5>2, <5>3
      <4> QED
        BY <4>1, <4>2
    <3>8. m \in far
      BY <3>1, <3>6, <3>7
    <3> QED
      BY <2>1, <3>8
  <2> QED
    BY <2>2, <2>3
<1>5. of = step(of)
  <2>1. num \in far
    <3> HIDE DEF far
    <3> QED
      BY <1>4
  <2>2. PICK f \in Text : \A n \in 0 .. num : Solved(f, n)
    BY <2>1
  <2>3. f = step(f)
    BY <2>2
  <2> HIDE DEF step
  <2> QED
    BY <2>3
<1> HIDE DEF of
<1>6. \A n \in 0 .. num : Solved(of, n)
  BY <1>5 DEF step
<1>7. \A n \in 0 .. num : of[n] \in Seq(Figure)
  <2> DEFINE wrong == {n \in 0 .. num : of[n] \notin Seq(Figure)}
  <2> SUFFICES ASSUME wrong # {} PROVE FALSE
    OBVIOUS
  <2>1. PICK m \in wrong : \A k \in wrong : m <= k
    <3>1. wrong \in SUBSET Nat
      OBVIOUS
    <3> HIDE DEF wrong
    <3> QED
      BY <3>1, Least
  <2>2. m \in 0 .. num /\ of[m] \notin Seq(Figure) /\ Solved(of, m)
    BY <1>6
  <2>3. m # 0
    BY <2>2
  <2>4. m \in 1 .. num /\ m \div base \in 0 .. m - 1 /\ m \div base \in 0 .. num
    BY <1>3, <2>2, <2>3
  <2>5. m \div base \notin wrong
    BY <2>1, <2>4
  <2>6. of[m \div base] \in Seq(Figure) /\ char(m) \in Figure
    BY <1>2, <2>2, <2>4, <2>5
  <2>7. Append(of[m \div base], char(m)) \in Seq(Figure)
    BY <2>6
  <2> QED
    BY <2>2, <2>3, <2>7
<1>8. DOMAIN of = 0 .. num
  BY <1>5 DEF step
<1>9. of \in [0 .. num -> Seq(Figure)]
  <2>1. of = [n \in 0 .. num |-> of[n]]
    BY <1>5, <1>8 DEF step
  <2> QED
    BY <1>7, <2>1
<1>10. of[0] = << >> /\ \A n \in 1 .. num : of[n] = Append(of[n \div base], char(n))
  <2>1. 0 \in 0 .. num /\ \A n \in 1 .. num : n \in 0 .. num /\ n # 0
    OBVIOUS
  <2> HIDE DEF of
  <2> QED
    BY <1>6, <2>1
<1> QED
  BY <1>1, <1>9, <1>10 DEF char

(* n times the same character.                                             *)
LEMMA Repeated ==
    ASSUME NEW char \in Char, NEW n \in Int
    PROVE  /\ Repeat(char, n) \in Seq(Char)
           /\ Len(Repeat(char, n)) = IF n > 0 THEN n ELSE 0
<1> DEFINE m == larger(n, 0)
           t == [i \in 1 .. m |-> char]
<1>1. m \in Nat /\ m = IF n > 0 THEN n ELSE 0
  BY DEF larger
<1> HIDE DEF m
<1>2. t \in [1 .. m -> Char]
  OBVIOUS
<1>3. Repeat(char, n) = t
  BY DEF Repeat, m
<1> HIDE DEF t
<1> QED
  BY <1>1, <1>2, <1>3

(* Text behind text.                                                       *)
LEMMA Joined ==
    ASSUME NEW s \in Seq(Char), NEW t \in Seq(Char)
    PROVE  s \o t \in Seq(Char) /\ Len(s \o t) = Len(s) + Len(t)
                /\ Len(s) \in Nat /\ Len(t) \in Nat
  BY ConcatProperties

(* A few characters.                                                       *)
LEMMA Short ==
    /\ << >> \in Seq(Char)
    /\ \A a \in Char : <<a>> \in Seq(Char)
    /\ \A a, b \in Char : <<a, b>> \in Seq(Char)
  OBVIOUS

-----------------------------------------------------------------------------
(* What a text is worth.  v reads s in base b from the left: v[i] is the    *)
(* value of its first i characters.                                         *)
Reads(v, s, b, n) ==
    /\ v[0] = 0
    /\ \A i \in 1 .. n : v[i] = v[i - 1] * b + ValueOf(s[i])

\* The largest member of a set of places.
LEMMA LargestPlace ==
    ASSUME NEW n \in Nat, NEW s \in SUBSET (1 .. n), s # {}
    PROVE  Max(s) \in s /\ \A i \in s : i <= Max(s)
<1> DEFINE T == {m \in Nat : \A i \in s : i <= m}
<1>1. n \in T
  OBVIOUS
<1>2. PICK m \in T : \A k \in T : m <= k
  <2>1. T \in SUBSET Nat /\ T # {}
    BY <1>1
  <2> HIDE DEF T
  <2> QED
    BY <2>1, Least
<1>3. m \in s
  <2> SUFFICES ASSUME m \notin s PROVE FALSE
    OBVIOUS
  <2>1. PICK j \in s : TRUE
    OBVIOUS
  <2>2. \A i \in s : i \in 1 .. n /\ i <= m /\ i # m
    BY <1>2
  <2>3. m \in Nat /\ m # 0 /\ m - 1 \in Nat
    BY <1>2, <2>1, <2>2
  <2>4. m - 1 \in T
    BY <2>2, <2>3
  <2> QED
    BY <1>2, <2>3, <2>4
<1>4. \A i \in s : m >= i
  BY <1>2
<1>5. Max(s) \in s /\ \A i \in s : Max(s) >= i
  BY <1>3, <1>4 DEF Max
<1> QED
  BY <1>5

Folds(f, s, b, D) ==
    f = [t \in D |-> IF t = {} THEN 0 ELSE f[t \ {Max(t)}] * b + ValueOf(s[Max(t)])]

\* The function FoldLeft is defined by exists.
LEMMA FoldExists ==
    ASSUME NEW s, NEW b, NEW n \in Nat
    PROVE  \E f : Folds(f, s, b, SUBSET (1 .. n))
<1> DEFINE Bad == {m \in Nat : ~ \E f : Folds(f, s, b, SUBSET (1 .. m))}
<1>1. Bad = {}
  <2> SUFFICES ASSUME Bad # {} PROVE FALSE
    OBVIOUS
  <2>1. PICK k \in Bad : \A m \in Bad : k <= m
    <3>1. Bad \in SUBSET Nat
      OBVIOUS
    <3> HIDE DEF Bad
    <3> QED
      BY <3>1, Least
  <2>2. k \in Nat /\ ~ \E f : Folds(f, s, b, SUBSET (1 .. k))
    BY <2>1
  <2>3. CASE k = 0
    <3>1. \A t \in SUBSET (1 .. 0) : t = {}
      OBVIOUS
    <3>2. Folds([t \in SUBSET (1 .. 0) |-> 0], s, b, SUBSET (1 .. 0))
      BY <3>1 DEF Folds
    <3> QED
      BY <2>2, <2>3, <3>2
  <2>4. CASE k # 0
    <3> DEFINE D == SUBSET (1 .. k - 1)
               E == SUBSET (1 .. k)
    <3>1. k - 1 \in Nat /\ ~ (k <= k - 1)
      BY <2>2, <2>4
    <3>2. PICK f : Folds(f, s, b, D)
      BY <2>1, <3>1
    <3> DEFINE h == [t \in E |-> IF t = {} THEN 0
                                 ELSE f[t \ {Max(t)}] * b + ValueOf(s[Max(t)])]
    <3>3. D \subseteq E
      BY <3>1
    <3>4. \A t \in E : t # {} => t \ {Max(t)} \in D
      <4> SUFFICES ASSUME NEW t \in E, t # {}, NEW i \in t \ {Max(t)} PROVE i \in 1 .. k - 1
        OBVIOUS
      <4>1. Max(t) \in t /\ i <= Max(t) /\ i # Max(t) /\ i \in 1 .. k /\ Max(t) \in 1 .. k
        BY <2>2, LargestPlace
      <4> QED
        BY <2>2, <4>1
    <3> HIDE DEF D, E
    <3>5. \A t \in D : h[t] = f[t]
      <4> SUFFICES ASSUME NEW t \in D PROVE h[t] = f[t]
        OBVIOUS
      <4>1. f[t] = IF t = {} THEN 0 ELSE f[t \ {Max(t)}] * b + ValueOf(s[Max(t)])
        BY <3>2 DEF Folds
      <4> QED
        BY <3>3, <4>1
    <3>6. Folds(h, s, b, E)
      <4>1. \A t \in E : t # {} => f[t \ {Max(t)}] = h[t \ {Max(t)}]
        BY <3>4, <3>5, Zenon
      <4>2. h = [t \in E |-> IF t = {} THEN 0 ELSE h[t \ {Max(t)}] * b + ValueOf(s[Max(t)])]
        BY <4>1
      <4> QED
        BY <4>2 DEF Folds
    <3> QED
      BY <2>2, <3>6 DEF E
  <2> QED
    BY <2>3, <2>4
<1> QED
  BY <1>1

\* Value reads a text from the left.
LEMMA ValueReads ==
    ASSUME NEW s \in Seq(Char), NEW b
    PROVE  \E v : Reads(v, s, b, Len(s)) /\ Value(s, b) = v[Len(s)]
<1> DEFINE n == Len(s)
           P(f) == f = [t \in SUBSET DOMAIN s |->
                           IF t = {} THEN 0
                           ELSE f[t \ {Max(t)}] * b + ValueOf(s[Max(t)])]
           w == CHOOSE f : P(f)
<1>1. n \in Nat /\ DOMAIN s = 1 .. n
  OBVIOUS
<1>2. Value(s, b) = w[DOMAIN s]
  BY DEF Value, FoldLeft, MapThenFoldSet
<1>3. \A f : P(f) <=> Folds(f, s, b, SUBSET DOMAIN s)
  BY DEF Folds
<1> HIDE DEF P, n
<1>4. \E f : P(f)
  BY <1>1, <1>3, FoldExists
<1>5. P(w)
  BY <1>4
<1> HIDE DEF w
<1>6. Folds(w, s, b, SUBSET (1 .. n))
  BY <1>1, <1>3, <1>5
<1> DEFINE v == [i \in 0 .. n |-> w[1 .. i]]
<1>7. v[0] = 0
  BY <1>1, <1>6 DEF Folds
<1>8. ASSUME NEW i \in 1 .. n PROVE v[i] = v[i - 1] * b + ValueOf(s[i])
  <2>1. i \in Nat /\ 1 .. i \in SUBSET (1 .. n) /\ 1 .. i # {} /\ i \in 1 .. i
    BY <1>1
  <2>2. Max(1 .. i) = i
    <3>1. Max(1 .. i) \in 1 .. i /\ i <= Max(1 .. i)
      BY <1>1, <2>1, LargestPlace
    <3> QED
      BY <3>1
  <2>3. (1 .. i) \ {i} = 1 .. i - 1
    BY <2>1
  <2>4. w[1 .. i] = w[1 .. i - 1] * b + ValueOf(s[i])
    <3>1. w[1 .. i] = w[(1 .. i) \ {Max(1 .. i)}] * b + ValueOf(s[Max(1 .. i)])
      BY <1>6, <2>1 DEF Folds
    <3> QED
      BY <2>2, <2>3, <3>1
  <2> QED
    BY <1>1, <2>4
<1>9. Value(s, b) = v[n]
  BY <1>1, <1>2
<1> HIDE DEF v
<1> QED
  BY <1>7, <1>8, <1>9 DEF Reads, n

\* From its k-th place on t continues like the first n characters of s.
Continues(t, k, s, n) == \A i \in 1 .. n : t[k + i] = s[i]

\* Behind a stretch that is worth nothing a text is worth what follows.
LEMMA ReadsOn ==
    ASSUME NEW b, NEW v, NEW s, NEW n \in Nat, Reads(v, s, b, n),
           NEW w, NEW t, NEW m, Reads(w, t, b, m), NEW k \in Nat, m = k + n, w[k] = 0,
           Continues(t, k, s, n)
    PROVE  w[m] = v[n]
<1> DEFINE Bad == {i \in 0 .. n : w[k + i] # v[i]}
<1>1. Bad = {}
  <2> SUFFICES ASSUME Bad # {} PROVE FALSE
    OBVIOUS
  <2>1. PICK i \in Bad : \A j \in Bad : i <= j
    <3>1. Bad \in SUBSET Nat
      OBVIOUS
    <3> HIDE DEF Bad
    <3> QED
      BY <3>1, Least
  <2>2. i \in 0 .. n /\ w[k + i] # v[i]
    BY <2>1
  <2>3. i # 0
    BY <2>2 DEF Reads
  <2>4. i \in 1 .. n /\ i - 1 \in 0 .. n /\ ~(i <= i - 1) /\ k + i \in 1 .. k + n
        /\ (k + i) - 1 = k + (i - 1)
    BY <2>2, <2>3
  <2>5. w[k + (i - 1)] = v[i - 1]
    BY <2>1, <2>4
  <2>6. w[k + i] = w[k + (i - 1)] * b + ValueOf(t[k + i])
    BY <2>4 DEF Reads
  <2>7. v[i] = v[i - 1] * b + ValueOf(s[i]) /\ t[k + i] = s[i]
    BY <2>4 DEF Reads, Continues
  <2> QED
    BY <2>2, <2>5, <2>6, <2>7
<1>2. n \in 0 .. n
  OBVIOUS
<1> QED
  BY <1>1, <1>2

\* The value of a digit is its place.
LEMMA FigureValue ==
    ASSUME NEW k \in 0 .. 15
    PROVE  ValueOf(DigitChar[k + 1]) = k
<1>1. \A i, j \in 1 .. 16 : DigitChar[i] = DigitChar[j] => i = j
  <2>1. \A i \in 1 .. 16 : i \in 1 .. 8 \/ i \in 9 .. 16
    OBVIOUS
  <2> QED
    BY <2>1 DEF DigitChar
<1>2. ASSUME NEW v \in 0 .. 15 PROVE DigitChar[v + 1] = DigitChar[k + 1] <=> v = k
  <2>1. v + 1 \in 1 .. 16 /\ k + 1 \in 1 .. 16 /\ (v + 1 = k + 1 => v = k)
    OBVIOUS
  <2> QED
    BY <1>1, <2>1
<1> QED
  BY <1>2 DEF ValueOf

\* Zeros in front are worth nothing.
LEMMA ZerosRead ==
    ASSUME NEW b \in Nat, NEW w, NEW t, NEW n \in Nat, Reads(w, t, b, n), NEW k \in 0 .. n,
           \A i \in 1 .. k : t[i] = "0"
    PROVE  w[k] = 0
<1>1. ValueOf("0") = 0
  <2>1. 0 \in 0 .. 15 /\ DigitChar[0 + 1] = "0"
    BY DEF DigitChar
  <2> QED
    BY <2>1, FigureValue
<1> DEFINE Bad == {i \in 0 .. k : w[i] # 0}
<1>2. Bad = {}
  <2> SUFFICES ASSUME Bad # {} PROVE FALSE
    OBVIOUS
  <2>1. PICK i \in Bad : \A m \in Bad : i <= m
    <3>1. Bad \in SUBSET Nat
      OBVIOUS
    <3> HIDE DEF Bad
    <3> QED
      BY <3>1, Least
  <2>2. i \in 0 .. k /\ w[i] # 0
    BY <2>1
  <2>3. i # 0
    BY <2>2 DEF Reads
  <2>4. i \in 1 .. k /\ i \in 1 .. n /\ i - 1 \in 0 .. k /\ ~(i <= i - 1)
    BY <2>2, <2>3
  <2>5. w[i - 1] = 0
    BY <2>1, <2>4
  <2>6. w[i] = 0 * b + 0
    BY <1>1, <2>4, <2>5 DEF Reads
  <2> QED
    BY <2>2, <2>6
<1> QED
  BY <1>2

\* A text behind zeros is worth what it is without them.
LEMMA ZerosInFront ==
    ASSUME NEW z \in Seq(Char), NEW s \in Seq(Char), NEW b \in Nat,
           \A i \in 1 .. Len(z) : z[i] = "0"
    PROVE  Value(z \o s, b) = Value(s, b)
<1> DEFINE t == z \o s
           k == Len(z)
           n == Len(s)
<1>1. /\ t \in Seq(Char) /\ Len(t) = k + n /\ k \in Nat /\ n \in Nat
      /\ \A i \in 1 .. k + n : t[i] = IF i <= k THEN z[i] ELSE s[i - k]
  BY ConcatProperties
<1>2. PICK v : Reads(v, s, b, n) /\ Value(s, b) = v[n]
  BY ValueReads
<1> HIDE DEF t, k, n
<1>3. PICK w : Reads(w, t, b, k + n) /\ Value(t, b) = w[k + n]
  BY <1>1, ValueReads
<1>4. \A i \in 1 .. k : t[i] = "0"
  <2> SUFFICES ASSUME NEW i \in 1 .. k PROVE t[i] = "0"
    OBVIOUS
  <2>1. i \in 1 .. k + n /\ i <= k
    BY <1>1
  <2> QED
    BY <1>1, <2>1 DEF k
<1>5. w[k] = 0
  <2>1. k \in 0 .. k + n /\ k + n \in Nat
    BY <1>1
  <2> QED
    BY <1>3, <1>4, <2>1, ZerosRead
<1>6. Continues(t, k, s, n)
  <2> SUFFICES ASSUME NEW i \in 1 .. n PROVE t[k + i] = s[i]
    BY DEF Continues
  <2>1. k + i \in 1 .. k + n /\ ~(k + i <= k) /\ (k + i) - k = i
    BY <1>1
  <2> QED
    BY <1>1, <2>1
<1>7. w[k + n] = v[n]
  BY <1>1, <1>2, <1>3, <1>5, <1>6, ReadsOn
<1> QED
  BY <1>2, <1>3, <1>7 DEF t

\* One more figure.
LEMMA ValueAppend ==
    ASSUME NEW s \in Seq(Char), NEW char \in Char, NEW b \in Nat
    PROVE  Value(Append(s, char), b) = Value(s, b) * b + ValueOf(char)
<1> DEFINE t == Append(s, char)
           n == Len(s)
<1>1. /\ t \in Seq(Char) /\ Len(t) = n + 1 /\ n \in Nat
      /\ \A i \in 1 .. n : t[i] = s[i]
      /\ t[n + 1] = char
  BY AppendProperties
<1>2. PICK v : Reads(v, s, b, n) /\ Value(s, b) = v[n]
  BY ValueReads
<1> HIDE DEF t, n
<1>3. PICK w : Reads(w, t, b, n + 1) /\ Value(t, b) = w[n + 1]
  BY <1>1, ValueReads
<1>4. w[0] = 0 /\ Reads(w, t, b, n)
  BY <1>1, <1>3 DEF Reads
<1>5. Continues(t, 0, s, n)
  BY <1>1 DEF Continues
<1>6. w[n] = v[n]
  BY <1>1, <1>2, <1>4, <1>5, ReadsOn
<1>7. n + 1 \in 1 .. n + 1 /\ (n + 1) - 1 = n
  BY <1>1
<1>8. w[n + 1] = w[n] * b + ValueOf(char)
  BY <1>1, <1>3, <1>7 DEF Reads
<1> QED
  BY <1>2, <1>3, <1>6, <1>7, <1>8 DEF t

\* A text without characters.
LEMMA ValueEmpty == ASSUME NEW b PROVE Value(<< >>, b) = 0
<1>1. << >> \in Seq(Char) /\ Len(<< >>) = 0
  OBVIOUS
<1> QED
  BY <1>1, ValueReads DEF Reads

\* The powers of a base, up to any one of them.
LEMMA PowersTo ==
    ASSUME NEW b \in Nat, NEW m \in Nat
    PROVE  \E g \in [0 .. m -> Nat] :
              /\ g[0] = 1 /\ \A i \in 1 .. m : g[i] = b * g[i - 1]
              /\ \A n \in 0 .. m : Power(b, n) = g[n]
<1> DEFINE Right(g, k) == g[0] = 1 /\ \A i \in 1 .. k : g[i] = b * g[i - 1]
           Bad == {k \in Nat : ~ \E g \in [0 .. k -> Nat] : Right(g, k)}
<1>1. Bad = {}
  <2> SUFFICES ASSUME Bad # {} PROVE FALSE
    OBVIOUS
  <2>1. PICK k \in Bad : \A j \in Bad : k <= j
    <3>1. Bad \in SUBSET Nat
      OBVIOUS
    <3> HIDE DEF Bad
    <3> QED
      BY <3>1, Least
  <2>2. k \in Nat /\ ~ \E g \in [0 .. k -> Nat] : Right(g, k)
    BY <2>1
  <2>3. CASE k = 0
    <3>1. [i \in 0 .. 0 |-> 1] \in [0 .. 0 -> Nat] /\ Right([i \in 0 .. 0 |-> 1], 0)
      OBVIOUS
    <3> QED
      BY <2>2, <2>3, <3>1
  <2>4. CASE k # 0
    <3>1. k - 1 \in Nat /\ ~ (k <= k - 1) /\ k - 1 \in 0 .. k - 1
      BY <2>2, <2>4
    <3>2. PICK g \in [0 .. k - 1 -> Nat] : Right(g, k - 1)
      BY <2>1, <3>1
    <3> DEFINE h == [i \in 0 .. k |-> IF i = k THEN b * g[k - 1] ELSE g[i]]
    <3>3. \A i \in 0 .. k : i # k => i \in 0 .. k - 1
      BY <2>2
    <3>4. b * g[k - 1] \in Nat
      BY <3>1
    <3>5. h \in [0 .. k -> Nat]
      BY <3>3, <3>4
    <3>6. h[k] = b * g[k - 1] /\ \A i \in 0 .. k - 1 : h[i] = g[i]
      BY <2>2
    <3> HIDE DEF h
    <3>7. ASSUME NEW i \in 1 .. k PROVE h[i] = b * h[i - 1]
      <4>1. i - 1 \in 0 .. k - 1 /\ (i # k => i \in 1 .. k - 1 /\ i \in 0 .. k - 1)
        BY <2>2
      <4>2. CASE i = k
        BY <3>1, <3>6, <4>2
      <4>3. CASE i # k
        <5>1. h[i] = g[i] /\ h[i - 1] = g[i - 1] /\ g[i] = b * g[i - 1]
          BY <3>2, <3>6, <4>1, <4>3
        <5> QED
          BY <5>1
      <4> QED
        BY <4>2, <4>3
    <3>8. h[0] = 1
      BY <2>2, <3>1, <3>2, <3>6
    <3> QED
      BY <2>2, <3>5, <3>7, <3>8
  <2> QED
    BY <2>3, <2>4
<1>2. PICK g \in [0 .. m -> Nat] : Right(g, m)
  BY <1>1
<1>3. ASSUME NEW n \in 0 .. m PROVE Power(b, n) = g[n]
  <2> DEFINE P(f) == f = [i \in 0 .. n |-> IF i = 0 THEN 1 ELSE b * f[i - 1]]
             to == CHOOSE f : P(f)
             h == [i \in 0 .. n |-> g[i]]
  <2>1. Power(b, n) = to[n]
    BY DEF Power
  <2>2. P(h)
    <3>1. ASSUME NEW i \in 0 .. n, i # 0 PROVE i \in 1 .. m /\ i - 1 \in 0 .. n
      BY <3>1
    <3>2. \A i \in 0 .. n : h[i] = IF i = 0 THEN 1 ELSE b * h[i - 1]
      BY <1>2, <3>1
    <3> QED
      BY <3>2
  <2> HIDE DEF P
  <2>3. P(to)
    BY <2>2
  <2> HIDE DEF to, h
  <2>4. \A i \in 0 .. n : to[i] = IF i = 0 THEN 1 ELSE b * to[i - 1]
    BY <2>3 DEF P
  <2> DEFINE Off == {i \in 0 .. n : to[i] # g[i]}
  <2>5. Off = {}
    <3> SUFFICES ASSUME Off # {} PROVE FALSE
      OBVIOUS
    <3>1. PICK i \in Off : \A j \in Off : i <= j
      <4>1. Off \in SUBSET Nat
        OBVIOUS
      <4> HIDE DEF Off
      <4> QED
        BY <4>1, Least
    <3>2. i \in 0 .. n /\ to[i] # g[i]
      BY <3>1
    <3>3. i # 0
      BY <1>2, <2>4, <3>2
    <3>4. i \in 1 .. m /\ i - 1 \in 0 .. n /\ ~(i <= i - 1)
      BY <3>2, <3>3
    <3>5. to[i - 1] = g[i - 1]
      BY <3>1, <3>4
    <3> QED
      BY <1>2, <2>4, <3>2, <3>3, <3>4, <3>5
  <2> QED
    BY <2>1, <2>5
<1> QED
  BY <1>2, <1>3

\* What a recursive definition of the powers says, and how they are ordered.
LEMMA PowerFacts ==
    ASSUME NEW b \in Nat \ {0}, NEW n \in Nat
    PROVE  /\ Power(b, 0) = 1 /\ Power(b, n) \in Nat
           /\ Power(b, n + 1) = b * Power(b, n)
<1>1. n + 1 \in Nat /\ n \in 0 .. n + 1 /\ 0 \in 0 .. n + 1 /\ n + 1 \in 1 .. n + 1
      /\ (n + 1) - 1 = n /\ n + 1 \in 0 .. n + 1
  OBVIOUS
<1>2. PICK g \in [0 .. n + 1 -> Nat] :
         /\ g[0] = 1 /\ \A i \in 1 .. n + 1 : g[i] = b * g[i - 1]
         /\ \A k \in 0 .. n + 1 : Power(b, k) = g[k]
  BY <1>1, PowersTo
<1>3. g[n + 1] = b * g[n]
  BY <1>1, <1>2
<1> QED
  BY <1>1, <1>2, <1>3

\* A larger exponent is no smaller power.
LEMMA PowersGrow ==
    ASSUME NEW b \in Nat \ {0}, NEW k \in Nat, NEW n \in Nat, k <= n
    PROVE  Power(b, k) <= Power(b, n)
<1> DEFINE Bad == {i \in Nat : k <= i /\ ~ (Power(b, k) <= Power(b, i))}
<1>1. Bad = {}
  <2> SUFFICES ASSUME Bad # {} PROVE FALSE
    OBVIOUS
  <2>1. PICK i \in Bad : \A j \in Bad : i <= j
    <3>1. Bad \in SUBSET Nat
      OBVIOUS
    <3> HIDE DEF Bad
    <3> QED
      BY <3>1, Least
  <2>2. i \in Nat /\ k <= i /\ ~ (Power(b, k) <= Power(b, i))
    BY <2>1
  <2>3. Power(b, k) \in Nat /\ Power(b, i) \in Nat
    BY <2>2, PowerFacts
  <2>4. i # k
    BY <2>2, <2>3
  <2>5. PICK j \in Nat : i = j + 1 /\ k <= j /\ ~(i <= j)
    <3>1. i - 1 \in Nat /\ i = (i - 1) + 1 /\ k <= i - 1 /\ ~(i <= i - 1)
      BY <2>2, <2>4
    <3> QED
      BY <3>1
  <2>6. Power(b, k) <= Power(b, j) /\ Power(b, j) \in Nat
    BY <2>1, <2>5, PowerFacts
  <2>7. Power(b, i) = b * Power(b, j)
    BY <2>5, PowerFacts
  <2>8. ASSUME NEW x \in Nat PROVE x <= b * x
    OBVIOUS
  <2> QED
    BY <2>2, <2>3, <2>6, <2>7, <2>8
<1> QED
  BY <1>1

\* Digits are characters of a text.
LEMMA FiguresAreText ==
    /\ Figure \subseteq Char /\ "0" \in Figure
    /\ Space \notin Figure /\ "-" \notin Figure /\ "+" \notin Figure
    /\ \A s \in Seq(Figure) : s \in Seq(Char)
<1>1. Figure \subseteq Char
  BY CharAssumption DEF Figure
<1>2. "0" \in Figure
  <2>1. 1 \in 1 .. 16 /\ DigitChar[1] = "0"
    BY DEF DigitChar
  <2> QED
    BY <2>1 DEF Figure
<1>3. Space \notin Figure /\ "-" \notin Figure /\ "+" \notin Figure
  <2> DEFINE set == {"0", "1", "2", "3", "4", "5", "6", "7", "8", "9", "a", "b", "c", "d", "e", "f"}
  <2>1. \A i \in 1 .. 16 : DigitChar[i] \in set
    BY DEF DigitChar
  <2>2. Space \notin set /\ "-" \notin set /\ "+" \notin set
    BY Zenon DEF Space
  <2> HIDE DEF set
  <2> QED
    BY <2>1, <2>2, Zenon DEF Figure
<1> QED
  BY <1>1, <1>2, <1>3, SeqMonotonic

\* What a digit and what is left of the number behind it are.
LEMMA Division ==
    ASSUME NEW n \in Nat, NEW base \in {8, 10, 16}
    PROVE  n = base * (n \div base) + (n % base) /\ n % base \in 0 .. base - 1
<1>1. CASE base = 8
  BY <1>1
<1>2. CASE base = 10
  BY <1>2
<1>3. CASE base = 16
  BY <1>3
<1> QED
  BY <1>1, <1>2, <1>3

\* t is the number n in figures, as many as it needs.
Spells(t, n, base) ==
    /\ Value(t, base) = n
    /\ Len(t) <= n
    /\ Power(base, Len(t)) > n
    /\ n # 0 => Len(t) >= 1 /\ Power(base, Len(t) - 1) <= n

\* One more division, one more digit.
LEMMA SpellsOn ==
    ASSUME NEW base \in {8, 10, 16}, NEW n \in Nat \ {0}, NEW t \in Seq(Figure),
           Spells(t, n \div base, base),
           NEW u, u = Append(t, DigitChar[(n % base) + 1])
    PROVE  Spells(u, n, base)
<1> DEFINE q == n \div base
           d == n % base
           k == Len(t)
<1>1. /\ n = base * q + d /\ d \in 0 .. base - 1 /\ q \in Nat /\ q < n /\ d \in 0 .. 15
      /\ base \in Nat \ {0}
  BY Division, Divided
<1>2. DigitChar[d + 1] \in Figure /\ ValueOf(DigitChar[d + 1]) = d
  <2> HIDE DEF d
  <2>1. d + 1 \in 1 .. 16
    BY <1>1
  <2> QED
    BY <1>1, <2>1, FigureValue DEF Figure
<1>3. Len(u) = k + 1 /\ k \in Nat
  BY <1>2, AppendProperties
<1>4. Value(u, base) = n
  <2>1. t \in Seq(Char) /\ DigitChar[d + 1] \in Char
    BY <1>2, FiguresAreText
  <2>2. Value(u, base) = Value(t, base) * base + ValueOf(DigitChar[d + 1])
    BY <1>1, <2>1, ValueAppend
  <2>3. Value(t, base) = q
    BY DEF Spells
  <2> HIDE DEF q, d
  <2>4. Value(u, base) = q * base + d
    BY <1>2, <2>2, <2>3
  <2> QED
    BY <1>1, <2>4
<1> HIDE DEF q, d, k
<1>5. k <= q /\ Power(base, k) > q /\ Power(base, k) \in Nat
      /\ Power(base, k + 1) = base * Power(base, k)
  BY <1>1, <1>3, PowerFacts DEF Spells, q, k
<1>6. Power(base, k + 1) > n
  <2>1. base * Power(base, k) >= base * (q + 1)
    <3>1. ASSUME NEW x \in Nat, x > q PROVE base * x >= base * (q + 1)
      BY <1>1, <3>1
    <3> QED
      BY <1>5, <3>1
  <2>2. base * (q + 1) = base * q + base
    BY <1>1
  <2>3. base * q \in Nat /\ base * Power(base, k) \in Nat
    BY <1>1, <1>5
  <2>4. d < base
    BY <1>1
  <2> DEFINE x == base * Power(base, k)
             y == base * q
  <2>5. x >= y + base /\ n = y + d /\ x \in Nat /\ y \in Nat
    BY <1>1, <2>1, <2>2, <2>3
  <2>6. Power(base, k + 1) = x
    BY <1>5
  <2> HIDE DEF x, y
  <2> QED
    BY <1>1, <2>4, <2>5, <2>6
<1>7. Power(base, k) <= n
  <2>1. CASE q = 0
    <3>1. k = 0
      BY <1>3, <1>5, <2>1
    <3>2. Power(base, 0) = 1 /\ n >= 1
      BY <1>1, PowerFacts
    <3> QED
      BY <3>1, <3>2
  <2>2. CASE q # 0
    <3>1. k >= 1 /\ Power(base, k - 1) <= q
      BY <2>2 DEF Spells, q, k
    <3>2. PICK j \in Nat : k = j + 1 /\ j = k - 1
      BY <1>3, <3>1
    <3>3. Power(base, j) <= q /\ Power(base, j) \in Nat /\ Power(base, k) = base * Power(base, j)
      BY <1>1, <3>1, <3>2, PowerFacts
    <3>4. ASSUME NEW x \in Nat, x <= q PROVE base * x <= base * q
      BY <1>1, <3>4
    <3>5. base * Power(base, j) <= base * q
      BY <3>3, <3>4
    <3>6. base * q \in Nat /\ base * Power(base, j) \in Nat
      BY <1>1, <3>3
    <3> DEFINE x == base * Power(base, j)
               y == base * q
    <3>7. x <= y /\ n = y + d /\ d >= 0 /\ d \in Nat /\ x \in Nat /\ y \in Nat
      BY <1>1, <3>5, <3>6
    <3>8. Power(base, k) = x
      BY <3>3
    <3> HIDE DEF x, y
    <3> QED
      BY <3>7, <3>8
  <2> QED
    BY <2>1, <2>2
<1>8. Len(u) <= n /\ Len(u) >= 1 /\ Len(u) - 1 = k
  <2>1. n \in Nat /\ q \in Nat /\ q < n
    BY <1>1
  <2>2. k \in Nat /\ k <= q
    BY <1>3, <1>5
  <2>3. k + 1 <= n /\ k + 1 >= 1 /\ (k + 1) - 1 = k
    BY <2>1, <2>2
  <2> QED
    BY <1>3, <2>3
<1> QED
  BY <1>3, <1>4, <1>6, <1>7, <1>8 DEF Spells

\* Digits spells the number, with one figure if it is zero.
LEMMA DigitsSpell ==
    ASSUME NEW num \in Nat, NEW base \in {8, 10, 16}, NEW t, t = Digits(num, base)
    PROVE  /\ t \in Seq(Figure) /\ Len(t) \in Nat \ {0}
           /\ Value(t, base) = num
           /\ Len(t) = 1 \/ Len(t) <= num
           /\ Power(base, Len(t)) > num
           /\ Len(t) = 1 \/ Power(base, Len(t) - 1) <= num
<1>1. PICK of \in [0 .. num -> Seq(Figure)] :
         /\ of[0] = << >>
         /\ \A n \in 1 .. num : of[n] = Append(of[n \div base], DigitChar[(n % base) + 1])
         /\ Digits(num, base) = IF num = 0 THEN <<"0">> ELSE of[num]
  BY DigitsDefined
<1>2. base \in Nat \ {0} /\ base \in Nat
  OBVIOUS
<1> DEFINE Bad == {n \in 0 .. num : ~ Spells(of[n], n, base)}
<1>3. Bad = {}
  <2> SUFFICES ASSUME Bad # {} PROVE FALSE
    OBVIOUS
  <2>1. PICK n \in Bad : \A j \in Bad : n <= j
    <3>1. Bad \in SUBSET Nat
      OBVIOUS
    <3> HIDE DEF Bad
    <3> QED
      BY <3>1, Least
  <2>2. n \in 0 .. num /\ n \in Nat /\ ~ Spells(of[n], n, base)
    BY <2>1
  <2>3. CASE n = 0
    <3>1. Len(<< >>) = 0 /\ Value(<< >>, base) = 0 /\ Power(base, 0) = 1
      BY <1>2, ValueEmpty, PowerFacts
    <3>2. Spells(<< >>, 0, base)
      BY <3>1 DEF Spells
    <3> QED
      BY <1>1, <2>2, <2>3, <3>2
  <2>4. CASE n # 0
    <3>1. n \in 1 .. num /\ n \in Nat \ {0}
      BY <2>2, <2>4
    <3>2. n \div base \in 0 .. num /\ ~(n <= n \div base)
      BY <2>2, <2>4, Divided
    <3>3. Spells(of[n \div base], n \div base, base) /\ of[n \div base] \in Seq(Figure)
      BY <2>1, <3>2
    <3>4. of[n] = Append(of[n \div base], DigitChar[(n % base) + 1])
      BY <1>1, <3>1
    <3>5. Spells(of[n], n, base)
      BY <3>1, <3>3, <3>4, SpellsOn
    <3> QED
      BY <2>2, <3>5
  <2> QED
    BY <2>3, <2>4
<1>4. CASE num = 0
  <2>1. t = <<"0">> /\ t = Append(<< >>, "0")
    BY <1>1, <1>4
  <2>2. "0" \in Figure /\ "0" \in Char /\ << >> \in Seq(Char)
    <3>1. "0" \in Figure /\ "0" \in Char
      BY FiguresAreText
    <3> QED
      BY <3>1
  <2>3. t \in Seq(Figure) /\ Len(t) = 1
    BY <2>1, <2>2
  <2>4. ValueOf("0") = 0
    <3>1. 0 \in 0 .. 15 /\ DigitChar[0 + 1] = "0"
      BY DEF DigitChar
    <3> QED
      BY <3>1, FigureValue
  <2>5. Value(t, base) = 0
    <3>1. Value(t, base) = Value(<< >>, base) * base + ValueOf("0")
      BY <1>2, <2>1, <2>2, ValueAppend
    <3> QED
      BY <1>2, <2>4, <3>1, ValueEmpty
  <2>6. Power(base, 1) > 0
    <3>1. Power(base, 0 + 1) = base * Power(base, 0) /\ Power(base, 0) = 1
      BY <1>2, PowerFacts
    <3> QED
      BY <1>2, <3>1
  <2>7. Power(base, Len(t)) > num /\ Value(t, base) = num
    BY <1>4, <2>3, <2>5, <2>6
  <2> QED
    BY <2>3, <2>7
<1>5. CASE num # 0
  <2>1. t = of[num] /\ num \in 0 .. num
    BY <1>1, <1>5
  <2>2. Spells(t, num, base) /\ t \in Seq(Figure)
    BY <1>3, <2>1
  <2>3. Len(t) \in Nat
    BY <2>2
  <2> QED
    BY <1>5, <2>2, <2>3 DEF Spells
<1> QED
  BY <1>4, <1>5

-----------------------------------------------------------------------------
(* The shape of a converted number.                                         *)
\* A text of nothing but char, and one without spaces.
Only(s, char) == s \in Seq(Char) /\ \A i \in 1 .. Len(s) : s[i] = char

Inked(s) == s \in Seq(Char) /\ \A i \in 1 .. Len(s) : s[i] # Space

\* The characters a number is made of.
LEMMA Marks ==
    /\ Space \in Char /\ "0" \in Char /\ "+" \in Char /\ "-" \in Char /\ "x" \in Char
    /\ Space # "0" /\ Space # "+" /\ Space # "-" /\ Space # "x"
<1>1. "0" \in Char
  BY FiguresAreText
<1>2. {" ", "+", "-", "x"} \subseteq Char
  BY CharAssumption, Zenon
<1>3. Space # "0" /\ Space # "+" /\ Space # "-" /\ Space # "x"
  BY Zenon DEF Space
<1> QED
  BY <1>1, <1>2, <1>3, Zenon DEF Space

\* n times the same character.
LEMMA RepeatedOnly ==
    ASSUME NEW char \in Char, NEW n \in Int
    PROVE  /\ Only(Repeat(char, n), char)
           /\ Len(Repeat(char, n)) = IF n > 0 THEN n ELSE 0
<1>1. Repeat(char, n) \in Seq(Char) /\ Len(Repeat(char, n)) = IF n > 0 THEN n ELSE 0
  BY Repeated
<1>2. larger(n, 0) = IF n > 0 THEN n ELSE 0
  BY DEF larger
<1>3. ASSUME NEW i \in 1 .. Len(Repeat(char, n)) PROVE Repeat(char, n)[i] = char
  <2>1. i \in 1 .. larger(n, 0)
    BY <1>1, <1>2
  <2> QED
    BY <2>1 DEF Repeat
<1> QED
  BY <1>1, <1>3 DEF Only

\* Text of one character behind text of the same character.
LEMMA OnlyJoined ==
    ASSUME NEW char, NEW s, NEW t, Only(s, char), Only(t, char)
    PROVE  Only(s \o t, char)
<1>1. /\ s \o t \in Seq(Char) /\ Len(s \o t) = Len(s) + Len(t)
      /\ Len(s) \in Nat /\ Len(t) \in Nat
      /\ \A i \in 1 .. Len(s) + Len(t) :
            (s \o t)[i] = IF i <= Len(s) THEN s[i] ELSE t[i - Len(s)]
  BY Joined, ConcatProperties DEF Only
<1>2. ASSUME NEW i \in 1 .. Len(s) + Len(t) PROVE (s \o t)[i] = char
  <2>1. CASE i <= Len(s)
    <3>1. i \in 1 .. Len(s)
      BY <1>1, <2>1
    <3> QED
      BY <1>1, <2>1, <3>1 DEF Only
  <2>2. CASE ~(i <= Len(s))
    <3>1. i - Len(s) \in 1 .. Len(t)
      BY <1>1, <2>2
    <3> QED
      BY <1>1, <2>2, <3>1 DEF Only
  <2> QED
    BY <2>1, <2>2
<1> QED
  BY <1>1, <1>2 DEF Only

\* Text without spaces behind text without spaces.
LEMMA InkedJoined ==
    ASSUME NEW s, NEW t, Inked(s), Inked(t)
    PROVE  Inked(s \o t)
<1>1. /\ s \o t \in Seq(Char) /\ Len(s \o t) = Len(s) + Len(t)
      /\ Len(s) \in Nat /\ Len(t) \in Nat
      /\ \A i \in 1 .. Len(s) + Len(t) :
            (s \o t)[i] = IF i <= Len(s) THEN s[i] ELSE t[i - Len(s)]
  BY Joined, ConcatProperties DEF Inked
<1>2. ASSUME NEW i \in 1 .. Len(s) + Len(t) PROVE (s \o t)[i] # Space
  <2>1. CASE i <= Len(s)
    <3>1. i \in 1 .. Len(s)
      BY <1>1, <2>1
    <3> QED
      BY <1>1, <2>1, <3>1 DEF Inked
  <2>2. CASE ~(i <= Len(s))
    <3>1. i - Len(s) \in 1 .. Len(t)
      BY <1>1, <2>2
    <3> QED
      BY <1>1, <2>2, <3>1 DEF Inked
  <2> QED
    BY <2>1, <2>2
<1> QED
  BY <1>1, <1>2 DEF Inked

\* st is s with t behind it.
Glued(st, s, t) == s \in Seq(Char) /\ t \in Seq(Char) /\ st = s \o t

\* Text behind text is text.
LEMMA GluedText == ASSUME NEW st, NEW s, NEW t, Glued(st, s, t) PROVE st \in Seq(Char)
  BY ConcatProperties DEF Glued

\* It does not matter which two of three are put together first.
LEMMA Associative ==
    ASSUME NEW s, NEW t, NEW u, NEW st, NEW tu, NEW stu,
           Glued(st, s, t), Glued(tu, t, u), Glued(stu, st, u)
    PROVE  Glued(stu, s, tu)
<1>1. s \in Seq(Char) /\ t \in Seq(Char) /\ u \in Seq(Char) /\ tu \in Seq(Char)
  BY GluedText DEF Glued
<1>2. (s \o t) \o u = s \o (t \o u)
  BY <1>1, ConcatAssociative
<1> QED
  BY <1>1, <1>2, Zenon DEF Glued

\* The pieces of a text, in the order in which number stores them, and put
\* together from the back, with the spaces apart from what they surround.
InOrder(text, a, sign, prefix, b, c, figures, d) ==
    text = (((((a \o sign) \o prefix) \o b) \o c) \o figures) \o d

Framed(text, lead, mark, prefix, zeros, figures, trail) ==
    text = (lead \o (mark \o (prefix \o (zeros \o figures)))) \o trail

SameText(lead, mark, a, sign) == lead \o mark = a \o sign

\* The spaces that stand for a sign go to the padding, the padding zeros to the others.
LEMMA Regroup ==
    ASSUME NEW a \in Seq(Char), NEW sign \in Seq(Char), NEW prefix \in Seq(Char),
           NEW b \in Seq(Char), NEW c \in Seq(Char), NEW figures \in Seq(Char), NEW d,
           NEW lead \in Seq(Char), NEW mark \in Seq(Char), SameText(lead, mark, a, sign),
           NEW text, InOrder(text, a, sign, prefix, b, c, figures, d),
           NEW zeros, zeros = b \o c
    PROVE  Framed(text, lead, mark, prefix, zeros, figures, d)
<1>1. PICK lm, x, xb, bc, r, xbc, xbcf, pr, mpr :
         /\ lm = lead \o mark /\ x = lm \o prefix /\ xb = x \o b /\ bc = b \o c
         /\ r = bc \o figures /\ xbc = xb \o c /\ xbcf = xbc \o figures
         /\ pr = prefix \o r /\ mpr = mark \o pr
  OBVIOUS
<1>2. Glued(lm, lead, mark) /\ Glued(bc, b, c)
  BY <1>1 DEF Glued
<1>3. Glued(x, lm, prefix) /\ Glued(r, bc, figures)
  BY <1>1, <1>2, GluedText DEF Glued
<1>4. Glued(xb, x, b) /\ Glued(pr, prefix, r)
  BY <1>1, <1>3, GluedText DEF Glued
<1>5. Glued(xbc, xb, c) /\ Glued(mpr, mark, pr)
  BY <1>1, <1>4, GluedText DEF Glued
<1>6. Glued(xbcf, xbc, figures)
  BY <1>1, <1>5, GluedText DEF Glued
<1>7. Glued(xbc, x, bc)
  BY <1>2, <1>4, <1>5, Associative
<1>8. Glued(xbcf, x, r)
  BY <1>3, <1>6, <1>7, Associative
<1>9. Glued(xbcf, lm, pr)
  BY <1>3, <1>4, <1>8, Associative
<1>10. Glued(xbcf, lead, mpr)
  BY <1>2, <1>5, <1>9, Associative
<1>11. xbcf = lead \o mpr
  BY <1>10, Zenon DEF Glued
<1>12. text = xbcf \o d
  <2>1. text = (((((lead \o mark) \o prefix) \o b) \o c) \o figures) \o d
    BY Zenon DEF InOrder, SameText
  <2> QED
    BY <1>1, <2>1, Zenon
<1> QED
  BY <1>1, <1>11, <1>12, Zenon DEF Framed

\* The sign, with SPACE a space for a number that is not negative.
LEMMA Signs ==
    ASSUME NEW num, NEW type
    PROVE  /\ SignOf(num, type) = IF "SIGN" \notin type THEN << >>
                                  ELSE IF Negative(num, type) THEN <<"-">>
                                  ELSE IF "PLUS" \in type THEN <<"+">>
                                  ELSE IF "SPACE" \in type THEN <<Space>> ELSE << >>
           /\ SignOf(num, type) \in Seq(Char)
<1>1. SignOf(num, type) = IF "SIGN" \notin type THEN << >>
                          ELSE IF Negative(num, type) THEN <<"-">>
                          ELSE IF "PLUS" \in type THEN <<"+">>
                          ELSE IF "SPACE" \in type THEN <<Space>> ELSE << >>
  BY Zenon DEF SignOf, Space
<1>2. << >> \in Seq(Char) /\ <<"-">> \in Seq(Char) /\ <<"+">> \in Seq(Char)
      /\ <<Space>> \in Seq(Char)
  BY Marks, Short, Zenon
<1> QED
  BY <1>1, <1>2, Zenon

\* What is stored in front of the digits.
LEMMA PrefixFacts ==
    ASSUME NEW base \in {8, 10, 16}, NEW type
    PROVE  /\ PrefixOf(base, type) = IF "SPECIAL" \in type /\ base = 16 THEN <<"0", "x">>
                                     ELSE IF "SPECIAL" \in type /\ base = 8 THEN <<"0">>
                                     ELSE << >>
           /\ PrefixOf(base, type) \in Seq(Char)
<1>1. PrefixOf(base, type) = IF "SPECIAL" \in type /\ base = 16 THEN <<"0", "x">>
                             ELSE IF "SPECIAL" \in type /\ base = 8 THEN <<"0">>
                             ELSE << >>
  BY DEF PrefixOf
<1>2. << >> \in Seq(Char) /\ <<"0">> \in Seq(Char) /\ <<"0", "x">> \in Seq(Char)
  BY Marks, Short, Zenon
<1> QED
  BY <1>1, <1>2, Zenon

\* The figures of a number.
LEMMA Figured ==
    ASSUME NEW num \in 0 .. Word - 1, NEW base \in {8, 10, 16}, NEW type
    PROVE  \E figures \in Seq(Figure) :
              /\ figures = Digits(magnitude(num, type), base)
              /\ Len(figures) \in 1 .. Word
              /\ Value(figures, base) = magnitude(num, type)
              /\ magnitude(num, type) \in Nat
              /\ Power(base, Len(figures)) > magnitude(num, type)
              /\ Len(figures) = 1 \/ Power(base, Len(figures) - 1) <= magnitude(num, type)
<1>1. PICK m \in Nat : m = magnitude(num, type) /\ m <= Word /\ Word \in Nat /\ Word >= 1
  <2>1. Word \in Nat /\ Word >= 1
    BY WordAssumption
  <2>2. magnitude(num, type) = Word - num \/ magnitude(num, type) = num
    BY Zenon DEF magnitude
  <2>3. magnitude(num, type) \in Nat /\ magnitude(num, type) <= Word
    BY <2>1, <2>2
  <2> QED
    BY <2>1, <2>3
<1>2. PICK figures : figures = Digits(m, base)
  OBVIOUS
<1>3. /\ figures \in Seq(Figure) /\ Len(figures) \in Nat \ {0}
      /\ Value(figures, base) = m
      /\ Len(figures) = 1 \/ Len(figures) <= m
      /\ Power(base, Len(figures)) > m
      /\ Len(figures) = 1 \/ Power(base, Len(figures) - 1) <= m
  BY <1>2, DigitsSpell
<1>4. Len(figures) \in 1 .. Word
  <2>1. PICK k \in Nat \ {0} : k = Len(figures) /\ (k = 1 \/ k <= m)
    BY <1>3
  <2>2. k \in 1 .. Word
    BY <1>1, <2>1
  <2> QED
    BY <2>1, <2>2
<1> QED
  BY <1>1, <1>2, <1>3, <1>4

\* What number computes before it stores anything: room is what the field leaves.
Converts(num, base, width, digits, type, sign, prefix, figures, least, room) ==
    /\ num \in 0 .. Word - 1 /\ base \in {8, 10, 16} /\ width \in Int /\ digits \in Int
    /\ sign = SignOf(num, type) /\ prefix = PrefixOf(base, type)
    /\ figures = Digits(magnitude(num, type), base) /\ figures \in Seq(Figure)
    /\ Len(figures) \in 1 .. Word
    /\ least \in Int /\ least = larger(Len(figures), digits)
    /\ room \in Int /\ room = width - Len(sign) - Len(prefix) - least

\* There is something to compute for every argument.
LEMMA Converted ==
    ASSUME NEW num \in 0 .. Word - 1, NEW base \in {8, 10, 16}, NEW width \in Int,
           NEW digits \in Int, NEW type
    PROVE  \E sign, prefix, figures, least, room :
              Converts(num, base, width, digits, type, sign, prefix, figures, least, room)
<1>1. PICK figures \in Seq(Figure) :
         figures = Digits(magnitude(num, type), base) /\ Len(figures) \in 1 .. Word
  BY Figured
<1>2. PICK sign \in Seq(Char), prefix \in Seq(Char) :
         sign = SignOf(num, type) /\ prefix = PrefixOf(base, type)
  BY Signs, PrefixFacts
<1>3. PICK least \in Int : least = larger(Len(figures), digits)
  BY <1>1 DEF larger
<1>4. PICK room \in Int : room = width - Len(sign) - Len(prefix) - least
  <2>1. Len(sign) \in Int /\ Len(prefix) \in Int
    OBVIOUS
  <2>2. width - Len(sign) - Len(prefix) - least \in Int
    BY <2>1
  <2> QED
    BY <2>2
<1> QED
  BY <1>1, <1>2, <1>3, <1>4 DEF Converts

\* The text of a number: spaces, sign, prefix, zeros, figures, spaces.  room
\* is what the field leaves; it goes to one of the three paddings.
LEMMA NumberShape ==
    ASSUME NEW num, NEW base, NEW width, NEW digits, NEW type, NEW sign, NEW prefix,
           NEW figures, NEW least, NEW room,
           Converts(num, base, width, digits, type, sign, prefix, figures, least, room)
    PROVE  \E lead, mark, zeros, trail \in Seq(Char) :
              /\ Framed(number(num, base, width, digits, type), lead, mark, prefix, zeros,
                        figures, trail)
              /\ Only(lead, Space) /\ Only(zeros, "0") /\ Only(trail, Space)
              /\ mark = IF sign = <<Space>> THEN << >> ELSE sign
              /\ Len(lead) = (IF "LEFT" \in type \/ pads_zero(type) THEN 0 ELSE larger(room, 0))
                                + (IF sign = <<Space>> THEN 1 ELSE 0)
              /\ Len(zeros) = (least - Len(figures)) + (IF pads_zero(type) THEN larger(room, 0) ELSE 0)
              /\ Len(trail) = IF "LEFT" \in type THEN larger(room, 0) ELSE 0
<1> DEFINE left == "LEFT" \in type
           front == IF left \/ pads_zero(type) THEN 0 ELSE room
           inner == IF left \/ pads_zero(type) THEN room ELSE spent(room)
           back == IF left THEN inner ELSE spent(inner)
           a == Repeat(Space, front)
           b == IF left THEN << >> ELSE Repeat(IF pads_zero(type) THEN "0" ELSE Space, inner)
           c == Repeat("0", least - Len(figures))
           d == Repeat(Space, back)
           lead == IF sign = <<Space>> THEN a \o sign ELSE a
           mark == IF sign = <<Space>> THEN << >> ELSE sign
<1>0. /\ base \in {8, 10, 16} /\ sign = SignOf(num, type) /\ prefix = PrefixOf(base, type)
      /\ figures \in Seq(Char) /\ Len(figures) \in Nat /\ digits \in Int
      /\ figures = Digits(magnitude(num, type), base)
      /\ least \in Int /\ least = larger(Len(figures), digits)
      /\ room \in Int /\ room = width - Len(sign) - Len(prefix) - least
  BY FiguresAreText DEF Converts
<1> USE <1>0
<1>1. InOrder(number(num, base, width, digits, type), a, sign, prefix, b, c, figures, d)
  BY Zenon DEF number, Space, InOrder
<1>2. sign \in Seq(Char) /\ prefix \in Seq(Char)
  BY Signs, PrefixFacts
<1>3. least - Len(figures) \in Nat
  BY DEF larger
<1>4. /\ front \in Int /\ inner \in Int /\ back \in Int
      /\ larger(front, 0) = IF left \/ pads_zero(type) THEN 0 ELSE larger(room, 0)
      /\ ~left => larger(inner, 0) = IF pads_zero(type) THEN larger(room, 0) ELSE 0
      /\ larger(back, 0) = IF left THEN larger(room, 0) ELSE 0
      /\ pads_zero(type) => ~left
  <2>1. /\ spent(room) \in Int /\ larger(spent(room), 0) = 0 /\ larger(0, 0) = 0
        /\ spent(spent(room)) \in Int /\ larger(spent(spent(room)), 0) = 0
    <3>1. \A n \in Int : spent(n) \in Int /\ ~(spent(n) > 0)
      BY DEF spent
    <3>2. \A n \in Int : ~(n > 0) => larger(n, 0) = 0
      BY DEF larger
    <3>3. spent(room) \in Int /\ ~(spent(room) > 0)
      BY <3>1
    <3>4. spent(spent(room)) \in Int /\ ~(spent(spent(room)) > 0)
      BY <3>1, <3>3
    <3> QED
      BY <3>2, <3>3, <3>4
  <2>2. pads_zero(type) => ~left
    BY DEF pads_zero
  <2>3. CASE left
    BY <2>1, <2>2, <2>3
  <2>4. CASE ~left /\ pads_zero(type)
    BY <2>1, <2>2, <2>4
  <2>5. CASE ~left /\ ~pads_zero(type)
    BY <2>1, <2>2, <2>5
  <2> QED
    BY <2>3, <2>4, <2>5
<1>5. \A n \in Int : larger(n, 0) = IF n > 0 THEN n ELSE 0
  BY DEF larger
<1> HIDE DEF front, inner, back
<1>6. Only(a, Space) /\ Len(a) = larger(front, 0)
  BY <1>4, <1>5, Marks, RepeatedOnly
<1>7. Only(b, "0") /\ Len(b) = IF pads_zero(type) THEN larger(room, 0) ELSE 0
  <2>0. << >> \in Seq(Char) /\ Len(<< >>) = 0 /\ Only(<< >>, "0")
    <3>1. << >> \in Seq(Char) /\ Len(<< >>) = 0
      OBVIOUS
    <3>2. \A i \in 1 .. Len(<< >>) : << >>[i] = "0"
      BY <3>1
    <3> QED
      BY <3>1, <3>2 DEF Only
  <2>1. CASE left
    <3>1. b = << >> /\ ~pads_zero(type)
      BY <1>4, <2>1
    <3> QED
      BY <2>0, <3>1
  <2>2. CASE pads_zero(type)
    <3>1. b = Repeat("0", inner) /\ ~left
      BY <1>4, <2>2
    <3>2. Only(Repeat("0", inner), "0") /\ Len(Repeat("0", inner)) = larger(inner, 0)
      BY <1>4, <1>5, Marks, RepeatedOnly
    <3> QED
      BY <1>4, <2>2, <3>1, <3>2
  <2>3. CASE ~left /\ ~pads_zero(type)
    <3>1. b = Repeat(Space, inner)
      BY <2>3
    <3>2. b \in Seq(Char) /\ Len(b) = 0
      <4>1. Only(Repeat(Space, inner), Space) /\ Len(Repeat(Space, inner)) = larger(inner, 0)
        BY <1>4, <1>5, Marks, RepeatedOnly
      <4> QED
        BY <1>4, <2>3, <3>1, <4>1 DEF Only
    <3> HIDE DEF b
    <3>3. \A i \in 1 .. Len(b) : b[i] = "0"
      BY <3>2
    <3> QED
      BY <2>3, <3>2, <3>3 DEF Only
  <2> QED
    BY <2>1, <2>2, <2>3
<1>8. Only(c, "0") /\ Len(c) = least - Len(figures)
  <2>1. PICK n \in Nat : n = least - Len(figures)
    BY <1>3
  <2>2. Only(Repeat("0", n), "0") /\ Len(Repeat("0", n)) = n
    <3>1. n \in Int /\ (IF n > 0 THEN n ELSE 0) = n
      OBVIOUS
    <3> QED
      BY <3>1, Marks, RepeatedOnly
  <2> QED
    BY <2>1, <2>2
<1>9. Only(d, Space) /\ Len(d) = larger(back, 0)
  BY <1>4, <1>5, Marks, RepeatedOnly
<1> HIDE DEF a, b, c, d
<1>10. lead \o mark = a \o sign
  <2>1. a \in Seq(Char) /\ a \o sign \in Seq(Char)
    BY <1>2, <1>6, Joined DEF Only
  <2>2. (a \o sign) \o << >> = a \o sign
    BY <2>1, ConcatEmptySeq
  <2> QED
    BY <2>2
<1>11. Only(lead, Space) /\ Len(lead) = Len(a) + (IF sign = <<Space>> THEN 1 ELSE 0)
  <2>1. CASE sign = <<Space>>
    <3>1. Len(sign) = 1 /\ sign[1] = Space
      BY <2>1
    <3>2. Only(sign, Space)
      BY <1>2, <3>1 DEF Only
    <3>3. Only(a \o sign, Space) /\ Len(a \o sign) = Len(a) + Len(sign)
      <4>1. Only(a, Space)
        BY <1>6
      <4>2. a \in Seq(Char) /\ sign \in Seq(Char)
        BY <3>2, <4>1 DEF Only
      <4>3. Only(a \o sign, Space)
        BY <3>2, <4>1, OnlyJoined
      <4>4. Len(a \o sign) = Len(a) + Len(sign)
        BY <4>2, Joined
      <4> QED
        BY <4>3, <4>4
    <3> QED
      BY <2>1, <3>1, <3>3
  <2>2. CASE sign # <<Space>>
    <3>1. Len(a) \in Nat
      BY <1>6 DEF Only
    <3> QED
      BY <1>6, <2>2, <3>1
  <2> QED
    BY <2>1, <2>2
<1>12. mark \in Seq(Char)
  <2>1. << >> \in Seq(Char)
    OBVIOUS
  <2> QED
    BY <1>2, <2>1
<1> HIDE DEF lead
<1> DEFINE zeros == b \o c
<1> HIDE DEF mark
<1>13. Framed(number(num, base, width, digits, type), lead, mark, prefix, zeros, figures, d)
  <2>0. SameText(lead, mark, a, sign) /\ zeros = b \o c
    BY <1>10 DEF SameText
  <2> HIDE DEF zeros
  <2>1. /\ a \in Seq(Char) /\ b \in Seq(Char) /\ c \in Seq(Char) /\ d \in Seq(Char)
        /\ lead \in Seq(Char)
    BY <1>6, <1>7, <1>8, <1>9, <1>11 DEF Only
  <2> QED
    BY <1>1, <1>2, <1>12, <2>0, <2>1, Regroup
<1>14. Only(b \o c, "0") /\ Len(b \o c) = Len(b) + Len(c)
  <2>1. b \in Seq(Char) /\ c \in Seq(Char)
    BY <1>7, <1>8 DEF Only
  <2> QED
    BY <1>7, <1>8, <2>1, OnlyJoined, Joined
<1>15. Len(b \o c) = (least - Len(figures)) + (IF pads_zero(type) THEN larger(room, 0) ELSE 0)
  BY <1>3, <1>5, <1>7, <1>8, <1>14
<1>16. zeros \in Seq(Char) /\ lead \in Seq(Char) /\ d \in Seq(Char)
  BY <1>9, <1>11, <1>14 DEF Only
<1>18. /\ Len(lead) = (IF left \/ pads_zero(type) THEN 0 ELSE larger(room, 0))
                         + (IF sign = <<Space>> THEN 1 ELSE 0)
       /\ Len(d) = IF left THEN larger(room, 0) ELSE 0
  BY <1>4, <1>6, <1>9, <1>11
<1>19. /\ Only(zeros, "0")
       /\ Len(zeros) = (least - Len(figures)) + (IF pads_zero(type) THEN larger(room, 0) ELSE 0)
  BY <1>14, <1>15
<1>20. mark = IF sign = <<Space>> THEN << >> ELSE sign
  BY DEF mark
<1> HIDE DEF zeros, mark
<1> QED
  BY <1>9, <1>11, <1>12, <1>13, <1>16, <1>18, <1>19, <1>20, Zenon

\* Spaces, a text without spaces, spaces.
Margins(text, lead, core, trail) ==
    /\ Only(lead, Space) /\ Only(trail, Space) /\ Inked(core) /\ Len(core) # 0
    /\ text = (lead \o core) \o trail

\* Where the spaces of such a text are.
LEMMA MarginPlaces ==
    ASSUME NEW text, NEW lead, NEW core, NEW trail, Margins(text, lead, core, trail)
    PROVE  /\ text \in Seq(Char) /\ Len(lead) \in Nat /\ Len(core) \in Nat \ {0}
           /\ Len(trail) \in Nat /\ Len(text) = (Len(lead) + Len(core)) + Len(trail)
           /\ \A i \in 1 .. Len(text) :
                 text[i] = Space <=> i <= Len(lead) \/ i > Len(lead) + Len(core)
           /\ \A i \in 1 .. Len(core) : text[Len(lead) + i] = core[i]
<1>1. /\ lead \in Seq(Char) /\ \A i \in 1 .. Len(lead) : lead[i] = Space
      /\ trail \in Seq(Char) /\ \A i \in 1 .. Len(trail) : trail[i] = Space
      /\ core \in Seq(Char) /\ (\A i \in 1 .. Len(core) : core[i] # Space) /\ Len(core) # 0
      /\ text = (lead \o core) \o trail
  BY DEF Margins, Only, Inked
<1> DEFINE front == lead \o core
           l == Len(lead)
           n == Len(core)
           t == Len(trail)
<1>2. l \in Nat /\ n \in Nat \ {0} /\ t \in Nat
  BY <1>1
<1>3. /\ front \in Seq(Char) /\ Len(front) = l + n
      /\ \A i \in 1 .. l + n : front[i] = IF i <= l THEN lead[i] ELSE core[i - l]
  BY <1>1, ConcatProperties
<1> HIDE DEF front
<1>4. /\ text \in Seq(Char) /\ Len(text) = (l + n) + t
      /\ \A i \in 1 .. (l + n) + t : text[i] = IF i <= l + n THEN front[i] ELSE trail[i - (l + n)]
  <2>1. text = front \o trail
    BY <1>1 DEF front
  <2>2. /\ front \o trail \in Seq(Char) /\ Len(front \o trail) = Len(front) + Len(trail)
        /\ \A i \in 1 .. Len(front) + Len(trail) :
              (front \o trail)[i] = IF i <= Len(front) THEN front[i] ELSE trail[i - Len(front)]
    BY <1>1, <1>3, ConcatProperties
  <2> QED
    BY <1>3, <2>1, <2>2
<1> HIDE DEF l, n, t
<1>5. ASSUME NEW i \in 1 .. (l + n) + t PROVE text[i] = Space <=> i <= l \/ i > l + n
  <2>1. CASE i <= l
    <3>1. i \in 1 .. l /\ i \in 1 .. l + n /\ i <= l + n
      BY <1>2, <2>1
    <3>2. text[i] = lead[i] /\ lead[i] = Space
      BY <1>1, <1>3, <1>4, <2>1, <3>1 DEF l
    <3> QED
      BY <2>1, <3>2
  <2>2. CASE ~(i <= l) /\ i <= l + n
    <3>1. i - l \in 1 .. n /\ i \in 1 .. l + n /\ ~(i > l + n)
      BY <1>2, <2>2
    <3>2. text[i] = core[i - l] /\ core[i - l] # Space
      BY <1>1, <1>3, <1>4, <2>2, <3>1 DEF n
    <3> QED
      BY <2>2, <3>1, <3>2
  <2>3. CASE ~(i <= l + n)
    <3>1. i - (l + n) \in 1 .. t /\ i > l + n
      BY <1>2, <2>3
    <3>2. text[i] = trail[i - (l + n)] /\ trail[i - (l + n)] = Space
      BY <1>1, <1>4, <2>3, <3>1 DEF t
    <3> QED
      BY <3>1, <3>2
  <2> QED
    BY <2>1, <2>2, <2>3
<1>6. ASSUME NEW i \in 1 .. n PROVE text[l + i] = core[i]
  <2>1. /\ l + i \in 1 .. (l + n) + t /\ l + i <= l + n /\ l + i \in 1 .. l + n
        /\ ~(l + i <= l) /\ (l + i) - l = i
    BY <1>2
  <2> QED
    BY <1>3, <1>4, <2>1
<1> QED
  BY <1>2, <1>4, <1>5, <1>6 DEF l, n, t

\* Trimmed leaves what is between the spaces.
LEMMA TrimmedCore ==
    ASSUME NEW text, NEW lead, NEW core, NEW trail, Margins(text, lead, core, trail)
    PROVE  Trimmed(text) = core
<1> DEFINE ink == {i \in DOMAIN text : text[i] # Space}
           first == CHOOSE i \in ink : \A j \in ink : i <= j
           last == CHOOSE i \in ink : \A j \in ink : j <= i
<1>1. Trimmed(text) = SubSeq(text, first, last)
  BY Zenon DEF Trimmed, Space
<1>2. PICK l \in Nat, n \in Nat \ {0}, m \in Nat :
         /\ l = Len(lead) /\ n = Len(core) /\ m = Len(text) /\ l + n <= m
         /\ text \in Seq(Char) /\ core \in Seq(Char)
         /\ \A i \in 1 .. m : text[i] = Space <=> i <= l \/ i > l + n
         /\ \A i \in 1 .. n : text[l + i] = core[i]
  <2>1. core \in Seq(Char)
    BY DEF Margins, Inked
  <2>2. /\ text \in Seq(Char) /\ Len(lead) \in Nat /\ Len(core) \in Nat \ {0}
        /\ Len(trail) \in Nat /\ Len(text) = (Len(lead) + Len(core)) + Len(trail)
        /\ \A i \in 1 .. Len(text) :
              text[i] = Space <=> i <= Len(lead) \/ i > Len(lead) + Len(core)
        /\ \A i \in 1 .. Len(core) : text[Len(lead) + i] = core[i]
    BY MarginPlaces
  <2>3. Len(text) \in Nat /\ Len(lead) + Len(core) <= Len(text)
    BY <2>2
  <2> QED
    BY <2>1, <2>2, <2>3
<1>3. ink = l + 1 .. l + n
  <2>1. DOMAIN text = 1 .. m
    BY <1>2
  <2>2. ASSUME NEW i \in 1 .. m PROVE text[i] # Space <=> i \in l + 1 .. l + n
    BY <1>2
  <2>3. l + 1 .. l + n \subseteq 1 .. m
    BY <1>2
  <2> QED
    BY <2>1, <2>2, <2>3
<1>4. l + 1 \in ink /\ l + n \in ink /\ \A j \in ink : j \in Int /\ l + 1 <= j /\ j <= l + n
  BY <1>2, <1>3
<1> HIDE DEF ink
<1>5. first \in ink /\ \A j \in ink : first <= j
  BY <1>4
<1>6. last \in ink /\ \A j \in ink : j <= last
  BY <1>4
<1> HIDE DEF first, last
<1>7. first = l + 1
  BY <1>2, <1>4, <1>5
<1>8. last = l + n
  BY <1>2, <1>4, <1>6
<1>9. /\ SubSeq(text, l + 1, l + n) \in Seq(Char)
      /\ Len(SubSeq(text, l + 1, l + n)) = n
      /\ \A i \in 1 .. n : SubSeq(text, l + 1, l + n)[i] = core[i]
  <2>1. PICK b \in Int, e \in Int : b = l + 1 /\ e = l + n
    BY <1>2
  <2>2. \A i \in b .. e : text[i] \in Char
    <3>1. \A i \in b .. e : i \in 1 .. m
      BY <1>2, <2>1
    <3> QED
      BY <1>2, <3>1, ElementOfSeq
  <2>3. /\ SubSeq(text, b, e) \in Seq(Char)
        /\ Len(SubSeq(text, b, e)) = IF b <= e THEN e - b + 1 ELSE 0
        /\ \A i \in 1 .. e - b + 1 : SubSeq(text, b, e)[i] = text[b + i - 1]
    BY <2>2, SubSeqProperties
  <2>4. b <= e /\ e - b + 1 = n /\ \A i \in 1 .. n : b + i - 1 = l + i
    BY <1>2, <2>1
  <2>5. \A i \in 1 .. n : SubSeq(text, b, e)[i] = core[i]
    BY <1>2, <2>3, <2>4
  <2> QED
    BY <2>1, <2>3, <2>4, <2>5
<1>10. SubSeq(text, l + 1, l + n) = core
  BY <1>2, <1>9, SeqEqual
<1> QED
  BY <1>1, <1>7, <1>8, <1>10

\* The first characters of one text behind another.
LEMMA GluedPlaces ==
    ASSUME NEW st, NEW s, NEW t, Glued(st, s, t)
    PROVE  /\ st \in Seq(Char) /\ Len(s) \in Nat /\ Len(t) \in Nat /\ Len(st) = Len(s) + Len(t)
           /\ \A i \in 1 .. Len(s) : st[i] = s[i]
           /\ \A i \in 1 .. Len(t) : st[Len(s) + i] = t[i]
           /\ s = << >> => st = t
<1>1. s \in Seq(Char) /\ t \in Seq(Char) /\ st = s \o t
  BY DEF Glued
<1>2. /\ s \o t \in Seq(Char) /\ Len(s \o t) = Len(s) + Len(t)
      /\ \A i \in 1 .. Len(s) + Len(t) : (s \o t)[i] = IF i <= Len(s) THEN s[i] ELSE t[i - Len(s)]
  BY <1>1, ConcatProperties
<1>3. PICK m \in Nat, n \in Nat : m = Len(s) /\ n = Len(t)
  BY <1>1
<1>4. \A i \in 1 .. m + n : st[i] = IF i <= m THEN s[i] ELSE t[i - m]
  BY <1>1, <1>2, <1>3
<1>5. ASSUME NEW i \in 1 .. m PROVE st[i] = s[i]
  <2>1. i \in 1 .. m + n /\ i <= m
    OBVIOUS
  <2> QED
    BY <1>4, <2>1
<1>6. ASSUME NEW i \in 1 .. n PROVE st[m + i] = t[i]
  <2>1. m + i \in 1 .. m + n /\ ~(m + i <= m) /\ (m + i) - m = i
    OBVIOUS
  <2> QED
    BY <1>4, <2>1
<1>7. s = << >> => st = t
  BY <1>1, ConcatEmptySeq
<1> QED
  BY <1>1, <1>2, <1>3, <1>5, <1>6, <1>7

\* What is between the margins of a number: mark, prefix, zeros, figures.
Parts(core, mark, rest, prefix, tail, zeros, figures) ==
    /\ Glued(core, mark, rest) /\ Glued(rest, prefix, tail) /\ Glued(tail, zeros, figures)
    /\ mark \in {<< >>, <<"-">>, <<"+">>}
    /\ prefix \in {<< >>, <<"0">>, <<"0", "x">>}
    /\ Only(zeros, "0") /\ figures \in Seq(Figure) /\ Len(figures) # 0

\* They have no spaces, and begin with a digit behind the sign.
LEMMA PartsFacts ==
    ASSUME NEW core, NEW mark, NEW rest, NEW prefix, NEW tail, NEW zeros, NEW figures,
           Parts(core, mark, rest, prefix, tail, zeros, figures)
    PROVE  Inked(core) /\ Len(core) # 0 /\ Len(rest) # 0 /\ rest[1] \in Figure
<1>1. /\ Glued(core, mark, rest) /\ Glued(rest, prefix, tail) /\ Glued(tail, zeros, figures)
      /\ Only(zeros, "0") /\ figures \in Seq(Figure) /\ Len(figures) # 0
      /\ figures \in Seq(Char) /\ Len(figures) \in Nat
  BY FiguresAreText DEF Parts
<1>2. Inked(figures)
  BY <1>1, FiguresAreText, ElementOfSeq DEF Inked
<1>3. Inked(zeros)
  BY <1>1, Marks DEF Inked, Only
<1>4. Inked(prefix)
  <2>1. prefix \in Seq(Char)
    BY <1>1 DEF Glued
  <2>2. CASE prefix = << >>
    <3>1. Len(prefix) = 0
      BY <2>2
    <3> QED
      BY <2>1, <3>1 DEF Inked
  <2>3. CASE prefix = <<"0">>
    <3>1. Len(prefix) = 1 /\ prefix[1] = "0"
      BY <2>3
    <3> QED
      BY <2>1, <3>1, Marks DEF Inked
  <2>4. CASE prefix = <<"0", "x">>
    <3>1. Len(prefix) = 2 /\ prefix[1] = "0" /\ prefix[2] = "x"
      BY <2>4
    <3> QED
      BY <2>1, <3>1, Marks DEF Inked
  <2> QED
    BY <2>2, <2>3, <2>4 DEF Parts
<1>5. Inked(mark)
  <2>1. mark \in Seq(Char)
    BY <1>1 DEF Glued
  <2>2. CASE mark = << >>
    <3>1. Len(mark) = 0
      BY <2>2
    <3> QED
      BY <2>1, <3>1 DEF Inked
  <2>3. CASE mark = <<"-">>
    <3>1. Len(mark) = 1 /\ mark[1] = "-"
      BY <2>3
    <3> QED
      BY <2>1, <3>1, Marks DEF Inked
  <2>4. CASE mark = <<"+">>
    <3>1. Len(mark) = 1 /\ mark[1] = "+"
      BY <2>4
    <3> QED
      BY <2>1, <3>1, Marks DEF Inked
  <2> QED
    BY <2>2, <2>3, <2>4 DEF Parts
<1>6. ASSUME NEW st, NEW s, NEW t, Glued(st, s, t), Inked(s), Inked(t) PROVE Inked(st)
  <2>1. Inked(s \o t) /\ st = s \o t
    BY <1>6, InkedJoined DEF Glued
  <2> QED
    BY <2>1
<1>7. Inked(core)
  <2>1. Inked(tail)
    BY <1>1, <1>2, <1>3, <1>6
  <2>2. Inked(rest)
    BY <1>1, <1>4, <1>6, <2>1
  <2> QED
    BY <1>1, <1>5, <1>6, <2>2
<1>8. ASSUME NEW st, NEW s, NEW t, Glued(st, s, t), Len(t) # 0, t[1] \in Figure,
             s = << >> \/ (Len(s) # 0 /\ s[1] \in Figure)
      PROVE  Len(st) # 0 /\ st[1] \in Figure
  <2>1. CASE s = << >>
    BY <1>8, <2>1, GluedPlaces
  <2>2. CASE Len(s) # 0 /\ s[1] \in Figure
    <3>1. Len(s) \in Nat /\ Len(t) \in Nat /\ Len(st) = Len(s) + Len(t)
          /\ \A i \in 1 .. Len(s) : st[i] = s[i]
      BY <1>8, GluedPlaces
    <3>2. 1 \in 1 .. Len(s)
      BY <2>2, <3>1
    <3> QED
      BY <2>2, <3>1, <3>2
  <2> QED
    BY <1>8, <2>1, <2>2
<1>9. figures[1] \in Figure
  <2>1. 1 \in 1 .. Len(figures)
    BY <1>1
  <2> QED
    BY <1>1, <2>1, ElementOfSeq
<1>10. Len(tail) # 0 /\ tail[1] \in Figure
  <2>1. zeros = << >> \/ (Len(zeros) # 0 /\ zeros[1] \in Figure)
    <3>1. zeros \in Seq(Char) /\ \A i \in 1 .. Len(zeros) : zeros[i] = "0"
      BY <1>1 DEF Only
    <3>2. CASE Len(zeros) = 0
      BY <3>1, <3>2, EmptySeq
    <3>3. CASE Len(zeros) # 0
      <4>1. 1 \in 1 .. Len(zeros)
        BY <3>1, <3>3
      <4> QED
        BY <3>1, <3>3, <4>1, FiguresAreText
    <3> QED
      BY <3>2, <3>3
  <2> QED
    BY <1>1, <1>8, <1>9, <2>1
<1>11. Len(rest) # 0 /\ rest[1] \in Figure
  <2>1. prefix = << >> \/ (Len(prefix) # 0 /\ prefix[1] \in Figure)
    <3>1. prefix = << >> \/ (Len(prefix) # 0 /\ prefix[1] = "0")
      BY DEF Parts
    <3> QED
      BY <3>1, FiguresAreText
  <2> QED
    BY <1>1, <1>8, <1>10, <2>1
<1>12. Len(core) # 0
  <2>1. Len(mark) \in Nat /\ Len(rest) \in Nat /\ Len(core) = Len(mark) + Len(rest)
    BY <1>1, GluedPlaces
  <2> QED
    BY <1>11, <2>1
<1> QED
  BY <1>7, <1>11, <1>12

\* What Unsigned makes of a text with such parts, and where its sign shows.
TakesSign(text, mark, rest) ==
    Unsigned(text) = rest /\ (Trimmed(text)[1] = "-" <=> mark = <<"-">>)

\* Unsigned takes the sign off.
LEMMA UnsignedRest ==
    ASSUME NEW text, NEW lead, NEW core, NEW trail, Margins(text, lead, core, trail),
           NEW mark, NEW rest, NEW prefix, NEW tail, NEW zeros, NEW figures,
           Parts(core, mark, rest, prefix, tail, zeros, figures)
    PROVE  TakesSign(text, mark, rest)
<1>0. Trimmed(text) = core
  BY TrimmedCore
<1>1. Glued(core, mark, rest) /\ Len(core) # 0 /\ Len(rest) # 0 /\ rest[1] \in Figure
  BY PartsFacts DEF Parts
<1>2. rest[1] # "-" /\ rest[1] # "+" /\ core \in Seq(Char) /\ rest \in Seq(Char)
  BY <1>1, FiguresAreText, GluedText DEF Glued
<1>3. CASE mark = << >>
  <2>1. core = rest
    BY <1>1, <1>3, GluedPlaces
  <2>2. mark # <<"-">>
    BY <1>3
  <2> QED
    BY <1>0, <1>2, <2>1, <2>2 DEF TakesSign, Unsigned, HasSign
<1>4. ASSUME NEW char \in {"-", "+"}, mark = <<char>>
      PROVE  TakesSign(text, mark, rest)
  <2>1. Len(mark) = 1 /\ mark[1] = char
    BY <1>4
  <2>2. /\ Len(core) = 1 + Len(rest) /\ Len(rest) \in Nat /\ core[1] = char
        /\ \A i \in 1 .. Len(rest) : core[1 + i] = rest[i]
    <3>1. /\ Len(core) = Len(mark) + Len(rest) /\ Len(rest) \in Nat
          /\ \A i \in 1 .. Len(mark) : core[i] = mark[i]
          /\ \A i \in 1 .. Len(rest) : core[Len(mark) + i] = rest[i]
      BY <1>1, GluedPlaces
    <3>2. 1 \in 1 .. Len(mark)
      BY <2>1
    <3> QED
      BY <2>1, <3>1, <3>2
  <2>3. Tail(core) = rest
    <3>1. core # << >>
      BY <2>2
    <3>2. /\ Tail(core) \in Seq(Char) /\ Len(Tail(core)) = Len(core) - 1
          /\ \A i \in 1 .. Len(Tail(core)) : Tail(core)[i] = core[i + 1]
      BY <1>2, <3>1, HeadTailProperties
    <3>3. Len(Tail(core)) = Len(rest)
      BY <2>2, <3>2
    <3>4. ASSUME NEW i \in 1 .. Len(Tail(core)) PROVE Tail(core)[i] = rest[i]
      <4>1. i \in 1 .. Len(rest) /\ i + 1 = 1 + i
        BY <2>2, <3>3
      <4> QED
        BY <2>2, <3>2, <4>1
    <3> QED
      BY <1>2, <3>2, <3>3, <3>4, SeqEqual
  <2>4. HasSign(text)
    BY <1>0, <2>2 DEF HasSign
  <2>5. char = "-" <=> mark = <<"-">>
    BY <1>4, <2>1
  <2> QED
    BY <1>0, <2>2, <2>3, <2>4, <2>5 DEF TakesSign, Unsigned
<1> QED
  BY <1>3, <1>4 DEF Parts

\* The text of a number in its parts, and how long they are.
LEMMA NumberParts ==
    ASSUME NEW num, NEW base, NEW width, NEW digits, NEW type, NEW sign, NEW prefix,
           NEW figures, NEW least, NEW room,
           Converts(num, base, width, digits, type, sign, prefix, figures, least, room),
           NEW text, text = number(num, base, width, digits, type)
    PROVE  \E lead, core, trail, mark, rest, tail, zeros :
              /\ Margins(text, lead, core, trail)
              /\ Parts(core, mark, rest, prefix, tail, zeros, figures)
              /\ mark = IF sign = <<Space>> THEN << >> ELSE sign
              /\ Len(lead) = (IF "LEFT" \in type \/ pads_zero(type) THEN 0 ELSE larger(room, 0))
                                + (IF sign = <<Space>> THEN 1 ELSE 0)
              /\ Len(core) = Len(mark) + (Len(prefix) + (Len(zeros) + Len(figures)))
              /\ Len(zeros) = (least - Len(figures)) + (IF pads_zero(type) THEN larger(room, 0) ELSE 0)
              /\ Len(trail) = IF "LEFT" \in type THEN larger(room, 0) ELSE 0
<1>1. /\ figures \in Seq(Char) /\ figures \in Seq(Figure) /\ Len(figures) # 0
      /\ sign = SignOf(num, type) /\ prefix = PrefixOf(base, type) /\ base \in {8, 10, 16}
  BY FiguresAreText DEF Converts
<1>2. PICK lead \in Seq(Char), mark \in Seq(Char), zeros \in Seq(Char), trail \in Seq(Char) :
         /\ Framed(text, lead, mark, prefix, zeros, figures, trail)
         /\ Only(lead, Space) /\ Only(zeros, "0") /\ Only(trail, Space)
         /\ mark = IF sign = <<Space>> THEN << >> ELSE sign
         /\ Len(lead) = (IF "LEFT" \in type \/ pads_zero(type) THEN 0 ELSE larger(room, 0))
                           + (IF sign = <<Space>> THEN 1 ELSE 0)
         /\ Len(zeros) = (least - Len(figures)) + (IF pads_zero(type) THEN larger(room, 0) ELSE 0)
         /\ Len(trail) = IF "LEFT" \in type THEN larger(room, 0) ELSE 0
  BY NumberShape
<1>3. prefix \in Seq(Char)
  BY <1>1, PrefixFacts
<1>4. PICK tail : tail = zeros \o figures
  OBVIOUS
<1>5. Glued(tail, zeros, figures)
  BY <1>1, <1>4 DEF Glued
<1>6. PICK rest : rest = prefix \o tail
  OBVIOUS
<1>7. Glued(rest, prefix, tail)
  BY <1>3, <1>5, <1>6, GluedText DEF Glued
<1>8. PICK core : core = mark \o rest
  OBVIOUS
<1>9. Glued(core, mark, rest)
  BY <1>7, <1>8, GluedText DEF Glued
<1>10. text = (lead \o core) \o trail
  BY <1>2, <1>4, <1>6, <1>8, Zenon DEF Framed
<1>11. mark \in {<< >>, <<"-">>, <<"+">>}
  BY <1>1, <1>2, Signs
<1>12. prefix \in {<< >>, <<"0">>, <<"0", "x">>}
  BY <1>1, PrefixFacts
<1>13. Parts(core, mark, rest, prefix, tail, zeros, figures)
  BY <1>1, <1>2, <1>5, <1>7, <1>9, <1>11, <1>12 DEF Parts
<1>14. Margins(text, lead, core, trail)
  BY <1>2, <1>10, <1>13, PartsFacts DEF Margins
<1>15. Len(core) = Len(mark) + (Len(prefix) + (Len(zeros) + Len(figures)))
  <2>1. Len(tail) = Len(zeros) + Len(figures)
    BY <1>5, GluedPlaces
  <2>2. Len(rest) = Len(prefix) + Len(tail)
    BY <1>7, GluedPlaces
  <2>3. Len(core) = Len(mark) + Len(rest)
    BY <1>9, GluedPlaces
  <2> QED
    BY <2>1, <2>2, <2>3
<1> QED
  BY <1>2, <1>13, <1>14, <1>15

\* What Convert notes down of a call of number.
Recorded(num, base, width, digits, type) ==
    [num |-> num, base |-> base, size |-> width, precision |-> digits, type |-> type,
     text |-> number(num, base, width, digits, type)]

\* What NumberSpec reads in such a record, in terms of module Number.
LEMMA Fields ==
    ASSUME NEW num, NEW base, NEW width, NEW digits, NEW type,
           NEW c, c = Recorded(num, base, width, digits, type)
    PROVE  /\ c.num = num /\ c.base = base /\ c.size = width /\ c.precision = digits
           /\ c.type = type /\ c.text = number(num, base, width, digits, type)
           /\ IsNegative(c) <=> Negative(num, type)
           /\ Absolute(c) = magnitude(num, type)
           /\ HexPrefixed(c) <=> base = 16 /\ "SPECIAL" \in type
<1>1. /\ c.num = num /\ c.base = base /\ c.size = width /\ c.precision = digits
      /\ c.type = type /\ c.text = number(num, base, width, digits, type)
  BY DEF Recorded
<1> QED
  BY <1>1, Zenon DEF IsNegative, Negative, Absolute, magnitude, HexPrefixed

\* A number reads back from its text.
LEMMA NumberReadsBack ==
    ASSUME NEW num \in 0 .. Word - 1, NEW base \in {8, 10, 16}, NEW width \in Int,
           NEW digits \in Int, NEW type,
           NEW c, c = Recorded(num, base, width, digits, type)
    PROVE  Legible(c)
<1>1. PICK sign, prefix, figures, least, room :
         Converts(num, base, width, digits, type, sign, prefix, figures, least, room)
  BY Converted
<1>2. /\ sign = SignOf(num, type) /\ prefix = PrefixOf(base, type)
      /\ figures \in Seq(Figure) /\ figures = Digits(magnitude(num, type), base)
  BY <1>1 DEF Converts
<1>3. Value(figures, base) = magnitude(num, type)
  BY <1>2, Figured
<1>4. PICK text : text = c.text
  OBVIOUS
<1>5. PICK lead, core, trail, mark, rest, tail, zeros :
         /\ Margins(text, lead, core, trail)
         /\ Parts(core, mark, rest, prefix, tail, zeros, figures)
         /\ mark = IF sign = <<Space>> THEN << >> ELSE sign
  <2>1. text = number(num, base, width, digits, type)
    BY <1>4, Fields
  <2> QED
    BY <1>1, <2>1, NumberParts
<1>7. Unsigned(c.text) = rest /\ (Trimmed(c.text)[1] = "-" <=> mark = <<"-">>)
  <2>1. Margins(text, lead, core, trail)
    BY <1>5
  <2>2. Parts(core, mark, rest, prefix, tail, zeros, figures)
    BY <1>5
  <2>3. TakesSign(text, mark, rest)
    BY <2>1, <2>2, UnsignedRest
  <2> QED
    BY <1>4, <2>3, Zenon DEF TakesSign
<1>8. mark = <<"-">> <=> Negative(num, type)
  <2>1. <<"-">> # << >> /\ <<"-">> # <<"+">> /\ <<"-">> # <<Space>>
    BY Marks
  <2>2. sign = <<"-">> <=> Negative(num, type)
    BY <1>2, <2>1, Signs DEF Negative
  <2> QED
    BY <1>5, <2>1, <2>2
<1>9. /\ Glued(rest, prefix, tail) /\ Glued(tail, zeros, figures) /\ Only(zeros, "0")
      /\ base \in Nat
  BY <1>5 DEF Parts
<1>10. Value(tail, base) = Value(figures, base)
  <2>1. zeros \in Seq(Char) /\ figures \in Seq(Char) /\ tail = zeros \o figures
        /\ \A i \in 1 .. Len(zeros) : zeros[i] = "0"
    BY <1>9 DEF Glued, Only
  <2>2. Value(zeros \o figures, base) = Value(figures, base)
    BY <1>9, <2>1, ZerosInFront
  <2> QED
    BY <2>1, <2>2
<1>11. CASE HexPrefixed(c)
  <2>1. prefix = <<"0", "x">>
    BY <1>2, <1>11, Fields, PrefixFacts
  <2>2. Len(prefix) = 2 /\ prefix[1] = "0" /\ prefix[2] = "x"
    BY <2>1
  <2>3. /\ rest \in Seq(Char) /\ tail \in Seq(Char) /\ Len(tail) \in Nat
        /\ Len(rest) = Len(prefix) + Len(tail)
        /\ \A i \in 1 .. Len(prefix) : rest[i] = prefix[i]
        /\ \A i \in 1 .. Len(tail) : rest[Len(prefix) + i] = tail[i]
    BY <1>9, GluedPlaces, GluedText
  <2>4. SubSeq(rest, 1, 2) = <<"0", "x">>
    <3>1. rest[1] = "0" /\ rest[2] = "x"
      <4>1. 1 \in 1 .. Len(prefix) /\ 2 \in 1 .. Len(prefix)
        BY <2>2
      <4> QED
        BY <2>2, <2>3, <4>1
    <3>2. \A i \in 1 .. 2 : rest[i] \in Char
      <4>1. \A i \in 1 .. 2 : i \in 1 .. Len(rest)
        BY <2>2, <2>3
      <4> QED
        BY <2>3, <4>1, ElementOfSeq
    <3>3. /\ SubSeq(rest, 1, 2) \in Seq(Char)
          /\ Len(SubSeq(rest, 1, 2)) = IF 1 <= 2 THEN 2 - 1 + 1 ELSE 0
          /\ \A i \in 1 .. 2 - 1 + 1 : SubSeq(rest, 1, 2)[i] = rest[1 + i - 1]
      BY <3>2, SubSeqProperties
    <3>4. Len(SubSeq(rest, 1, 2)) = 2 /\ \A i \in 1 .. 2 : SubSeq(rest, 1, 2)[i] = rest[i]
      BY <3>3
    <3>5. \A i \in 1 .. Len(SubSeq(rest, 1, 2)) : SubSeq(rest, 1, 2)[i] = prefix[i]
      BY <2>2, <3>1, <3>4
    <3>6. prefix \in Seq(Char) /\ Len(prefix) = Len(SubSeq(rest, 1, 2))
      BY <1>9, <2>2, <3>4 DEF Glued
    <3>7. SubSeq(rest, 1, 2) = prefix
      BY <3>3, <3>5, <3>6, SeqEqual
    <3> QED
      BY <2>1, <3>7
  <2>5. SubSeq(rest, 3, Len(rest)) = tail
    <3>1. PICK n \in Nat : n = Len(tail) /\ Len(rest) = 2 + n
      BY <2>2, <2>3
    <3>2. PICK e \in Int : e = Len(rest) /\ e = 2 + n
      BY <3>1
    <3>3. \A i \in 3 .. e : rest[i] \in Char
      <4>1. \A i \in 3 .. e : i \in 1 .. Len(rest)
        BY <3>2
      <4> QED
        BY <2>3, <4>1, ElementOfSeq
    <3>4. /\ SubSeq(rest, 3, e) \in Seq(Char)
          /\ Len(SubSeq(rest, 3, e)) = IF 3 <= e THEN e - 3 + 1 ELSE 0
          /\ \A i \in 1 .. e - 3 + 1 : SubSeq(rest, 3, e)[i] = rest[3 + i - 1]
      BY <3>3, SubSeqProperties
    <3>5. Len(SubSeq(rest, 3, e)) = n /\ e - 3 + 1 = n /\ \A i \in 1 .. n : 3 + i - 1 = 2 + i
      BY <3>2, <3>4
    <3>6. \A i \in 1 .. n : SubSeq(rest, 3, e)[i] = tail[i]
      BY <2>2, <2>3, <3>1, <3>4, <3>5
    <3>7. SubSeq(rest, 3, e) = tail
      BY <2>3, <3>1, <3>4, <3>5, <3>6, SeqEqual
    <3> QED
      BY <3>2, <3>7
  <2>6. Figures(c) = tail
    BY <1>7, <1>11, <2>5 DEF Figures
  <2> QED
    BY <1>3, <1>7, <1>8, <1>10, <2>4, <2>6, Fields DEF Legible
<1>12. CASE ~HexPrefixed(c)
  <2>1. prefix = << >> \/ prefix = <<"0">>
    BY <1>2, <1>12, Fields, PrefixFacts
  <2>2. Value(rest, base) = Value(tail, base)
    <3>1. prefix \in Seq(Char) /\ tail \in Seq(Char) /\ rest = prefix \o tail
      BY <1>9 DEF Glued
    <3>2. \A i \in 1 .. Len(prefix) : prefix[i] = "0"
      <4>1. CASE prefix = << >>
        <5>1. Len(prefix) = 0
          BY <4>1
        <5> QED
          BY <5>1
      <4>2. CASE prefix = <<"0">>
        <5>1. Len(prefix) = 1 /\ prefix[1] = "0"
          BY <4>2
        <5> QED
          BY <5>1
      <4> QED
        BY <2>1, <4>1, <4>2
    <3>3. Value(prefix \o tail, base) = Value(tail, base)
      BY <1>9, <3>1, <3>2, ZerosInFront
    <3> QED
      BY <3>1, <3>3
  <2>3. Figures(c) = rest
    BY <1>7, <1>12 DEF Figures
  <2> QED
    BY <1>3, <1>7, <1>8, <1>10, <1>12, <2>2, <2>3, Fields DEF Legible
<1> QED
  BY <1>11, <1>12

\* As many figures as the number needs.
LEMMA CountsFigures ==
    ASSUME NEW num \in 0 .. Word - 1, NEW base \in {8, 10, 16}, NEW width, NEW digits, NEW type,
           NEW c, c = Recorded(num, base, width, digits, type)
    PROVE  FigureCount(c) = Len(Digits(magnitude(num, type), base))
<1>1. PICK figures \in Seq(Figure), m \in Nat :
         /\ figures = Digits(magnitude(num, type), base) /\ m = magnitude(num, type)
         /\ Len(figures) \in 1 .. Word /\ Power(base, Len(figures)) > m
         /\ Len(figures) = 1 \/ Power(base, Len(figures) - 1) <= m
  BY Figured
<1>2. PICK k \in 1 .. Word : k = Len(figures)
  BY <1>1
<1>3. Word \in Nat /\ base \in Nat \ {0}
  BY WordAssumption
<1> DEFINE Fits(j) == Power(base, j) > m /\ (j = 1 \/ Power(base, j - 1) <= m)
           many == CHOOSE j \in 1 .. Word : Fits(j)
<1>4. FigureCount(c) = many
  <2>1. c.base = base /\ Absolute(c) = m
    BY <1>1, Fields
  <2> QED
    BY <2>1 DEF FigureCount
<1>5. Fits(k)
  BY <1>1, <1>2
<1> HIDE DEF Fits
<1>6. many \in 1 .. Word /\ Fits(many)
  BY <1>5
<1> HIDE DEF many
<1>7. ASSUME NEW i \in 1 .. Word, NEW j \in 1 .. Word, Fits(i), Fits(j), i < j PROVE FALSE
  <2>1. PICK h \in Nat : h = j - 1 /\ i <= h /\ i \in Nat /\ j # 1
    BY <1>3, <1>7
  <2>2. Power(base, i) <= Power(base, h)
    BY <1>3, <2>1, PowersGrow
  <2>3. Power(base, i) > m /\ Power(base, h) <= m
    BY <1>7, <2>1 DEF Fits
  <2>4. Power(base, i) \in Nat /\ Power(base, h) \in Nat
    BY <1>3, <2>1, PowerFacts
  <2> QED
    BY <2>2, <2>3, <2>4
<1>8. ~(many < k) /\ ~(k < many)
  BY <1>5, <1>6, <1>7
<1>9. many = k
  BY <1>3, <1>6, <1>8
<1> QED
  BY <1>1, <1>2, <1>4, <1>9

\* The spaces around k characters: in front, one of them perhaps for the sign,
\* and behind.
LEMMA SpacesAround ==
    ASSUME NEW front \in Nat, NEW behind \in Nat, NEW k \in Nat \ {0},
           NEW blank \in {0, 1}, NEW signs \in {0, 1}, blank <= signs,
           NEW n, n = ((front + blank) + k) + behind
    PROVE  {i \in 1 .. n : i <= front + blank \/ i > (front + blank) + k}
                \ (IF signs = 1 THEN {front + 1} ELSE {})
              = (1 .. front) \union ((n - behind) + 1 .. n)
<1>1. CASE blank = 0
  BY <1>1
<1>2. CASE blank = 1
  BY <1>2
<1> QED
  BY <1>1, <1>2

\* What the pieces of the text add up to, with the padding in one of three places.
LEMMA PiecesAddUp ==
    ASSUME NEW signs \in Int, NEW blank \in Int, NEW prefix \in Int, NEW least \in Int,
           NEW many \in Int, NEW mark \in Int, mark + blank = signs,
           NEW padding \in Int, NEW front \in Int, NEW inside \in Int, NEW behind \in Int,
           front + inside + behind = padding,
           NEW zeros \in Int, zeros = (least - many) + inside,
           NEW core \in Int, core = mark + (prefix + (zeros + many))
    PROVE  ((front + blank) + core) + behind = ((signs + prefix) + least) + padding
  OBVIOUS

\* The sign is as wide as SignWidth says, and the prefix as PrefixWidth says.
AsWide(c, sign, prefix) ==
    /\ Len(sign) = SignWidth(c) /\ SignWidth(c) \in {0, 1}
    /\ sign = <<Space>> => SignWidth(c) = 1
    /\ Len(prefix) = PrefixWidth(c) /\ PrefixWidth(c) \in Nat

\* That is how wide SignOf and PrefixOf are.
LEMMA SignAndPrefix ==
    ASSUME NEW num, NEW base \in {8, 10, 16}, NEW width, NEW digits, NEW type,
           NEW c, c = Recorded(num, base, width, digits, type)
    PROVE  AsWide(c, SignOf(num, type), PrefixOf(base, type))
<1>1. c.base = base /\ c.type = type /\ (IsNegative(c) <=> Negative(num, type))
  BY Fields
<1>2. PICK sign, prefix : sign = SignOf(num, type) /\ prefix = PrefixOf(base, type)
  OBVIOUS
<1>3. /\ Len(sign) = SignWidth(c) /\ SignWidth(c) \in {0, 1}
      /\ sign = <<Space>> => SignWidth(c) = 1
  <2>1. Negative(num, type) => "SIGN" \in type
    BY DEF Negative
  <2>2. SignWidth(c) = IF "SIGN" \in type
                          /\ (Negative(num, type) \/ "PLUS" \in type \/ "SPACE" \in type)
                       THEN 1 ELSE 0
    BY <1>1 DEF SignWidth
  <2>3. Len(<< >>) = 0 /\ Len(<<"-">>) = 1 /\ Len(<<"+">>) = 1 /\ Len(<<Space>>) = 1
        /\ << >> # <<Space>>
    OBVIOUS
  <2>4. CASE "SIGN" \notin type
    <3>1. sign = << >> /\ SignWidth(c) = 0
      BY <1>2, <2>2, <2>4, Signs
    <3> QED
      BY <2>3, <3>1
  <2>5. CASE "SIGN" \in type /\ (Negative(num, type) \/ "PLUS" \in type \/ "SPACE" \in type)
    <3>1. SignWidth(c) = 1 /\ (sign = <<"-">> \/ sign = <<"+">> \/ sign = <<Space>>)
      BY <1>2, <2>2, <2>5, Signs
    <3> QED
      BY <2>3, <3>1
  <2>6. CASE "SIGN" \in type /\ ~(Negative(num, type) \/ "PLUS" \in type \/ "SPACE" \in type)
    <3>1. sign = << >> /\ SignWidth(c) = 0
      BY <1>2, <2>2, <2>6, Signs
    <3> QED
      BY <2>3, <3>1
  <2> QED
    BY <2>4, <2>5, <2>6
<1>4. Len(prefix) = PrefixWidth(c) /\ PrefixWidth(c) \in Nat
  <2>1. Len(<< >>) = 0 /\ Len(<<"0">>) = 1 /\ Len(<<"0", "x">>) = 2
    OBVIOUS
  <2>2. CASE "SPECIAL" \notin type
    BY <1>1, <1>2, <2>1, <2>2, PrefixFacts DEF PrefixWidth
  <2>3. CASE "SPECIAL" \in type /\ base = 16
    BY <1>1, <1>2, <2>1, <2>3, PrefixFacts DEF PrefixWidth
  <2>4. CASE "SPECIAL" \in type /\ base = 8
    BY <1>1, <1>2, <2>1, <2>4, PrefixFacts DEF PrefixWidth
  <2>5. CASE "SPECIAL" \in type /\ base = 10
    BY <1>1, <1>2, <2>1, <2>5, PrefixFacts DEF PrefixWidth
  <2> QED
    BY <2>2, <2>3, <2>4, <2>5
<1> QED
  BY <1>2, <1>3, <1>4 DEF AsWide

\* The text of a number fills its field and is padded on one side.
LEMMA NumberPadsOneSide ==
    ASSUME NEW num \in 0 .. Word - 1, NEW base \in {8, 10, 16}, NEW width \in Int,
           NEW digits \in Int, NEW type,
           NEW c, c = Recorded(num, base, width, digits, type)
    PROVE  /\ c.text \in Seq(Char) /\ Len(c.text) \in Nat /\ Len(c.text) >= width
           /\ WideEnough(c) /\ PaddedOneSide(c)
<1>1. PICK sign, prefix, figures, least, room :
         Converts(num, base, width, digits, type, sign, prefix, figures, least, room)
  BY Converted
<1>2. sign = SignOf(num, type) /\ prefix = PrefixOf(base, type)
  BY <1>1 DEF Converts
<1>3. PICK text : text = c.text /\ text = number(num, base, width, digits, type)
  BY Fields
<1> DEFINE left == "LEFT" \in type
           zero == pads_zero(type)
<1>4. PICK lead, core, trail, mark, rest, tail, zeros :
         /\ Margins(text, lead, core, trail)
         /\ mark = IF sign = <<Space>> THEN << >> ELSE sign
         /\ Len(lead) = (IF left \/ zero THEN 0 ELSE larger(room, 0))
                           + (IF sign = <<Space>> THEN 1 ELSE 0)
         /\ Len(core) = Len(mark) + (Len(prefix) + (Len(zeros) + Len(figures)))
         /\ Len(zeros) = (least - Len(figures)) + (IF zero THEN larger(room, 0) ELSE 0)
         /\ Len(trail) = IF left THEN larger(room, 0) ELSE 0
  BY <1>1, <1>3, NumberParts
<1>5. Margins(text, lead, core, trail)
  BY <1>4
<1>6. /\ text \in Seq(Char) /\ Len(lead) \in Nat /\ Len(core) \in Nat \ {0} /\ Len(trail) \in Nat
      /\ Len(text) = (Len(lead) + Len(core)) + Len(trail)
      /\ \A i \in 1 .. Len(text) :
            text[i] = Space <=> i <= Len(lead) \/ i > Len(lead) + Len(core)
  BY <1>5, MarginPlaces
<1>7. ~(left /\ zero)
  BY DEF pads_zero
<1>8. PICK signs \in {0, 1}, blank \in {0, 1}, marks \in Nat :
         /\ signs = Len(sign) /\ signs = SignWidth(c) /\ blank <= signs
         /\ blank = IF sign = <<Space>> THEN 1 ELSE 0
         /\ marks = Len(mark) /\ marks + blank = signs
  <2>1. Len(sign) = SignWidth(c) /\ SignWidth(c) \in {0, 1}
        /\ (sign = <<Space>> => SignWidth(c) = 1)
    <3>1. AsWide(c, SignOf(num, type), PrefixOf(base, type))
      BY SignAndPrefix
    <3> QED
      BY <1>2, <3>1 DEF AsWide
  <2>2. Len(<< >>) = 0
    OBVIOUS
  <2>3. CASE sign = <<Space>>
    <3>1. mark = << >>
      BY <1>4, <2>3
    <3> QED
      BY <2>1, <2>2, <2>3, <3>1
  <2>4. CASE sign # <<Space>>
    <3>1. mark = sign
      BY <1>4, <2>4
    <3> QED
      BY <2>1, <2>4, <3>1
  <2> QED
    BY <2>3, <2>4
<1>9. PICK pre \in Nat : pre = Len(prefix) /\ pre = PrefixWidth(c)
  <2>1. AsWide(c, SignOf(num, type), PrefixOf(base, type))
    BY SignAndPrefix
  <2> QED
    BY <1>2, <2>1 DEF AsWide
<1>10. PICK f \in Nat : f = Len(figures) /\ FigureCount(c) = f
  <2>1. figures \in Seq(Figure) /\ figures = Digits(magnitude(num, type), base)
    BY <1>1 DEF Converts
  <2>2. FigureCount(c) = Len(Digits(magnitude(num, type), base))
    BY CountsFigures
  <2>3. Len(figures) \in Nat
    BY <2>1
  <2> QED
    BY <2>1, <2>2, <2>3
<1>11. least \in Int /\ least = larger(f, digits)
  BY <1>1, <1>10 DEF Converts
<1>12. Body(c) = (signs + pre) + least
  <2>1. c.precision = digits
    BY Fields
  <2> QED
    BY <1>8, <1>9, <1>10, <1>11, <2>1 DEF Body
<1>13. PICK body \in Int : body = (signs + pre) + least
  BY <1>11
<1>14. room \in Int /\ room = width - body
  <2>1. room = width - signs - pre - least
    BY <1>1, <1>8, <1>9 DEF Converts
  <2> QED
    BY <1>11, <1>13, <2>1
<1>15. PICK padding \in Nat : padding = larger(room, 0) /\ padding = IF room > 0 THEN room ELSE 0
  BY <1>14 DEF larger
<1>16. PICK front \in Nat, inside \in Nat, behind \in Nat :
          /\ (front + inside) + behind = padding
          /\ front = IF left \/ zero THEN 0 ELSE padding
          /\ inside = IF zero THEN padding ELSE 0
          /\ behind = IF left THEN padding ELSE 0
  <2>1. CASE left
    BY <1>7, <2>1
  <2>2. CASE ~left /\ zero
    BY <2>2
  <2>3. CASE ~left /\ ~zero
    BY <2>3
  <2> QED
    BY <2>1, <2>2, <2>3
<1>17. Len(lead) = front + blank /\ Len(trail) = behind /\ Len(zeros) = (least - f) + inside
  BY <1>4, <1>8, <1>10, <1>15, <1>16
<1>18. PICK k \in Nat \ {0}, n \in Nat :
          /\ k = Len(core) /\ n = Len(text)
          /\ n = ((front + blank) + k) + behind
          /\ \A i \in 1 .. n : text[i] = Space <=> i <= front + blank \/ i > (front + blank) + k
  <2>1. PICK k \in Nat \ {0} : k = Len(core)
    BY <1>6
  <2>2. PICK n \in Nat : n = Len(text)
    BY <1>6
  <2>3. n = ((front + blank) + k) + behind
    <3>1. Len(text) = (Len(lead) + Len(core)) + Len(trail)
      BY <1>6
    <3> QED
      BY <1>17, <2>1, <2>2, <3>1
  <2>4. \A i \in 1 .. n : text[i] = Space <=> i <= front + blank \/ i > (front + blank) + k
    <3>1. \A i \in 1 .. Len(text) :
             text[i] = Space <=> i <= Len(lead) \/ i > Len(lead) + Len(core)
      BY <1>6
    <3> QED
      BY <1>17, <2>1, <2>2, <3>1
  <2> QED
    BY <2>1, <2>2, <2>3, <2>4
<1>19. n = ((front + blank) + k) + behind
  BY <1>18
<1>20. n = body + padding
  <2>1. PICK z \in Int : z = Len(zeros) /\ z = (least - f) + inside
    <3>1. (least - f) + inside \in Int
      BY <1>11
    <3> QED
      BY <1>17, <3>1
  <2>2. k = marks + (pre + (z + f))
    BY <1>4, <1>8, <1>9, <1>10, <1>18, <2>1
  <2>3. marks + blank = signs
    BY <1>8
  <2>4. (front + inside) + behind = padding
    BY <1>16
  <2>5. z = (least - f) + inside
    BY <2>1
  <2> QED
    BY <1>11, <1>13, <1>19, <2>2, <2>3, <2>4, <2>5
<1>21. WideEnough(c)
  <2>1. larger(width, body) = n
    BY <1>14, <1>15, <1>20 DEF larger
  <2>2. c.size = width /\ Len(c.text) = n /\ Body(c) = body
    BY <1>3, <1>12, <1>13, <1>18, Fields
  <2> QED
    BY <2>1, <2>2 DEF WideEnough
<1>22. PaddedOneSide(c)
  <2> DEFINE spaces == {i \in 1 .. n : text[i] = Space}
             place == IF left \/ zero THEN 1 ELSE padding + 1
             wanted == IF left THEN n - padding + 1 .. n
                       ELSE IF zero THEN {} ELSE 1 .. padding
  <2>1. spaces = {i \in 1 .. n : i <= front + blank \/ i > (front + blank) + k}
    <3>1. \A i \in 1 .. n : text[i] = Space <=> i <= front + blank \/ i > (front + blank) + k
      BY <1>18
    <3> QED
      BY <3>1, Zenon
  <2>2. spaces \ (IF signs = 1 THEN {front + 1} ELSE {})
           = (1 .. front) \union ((n - behind) + 1 .. n)
    <3>1. blank <= signs
      BY <1>8
    <3>2. {i \in 1 .. n : i <= front + blank \/ i > (front + blank) + k}
                \ (IF signs = 1 THEN {front + 1} ELSE {})
              = (1 .. front) \union ((n - behind) + 1 .. n)
      BY <1>19, <3>1, SpacesAround
    <3> QED
      BY <2>1, <3>2, Zenon
  <2>3. place = front + 1 /\ wanted = (1 .. front) \union ((n - behind) + 1 .. n)
    <3>1. CASE left
      <4>1. front = 0 /\ behind = padding
        BY <1>7, <1>16, <3>1
      <4> QED
        BY <3>1, <4>1
    <3>2. CASE ~left /\ zero
      <4>1. front = 0 /\ behind = 0
        BY <1>16, <3>2
      <4> QED
        BY <3>2, <4>1
    <3>3. CASE ~left /\ ~zero
      <4>1. front = padding /\ behind = 0
        BY <1>16, <3>3
      <4> QED
        BY <3>3, <4>1
    <3> QED
      BY <3>1, <3>2, <3>3
  <2>4. spaces \ (IF SignWidth(c) = 1 THEN {place} ELSE {}) = wanted
    <3>1. SignWidth(c) = signs
      BY <1>8
    <3> HIDE DEF spaces, place, wanted
    <3> QED
      BY <2>2, <2>3, <3>1
  <2>5. c.type = type /\ larger(c.size - Body(c), 0) = padding
    BY <1>12, <1>13, <1>14, <1>15, Fields
  <2>6. n = Len(c.text) /\ text = c.text
    BY <1>3, <1>18
  <2> QED
    BY <2>4, <2>5, <2>6, Zenon DEF PaddedOneSide, pads_zero, Space
<1>23. c.text \in Seq(Char) /\ Len(c.text) \in Nat /\ Len(c.text) >= width
  <2>1. n >= width
    BY <1>14, <1>15, <1>20
  <2> QED
    BY <1>3, <1>6, <1>18, <2>1
<1> QED
  BY <1>21, <1>22, <1>23

(* number generates text that fills its field.                             *)
LEMMA NumberText ==
    ASSUME NEW num \in 0 .. Word - 1, NEW base \in {8, 10, 16}, NEW width \in Int,
           NEW digits \in Int, NEW type
    PROVE  LET text == number(num, base, width, digits, type)
           IN  text \in Seq(Char) /\ Len(text) \in Nat /\ Len(text) >= width
<1>1. PICK c : c = Recorded(num, base, width, digits, type)
  OBVIOUS
<1>2. c.text \in Seq(Char) /\ Len(c.text) \in Nat /\ Len(c.text) >= width
  BY <1>1, NumberPadsOneSide
<1>3. c.text = number(num, base, width, digits, type)
  BY <1>1, Fields
<1> QED
  BY <1>2, <1>3
-----------------------------------------------------------------------------
(* What lies behind the format is NUL.                                     *)
LEMMA AtFacts ==
    ASSUME fmt \in Seq(Char), NEW i \in Nat \ {0}
    PROVE  At(i) \in Char /\ (At(i) # NUL => i <= Len(fmt))
<1>1. NUL \in Char /\ Len(fmt) \in Nat
  <2>1. NUL \in Char
    BY CharAssumption, Zenon
  <2> QED
    BY <2>1
<1>2. i <= Len(fmt) => fmt[i] \in Char
  BY <1>1, ElementOfSeq
<1> QED
  BY <1>1, <1>2 DEF At

(* A digit is not NUL, and has a value.                                    *)
LEMMA DigitFacts ==
    ASSUME NEW char, IsDigit(char)
    PROVE  char # NUL /\ DigitValue(char) \in 0 .. 9
<1>1. PICK i \in 1 .. 10 : DigitChar[i] = char
  BY DEF IsDigit
<1>2. char # NUL
  BY CharAssumption DEF IsDigit
<1>3. i - 1 \in 0 .. 9 /\ DigitChar[(i - 1) + 1] = char
  BY <1>1
<1> QED
  BY <1>2, <1>3 DEF DigitValue

(* The run of digits ends in the format.                                   *)
LEMMA RunFacts ==
    ASSUME fmt \in Seq(Char), NEW i \in 1 .. Len(fmt) + 1
    PROVE  \E n \in 0 .. Len(fmt) :
              /\ Len(DigitRun(i)) = n
              /\ i + n \in 1 .. Len(fmt) + 1
              /\ \A k \in 0 .. n - 1 : IsDigit(At(i + k))
<1>1. Len(fmt) \in Nat /\ i \in Nat \ {0}
  OBVIOUS
<1> DEFINE ends == {n \in Nat : ~IsDigit(At(i + n))}
           Run(n) == /\ \A k \in 0 .. n - 1 : IsDigit(At(i + k))
                     /\ ~IsDigit(At(i + n))
<1>2. Len(fmt) \in ends
  <2>1. i + Len(fmt) \in Nat \ {0} /\ ~(i + Len(fmt) <= Len(fmt))
    BY <1>1
  <2>2. At(i + Len(fmt)) = NUL
    BY <2>1 DEF At
  <2>3. ~IsDigit(NUL)
    BY DigitFacts, Zenon
  <2> QED
    BY <1>1, <2>2, <2>3
<1>3. PICK m \in ends : \A k \in ends : m <= k
  <2>1. ends \in SUBSET Nat /\ ends # {}
    BY <1>2
  <2> HIDE DEF ends
  <2> QED
    BY <2>1, Least
<1>4. m \in Nat /\ m <= Len(fmt)
  BY <1>2, <1>3
<1>5. Run(m)
  <2>1. ASSUME NEW k \in 0 .. m - 1 PROVE IsDigit(At(i + k))
    <3>1. k \in Nat /\ ~(m <= k)
      BY <1>4
    <3> QED
      BY <1>3, <3>1
  <2> QED
    BY <1>3, <2>1
<1> DEFINE n == CHOOSE n \in 0 .. Len(fmt) : Run(n)
<1> HIDE DEF Run
<1>6. n \in 0 .. Len(fmt) /\ Run(n)
  <2>1. m \in 0 .. Len(fmt)
    BY <1>1, <1>4
  <2> QED
    BY <1>5, <2>1
<1>7. DigitRun(i) = [k \in 1 .. n |-> At(i + k - 1)]
  BY DEF DigitRun, Run
<1> HIDE DEF n
<1>8. \A k \in 0 .. n - 1 : IsDigit(At(i + k))
  BY <1>6 DEF Run
<1>9. Len(DigitRun(i)) = n
  <2> DEFINE run == [k \in 1 .. n |-> At(i + k - 1)]
  <2>1. \A k \in 1 .. n : At(i + k - 1) \in Char
    <3> SUFFICES ASSUME NEW k \in 1 .. n PROVE At(i + k - 1) \in Char
      OBVIOUS
    <3>1. PICK l \in Nat \ {0} : l = i + k - 1
      BY <1>1, <1>6
    <3> QED
      BY <3>1, AtFacts
  <2>2. run \in [1 .. n -> Char]
    BY <2>1
  <2>3. DigitRun(i) = run
    BY <1>7
  <2> HIDE DEF run
  <2> QED
    BY <1>6, <2>2, <2>3
<1>10. i + n \in 1 .. Len(fmt) + 1
  <2>1. CASE n = 0
    BY <1>1, <2>1
  <2>2. CASE n # 0
    <3>1. PICK k \in 0 .. n - 1 : k = n - 1
      BY <1>6, <2>2
    <3>2. At(i + k) # NUL
      BY <1>8, DigitFacts
    <3>3. i + k \in Nat \ {0}
      BY <1>1
    <3>4. i + k <= Len(fmt)
      BY <3>2, <3>3, AtFacts
    <3> QED
      BY <1>1, <1>6, <3>1, <3>4
  <2> QED
    BY <2>1, <2>2
<1> QED
  BY <1>6, <1>8, <1>9, <1>10

(* skip_atoi computes a number.                                            *)
LEMMA AtoiFacts ==
    ASSUME fmt \in Seq(Char), NEW i \in 1 .. Len(fmt) + 1
    PROVE  skip_atoi(i) \in Nat
<1>1. PICK len \in Nat : /\ Len(DigitRun(i)) = len
                         /\ \A k \in 0 .. len - 1 : IsDigit(At(i + k))
  <2>1. PICK n \in 0 .. Len(fmt) : /\ Len(DigitRun(i)) = n
                                  /\ \A k \in 0 .. n - 1 : IsDigit(At(i + k))
    BY RunFacts
  <2>2. n \in Nat
    OBVIOUS
  <2> QED
    BY <2>1, <2>2
<1> DEFINE digit(n) == DigitValue(At(i + n - 1))
           step(f) == [n \in 0 .. len |-> IF n = 0 THEN 0 ELSE 10 * f[n - 1] + digit(n)]
           value == CHOOSE f : f = step(f)
<1>2. skip_atoi(i) = value[len]
  BY <1>1 DEF skip_atoi
<1>3. ASSUME NEW n \in 1 .. len PROVE digit(n) \in Nat
  <2>1. PICK k \in 0 .. len - 1 : k = n - 1 /\ i + n - 1 = i + k
    BY <1>1
  <2>2. DigitValue(At(i + k)) \in 0 .. 9
    BY <1>1, DigitFacts
  <2>3. digit(n) = DigitValue(At(i + k))
    BY <2>1
  <2> HIDE DEF digit
  <2> QED
    BY <2>2, <2>3
<1> HIDE DEF digit
<1> DEFINE Solved(f, n) == f[n] = IF n = 0 THEN 0 ELSE 10 * f[n - 1] + digit(n)
           far == {m \in 0 .. len : \E f \in [0 .. len -> Nat] : \A n \in 0 .. m : Solved(f, n)}
<1>4. far = 0 .. len
  <2> SUFFICES ASSUME (0 .. len) \ far # {} PROVE FALSE
    OBVIOUS
  <2>1. PICK m \in (0 .. len) \ far : \A k \in (0 .. len) \ far : m <= k
    <3>1. (0 .. len) \ far \in SUBSET Nat
      OBVIOUS
    <3> HIDE DEF far
    <3> QED
      BY <3>1, Least
  <2>2. m \in 0 .. len
    BY <2>1
  <2>3. CASE m = 0
    <3> DEFINE g == [n \in 0 .. len |-> 0]
    <3>1. g \in [0 .. len -> Nat] /\ \A n \in 0 .. m : Solved(g, n)
      BY <2>3
    <3> HIDE DEF g
    <3>2. m \in far
      BY <2>2, <3>1
    <3> QED
      BY <2>1, <3>2
  <2>4. CASE m # 0
    <3>1. m \in 1 .. len /\ m - 1 \in 0 .. len /\ ~ (m <= m - 1)
      <4> HIDE DEF far
      <4> QED
        BY <2>2, <2>4
    <3>2. m - 1 \in far
      <4> HIDE DEF far
      <4> QED
        BY <2>1, <3>1
    <3>3. PICK f \in [0 .. len -> Nat] : \A n \in 0 .. m - 1 : Solved(f, n)
      BY <3>2
    <3> DEFINE g == [f EXCEPT ![m] = 10 * f[m - 1] + digit(m)]
    <3>4. digit(m) \in Nat /\ f[m - 1] \in Nat
      BY <1>3, <3>1
    <3>5. /\ g \in [0 .. len -> Nat] /\ g[m] = 10 * f[m - 1] + digit(m)
          /\ \A n \in 0 .. m - 1 : g[n] = f[n]
      <4> HIDE DEF far, Solved
      <4> QED
        BY SMTT(30), <3>1, <3>4
    <3> HIDE DEF g
    <3>6. ASSUME NEW n \in 0 .. m PROVE Solved(g, n)
      <4> HIDE DEF far
      <4>1. CASE n = m
        <5>1. g[m - 1] = f[m - 1]
          BY <2>4, <3>1, <3>5
        <5> QED
          BY <2>4, <3>5, <4>1, <5>1
      <4>2. CASE n # m
        <5>1. n \in 0 .. m - 1
          BY <3>1, <4>2
        <5>2. g[n] = f[n] /\ Solved(f, n)
          BY <3>3, <3>5, <5>1, Zenon
        <5>3. CASE n = 0
          BY <5>2, <5>3
        <5>4. CASE n # 0
          <6>1. n - 1 \in 0 .. m - 1
            BY <3>1, <5>1, <5>4
          <6>2. g[n - 1] = f[n - 1]
            BY <3>5, <6>1
          <6> QED
            BY <5>2, <5>4, <6>2
        <5> QED
          BY <5>3, <5>4
      <4> QED
        BY <4>1, <4>2
    <3>7. m \in far
      BY <2>2, <3>5, <3>6
    <3> QED
      BY <2>1, <3>7
  <2> QED
    BY <2>3, <2>4
<1>5. PICK g \in [0 .. len -> Nat] : \A n \in 0 .. len : Solved(g, n)
  <2>1. len \in far
    <3> HIDE DEF far
    <3> QED
      BY <1>1, <1>4
  <2> QED
    BY <2>1
<1>6. value = step(value)
  <2>1. g = step(g)
    BY <1>5
  <2> HIDE DEF step
  <2> QED
    BY <2>1
<1> HIDE DEF value, far
<1>7. \A n \in 0 .. len : Solved(value, n)
  BY <1>6 DEF step
<1>8. \A n \in 0 .. len : value[n] \in Nat
  <2> DEFINE wrong == {n \in 0 .. len : value[n] \notin Nat}
  <2> SUFFICES ASSUME wrong # {} PROVE FALSE
    OBVIOUS
  <2>1. PICK m \in wrong : \A k \in wrong : m <= k
    <3>1. wrong \in SUBSET Nat
      OBVIOUS
    <3> HIDE DEF wrong
    <3> QED
      BY <3>1, Least
  <2>2. m \in 0 .. len /\ value[m] \notin Nat /\ Solved(value, m)
    BY <1>7
  <2>3. m # 0
    BY <2>2
  <2>4. m \in 1 .. len /\ m - 1 \in 0 .. len /\ ~(m <= m - 1)
    BY <2>2, <2>3
  <2>5. m - 1 \notin wrong
    <3> HIDE DEF wrong
    <3> QED
      BY <2>1, <2>4
  <2>6. PICK a \in Nat, b \in Nat : a = value[m - 1] /\ b = digit(m)
    BY <1>3, <2>4, <2>5
  <2>7. value[m] = 10 * a + b
    <3> HIDE DEF wrong
    <3> QED
      BY <2>2, <2>3, <2>6
  <2>8. 10 * a + b \in Nat
    OBVIOUS
  <2> QED
    BY <2>2, <2>7, <2>8
<1> QED
  BY <1>1, <1>2, <1>8
-----------------------------------------------------------------------------
(* A pointer is moved past the top of the address space at most once.       *)
LEMMA Wraps ==
    ASSUME NEW w \in Nat \ {0}, NEW a \in Nat, a < w + w
    PROVE  a % w = IF a < w THEN a ELSE a - w
<1> DEFINE q == a \div w
           r == a % w
<1>1. q \in Int /\ r \in 0 .. w - 1 /\ a = w * q + r
  OBVIOUS
<1> HIDE DEF q, r
<1>2. ASSUME q < 0 PROVE FALSE
  <2>1. -q - 1 \in Nat /\ w * q = -w - w * (-q - 1)
    BY <1>1, <1>2
  <2>2. w * (-q - 1) >= 0
    BY <2>1
  <2> QED
    BY <1>1, <2>1, <2>2
<1>3. ASSUME q > 1 PROVE FALSE
  <2>1. q - 2 \in Nat /\ w * q = w + w + w * (q - 2)
    BY <1>1, <1>3
  <2>2. w * (q - 2) >= 0
    BY <2>1
  <2> QED
    BY <1>1, <2>1, <2>2
<1>4. CASE q = 0
  <2>1. a = r /\ a < w
    BY <1>1, <1>4
  <2> QED
    BY <2>1 DEF r
<1>5. CASE q = 1
  <2>1. r = a - w /\ ~(a < w)
    BY <1>1, <1>5
  <2> QED
    BY <2>1 DEF r
<1> QED
  BY <1>1, <1>2, <1>3, <1>4, <1>5

(* And below 0 at most once.                                                *)
LEMMA WrapsBelow ==
    ASSUME NEW w \in Nat \ {0}, NEW a \in Int, a < 0, -w <= a
    PROVE  a % w = a + w
<1> DEFINE q == a \div w
           r == a % w
<1>1. q \in Int /\ r \in 0 .. w - 1 /\ a = w * q + r
  OBVIOUS
<1> HIDE DEF q, r
<1>2. ASSUME q < -1 PROVE FALSE
  <2>1. -q - 2 \in Nat /\ w * q = -w - w - w * (-q - 2)
    BY <1>1, <1>2
  <2>2. w * (-q - 2) >= 0
    BY <2>1
  <2> QED
    BY <1>1, <2>1, <2>2
<1>3. ASSUME q > -1 PROVE FALSE
  <2>1. q \in Nat
    BY <1>1, <1>3
  <2>2. w * q >= 0
    BY <2>1
  <2> QED
    BY <1>1, <2>2
<1>4. q = -1
  BY <1>1, <1>2, <1>3
<1>5. w * q = -w
  BY <1>4
<1>6. r = a + w
  BY <1>1, <1>5
<1> QED
  BY <1>6 DEF r

\* Where vsnprintf goes through the format, and the sizes it does not refuse.
InLoop == {"directive", "flags", "precision", "qualifier", "convert"}

Proper == size < IntWord \div 2

(* The format is a text that is never left, and a loop means a proper size. *)
Typed ==
    /\ pc \in {"vsnprintf", "printf", "done"} \union InLoop
    /\ fmt \in Seq(Char) /\ p \in 1 .. Len(fmt) + 1
    /\ buf \in Bufs /\ size \in Sizes /\ (pc \in InLoop => Proper)
    /\ field_width \in Int /\ precision \in Int
    /\ out \in Seq(Char) /\ (pc = "vsnprintf" => out = << >> /\ memory = << >>)

(* Until the loop ends the memory holds what was generated, as far as there *)
(* is room, and nothing else ...                                            *)
Taken == {a \in Nat : buf <= a /\ a < buf + Len(out) /\ a <= end}

Holds == DOMAIN memory = Taken /\ \A a \in Taken : memory[a] = out[a - buf + 1]

\* At the top of the address space there is always room.
Over == ReachesTop /\ Len(out) < IntWord \div 2

Place(k) == (buf + k) % IntWord

HoldsAll ==
    \A k \in 0 .. Len(out) - 1 : Place(k) \in DOMAIN memory /\ memory[Place(k)] = out[k + 1]

Filled == pc \in InLoop => (InReach => Holds) /\ (Over => HoldsAll)

Kept == IF Len(out) < size THEN Len(out) ELSE size - 1

(* ... after it the same, with a NUL in the last place; puts looks for one. *)
Terminated ==
    pc \in {"printf", "done"} /\ InReach =>
        /\ \A a \in DOMAIN memory : buf <= a /\ a < buf + size
        /\ Proper /\ size > 0 =>
              /\ ret = Len(out)
              /\ \A k \in 0 .. Kept - 1 : Read(buf + k) = out[k + 1]
              /\ Read(buf + Kept) = NUL

NotCut ==
    pc \in {"printf", "done"} /\ Proper /\ Over =>
        /\ \A k \in 0 .. Len(out) - 1 : Read(Place(k)) = out[k + 1]
        /\ Read(str) = NUL

ShownIs ==
    /\ pc # "done" => shown = << >>
    /\ pc = "done" /\ InReach /\ Proper /\ size > 0 =>
          /\ shown \in Seq(Char) /\ Len(shown) <= Kept
          /\ \A k \in 1 .. Len(shown) : shown[k] = out[k]
          /\ size = BufSize /\ Len(shown) < Kept => out[Len(shown) + 1] = NUL

Inv == Typed /\ Filled /\ Terminated /\ NotCut /\ ShownIs

(* Sizes and addresses are numbers below IntWord.                           *)
LEMMA Sizing ==
    ASSUME Typed
    PROVE  /\ IntWord \in Nat \ {0} /\ IntWord \div 2 \in Nat /\ IntWord \div 2 <= IntWord
           /\ size \in Nat /\ size < IntWord /\ buf \in Nat /\ buf < IntWord
           /\ Len(out) \in Nat
           /\ Signed(size, IntWord) >= 0 <=> Proper
           /\ Signed(size, IntWord) > 0 <=> Proper /\ size > 0
<1>1. IntWord \in Nat \ {0} /\ size \in 0 .. IntWord - 1 /\ buf \in 0 .. IntWord - 1
  BY PrintfAssumption, WordAssumption DEF Typed
<1>2. PICK w \in Nat \ {0} : w = IntWord
  BY <1>1
<1>3. w \div 2 \in Nat /\ w \div 2 <= w
  BY <1>2
<1>4. PICK h \in Nat : h = IntWord \div 2 /\ h <= w
  BY <1>2, <1>3
<1>5. Len(out) \in Nat
  BY DEF Typed
<1> QED
  BY <1>1, <1>2, <1>4, <1>5 DEF Signed, Proper

(* The last place of a buffer, and where str points, below the top of the   *)
(* address space.                                                           *)
LEMMA Reaching ==
    ASSUME Typed, InReach, Proper
    PROVE  /\ buf > 0 /\ buf + Len(out) < IntWord
           /\ end = IF buf + size - 1 < IntWord THEN buf + size - 1 ELSE IntWord - 1
           /\ str = buf + Len(out)
           /\ Generated = Len(out)
<1>1. PICK w \in Nat \ {0}, h \in Nat, b \in Nat \ {0}, z \in Nat, n \in Nat :
         /\ w = IntWord /\ h = IntWord \div 2 /\ b = buf /\ z = size /\ n = Len(out)
         /\ h <= w /\ b + n < w /\ n < h /\ z < h
  BY Sizing DEF InReach, Proper
<1>2. str = b + n
  <2>1. PICK s \in Nat : s = b + n /\ s < w /\ s < w + w
    BY <1>1
  <2>2. s % w = s
    BY <1>1, <2>1, Wraps
  <2> QED
    BY <1>1, <2>1, <2>2 DEF str
<1>3. Generated = n
  <2>1. n % w = n
    <3>1. n < w /\ n < w + w
      BY <1>1
    <3> QED
      BY <1>1, <3>1, Wraps
  <2>2. (str - buf) % IntWord = n % w
    BY <1>1, <1>2
  <2> QED
    BY <1>1, <2>1, <2>2 DEF Generated, Signed
<1>4. end = IF b + z - 1 < w THEN b + z - 1 ELSE w - 1
  <2>1. PICK last \in Nat, before \in Nat : last = b + z - 1 /\ before = b - 1
    BY <1>1
  <2>2. last % w = IF last < w THEN last ELSE last - w
    <3>1. last < w + w
      BY <1>1, <2>1
    <3> QED
      BY <1>1, <2>1, <3>1, Wraps
  <2>3. before % w = before
    <3>1. before < w /\ before < w + w
      BY <1>1, <2>1
    <3> QED
      BY <1>1, <2>1, <3>1, Wraps
  <2>4. last_cell = last % w /\ (buf - 1) % IntWord = before % w
    BY <1>1, <2>1 DEF last_cell
  <2>5. end = IF last % w < before % w THEN w - 1 ELSE last % w
    BY <1>1, <2>4 DEF end
  <2>6. CASE last < w
    BY <1>1, <2>1, <2>2, <2>3, <2>5, <2>6
  <2>7. CASE ~(last < w)
    BY <1>1, <2>1, <2>2, <2>3, <2>5, <2>7
  <2> QED
    BY <2>6, <2>7
<1> QED
  BY <1>1, <1>2, <1>3, <1>4

(* Characters are stored where there is room, and all are counted.          *)
LEMMA EmitFacts ==
    ASSUME Inv, pc \in InLoop, NEW chars \in Seq(Char), Emit(chars), UNCHANGED <<buf, size>>
    PROVE  /\ out' \in Seq(Char)
           /\ Len(out') = Len(out) + Len(chars) /\ Len(chars) \in Nat
           /\ InReach' => Holds'
<1>1. Typed /\ Proper /\ out \in Seq(Char) /\ Len(out) \in Nat
  BY Sizing DEF Inv, Typed
<1>2. /\ out' \in Seq(Char) /\ Len(out') = Len(out) + Len(chars) /\ Len(chars) \in Nat
      /\ \A k \in 1 .. Len(out) + Len(chars) :
            out'[k] = IF k <= Len(out) THEN out[k] ELSE chars[k - Len(out)]
  <2>1. out' = out \o chars
    BY DEF Emit
  <2>2. Len(chars) \in Nat
    OBVIOUS
  <2> QED
    BY <1>1, <2>1, <2>2, ConcatProperties
<1>3. ASSUME InReach' PROVE Holds'
  <2>1. PICK w \in Nat \ {0}, b \in Nat \ {0}, n \in Nat, m \in Nat :
           /\ w = IntWord /\ b = buf /\ n = Len(out) /\ m = Len(chars)
           /\ b + n + m < w /\ n + m < w \div 2 /\ b = buf' /\ n + m = Len(out')
    BY <1>1, <1>2, <1>3, Sizing DEF InReach
  <2>2. InReach
    <3>1. PICK h \in Int : h = w \div 2 /\ n + m < h
      BY <2>1
    <3> QED
      BY <2>1, <3>1 DEF InReach
  <2>3. Holds
    BY <2>2 DEF Inv, Filled
  <2>4. PICK e \in Int : e = end /\ str = b + n
    BY <1>1, <2>1, <2>2, Sizing, Reaching
  <2>5. end' = e
    BY <2>4 DEF end, last_cell
  <2> DEFINE Stored == {a \in {(str + k) % IntWord : k \in 0 .. Len(chars) - 1} : a <= end}
  <2>6. /\ DOMAIN memory' = DOMAIN memory \union Stored
        /\ \A a \in DOMAIN memory \union Stored :
              memory'[a] = IF a \in Stored THEN chars[((a - str) % IntWord) + 1] ELSE memory[a]
    BY DEF Emit
  <2>7. Stored = {a \in Nat : b + n <= a /\ a < b + n + m /\ a <= e}
    <3>1. ASSUME NEW k \in 0 .. m - 1 PROVE (str + k) % IntWord = b + n + k
      <4>1. PICK a \in Nat : a = b + n + k /\ a < w
        BY <2>1
      <4>2. a % w = a
        <5>1. a < w + w
          BY <4>1
        <5> QED
          BY <4>1, <5>1, Wraps
      <4> QED
        BY <2>1, <2>4, <4>1, <4>2
    <3>2. ASSUME NEW a \in Stored PROVE a \in Nat /\ b + n <= a /\ a < b + n + m /\ a <= e
      <4>1. PICK k \in 0 .. m - 1 : a = (str + k) % IntWord
        BY <2>1
      <4>2. a = b + n + k
        BY <3>1, <4>1
      <4> QED
        BY <2>4, <4>2
    <3>3. ASSUME NEW a \in Nat, b + n <= a, a < b + n + m, a <= e PROVE a \in Stored
      <4>1. PICK k \in 0 .. m - 1 : k = a - (b + n) /\ a = b + n + k
        BY <3>3
      <4>2. a = (str + k) % IntWord
        BY <3>1, <4>1
      <4> QED
        BY <2>1, <2>4, <3>3, <4>2
    <3> HIDE DEF Stored
    <3> QED
      BY <3>2, <3>3
  <2> HIDE DEF Stored
  <2>8. Taken = {a \in Nat : b <= a /\ a < b + n /\ a <= e}
    BY <2>1, <2>4 DEF Taken
  <2>9. Taken' = {a \in Nat : b <= a /\ a < b + (n + m) /\ a <= e}
    BY <2>1, <2>5 DEF Taken
  <2>10. DOMAIN memory = Taken /\ \A a \in Taken : memory[a] = out[a - b + 1]
    BY <2>1, <2>3 DEF Holds
  <2>11. DOMAIN memory' = Taken'
    <3>1. ASSUME NEW a \in Taken' PROVE a \in Taken \union Stored
      BY <2>7, <2>8, <2>9
    <3>2. ASSUME NEW a \in Taken \union Stored PROVE a \in Taken'
      BY <2>7, <2>8, <2>9
    <3> QED
      BY <2>6, <2>10, <3>1, <3>2
  <2>12. ASSUME NEW a \in Taken' PROVE memory'[a] = out'[a - b + 1]
    <3>1. PICK l \in Nat \ {0} : l = a - b + 1 /\ l <= n + m /\ a \in Nat /\ a <= e
      BY <2>9
    <3>2. out'[l] = IF l <= n THEN out[l] ELSE chars[l - n]
      <4>1. \A k \in 1 .. n + m : out'[k] = IF k <= n THEN out[k] ELSE chars[k - n]
        BY <1>2, <2>1
      <4>2. l \in 1 .. n + m
        BY <3>1
      <4> QED
        BY <4>1, <4>2
    <3>3. CASE l <= n
      <4>1. a \in Taken /\ a \notin Stored
        BY <2>7, <2>8, <3>1, <3>3
      <4>2. memory'[a] = memory[a]
        BY <2>6, <2>10, <4>1
      <4> QED
        BY <2>10, <3>1, <3>2, <3>3, <4>1, <4>2
    <3>4. CASE l > n
      <4>1. a \in Stored
        BY <2>7, <3>1, <3>4
      <4>1a. b + n + m < w /\ n + m < w
        BY <2>1
      <4>2. PICK k \in Nat : k = a - (b + n) /\ k < w /\ l - n = k + 1
        <5> HIDE DEF Stored
        <5>1. b \in Nat /\ n \in Nat /\ m \in Nat /\ w \in Nat
          BY <2>1
        <5> QED
          BY <3>1, <3>4, <4>1a, <5>1
      <4>3. k % w = k
        <5>1. k < w + w
          BY <4>2
        <5> QED
          BY <4>2, <5>1, Wraps
      <4>4. (a - str) % IntWord = k
        BY <2>1, <2>4, <4>2, <4>3
      <4>5. memory'[a] = chars[k + 1]
        BY <2>6, <4>1, <4>4
      <4> QED
        BY <3>1, <3>2, <3>4, <4>2, <4>5
    <3> QED
      BY <2>1, <3>1, <3>3, <3>4
  <2> QED
    BY <2>1, <2>11, <2>12 DEF Holds
<1> QED
  BY <1>2, <1>3

(* Where a buffer reaches the top of the address space all can be stored.   *)
LEMMA Clamped ==
    ASSUME Typed, Proper, ReachesTop
    PROVE  end = IntWord - 1
<1>1. PICK w \in Nat \ {0}, b \in Nat, z \in Nat :
         w = IntWord /\ b = buf /\ z = size /\ b < w /\ z < w /\ (b = 0 \/ b + z >= w)
  BY Sizing DEF ReachesTop
<1>2. last_cell \in 0 .. w - 1
  <2>1. \A c \in Int : c % w \in 0 .. w - 1
    BY <1>1
  <2>2. b + z - 1 \in Int
    BY <1>1
  <2> QED
    BY <1>1, <2>1, <2>2 DEF last_cell
<1>3. CASE b = 0
  <2>1. (buf - 1) % IntWord = w - 1
    <3>1. -1 < 0 /\ -w <= -1 /\ -1 \in Int /\ buf - 1 = -1
      BY <1>1, <1>3
    <3>2. (-1) % w = -1 + w
      BY <1>1, <3>1, WrapsBelow
    <3> QED
      BY <1>1, <3>1, <3>2
  <2> QED
    BY <1>1, <1>2, <2>1 DEF end
<1>4. CASE b > 0
  <2>1. PICK c \in Nat : c = b + z - 1 /\ w - 1 <= c /\ c < w + w /\ c - w < b - 1
    BY <1>1, <1>4
  <2>2. PICK before \in Nat : before = b - 1 /\ before < w /\ before < w + w
    BY <1>1, <1>4
  <2>3. c % w = IF c < w THEN c ELSE c - w
    BY <1>1, <2>1, Wraps
  <2>4. before % w = before
    BY <1>1, <2>2, Wraps
  <2>5. last_cell = c % w /\ (buf - 1) % IntWord = before % w
    BY <1>1, <2>1, <2>2 DEF last_cell
  <2>6. end = IF last_cell < before THEN w - 1 ELSE last_cell
    BY <1>1, <2>4, <2>5 DEF end
  <2>7. CASE c < w
    BY <1>1, <2>1, <2>2, <2>3, <2>5, <2>6, <2>7
  <2>8. CASE ~(c < w)
    BY <1>1, <2>1, <2>2, <2>3, <2>5, <2>6, <2>8
  <2> QED
    BY <2>7, <2>8
<1> QED
  BY <1>1, <1>3, <1>4

(* Where the characters go, each to a place of its own.                     *)
LEMMA Places ==
    ASSUME Typed, NEW k \in Nat, k < IntWord
    PROVE  /\ Place(k) = IF buf + k < IntWord THEN buf + k ELSE buf + k - IntWord
           /\ Place(k) \in Nat /\ Place(k) <= IntWord - 1
<1>1. PICK w \in Nat \ {0}, b \in Nat : w = IntWord /\ b = buf /\ b < w /\ k < w
  BY Sizing
<1>2. PICK c \in Nat : c = b + k /\ c < w + w
  BY <1>1
<1>3. c % w = IF c < w THEN c ELSE c - w
  BY <1>1, <1>2, Wraps
<1>4. Place(k) = c % w
  BY <1>1, <1>2 DEF Place
<1> QED
  BY <1>1, <1>2, <1>3, <1>4

LEMMA PlacesDiffer ==
    ASSUME Typed, NEW k \in Nat, NEW l \in Nat, k < l, l < IntWord
    PROVE  Place(k) # Place(l)
<1>1. PICK w \in Nat \ {0}, b \in Nat : w = IntWord /\ b = buf /\ b < w /\ k < w /\ l < w
  BY Sizing
<1>2. /\ Place(k) = IF b + k < w THEN b + k ELSE b + k - w
      /\ Place(l) = IF b + l < w THEN b + l ELSE b + l - w
  BY <1>1, Places
<1> QED
  BY <1>1, <1>2

(* All characters are stored there, over the top of the address space.      *)
LEMMA EmitAll ==
    ASSUME Inv, pc \in InLoop, NEW chars \in Seq(Char), Emit(chars), UNCHANGED <<buf, size>>, Over'
    PROVE  HoldsAll'
<1>1. Typed /\ Proper /\ out \in Seq(Char) /\ Len(out) \in Nat
  BY Sizing DEF Inv, Typed
<1>2. PICK n \in Nat, m \in Nat :
         /\ n = Len(out) /\ m = Len(chars) /\ Len(out') = n + m
         /\ \A k \in 1 .. n + m : out'[k] = IF k <= n THEN out[k] ELSE chars[k - n]
  <2>1. out' = out \o chars /\ Len(chars) \in Nat
    BY DEF Emit
  <2> QED
    BY <1>1, <2>1, ConcatProperties
<1>3. PICK w \in Nat \ {0}, h \in Nat :
         w = IntWord /\ h = IntWord \div 2 /\ h <= w /\ n + m < h
  BY <1>1, <1>2, Sizing DEF Over
<1>4. n + m < w /\ n < w /\ n < h
  BY <1>2, <1>3
<1>5. Over /\ ReachesTop
  BY <1>2, <1>3, <1>4 DEF Over, ReachesTop
<1>6. HoldsAll /\ end = w - 1
  BY <1>1, <1>3, <1>5, Clamped DEF Inv, Filled
<1>7. str = Place(n)
  BY <1>2 DEF str, Place
<1>8. PICK b \in Nat : b = buf /\ b < w
  BY <1>1, <1>3, Sizing
<1>9. \A k \in Nat : Place(k)' = Place(k)
  BY DEF Place
<1>10. \A k \in Nat : k < w => /\ Place(k) = IF b + k < w THEN b + k ELSE b + k - w
                               /\ Place(k) \in Nat /\ Place(k) <= w - 1
  BY <1>1, <1>3, <1>8, Places
<1>11. PICK s \in Nat : s = str /\ s < w /\ s = IF b + n < w THEN b + n ELSE b + n - w
  <2>1. /\ Place(n) = IF b + n < w THEN b + n ELSE b + n - w
        /\ Place(n) \in Nat /\ Place(n) <= w - 1
    BY <1>4, <1>10
  <2>2. PICK s \in Nat : s = Place(n)
    BY <2>1
  <2>3. s < w
    BY <2>1, <2>2
  <2> QED
    BY <1>7, <2>1, <2>2, <2>3
<1>12. ASSUME NEW q \in Nat, q < m
       PROVE  (str + q) % IntWord = Place(n + q) /\ (Place(n + q) - str) % IntWord = q
  <2>1. PICK c \in Nat : c = s + q /\ c < w + w /\ n + q \in Nat /\ n + q < w /\ q < w
    <3>1. n + q \in Nat /\ n + q < w /\ q < w
      BY <1>4, <1>12
    <3>2. s + q \in Nat /\ s + q < w + w
      BY <1>11, <3>1
    <3> QED
      BY <3>1, <3>2
  <2>2. c % w = IF c < w THEN c ELSE c - w
    BY <1>3, <2>1, Wraps
  <2>3. PICK a \in Nat : a = Place(n + q) /\ a = IF b + (n + q) < w THEN b + (n + q) ELSE b + (n + q) - w
    BY <1>10, <2>1
  <2>4. c % w = a
    BY <1>3, <1>8, <1>11, <2>1, <2>2, <2>3
  <2>5. (a - s) % w = q
    <3>1. a = IF c < w THEN c ELSE c - w
      BY <2>2, <2>4
    <3>2. CASE c < w
      <4>1. a - s = q /\ q < w + w
        BY <2>1, <3>1, <3>2
      <4>2. q % w = q
        BY <1>3, <2>1, <4>1, Wraps
      <4> QED
        BY <4>1, <4>2
    <3>3. CASE ~(c < w)
      <4>1. PICK d \in Int : d = a - s /\ d = q - w /\ d < 0 /\ -w <= d
        BY <2>1, <3>1, <3>3
      <4>2. d % w = d + w
        BY <1>3, <4>1, WrapsBelow
      <4> QED
        BY <4>1, <4>2
    <3> QED
      BY <3>2, <3>3
  <2> QED
    BY <1>3, <1>11, <2>1, <2>3, <2>4, <2>5
<1> DEFINE Stored == {a \in {(str + k) % IntWord : k \in 0 .. Len(chars) - 1} : a <= end}
<1>13. /\ DOMAIN memory' = DOMAIN memory \union Stored
       /\ \A a \in DOMAIN memory \union Stored :
             memory'[a] = IF a \in Stored THEN chars[((a - str) % IntWord) + 1] ELSE memory[a]
  BY DEF Emit
<1>14. ASSUME NEW q \in Nat, q < m PROVE Place(n + q) \in Stored
  <2>1. q \in 0 .. m - 1 /\ n + q \in Nat /\ n + q < w
    BY <1>4, <1>14
  <2>2. Place(n + q) <= end
    BY <1>6, <1>10, <2>1
  <2> QED
    BY <1>2, <1>12, <1>14, <2>1, <2>2
<1>15. ASSUME NEW k \in Nat, k < n PROVE Place(k) \notin Stored
  <2> SUFFICES ASSUME Place(k) \in Stored PROVE FALSE
    OBVIOUS
  <2>1. PICK q \in 0 .. m - 1 : Place(k) = (str + q) % IntWord
    BY <1>2
  <2>2. q \in Nat /\ q < m /\ n + q \in Nat /\ k < n + q /\ n + q < w
    BY <1>4, <1>15
  <2>3. Place(k) = Place(n + q)
    BY <1>12, <2>1, <2>2
  <2> QED
    BY <1>1, <1>3, <2>2, <2>3, PlacesDiffer
<1> HIDE DEF Stored
<1>16. ASSUME NEW k \in 0 .. n + m - 1
       PROVE  Place(k) \in DOMAIN memory' /\ memory'[Place(k)] = out'[k + 1]
  <2>1. out'[k + 1] = IF k + 1 <= n THEN out[k + 1] ELSE chars[k + 1 - n]
    BY <1>2
  <2>2. CASE k < n
    <3>1. k \in Nat /\ k \in 0 .. n - 1 /\ k + 1 <= n
      BY <2>2
    <3>2. Place(k) \in DOMAIN memory /\ memory[Place(k)] = out[k + 1]
      BY <1>2, <1>6, <3>1 DEF HoldsAll
    <3> QED
      BY <1>13, <1>15, <2>1, <2>2, <3>1, <3>2
  <2>3. CASE k >= n
    <3>1. PICK q \in Nat : q = k - n /\ q < m /\ k = n + q /\ k + 1 - n = q + 1 /\ ~(k + 1 <= n)
      BY <2>3
    <3>2. Place(k) \in Stored /\ (Place(k) - str) % IntWord = q
      BY <1>12, <1>14, <3>1
    <3> QED
      BY <1>13, <2>1, <3>1, <3>2
  <2> QED
    BY <2>2, <2>3
<1> QED
  BY <1>2, <1>9, <1>16 DEF HoldsAll

(* A turn of the loop that generates text, or none.                         *)
LEMMA Turn ==
    ASSUME Inv, pc \in InLoop, pc' \in InLoop, UNCHANGED <<fmt, buf, size, ret, shown>>,
           p' \in 1 .. Len(fmt) + 1, field_width' \in Int, precision' \in Int,
           \/ UNCHANGED <<memory, out>>
           \/ \E chars \in Seq(Char) : Emit(chars)
    PROVE  Inv'
<1>1. out' \in Seq(Char) /\ (InReach' => Holds') /\ (Over' => HoldsAll')
  <2>1. CASE UNCHANGED <<memory, out>>
    <3>1. InReach' = InReach /\ Taken' = Taken /\ Over' = Over
      BY <2>1 DEF InReach, Taken, end, last_cell, Over, ReachesTop
    <3>2. Holds' = Holds /\ HoldsAll' = HoldsAll
      BY <2>1, <3>1 DEF Holds, HoldsAll, Place
    <3> QED
      BY <2>1, <3>1, <3>2 DEF Inv, Typed, Filled
  <2>2. CASE \E chars \in Seq(Char) : Emit(chars)
    BY <2>2, EmitFacts, EmitAll
  <2> QED
    BY <2>1, <2>2
<1>2. pc' \notin {"vsnprintf", "printf", "done"} /\ pc # "done"
  BY DEF InLoop
<1>3. Typed'
  BY <1>1, <1>2 DEF Inv, Typed, Proper
<1>4. Filled'
  BY <1>1 DEF Filled
<1>5. Terminated' /\ NotCut' /\ ShownIs'
  BY <1>2 DEF Inv, Terminated, NotCut, ShownIs
<1> QED
  BY <1>3, <1>4, <1>5 DEF Inv

(* A call begins with nothing generated and nothing stored.                 *)
LEMMA InvInit == Init => Inv
<1> SUFFICES ASSUME Init PROVE Inv
  OBVIOUS
<1>1. /\ pc = "vsnprintf" /\ fmt \in Seq(Char) /\ buf \in Bufs /\ size \in Sizes /\ p = 1
      /\ field_width = -1 /\ precision = -1 /\ out = << >> /\ shown = << >> /\ memory = << >>
  BY PrintfAssumption DEF Init
<1>2. p \in 1 .. Len(fmt) + 1
  BY <1>1
<1>3. pc \notin InLoop
  BY <1>1 DEF InLoop
<1>4. Typed
  BY <1>1, <1>2, <1>3 DEF Typed
<1> QED
  BY <1>1, <1>3, <1>4 DEF Inv, Filled, Terminated, NotCut, ShownIs

(* What means something in a format is not the end of it.                  *)
LEMMA NotNul ==
    ASSUME NEW char \in {"%", "-", "+", " ", "#", "*", ".", "h", "l", "L", "Z", "z", "c", "s", "p",
                         "n", "o", "X", "x", "d", "i", "u"}
    PROVE  char # NUL
  BY CharAssumption, Zenon

(* The format goes on behind a character that is not its end.              *)
LEMMA NextChar ==
    ASSUME fmt \in Seq(Char), NEW i \in 1 .. Len(fmt) + 1, At(i) # NUL
    PROVE  i + 1 \in 1 .. Len(fmt) + 1
<1>1. i \in Nat \ {0} /\ Len(fmt) \in Nat
  OBVIOUS
<1>2. i <= Len(fmt)
  BY <1>1, AtFacts
<1> QED
  BY <1>1, <1>2

(* Nor is a flag.                                                          *)
LEMMA FlagNotNul == ASSUME NEW char, FlagOf(char) # {} PROVE char # NUL
<1>1. NUL \notin {"-", "+", " ", "#", "0"}
  <2>1. 1 \in 1 .. 10 /\ DigitChar[1] = "0"
    BY DEF DigitChar
  <2>2. NUL # DigitChar[1]
    BY <2>1, CharAssumption
  <2> QED
    BY <2>1, <2>2, NotNul
<1>2. FlagOf(NUL) = {}
  BY <1>1 DEF FlagOf
<1> QED
  BY <1>2

(* An int argument.                                                        *)
LEMMA SignedInt == ASSUME NEW a \in StarArgs PROVE Signed(a, IntWord) \in Int
  BY PrintfAssumption DEF Signed, StarArgs

(* One character is a text.                                                *)
LEMMA TextOfOne == ASSUME NEW char \in Char PROVE <<char>> \in Seq(Char)
  BY Short

(* The steps that read the format.                                         *)
LEMMA ReadStep ==
    ASSUME Inv, Ordinary \/ Percent \/ Flag \/ FieldWidth \/ Precision \/ Qualifier
    PROVE  Inv'
<1>1. /\ fmt \in Seq(Char) /\ p \in 1 .. Len(fmt) + 1 /\ p \in Nat \ {0} /\ Len(fmt) \in Nat
      /\ field_width \in Int /\ precision \in Int
  BY DEF Inv, Typed
<1>2. CASE Ordinary
  <2>1. /\ pc = "directive" /\ pc' = pc /\ At(p) # NUL /\ Emit(<<At(p)>>) /\ p' = p + 1
        /\ UNCHANGED <<fmt, buf, size, ret, shown, field_width, precision>>
    BY <1>2 DEF Ordinary, spec_fields
  <2>2. <<At(p)>> \in Seq(Char) /\ p + 1 \in 1 .. Len(fmt) + 1
    BY <1>1, <2>1, AtFacts, TextOfOne, NextChar
  <2> QED
    BY <1>1, <2>1, <2>2, Turn DEF InLoop
<1>3. CASE Percent
  <2>1. /\ pc = "directive" /\ pc' = "flags" /\ At(p) = "%" /\ p' = p + 1
        /\ UNCHANGED <<fmt, buf, size, ret, shown, field_width, precision, memory, out>>
    BY <1>3 DEF Percent
  <2>2. p + 1 \in 1 .. Len(fmt) + 1
    BY <1>1, <2>1, NotNul, NextChar
  <2> QED
    BY <1>1, <2>1, <2>2, Turn DEF InLoop
<1>4. CASE Flag
  <2>1. /\ pc = "flags" /\ pc' = pc /\ FlagOf(At(p)) # {} /\ p' = p + 1
        /\ UNCHANGED <<fmt, buf, size, ret, shown, field_width, precision, memory, out>>
    BY <1>4 DEF Flag, repeat
  <2>2. p + 1 \in 1 .. Len(fmt) + 1
    BY <1>1, <2>1, FlagNotNul, NextChar
  <2> QED
    BY <1>1, <2>1, <2>2, Turn DEF InLoop
<1>5. CASE FieldWidth
  <2>1. /\ pc = "flags" /\ pc' = "precision"
        /\ UNCHANGED <<fmt, buf, size, ret, shown, precision, memory, out>>
    BY <1>5 DEF FieldWidth
  <2>2. field_width' \in Int /\ p' \in 1 .. Len(fmt) + 1
    <3>1. CASE IsDigit(At(p)) /\ field_width' = skip_atoi(p) /\ p' = p + Len(DigitRun(p))
      <4>1. p + Len(DigitRun(p)) \in 1 .. Len(fmt) + 1
        BY <1>1, RunFacts
      <4>2. skip_atoi(p) \in Nat
        BY <1>1, AtoiFacts
      <4> QED
        BY <3>1, <4>1, <4>2
    <3>2. CASE /\ At(p) = "*" /\ p' = p + 1
               /\ \E a \in StarArgs :
                     LET width == Signed(a, IntWord)
                     IN  IF width < 0
                         THEN field_width' = -width /\ flags' = flags \union {"LEFT"}
                         ELSE field_width' = width /\ UNCHANGED flags
      <4>1. p + 1 \in 1 .. Len(fmt) + 1
        BY <1>1, <3>2, NotNul, NextChar
      <4>2. PICK width \in Int : field_width' = -width \/ field_width' = width
        BY <3>2, SignedInt
      <4> QED
        BY <3>2, <4>1, <4>2
    <3>3. CASE field_width' = -1 /\ p' = p
      BY <1>1, <3>3
    <3> QED
      BY <1>5, <3>1, <3>2, <3>3 DEF FieldWidth
  <2> QED
    BY <1>1, <2>1, <2>2, Turn DEF InLoop
<1>6. CASE Precision
  <2>1. /\ pc = "precision" /\ pc' = "qualifier"
        /\ UNCHANGED <<fmt, buf, size, ret, shown, field_width, memory, out>>
    BY <1>6 DEF Precision
  <2>2. precision' \in Int /\ p' \in 1 .. Len(fmt) + 1
    <3>1. CASE precision' = -1 /\ p' = p
      BY <1>1, <3>1
    <3>2. CASE At(p) = "."
      <4>1. PICK q \in 1 .. Len(fmt) + 1 : q = p + 1
        BY <1>1, <3>2, NotNul, NextChar
      <4>2. CASE precision' = skip_atoi(p + 1) /\ p' = p + 1 + Len(DigitRun(p + 1))
        <5>1. q + Len(DigitRun(q)) \in 1 .. Len(fmt) + 1 /\ skip_atoi(q) \in Nat
          BY <1>1, RunFacts, AtoiFacts
        <5> QED
          BY <4>1, <4>2, <5>1
      <4>3. CASE /\ At(p + 1) = "*" /\ p' = p + 2
                 /\ \E a \in StarArgs : precision' = larger(Signed(a, IntWord), 0)
        <5>1. q + 1 \in 1 .. Len(fmt) + 1
          BY <1>1, <4>1, <4>3, NotNul, NextChar
        <5>2. PICK given \in Int : precision' = larger(given, 0)
          BY <4>3, SignedInt
        <5>3. precision' \in Int
          BY <5>2 DEF larger
        <5> QED
          BY <1>1, <4>1, <4>3, <5>1, <5>3
      <4>4. CASE precision' = 0 /\ p' = p + 1
        BY <4>1, <4>4
      <4> QED
        BY <1>6, <3>2, <4>2, <4>3, <4>4 DEF Precision
    <3> QED
      BY <1>6, <3>1, <3>2 DEF Precision
  <2> QED
    BY <1>1, <2>1, <2>2, Turn DEF InLoop
<1>7. CASE Qualifier
  <2>1. /\ pc = "qualifier" /\ pc' = "convert"
        /\ UNCHANGED <<fmt, buf, size, ret, shown, field_width, precision, memory, out>>
    BY <1>7 DEF Qualifier
  <2>2. p' \in 1 .. Len(fmt) + 1
    <3>1. CASE p' = p
      BY <1>1, <3>1
    <3>2. CASE At(p) \in {"h", "l", "L", "Z", "z"} /\ p' = p + 1
      BY <1>1, <3>2, NotNul, NextChar
    <3>3. CASE <<At(p), At(p + 1)>> = <<"l", "l">> /\ p' = p + 2
      <4>1. At(p) = "l" /\ At(p + 1) = "l"
        BY <3>3
      <4>2. PICK q \in 1 .. Len(fmt) + 1 : q = p + 1
        BY <1>1, <4>1, NotNul, NextChar
      <4>3. q + 1 \in 1 .. Len(fmt) + 1
        BY <1>1, <4>1, <4>2, NotNul, NextChar
      <4> QED
        BY <1>1, <3>3, <4>2, <4>3
    <3> QED
      BY <1>7, <3>1, <3>2, <3>3 DEF Qualifier
  <2> QED
    BY <1>1, <2>1, <2>2, Turn DEF InLoop
<1> QED
  BY <1>2, <1>3, <1>4, <1>5, <1>6, <1>7

(* Text in a field of the width asked for.                                 *)
LEMMA FieldFacts ==
    ASSUME NEW chars \in Seq(Char), field_width \in Int
    PROVE  /\ InField(chars) \in Seq(Char) /\ Len(chars) \in Nat
           /\ Len(InField(chars)) = larger(field_width, Len(chars))
<1>1. Len(chars) \in Nat
  OBVIOUS
<1>2. PICK n \in Int : n = field_width - Len(chars)
  BY <1>1
<1>3. " " \in Char
  BY CharAssumption, Zenon
<1> DEFINE pad == Pad(field_width - Len(chars))
<1>4. pad \in Seq(Char) /\ Len(pad) = IF n > 0 THEN n ELSE 0
  <2>1. PICK space \in Char : space = " "
    BY <1>3
  <2>2. Repeat(space, n) \in Seq(Char) /\ Len(Repeat(space, n)) = IF n > 0 THEN n ELSE 0
    BY Repeated
  <2>3. pad = Repeat(space, n)
    BY <1>2, <2>1 DEF Pad
  <2> HIDE DEF pad
  <2> QED
    BY <2>2, <2>3
<1>5. InField(chars) = chars \o pad \/ InField(chars) = pad \o chars
  BY DEF InField
<1> HIDE DEF pad
<1>6. /\ chars \o pad \in Seq(Char) /\ Len(chars \o pad) = Len(chars) + Len(pad)
      /\ pad \o chars \in Seq(Char) /\ Len(pad \o chars) = Len(pad) + Len(chars)
  BY <1>4, Joined
<1>7. Len(pad) + Len(chars) = larger(field_width, Len(chars))
  BY <1>1, <1>2, <1>4 DEF larger
<1>8. Len(chars) + Len(pad) = Len(pad) + Len(chars)
  BY <1>1, <1>4
<1> QED
  BY <1>1, <1>5, <1>6, <1>7, <1>8

(* A string cut off at the precision.                                      *)
LEMMA StringFacts ==
    ASSUME NEW s \in Seq(Char), precision \in Int
    PROVE  LET cut == SubSeq(s, 1, length(s))
           IN  /\ cut \in Seq(Char) /\ Len(cut) \in Nat
               /\ precision >= 0 => Len(cut) <= precision
<1>1. PICK n \in 0 .. Len(s) : n = length(s) /\ (precision >= 0 => n <= precision)
  BY DEF length
<1>2. \A k \in 1 .. n : s[k] \in Char
  OBVIOUS
<1>3. /\ SubSeq(s, 1, n) \in Seq(Char)
      /\ Len(SubSeq(s, 1, n)) = IF 1 <= n THEN n - 1 + 1 ELSE 0
  BY <1>1, <1>2, SubSeqProperties
<1>4. Len(SubSeq(s, 1, n)) = n
  BY <1>3
<1> QED
  BY <1>1, <1>3, <1>4

(* What a bad pointer is printed as.                                       *)
LEMMA NullText == null_string \in Seq(Char)
<1>1. /\ "<" \in Char /\ "N" \in Char /\ "U" \in Char /\ "L" \in Char /\ ">" \in Char
  BY CharAssumption, Zenon
<1>2. \A a, b, c, d \in Char, e \in Char : <<a, b, c, d, d, e>> \in Seq(Char)
  OBVIOUS
<1> QED
  BY <1>1, <1>2, Zenon DEF null_string

(* The values number() gets: sign extended, but not beyond a word.         *)
LEMMA ArgFacts == ASSUME NEW a \in IntegerArgs PROVE a \in 0 .. Word - 1
<1>1. /\ Word \in Nat /\ IntWord \in 1 .. Word /\ ShortWord \in 1 .. Word
      /\ IntArgs \subseteq 0 .. IntWord - 1 /\ LongLongArgs \subseteq 0 .. Word - 1
  BY PrintfAssumption, WordAssumption
<1> DEFINE As(b, word) == IF At(p) \in {"d", "i"} THEN Extend(b, word) ELSE b
<1>2. ASSUME NEW word \in 1 .. Word, NEW b \in 0 .. word - 1 PROVE As(b, word) \in 0 .. Word - 1
  BY <1>1 DEF Extend, Signed
<1>3. ASSUME NEW b \in IntArgs PROVE b % ShortWord \in 0 .. ShortWord - 1
  <2>1. PICK m \in Nat \ {0} : m = ShortWord
    BY <1>1
  <2>2. b \in Nat
    BY <1>1
  <2>3. b % m \in 0 .. m - 1
    BY <2>2
  <2> QED
    BY <2>1, <2>3
<1>4. \A b \in IntArgs : /\ As(b, IntWord) \in 0 .. Word - 1 /\ b \in 0 .. Word - 1
                         /\ As(b % ShortWord, ShortWord) \in 0 .. Word - 1
  <2>1. ASSUME NEW b \in IntArgs PROVE b \in 0 .. IntWord - 1 /\ b \in 0 .. Word - 1
    BY <1>1
  <2> HIDE DEF As
  <2> QED
    BY <1>1, <1>2, <1>3, <2>1
<1>5. \/ a \in LongLongArgs \/ a \in IntArgs
      \/ \E b \in IntArgs : a = As(b, IntWord)
      \/ \E b \in IntArgs : a = As(b % ShortWord, ShortWord)
  BY DEF IntegerArgs
<1> HIDE DEF As
<1> QED
  BY <1>1, <1>4, <1>5

(* A conversion generates text that fills its field, and no more of a      *)
(* string than its precision and its field allow.                          *)
LEMMA Conversion ==
    ASSUME Inv, ConvertChar \/ ConvertString \/ ConvertPointer \/ ConvertInteger
    PROVE  \E chars \in Seq(Char) :
              /\ Emit(chars)
              /\ Len(chars) >= field_width
              /\ At(p) = "s" /\ precision >= 0 => Len(chars) <= larger(field_width, precision)
<1>1. field_width \in Int /\ precision \in Int
  BY DEF Inv, Typed
<1>2. CASE ConvertChar
  <2>1. PICK c \in CharArgs : Emit(InField(<<c>>)) /\ At(p) = "c"
    BY <1>2 DEF ConvertChar
  <2>2. <<c>> \in Seq(Char)
    BY PrintfAssumption, TextOfOne
  <2>3. PICK chars \in Seq(Char) : chars = InField(<<c>>) /\ Len(chars) = larger(field_width, Len(<<c>>))
    BY <1>1, <2>2, FieldFacts
  <2>4. Len(chars) >= field_width
    BY <1>1, <2>2, <2>3 DEF larger
  <2>5. At(p) # "s"
    BY <2>1
  <2> QED
    BY <2>1, <2>3, <2>4, <2>5
<1>3. CASE ConvertString
  <2>1. PICK a \in StringArgs :
           /\ Emit(InField(SubSeq(IF a = NUL THEN null_string ELSE a, 1,
                                  length(IF a = NUL THEN null_string ELSE a))))
    BY <1>3 DEF ConvertString
  <2>2. PICK s \in Seq(Char) : s = IF a = NUL THEN null_string ELSE a
    BY NullText, PrintfAssumption
  <2>3. PICK cut \in Seq(Char) :
           /\ cut = SubSeq(s, 1, length(s)) /\ Len(cut) \in Nat
           /\ precision >= 0 => Len(cut) <= precision
    BY <1>1, StringFacts
  <2>4. PICK chars \in Seq(Char) : chars = InField(cut) /\ Len(chars) = larger(field_width, Len(cut))
    BY <1>1, FieldFacts
  <2>5. /\ Len(chars) >= field_width
        /\ precision >= 0 => Len(chars) <= larger(field_width, precision)
    BY <1>1, <2>3, <2>4 DEF larger
  <2>6. Emit(chars)
    BY <2>1, <2>2, <2>3, <2>4
  <2> QED
    BY <2>5, <2>6
<1>4. CASE ConvertPointer
  <2>1. At(p) = "p"
    BY <1>4 DEF ConvertPointer
  <2>2. PICK a \in IntArgs, width \in Int, type \in {flags, flags \union {"ZEROPAD"}} :
           Convert(a, 16, width, type) /\ width >= field_width
    <3>1. PICK a \in IntArgs :
             IF field_width = -1 THEN Convert(a, 16, 8, flags \union {"ZEROPAD"})
             ELSE Convert(a, 16, field_width, flags)
      BY <1>4 DEF ConvertPointer
    <3>2. CASE field_width = -1
      <4>1. PICK width \in Int : width = 8
        OBVIOUS
      <4>2. Convert(a, 16, width, flags \union {"ZEROPAD"}) /\ width >= field_width
        BY <3>1, <3>2, <4>1
      <4> QED
        BY <4>2
    <3>3. CASE field_width # -1
      BY <1>1, <3>1, <3>3
    <3> QED
      BY <3>2, <3>3
  <2>3. a \in 0 .. Word - 1
    BY PrintfAssumption, WordAssumption
  <2>4. PICK base \in {8, 10, 16} : base = 16
    OBVIOUS
  <2>5. PICK chars \in Seq(Char) :
           chars = number(a, base, width, precision, type) /\ Len(chars) \in Nat
           /\ Len(chars) >= width
    BY <1>1, <2>3, NumberText
  <2>6. Emit(chars)
    BY <2>2, <2>4, <2>5 DEF Convert
  <2>7. Len(chars) >= field_width
    BY <1>1, <2>2, <2>5
  <2> QED
    BY <2>1, <2>6, <2>7
<1>5. CASE ConvertInteger
  <2>1. At(p) \in IntegerConversions
    BY <1>5 DEF ConvertInteger
  <2>2. At(p) # "s"
    BY <2>1 DEF IntegerConversions
  <2>3. PICK num \in IntegerArgs, base \in {8, 10, 16}, type \in {flags, flags \union {"SIGN"}} :
           Convert(num, base, field_width, type)
    <3> DEFINE b == CASE At(p) = "o" -> 8 [] At(p) \in {"x", "X"} -> 16 [] OTHER -> 10
               t == IF At(p) \in {"d", "i"} THEN flags \union {"SIGN"} ELSE flags
    <3>1. \E num \in IntegerArgs : Convert(num, b, field_width, t)
      BY <1>5 DEF ConvertInteger
    <3>2. b \in {8, 10, 16} /\ t \in {flags, flags \union {"SIGN"}}
      OBVIOUS
    <3> HIDE DEF b, t
    <3> QED
      BY <3>1, <3>2
  <2>4. num \in 0 .. Word - 1
    BY ArgFacts
  <2>5. PICK chars \in Seq(Char) :
           chars = number(num, base, field_width, precision, type) /\ Len(chars) \in Nat
           /\ Len(chars) >= field_width
    BY <1>1, <2>4, NumberText
  <2>6. Emit(chars)
    BY <2>3, <2>5 DEF Convert
  <2> QED
    BY <2>2, <2>5, <2>6
<1> QED
  BY <1>2, <1>3, <1>4, <1>5

(* The steps that convert an argument, or what is none.                    *)
LEMMA ConvertStep ==
    ASSUME Inv, ConvertChar \/ ConvertString \/ ConvertPointer \/ ConvertInteger
                \/ StoreCount \/ PercentSign \/ Unknown
    PROVE  Inv'
<1>1. /\ fmt \in Seq(Char) /\ p \in 1 .. Len(fmt) + 1 /\ p \in Nat \ {0} /\ Len(fmt) \in Nat
      /\ field_width \in Int /\ precision \in Int
  BY DEF Inv, Typed
<1>2. CASE ConvertChar \/ ConvertString \/ ConvertPointer \/ ConvertInteger
  <2>1. pc = "convert" /\ Continue /\ At(p) \in IntegerConversions \union {"c", "s", "p"}
    BY <1>2 DEF ConvertChar, ConvertString, ConvertPointer, ConvertInteger
  <2>2. At(p) # NUL
    BY <2>1, NotNul DEF IntegerConversions
  <2>3. /\ pc' = "directive" /\ p' = p + 1
        /\ UNCHANGED <<fmt, buf, size, ret, shown, field_width, precision>>
    BY <2>1 DEF Continue, spec_fields
  <2>4. p + 1 \in 1 .. Len(fmt) + 1
    BY <1>1, <2>2, NextChar
  <2>5. \E chars \in Seq(Char) : Emit(chars)
    BY <1>2, Conversion
  <2> QED
    BY <1>1, <2>1, <2>3, <2>4, <2>5, Turn DEF InLoop
<1>3. CASE StoreCount
  <2>1. /\ pc = "convert" /\ pc' = "directive" /\ p' = p + 1 /\ At(p) = "n"
        /\ UNCHANGED <<fmt, buf, size, ret, shown, field_width, precision, memory, out>>
    BY <1>3 DEF StoreCount, Continue, spec_fields
  <2>2. p + 1 \in 1 .. Len(fmt) + 1
    BY <1>1, <2>1, NotNul, NextChar
  <2> QED
    BY <1>1, <2>1, <2>2, Turn DEF InLoop
<1>4. CASE PercentSign
  <2>1. /\ pc = "convert" /\ pc' = "directive" /\ p' = p + 1 /\ At(p) = "%"
        /\ UNCHANGED <<fmt, buf, size, ret, shown, field_width, precision>>
        /\ Emit(<<At(p)>>)
    BY <1>4 DEF PercentSign, Continue, spec_fields
  <2>2. p + 1 \in 1 .. Len(fmt) + 1
    BY <1>1, <2>1, NotNul, NextChar
  <2>3. <<At(p)>> \in Seq(Char)
    BY <1>1, AtFacts, TextOfOne
  <2> QED
    BY <1>1, <2>1, <2>2, <2>3, Turn DEF InLoop
<1>5. CASE Unknown
  <2>1. /\ pc = "convert" /\ pc' = "directive" /\ p' = after_unknown(p)
        /\ UNCHANGED <<fmt, buf, size, ret, shown, field_width, precision>>
        /\ Emit(IF At(p) = NUL THEN <<"%">> ELSE <<"%", At(p)>>)
    BY <1>5 DEF Unknown, spec_fields
  <2>2. p' \in 1 .. Len(fmt) + 1
    BY <1>1, <2>1, NextChar DEF after_unknown
  <2>3. "%" \in Char /\ At(p) \in Char
    BY <1>1, CharAssumption, AtFacts, Zenon
  <2>4. <<"%">> \in Seq(Char) /\ <<"%", At(p)>> \in Seq(Char)
    BY <2>3, Short, Zenon
  <2>5. \E chars \in Seq(Char) : Emit(chars)
    <3>1. CASE At(p) = NUL
      BY <2>1, <2>4, <3>1
    <3>2. CASE At(p) # NUL
      BY <2>1, <2>4, <3>2
    <3> QED
      BY <3>1, <3>2
  <2> QED
    BY <1>1, <2>1, <2>2, <2>5, Turn DEF InLoop
<1> QED
  BY <1>2, <1>3, <1>4, <1>5

(* A size that is negative as an int is refused with nothing stored.        *)
LEMMA BeginStep == ASSUME Inv, Reject \/ Accept PROVE Inv'
<1>1. /\ pc = "vsnprintf" /\ shown = << >> /\ out = << >> /\ memory = << >> /\ Typed
      /\ Len(out) = 0
  BY DEF Inv, Typed, ShownIs, Reject, Accept
<1>2. CASE Reject
  <2>1a. ~Proper
    <3>1. /\ Signed(size, IntWord) < 0 /\ (Signed(size, IntWord) >= 0 <=> Proper)
      BY <1>1, <1>2, Sizing DEF Reject
    <3>2. Signed(size, IntWord) \in Int
      BY <1>1, Sizing DEF Signed
    <3> QED
      BY <3>1, <3>2
  <2>1. /\ pc' = "printf" /\ ~Proper /\ pc' \notin InLoop
        /\ UNCHANGED <<fmt, buf, size, p, field_width, precision, memory, out, shown>>
    BY <1>2, <2>1a DEF Reject, spec_fields, InLoop
  <2>2. Typed'
    BY <1>1, <2>1 DEF Typed
  <2>3. ~Proper' /\ DOMAIN memory' = {}
    BY <1>1, <2>1 DEF Proper
  <2>4. Terminated' /\ NotCut'
    BY <2>3 DEF Terminated, NotCut
  <2> QED
    BY <1>1, <2>1, <2>2, <2>4 DEF Inv, Filled, ShownIs
<1>3. CASE Accept
  <2>1. /\ pc' = "directive" /\ Proper
        /\ UNCHANGED <<fmt, buf, size, p, field_width, precision, memory, out, shown>>
    BY <1>1, <1>3, Sizing DEF Accept, spec_fields
  <2>2. Typed'
    BY <1>1, <2>1 DEF Typed, InLoop, Proper
  <2>3. Holds'
    <3>1. DOMAIN memory' = {} /\ Len(out') = 0 /\ buf' = buf /\ buf \in Nat
      BY <1>1, <2>1, Sizing
    <3>2. Taken' = {}
      BY <3>1 DEF Taken
    <3> QED
      BY <3>1, <3>2 DEF Holds
  <2>4. HoldsAll'
    BY <1>1, <2>1 DEF HoldsAll
  <2> QED
    BY <1>1, <2>1, <2>2, <2>3, <2>4 DEF Inv, Filled, Terminated, NotCut, ShownIs
<1> QED
  BY <1>2, <1>3

(* Where the terminator lies, it replaces at most the last character.       *)
LEMMA TerminateStep == ASSUME Inv, Terminate PROVE Inv'
<1>1. /\ pc = "directive" /\ Typed /\ shown = << >> /\ Proper
      /\ (InReach => Holds) /\ (Over => HoldsAll)
  BY DEF Inv, Filled, Typed, ShownIs, Terminate, InLoop
<1>2. /\ pc' = "printf" /\ ret' = Generated /\ pc' \notin InLoop
      /\ memory' = IF str <= end \/ size > 0
                   THEN [a \in DOMAIN memory \union {terminator(str)} |->
                            IF a = terminator(str) THEN NUL ELSE memory[a]]
                   ELSE memory
      /\ UNCHANGED <<fmt, buf, size, p, field_width, precision, out, shown>>
  BY DEF Terminate, spec_fields, InLoop
<1>3. Typed' /\ InReach' = InReach /\ Proper' = Proper /\ Kept' = Kept
  BY <1>1, <1>2 DEF Typed, InReach, Proper, Kept
<1>4. ASSUME InReach
      PROVE  /\ \A a \in DOMAIN memory' : buf <= a /\ a < buf + size
             /\ size > 0 =>
                   /\ Generated = Len(out)
                   /\ \A k \in 0 .. Kept - 1 : Read(buf + k)' = out[k + 1]
                   /\ Read(buf + Kept)' = NUL
  <2>1. PICK w \in Nat \ {0}, b \in Nat \ {0}, z \in Nat, n \in Nat, e \in Int :
           /\ w = IntWord /\ b = buf /\ z = size /\ n = Len(out) /\ e = end
           /\ b + n < w /\ z < w /\ str = b + n /\ Generated = n
           /\ e = IF b + z - 1 < w THEN b + z - 1 ELSE w - 1
    <3>1. PICK w \in Nat \ {0}, b \in Nat \ {0}, z \in Nat, n \in Nat :
             /\ w = IntWord /\ b = buf /\ z = size /\ n = Len(out)
             /\ b + n < w /\ z < w
      BY <1>1, <1>4, Sizing, Reaching
    <3>2. /\ end = IF buf + size - 1 < IntWord THEN buf + size - 1 ELSE IntWord - 1
          /\ str = buf + Len(out) /\ Generated = Len(out)
      BY <1>1, <1>4, Reaching
    <3>3. end \in Int
      BY <3>1, <3>2
    <3> QED
      BY <3>1, <3>2, <3>3
  <2>2. Taken = {a \in Nat : b <= a /\ a < b + n /\ a <= e}
    BY <2>1 DEF Taken
  <2>3. DOMAIN memory = Taken /\ \A a \in Taken : memory[a] = out[a - b + 1]
    BY <1>1, <1>4, <2>1 DEF Holds
  <2>4. \A a \in Taken : b <= a /\ a < b + z
    BY <2>1, <2>2
  <2>5. CASE z = 0
    <3>1. memory' = memory
      BY <1>2, <2>1, <2>5
    <3> QED
      BY <2>1, <2>3, <2>4, <2>5, <3>1
  <2>6. CASE z > 0
    <3>1. PICK k0 \in Nat : k0 = Kept /\ k0 <= n /\ k0 < z /\ (k0 < n => k0 = z - 1)
      BY <2>1, <2>6 DEF Kept
    <3>2. terminator(str) = b + k0
      <4>1. terminator(str) = IF b + n <= e THEN b + n ELSE e
        BY <2>1 DEF terminator
      <4>2. Kept = IF n < z THEN n ELSE z - 1
        BY <2>1 DEF Kept
      <4>3. CASE n < z
        BY <2>1, <3>1, <4>1, <4>2, <4>3
      <4>4. CASE ~(n < z)
        <5>1. e = b + z - 1 /\ ~(b + n <= e)
          <6>1. b + z - 1 < w
            BY <2>1, <4>4
          <6> QED
            BY <2>1, <4>4, <6>1
        <5> QED
          BY <2>1, <3>1, <4>1, <4>2, <4>4, <5>1
      <4> QED
        BY <4>3, <4>4
    <3>3. /\ DOMAIN memory' = Taken \union {b + k0}
          /\ \A a \in Taken \union {b + k0} : memory'[a] = IF a = b + k0 THEN NUL ELSE memory[a]
      BY <1>2, <2>1, <2>3, <2>6, <3>2
    <3>4. ASSUME NEW a \in DOMAIN memory' PROVE b <= a /\ a < b + z
      BY <2>1, <2>4, <3>1, <3>3
    <3>5. ASSUME NEW k \in 0 .. k0 - 1 PROVE Read(b + k)' = out[k + 1]
      <4>1. PICK a \in Nat : a = b + k /\ a - b + 1 = k + 1 /\ a # b + k0
        BY <2>1, <3>1
      <4>2. a \in Taken
        <5>1. b <= a /\ a < b + n /\ a < b + z
          BY <3>1, <4>1
        <5> QED
          BY <2>1, <2>2, <5>1
      <4>3. a \in DOMAIN memory' /\ memory'[a] = out[k + 1]
        BY <2>3, <3>3, <4>1, <4>2
      <4> QED
        BY <4>1, <4>3 DEF Read
    <3>6. Read(b + k0)' = NUL
      BY <3>3 DEF Read
    <3>7. buf' = b /\ Kept' = k0
      BY <1>2, <1>3, <2>1, <3>1
    <3>8. Read(buf + Kept)' = NUL
      BY <3>6, <3>7 DEF Read
    <3>9. ASSUME NEW k \in 0 .. Kept - 1 PROVE Read(buf + k)' = out[k + 1]
      <4>1. Read(b + k)' = out[k + 1]
        BY <3>1, <3>5
      <4> QED
        BY <3>7, <4>1 DEF Read
    <3> QED
      BY <2>1, <3>4, <3>8, <3>9
  <2> QED
    BY <2>5, <2>6
<1>5. Terminated'
  <2>1. ASSUME InReach', Proper', size' > 0
        PROVE  /\ ret' = Len(out')
               /\ \A k \in 0 .. Kept' - 1 : Read(buf + k)' = out'[k + 1]
               /\ Read(buf + Kept)' = NUL
    <3>1. InReach /\ size > 0
      BY <1>2, <1>3, <2>1
    <3> QED
      BY <1>2, <1>3, <1>4, <3>1
  <2>2. ASSUME InReach', NEW a \in DOMAIN memory' PROVE buf' <= a /\ a < buf' + size'
    BY <1>2, <1>3, <1>4, <2>2
  <2> QED
    BY <2>1, <2>2 DEF Terminated
<1>6. NotCut'
  <2> SUFFICES ASSUME Over
               PROVE  /\ \A k \in 0 .. Len(out) - 1 : Read(Place(k))' = out[k + 1]
                      /\ Read(str)' = NUL
    <3>1. Over' = Over /\ out' = out
      BY <1>2 DEF Over, ReachesTop
    <3> QED
      BY <3>1 DEF NotCut
  <2>1. PICK w \in Nat \ {0}, n \in Nat : w = IntWord /\ n = Len(out) /\ n < w
    <3>1. PICK h \in Nat, w \in Nat \ {0}, n \in Nat :
             h = IntWord \div 2 /\ w = IntWord /\ n = Len(out) /\ n < h /\ h <= w
      BY <1>1, Sizing DEF Over
    <3> QED
      BY <3>1
  <2>2. str = Place(n) /\ str <= end
    <3>1. str = Place(n)
      BY <2>1 DEF str, Place
    <3>2. Place(n) \in Nat /\ Place(n) <= w - 1
      BY <1>1, <2>1, Places
    <3>3. end = w - 1
      BY <1>1, <2>1, Clamped DEF Over
    <3> QED
      BY <3>1, <3>2, <3>3
  <2>3. terminator(str) = str
    BY <2>2 DEF terminator
  <2>4. /\ DOMAIN memory' = DOMAIN memory \union {str}
        /\ \A a \in DOMAIN memory \union {str} : memory'[a] = IF a = str THEN NUL ELSE memory[a]
    BY <1>2, <2>2, <2>3
  <2>5. str' = str /\ \A k : Place(k)' = Place(k)
    BY <1>2 DEF str, Place
  <2>6. Read(str)' = NUL
    BY <2>4, <2>5 DEF Read
  <2>7. ASSUME NEW k \in 0 .. Len(out) - 1 PROVE Read(Place(k))' = out[k + 1]
    <3>1. k \in Nat /\ k < n /\ k \in 0 .. n - 1
      BY <2>1
    <3>2. Place(k) # str
      BY <1>1, <2>1, <2>2, <3>1, PlacesDiffer
    <3>3. Place(k) \in DOMAIN memory /\ memory[Place(k)] = out[k + 1]
      BY <1>1 DEF HoldsAll
    <3>4. Place(k) \in DOMAIN memory' /\ memory'[Place(k)] = out[k + 1]
      BY <2>4, <3>2, <3>3
    <3> QED
      BY <2>5, <3>4 DEF Read
  <2> QED
    BY <2>6, <2>7
<1> QED
  BY <1>1, <1>2, <1>3, <1>5, <1>6 DEF Inv, Filled, ShownIs

(* puts finds the NUL, at the latest the one vsnprintf has put there.       *)
LEMMA PutsStep == ASSUME Inv, Puts PROVE Inv'
<1>1. /\ pc = "printf" /\ Typed /\ Terminated /\ NotCut /\ shown = << >>
  BY DEF Inv, ShownIs, Puts
<1>2. /\ pc' = "done" /\ pc' \notin InLoop
      /\ shown' = IF size = BufSize /\ ret > 0 THEN UpToNul ELSE shown
      /\ UNCHANGED <<fmt, buf, size, p, field_width, precision, memory, out, ret>>
  BY DEF Puts, spec_fields, InLoop
<1>3. Kept' = Kept /\ InReach' = InReach /\ Proper' = Proper /\ \A a : Read(a)' = Read(a)
  BY <1>2 DEF Kept, InReach, Proper, Read
<1>4. Typed' /\ Terminated' /\ NotCut'
  <2>1. /\ Over' = Over /\ str' = str /\ out' = out
        /\ \A k \in Nat : Read(Place(k))' = Read(Place(k))
        /\ Read(str)' = Read(str)
    BY <1>2 DEF Over, ReachesTop, str, Place, Read
  <2>2. NotCut'
    BY <1>1, <1>2, <1>3, <2>1 DEF NotCut, Place, Read
  <2> QED
    BY <1>1, <1>2, <1>3, <2>2 DEF Typed, Terminated
<1>5. ASSUME InReach, Proper, size > 0
      PROVE  /\ shown' \in Seq(Char) /\ Len(shown') <= Kept
             /\ \A k \in 1 .. Len(shown') : shown'[k] = out[k]
             /\ size = BufSize /\ Len(shown') < Kept => out[Len(shown') + 1] = NUL
  <2>1. PICK w \in Nat \ {0}, b \in Nat \ {0} :
           w = IntWord /\ b = buf /\ b + Len(out) < w /\ size \in Nat /\ Len(out) \in Nat
    BY <1>1, <1>5, Sizing, Reaching
  <2>2. /\ ret = Len(out) /\ Read(b + Kept) = NUL
        /\ \A k \in 0 .. Kept - 1 : Read(b + k) = out[k + 1]
    BY <1>1, <1>5, <2>1 DEF Terminated
  <2>3. Kept \in Nat /\ Kept <= Len(out) /\ b + Kept < w /\ (Len(out) = 0 => Kept = 0)
    BY <1>5, <2>1 DEF Kept
  <2>4. CASE size = BufSize /\ ret > 0
    <3> DEFINE Cell(k) == Read((buf + k) % IntWord)
               Before(n) == /\ \A k \in 0 .. n - 1 : Cell(k) # NUL
                            /\ n = IntWord \/ Cell(n) = NUL
               n == CHOOSE n \in 0 .. IntWord : Before(n)
    <3>0. ASSUME NEW k \in 0 .. Kept PROVE Cell(k) = Read(b + k)
      <4>1. PICK a \in Nat : a = b + k /\ a < w /\ a < w + w
        BY <2>1, <2>3
      <4>2. a % w = a
        BY <2>1, <4>1, Wraps
      <4> QED
        BY <2>1, <4>1, <4>2
    <3>1. UpToNul = [k \in 1 .. n |-> Cell(k - 1)]
      BY DEF UpToNul
    <3> HIDE DEF Cell
    <3>2. \E m \in 0 .. IntWord : Before(m)
      <4> DEFINE nuls == {m \in Nat : Cell(m) = NUL}
      <4>1. Kept \in nuls
        BY <2>2, <2>3, <3>0
      <4>2. PICK m \in nuls : \A k \in nuls : m <= k
        <5>1. nuls \in SUBSET Nat /\ nuls # {}
          BY <4>1
        <5> HIDE DEF nuls
        <5> QED
          BY <5>1, Least
      <4>3. m \in Nat /\ m <= Kept /\ Cell(m) = NUL
        BY <4>1, <4>2
      <4>4. ASSUME NEW k \in 0 .. m - 1 PROVE Cell(k) # NUL
        <5>1. k \in Nat /\ ~(m <= k)
          BY <4>3
        <5> QED
          BY <4>2, <5>1
      <4>5. m \in 0 .. IntWord
        BY <2>1, <2>3, <4>3
      <4> QED
        BY <4>3, <4>4, <4>5
    <3> HIDE DEF Before
    <3>3. n \in 0 .. IntWord /\ Before(n)
      BY <3>2
    <3> HIDE DEF n
    <3>4. n \in Nat /\ n <= Kept
      <4>1. ASSUME ~(n <= Kept) PROVE FALSE
        <5>1. Kept \in 0 .. n - 1 /\ Kept \in 0 .. Kept
          BY <2>1, <2>3, <3>3, <4>1
        <5> QED
          BY <2>2, <3>0, <3>3, <5>1 DEF Before
      <4> QED
        BY <2>1, <3>3, <4>1
    <3>5. ASSUME NEW k \in 1 .. n PROVE Cell(k - 1) = out[k] /\ out[k] \in Char
      <4>1. PICK l \in 0 .. Kept - 1 : l = k - 1 /\ l + 1 = k /\ l \in 0 .. Kept
        BY <2>3, <3>4
      <4>2. k \in 1 .. Len(out)
        BY <2>1, <2>3, <3>4
      <4>3. out[k] \in Char
        BY <1>1, <4>2, ElementOfSeq DEF Typed
      <4> QED
        BY <2>2, <3>0, <4>1, <4>3
    <3>6. shown' = [k \in 1 .. n |-> Cell(k - 1)]
      BY <1>2, <2>4, <3>1
    <3>7. shown' \in [1 .. n -> Char]
      BY <3>5, <3>6
    <3>8. shown' \in Seq(Char) /\ Len(shown') = n
      BY <3>4, <3>7
    <3>9. \A k \in 1 .. n : shown'[k] = out[k]
      BY <3>5, <3>6
    <3>10. n < Kept => out[n + 1] = NUL
      <4> SUFFICES ASSUME n < Kept PROVE out[n + 1] = NUL
        OBVIOUS
      <4>1. n # IntWord /\ n \in 0 .. Kept - 1 /\ n \in 0 .. Kept
        BY <2>1, <2>3, <3>4
      <4>2. Cell(n) = NUL
        BY <3>3, <4>1 DEF Before
      <4> QED
        BY <2>2, <3>0, <4>1, <4>2
    <3> QED
      BY <3>4, <3>8, <3>9, <3>10
  <2>5. CASE ~(size = BufSize /\ ret > 0)
    <3>1. shown' = << >>
      BY <1>1, <1>2, <2>5
    <3>2. shown' \in Seq(Char) /\ Len(shown') = 0
      BY <3>1
    <3>3. size = BufSize => ~(0 < Kept)
      BY <2>1, <2>2, <2>3, <2>5
    <3> QED
      BY <2>3, <3>2, <3>3
  <2> QED
    BY <2>4, <2>5
<1>6. ShownIs'
  BY <1>2, <1>3, <1>5 DEF ShownIs
<1> QED
  BY <1>2, <1>4, <1>6 DEF Inv, Filled

(* Every step keeps the invariant.                                          *)
LEMMA InvStep == Inv /\ [Next]_vars => Inv'
<1> SUFFICES ASSUME Inv, [Next]_vars PROVE Inv'
  OBVIOUS
<1>1. CASE UNCHANGED vars
  <2>1. UNCHANGED <<pc, fmt, buf, size, p, field_width, precision, memory, out, ret, shown>>
    BY <1>1 DEF vars, spec_fields
  <2>2. /\ Kept' = Kept /\ InReach' = InReach /\ Proper' = Proper /\ Taken' = Taken
        /\ \A a : Read(a)' = Read(a)
    BY <2>1 DEF Kept, InReach, Proper, Taken, end, last_cell, Read
  <2>3. Holds' = Holds /\ HoldsAll' = HoldsAll /\ Over' = Over
    BY <2>1, <2>2 DEF Holds, HoldsAll, Over, ReachesTop, Place
  <2>4. NotCut' = NotCut
    BY <2>1, <2>2, <2>3 DEF NotCut, Place, str, Read
  <2> QED
    BY <2>1, <2>2, <2>3, <2>4 DEF Inv, Typed, Filled, Terminated, ShownIs
<1>2. CASE Work
  BY <1>2, BeginStep, ReadStep, ConvertStep, TerminateStep, PutsStep DEF Work
<1> QED
  BY <1>1, <1>2 DEF Next, Done

(* The invariant of vsnprintf and printf.                                   *)
THEOREM InvHolds == Spec => []Inv
  BY InvInit, InvStep, PTL DEF Spec

(* The format is not read past its end, and nothing is stored outside the   *)
(* buffer as long as the output does not reach the top of the address       *)
(* space, whatever the format, the buffer, its size and the arguments are.  *)
THEOREM InBounds == Spec => []StaysInBounds
<1>1. Inv => StaysInBounds
  <2> SUFFICES ASSUME Inv PROVE StaysInBounds
    OBVIOUS
  <2>1. /\ p \in 1 .. Len(fmt) + 1 /\ Len(fmt) \in Nat /\ Typed
        /\ pc \in {"vsnprintf", "printf", "done"} \union InLoop
    BY DEF Inv, Typed
  <2>2. ASSUME InReach, NEW a \in DOMAIN memory PROVE buf <= a /\ a < buf + size
    <3>1. CASE pc = "vsnprintf"
      <4>1. DOMAIN memory = {}
        BY <2>1, <3>1 DEF Typed
      <4> QED
        BY <2>2, <4>1
    <3>2. CASE pc \in InLoop
      <4>1. Proper /\ a \in Nat /\ buf <= a /\ a <= end
        BY <2>1, <2>2, <3>2 DEF Inv, Filled, Holds, Taken, Typed
      <4>2. PICK b \in Nat, z \in Nat, w \in Nat :
               b = buf /\ z = size /\ w = IntWord
               /\ end = IF b + z - 1 < w THEN b + z - 1 ELSE w - 1
        BY <2>1, <2>2, <4>1, Sizing, Reaching
      <4> QED
        BY <4>1, <4>2
    <3>3. CASE pc \in {"printf", "done"}
      BY <2>2, <3>3 DEF Inv, Terminated
    <3> QED
      BY <2>1, <3>1, <3>2, <3>3
  <2> QED
    BY <2>1, <2>2 DEF StaysInBounds
<1> QED
  BY <1>1, InvHolds, PTL

(* What does not fit is cut off, the length it would have had is returned,  *)
(* and printf shows what is in the buffer up to its first NUL, as long as   *)
(* the output does not reach the top of the address space.  Where the       *)
(* buffer reaches the top, and at NULL, all of the output is stored, on     *)
(* from 0, with a NUL behind it.                                            *)
THEOREM CutsOff == Spec => []TruncatesOutput
<1>1. Inv => CutsOffBelowTop
  <2> SUFFICES ASSUME Inv, pc \in {"printf", "done"}, Signed(size, IntWord) > 0, InReach
               PROVE  /\ ret = Len(out)
                      /\ \A k \in 0 .. Kept - 1 : Read(buf + k) = out[k + 1]
                      /\ Read(buf + Kept) = NUL
                      /\ Len(shown) <= Kept /\ shown = SubSeq(out, 1, Len(shown))
                      /\ pc = "done" /\ size = BufSize /\ Len(shown) < Kept
                            => out[Len(shown) + 1] = NUL
    BY DEF CutsOffBelowTop, Kept
  <2>1. Typed /\ out \in Seq(Char) /\ Proper /\ size > 0 /\ size \in Nat /\ Len(out) \in Nat
    BY Sizing DEF Inv, Typed
  <2>2. /\ ret = Len(out) /\ Read(buf + Kept) = NUL
        /\ \A k \in 0 .. Kept - 1 : Read(buf + k) = out[k + 1]
    BY <2>1 DEF Inv, Terminated
  <2>3. Kept \in Nat /\ Kept <= Len(out) /\ Len(out) \in Nat
    BY <2>1 DEF Kept
  <2>4. shown \in Seq(Char) /\ Len(shown) <= Kept /\ \A k \in 1 .. Len(shown) : shown[k] = out[k]
    <3>1. CASE pc = "done"
      BY <2>1, <3>1 DEF Inv, ShownIs
    <3>2. CASE pc = "printf"
      <4>1. shown = << >>
        BY <3>2 DEF Inv, ShownIs
      <4>2. Len(shown) = 0 /\ shown \in Seq(Char)
        BY <4>1
      <4> QED
        BY <2>3, <4>2
    <3> QED
      BY <3>1, <3>2
  <2>5. shown = SubSeq(out, 1, Len(shown))
    <3>1. PICK n \in 0 .. Len(out) : n = Len(shown)
      BY <2>3, <2>4
    <3>2. \A k \in 1 .. n : out[k] \in Char
      BY <2>1
    <3>3. /\ SubSeq(out, 1, n) \in Seq(Char)
          /\ Len(SubSeq(out, 1, n)) = IF 1 <= n THEN n - 1 + 1 ELSE 0
          /\ \A k \in 1 .. n - 1 + 1 : SubSeq(out, 1, n)[k] = out[1 + k - 1]
      BY <3>2, SubSeqProperties
    <3>4. Len(SubSeq(out, 1, n)) = n /\ \A k \in 1 .. n : SubSeq(out, 1, n)[k] = out[k]
      BY <3>3
    <3>5. \A k \in 1 .. Len(shown) : shown[k] = SubSeq(out, 1, n)[k]
      BY <2>4, <3>1, <3>4
    <3>6. shown = SubSeq(out, 1, n)
      BY <2>4, <3>1, <3>3, <3>4, <3>5, SeqEqual
    <3> QED
      BY <3>1, <3>6
  <2>6. pc = "done" /\ size = BufSize /\ Len(shown) < Kept => out[Len(shown) + 1] = NUL
    BY <2>1 DEF Inv, ShownIs
  <2> QED
    BY <2>2, <2>4, <2>5, <2>6
<1>2. Inv => NothingCutAtTop
  <2> SUFFICES ASSUME Inv, pc \in {"printf", "done"}, Signed(size, IntWord) >= 0, Over
               PROVE  /\ \A k \in 0 .. Len(out) - 1 : Read((buf + k) % IntWord) = out[k + 1]
                      /\ Read(str) = NUL
    BY DEF NothingCutAtTop, Over
  <2>1. Proper
    BY Sizing DEF Inv
  <2> QED
    BY <2>1 DEF Inv, NotCut, Place
<1>3. Inv => TruncatesOutput
  BY <1>1, <1>2 DEF TruncatesOutput
<1> QED
  BY <1>3, InvHolds, PTL

(* A conversion fills its field, and takes no more of a string than the     *)
(* precision and the field allow.                                           *)
THEOREM FieldsFilled == Spec => FillsField
<1>1. Inv /\ [Next]_vars =>
         [pc = "convert" /\ At(p) \in IntegerConversions \union {"c", "s", "p"} =>
             LET n == Len(out') - Len(out)
             IN  /\ n >= field_width
                 /\ At(p) = "s" /\ precision >= 0 => n <= larger(field_width, precision)]_vars
  <2> SUFFICES ASSUME Inv, Next, pc = "convert",
                      At(p) \in IntegerConversions \union {"c", "s", "p"}
               PROVE  LET n == Len(out') - Len(out)
                      IN  /\ n >= field_width
                          /\ At(p) = "s" /\ precision >= 0 => n <= larger(field_width, precision)
    OBVIOUS
  <2>1. ConvertChar \/ ConvertString \/ ConvertPointer \/ ConvertInteger
    <3>1. At(p) # "n" /\ At(p) # "%"
      BY DEF IntegerConversions
    <3> QED
      BY <3>1 DEF Next, Work, Done, Reject, Accept, Ordinary, Percent, Flag, FieldWidth,
         Precision, Qualifier, StoreCount, PercentSign, Unknown, Terminate, Puts
  <2>2. PICK chars \in Seq(Char) :
           /\ Emit(chars)
           /\ Len(chars) >= field_width
           /\ At(p) = "s" /\ precision >= 0 => Len(chars) <= larger(field_width, precision)
    BY <2>1, Conversion
  <2>3. UNCHANGED <<buf, size>>
    BY <2>1 DEF ConvertChar, ConvertString, ConvertPointer, ConvertInteger, Continue
  <2>4. Len(out') = Len(out) + Len(chars) /\ Len(chars) \in Nat
    BY <2>2, <2>3, EmitFacts DEF InLoop
  <2>5. Len(out) \in Nat
    BY DEF Inv, Typed
  <2>6. Len(out') - Len(out) = Len(chars)
    BY <2>4, <2>5
  <2> QED
    BY <2>2, <2>6
<1> QED
  BY <1>1, InvHolds, PTL DEF Spec, FillsField
-----------------------------------------------------------------------------
\* What the latest call of number wrote, if there was one.
AsWritten(c) == Legible(c) /\ WideEnough(c) /\ PaddedOneSide(c)

LatestWritten == conversion = NoConversion \/ AsWritten(conversion)

(* Whatever number() is given, the text that is noted down is as written.   *)
LEMMA ConversionWritten ==
    ASSUME NEW num \in 0 .. Word - 1, NEW base \in {8, 10, 16}, NEW width \in Int, NEW type,
           precision \in Int, Convert(num, base, width, type)
    PROVE  LatestWritten'
<1>1. PICK c : c = Recorded(num, base, width, precision, type)
  OBVIOUS
<1>2. conversion' = c
  BY <1>1 DEF Convert, Recorded
<1>3. AsWritten(c)
  <2>1. Legible(c)
    BY <1>1, NumberReadsBack
  <2>2. WideEnough(c) /\ PaddedOneSide(c)
    BY <1>1, NumberPadsOneSide
  <2> QED
    BY <2>1, <2>2 DEF AsWritten
<1> HIDE DEF AsWritten
<1>4. AsWritten(conversion')
  BY <1>2, <1>3
<1> QED
  BY <1>4 DEF LatestWritten

(* No step leaves a number badly written.                                   *)
LEMMA WrittenStep == ASSUME Inv, LatestWritten, [Next]_vars PROVE LatestWritten'
<1>1. field_width \in Int /\ precision \in Int
  BY DEF Inv, Typed
<1>2. CASE ConvertPointer
  <2>1. PICK a \in IntArgs :
           IF field_width = -1 THEN Convert(a, 16, 8, flags \union {"ZEROPAD"})
           ELSE Convert(a, 16, field_width, flags)
    BY <1>2 DEF ConvertPointer
  <2>2. a \in 0 .. Word - 1
    BY PrintfAssumption, WordAssumption
  <2>3. PICK base \in {8, 10, 16}, eight \in Int : base = 16 /\ eight = 8
    OBVIOUS
  <2>4. CASE field_width = -1
    <3>1. Convert(a, base, eight, flags \union {"ZEROPAD"})
      BY <2>1, <2>3, <2>4
    <3> QED
      BY <1>1, <2>2, <3>1, ConversionWritten
  <2>5. CASE field_width # -1
    <3>1. Convert(a, base, field_width, flags)
      BY <2>1, <2>3, <2>5
    <3> QED
      BY <1>1, <2>2, <3>1, ConversionWritten
  <2> QED
    BY <2>4, <2>5
<1>3. CASE ConvertInteger
  <2>1. PICK num \in IntegerArgs, base \in {8, 10, 16}, type \in {flags, flags \union {"SIGN"}} :
           Convert(num, base, field_width, type)
    <3> DEFINE b == CASE At(p) = "o" -> 8 [] At(p) \in {"x", "X"} -> 16 [] OTHER -> 10
               t == IF At(p) \in {"d", "i"} THEN flags \union {"SIGN"} ELSE flags
    <3>1. \E num \in IntegerArgs : Convert(num, b, field_width, t)
      BY <1>3 DEF ConvertInteger
    <3>2. b \in {8, 10, 16} /\ t \in {flags, flags \union {"SIGN"}}
      OBVIOUS
    <3> HIDE DEF b, t
    <3> QED
      BY <3>1, <3>2
  <2>2. num \in 0 .. Word - 1
    BY ArgFacts
  <2> QED
    BY <1>1, <2>1, <2>2, ConversionWritten
<1>4. CASE conversion' = conversion
  BY <1>4 DEF LatestWritten
<1>5. ConvertPointer \/ ConvertInteger \/ conversion' = conversion
  BY DEF Next, Work, Done, vars, notes, Reject, Accept, Ordinary, Percent, Flag, FieldWidth,
     Precision, Qualifier, ConvertChar, ConvertString, StoreCount, PercentSign, Unknown,
     Terminate, Puts
<1> QED
  BY <1>2, <1>3, <1>4, <1>5

(* Every call of number leaves a text that is as it should be.              *)
THEOREM EveryNumberWritten == Spec => []LatestWritten
<1>1. Init => LatestWritten
  BY DEF Init, LatestWritten
<1>2. Inv /\ LatestWritten /\ [Next]_vars => LatestWritten'
  BY WrittenStep
<1> QED
  BY <1>1, <1>2, InvHolds, PTL DEF Spec

(* Every number reads back from its text, sign, value and prefix, the most  *)
(* negative one too, whatever base, flags, width and precision it has.      *)
THEOREM NumbersReadBack == Spec => []ReadsBack
<1>1. LatestWritten => ReadsBack
  BY DEF LatestWritten, AsWritten, ReadsBack
<1> QED
  BY <1>1, EveryNumberWritten, PTL

(* Every number is as wide as it must be and padded on one side, with zeros *)
(* only between its sign and its digits.                                    *)
THEOREM NumbersPadOneSide == Spec => []PadsOneSide
<1>1. LatestWritten => PadsOneSide
  BY DEF LatestWritten, AsWritten, PadsOneSide
<1> QED
  BY <1>1, EveryNumberWritten, PTL
=============================================================================
