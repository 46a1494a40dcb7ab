-------------------------- MODULE InterruptsProofs --------------------------
(***************************************************************************)
(* What the entry code of irq_entry.S and ignore_int do to the registers   *)
(* and the stack, slot by slot; what the words of init_8259A make of the   *)
(* controllers; and from both the invariant of Interrupts: which           *)
(* interrupts the processor can be given, what code they break into finds  *)
(* afterwards, and what the handlers of exceptions find.                   *)
(***************************************************************************)
EXTENDS Interrupts, FiniteSetTheorems, SequenceTheorems, TLAPS

(* What the registers and the stack may hold. *)
Value ==
    ({"was", "any"} \X Register) \union ({"slot", "const", "error"} \X Int)
        \union ({"flags"} \X BOOLEAN) \union ({"code"} \X {entries[e][1] : e \in DOMAIN entries})

Cpu == [stack : Seq(Value), reg : [Register -> Value]]

(* The values that the code puts into registers and slots. *)
LEMMA ConstValue == ASSUME NEW n \in Int PROVE Const(n) \in Value
  BY DEF Value, Const

LEMMA SlotValue == ASSUME NEW n \in Int PROVE <<"slot", n>> \in Value
  BY DEF Value

LEMMA FlagsValue == ASSUME NEW if \in BOOLEAN PROVE Flags(if) \in Value
  BY DEF Value, Flags

LEMMA RegisterValue ==
    ASSUME NEW r \in Register PROVE <<"was", r>> \in Value /\ <<"any", r>> \in Value
  BY DEF Value

(* A processor with another stack. *)
LEMMA WithStack ==
    ASSUME NEW c \in Cpu, NEW s \in Seq(Value)
    PROVE  [c EXCEPT !.stack = s] = [stack |-> s, reg |-> c.reg]
  BY DEF Cpu

(* How a processor d differs from c: n words were pushed, the word at slot i *)
(* was overwritten, or the registers rs were popped.                        *)
Above(c, d, n) ==
    /\ d \in Cpu /\ d.reg = c.reg
    /\ Len(d.stack) = Len(c.stack) + n
    /\ \A i \in 1 .. Len(c.stack) : d.stack[i] = c.stack[i]

Stored(c, d, i, v) ==
    /\ d \in Cpu /\ d.reg = c.reg
    /\ Len(d.stack) = Len(c.stack)
    /\ d.stack[i] = v
    /\ \A j \in 1 .. Len(c.stack) : j # i => d.stack[j] = c.stack[j]

Popped(c, d, rs) ==
    /\ d \in Cpu
    /\ Len(d.stack) = Len(c.stack) - Len(rs)
    /\ \A i \in 1 .. Len(c.stack) - Len(rs) : d.stack[i] = c.stack[i]
    /\ \A k \in 1 .. Len(rs) :
          (\A j \in 1 .. Len(rs) : rs[j] = rs[k] => j <= k)
          => d.reg[rs[k]] = c.stack[Len(c.stack) + 1 - k]
    /\ \A r \in Register : (\A k \in 1 .. Len(rs) : rs[k] # r) => d.reg[r] = c.reg[r]

(* push leaves the registers and what lies below. *)
LEMMA PushFacts ==
    ASSUME NEW c \in Cpu, NEW v \in Value
    PROVE  /\ Above(c, push(c, v), 1)
           /\ push(c, v).stack[Len(c.stack) + 1] = v
<1>1. c.stack \in Seq(Value) /\ c.reg \in [Register -> Value]
  BY DEF Cpu
<1>2. Append(c.stack, v) \in Seq(Value)
  BY <1>1
<1>3. push(c, v) = [stack |-> Append(c.stack, v), reg |-> c.reg]
  BY <1>2, WithStack DEF push
<1> QED
  BY <1>1, <1>2, <1>3 DEF Cpu, Above

(* push_regs stores the registers in the order of its list. *)
LEMMA PushRegsFacts ==
    ASSUME NEW c \in Cpu, NEW rs \in Seq(Register)
    PROVE  /\ Above(c, push_regs(c, rs), Len(rs))
           /\ \A k \in 1 .. Len(rs) :
                 push_regs(c, rs).stack[Len(c.stack) + k] = c.reg[rs[k]]
<1> DEFINE t == [k \in DOMAIN rs |-> c.reg[rs[k]]]
<1>1. c.stack \in Seq(Value) /\ c.reg \in [Register -> Value]
  BY DEF Cpu
<1>2. push_regs(c, rs) = [c EXCEPT !.stack = c.stack \o t]
  BY DEF push_regs
<1>3. DOMAIN rs = 1 .. Len(rs) /\ Len(rs) \in Nat
  OBVIOUS
<1>4. t \in [1 .. Len(rs) -> Value]
  BY <1>1, <1>3
<1>5. t \in Seq(Value) /\ Len(t) = Len(rs)
  BY <1>3, <1>4
<1>6. \A k \in 1 .. Len(rs) : t[k] = c.reg[rs[k]]
  BY <1>3
<1> HIDE DEF t
<1>7. /\ c.stack \o t \in Seq(Value) /\ Len(c.stack \o t) = Len(c.stack) + Len(t)
      /\ \A i \in 1 .. Len(c.stack) + Len(t) :
            (c.stack \o t)[i] = IF i <= Len(c.stack) THEN c.stack[i] ELSE t[i - Len(c.stack)]
  BY <1>1, <1>5, ConcatProperties
<1>8. Len(c.stack) \in Nat /\ push_regs(c, rs) = [stack |-> c.stack \o t, reg |-> c.reg]
  <2> DEFINE s == c.stack \o t
  <2>1. s \in Seq(Value) /\ push_regs(c, rs) = [c EXCEPT !.stack = s] /\ Len(c.stack) \in Nat
    BY <1>1, <1>2, <1>7
  <2> HIDE DEF s
  <2>2. push_regs(c, rs) = [stack |-> s, reg |-> c.reg]
    BY <2>1, WithStack
  <2> QED
    BY <2>1, <2>2 DEF s
<1>9. \A k \in 1 .. Len(rs) : (c.stack \o t)[Len(c.stack) + k] = t[k]
  <2> SUFFICES ASSUME NEW k \in 1 .. Len(rs)
               PROVE  (c.stack \o t)[Len(c.stack) + k] = t[k]
    OBVIOUS
  <2>1. /\ Len(c.stack) + k \in 1 .. Len(c.stack) + Len(t)
        /\ ~(Len(c.stack) + k <= Len(c.stack)) /\ (Len(c.stack) + k) - Len(c.stack) = k
    BY <1>3, <1>5, <1>8
  <2> QED
    BY <1>7, <2>1
<1>10. \A i \in 1 .. Len(c.stack) : (c.stack \o t)[i] = c.stack[i]
  BY <1>3, <1>5, <1>7, <1>8
<1> QED
  BY <1>1, <1>5, <1>6, <1>7, <1>8, <1>9, <1>10 DEF Cpu, Above

(* What is below two pushes is below both together. *)
LEMMA AboveTwice ==
    ASSUME NEW c \in Cpu, NEW d, NEW e, NEW m \in Nat, NEW n \in Nat,
           Above(c, d, m), Above(d, e, n)
    PROVE  Above(c, e, m + n)
<1>1. Len(c.stack) \in Nat /\ Len(d.stack) = Len(c.stack) + m
  BY DEF Above, Cpu
<1>2. \A i \in 1 .. Len(c.stack) : i \in 1 .. Len(d.stack)
  BY <1>1
<1>3. \A i \in 1 .. Len(c.stack) : e.stack[i] = c.stack[i]
  BY <1>2 DEF Above
<1>4. e \in Cpu /\ e.reg = c.reg
  BY DEF Above
<1>5. Len(e.stack) = Len(c.stack) + (m + n)
  <2>1. Len(e.stack) = Len(d.stack) + n
    BY DEF Above
  <2>2. Len(e.stack) = (Len(c.stack) + m) + n
    BY <1>1, <2>1
  <2>3. \A l \in Nat : (l + m) + n = l + (m + n)
    OBVIOUS
  <2> QED
    BY <1>1, <2>2, <2>3
<1> QED
  BY <1>3, <1>4, <1>5 DEF Above

(* drop and pop leave the front of a stack. *)
LEMMA FrontOf ==
    ASSUME NEW s \in Seq(Value), NEW n \in Nat, n <= Len(s)
    PROVE  /\ SubSeq(s, 1, n) \in Seq(Value) /\ Len(SubSeq(s, 1, n)) = n
           /\ \A i \in 1 .. n : SubSeq(s, 1, n)[i] = s[i]
  OBVIOUS

(* pop_regs loads each register from the slot of its last mention. *)
LEMMA PopFacts ==
    ASSUME NEW c \in Cpu, NEW rs \in Seq(Register), Len(rs) <= Len(c.stack),
           \A i \in 1 .. Len(rs) : \E k \in 1 .. Len(rs) :
               rs[k] = rs[i] /\ \A j \in 1 .. Len(rs) : rs[j] = rs[k] => j <= k
    PROVE  Popped(c, pop_regs(c, rs), rs)
<1> DEFINE n    == Len(c.stack) - Len(rs)
           Last(r, k) == rs[k] = r /\ \A j \in DOMAIN rs : rs[j] = r => j <= k
           reg  == [r \in Register |->
                       IF \E k \in DOMAIN rs : rs[k] = r
                       THEN c.stack[Len(c.stack) + 1 - (CHOOSE k \in DOMAIN rs : Last(r, k))]
                       ELSE c.reg[r]]
<1>1. c.stack \in Seq(Value) /\ c.reg \in [Register -> Value] /\ Len(c.stack) \in Nat
  BY DEF Cpu
<1>2. DOMAIN rs = 1 .. Len(rs) /\ Len(rs) \in Nat
  OBVIOUS
<1>3. pop_regs(c, rs) = [stack |-> SubSeq(c.stack, 1, n), reg |-> reg]
  BY DEF pop_regs
<1>4. n \in Nat /\ n <= Len(c.stack)
  BY <1>1, <1>2
<1>5. /\ SubSeq(c.stack, 1, n) \in Seq(Value) /\ Len(SubSeq(c.stack, 1, n)) = n
      /\ \A i \in 1 .. n : SubSeq(c.stack, 1, n)[i] = c.stack[i]
  <2> HIDE DEF n
  <2> QED
    BY <1>1, <1>4, FrontOf
<1>6. ASSUME NEW k \in 1 .. Len(rs), \A j \in 1 .. Len(rs) : rs[j] = rs[k] => j <= k
      PROVE  reg[rs[k]] = c.stack[Len(c.stack) + 1 - k]
  <2>1. rs[k] \in Register /\ k \in DOMAIN rs
    OBVIOUS
  <2>2. (CHOOSE i \in DOMAIN rs : Last(rs[k], i)) = k
    <3> DEFINE i == CHOOSE i \in DOMAIN rs : Last(rs[k], i)
    <3>1. Last(rs[k], k)
      BY <1>2, <1>6
    <3>2. i \in DOMAIN rs /\ Last(rs[k], i)
      BY <2>1, <3>1
    <3> QED
      BY <1>2, <1>6, <3>2
  <2> QED
    BY <2>1, <2>2
<1>7. ASSUME NEW r \in Register, \A k \in 1 .. Len(rs) : rs[k] # r
      PROVE  reg[r] = c.reg[r]
  BY <1>2, <1>7
<1>8. reg \in [Register -> Value]
  <2> SUFFICES ASSUME NEW r \in Register PROVE reg[r] \in Value
    OBVIOUS
  <2>1. CASE \E k \in DOMAIN rs : rs[k] = r
    <3>3. PICK k \in DOMAIN rs : Last(r, k)
      BY <1>2, <2>1
    <3>4. (CHOOSE i \in DOMAIN rs : Last(r, i)) \in DOMAIN rs
      BY <3>3
    <3> DEFINE i == CHOOSE i \in DOMAIN rs : Last(r, i)
    <3>5. reg[r] = c.stack[Len(c.stack) + 1 - i]
      BY <2>1
    <3> HIDE DEF i
    <3>6. Len(c.stack) + 1 - i \in 1 .. Len(c.stack)
      BY <1>1, <1>2, <3>4 DEF i
    <3> QED
      BY <1>1, <3>5, <3>6
  <2>2. CASE ~(\E k \in DOMAIN rs : rs[k] = r)
    BY <1>1, <2>2
  <2> QED
    BY <2>1, <2>2
<1> DEFINE s == SubSeq(c.stack, 1, n)
           d == pop_regs(c, rs)
<1> HIDE DEF reg, s
<1>9. d \in Cpu /\ d.stack = s /\ d.reg = reg
  BY <1>3, <1>5, <1>8 DEF Cpu, s
<1> HIDE DEF d
<1>10. Len(d.stack) = n /\ \A i \in 1 .. n : d.stack[i] = c.stack[i]
  BY <1>5, <1>9 DEF s
<1> QED
  BY <1>6, <1>7, <1>9, <1>10 DEF Popped, d

(* A store into one slot of the stack. *)
LEMMA WithSlot ==
    ASSUME NEW c \in Cpu, NEW i \in 1 .. Len(c.stack), NEW v \in Value
    PROVE  Stored(c, [c EXCEPT !.stack[i] = v], i, v)
<1> DEFINE s == [c.stack EXCEPT ![i] = v]
<1>1. c.stack \in Seq(Value) /\ c.reg \in [Register -> Value]
  BY DEF Cpu
<1>2. s \in Seq(Value) /\ Len(s) = Len(c.stack)
  BY <1>1
<1>3. s[i] = v /\ \A j \in 1 .. Len(c.stack) : j # i => s[j] = c.stack[j]
  BY <1>1
<1>4. [c EXCEPT !.stack[i] = v] = [c EXCEPT !.stack = s]
  OBVIOUS
<1> HIDE DEF s
<1>5. [c EXCEPT !.stack = s] = [stack |-> s, reg |-> c.reg]
  BY <1>2, WithStack
<1> QED
  BY <1>1, <1>2, <1>3, <1>4, <1>5 DEF Cpu, Stored

(* A load of one register. *)
LEMMA WithReg ==
    ASSUME NEW c \in Cpu, NEW r \in Register, NEW v \in Value
    PROVE  /\ [c EXCEPT !.reg[r] = v] \in Cpu
           /\ [c EXCEPT !.reg[r] = v].stack = c.stack
           /\ [c EXCEPT !.reg[r] = v].reg = [c.reg EXCEPT ![r] = v]
  BY DEF Cpu

(* A call of a C function keeps the stack and all but three registers. *)
LEMMA CalledFacts ==
    ASSUME NEW c \in Cpu
    PROVE  /\ called(c) \in Cpu
           /\ called(c).stack = c.stack
           /\ \A r \in Register \ {"eax", "ecx", "edx"} : called(c).reg[r] = c.reg[r]
<1> DEFINE f == [r \in Register |->
                   IF r \in {"eax", "ecx", "edx"} THEN <<"any", r>> ELSE c.reg[r]]
<1>1. f \in [Register -> Value]
  BY RegisterValue DEF Cpu
<1>2. called(c) = [c EXCEPT !.reg = f]
  BY DEF called
<1>3. \A r \in Register \ {"eax", "ecx", "edx"} : f[r] = c.reg[r]
  OBVIOUS
<1> HIDE DEF f
<1> QED
  BY <1>1, <1>2, <1>3 DEF Cpu

(* The lists of registers that the entry code pushes and pops. *)
LEMMA RegisterLists ==
    /\ <<"eflags", "cs", "eip">> \in Seq(Register) /\ Len(<<"eflags", "cs", "eip">>) = 3
    /\ <<"eip", "cs", "eflags">> \in Seq(Register) /\ Len(<<"eip", "cs", "eflags">>) = 3
    /\ <<"eax">> \in Seq(Register) /\ Len(<<"eax">>) = 1
    /\ <<"eax", "eax", "eax", "eax">> \in Seq(Register)
    /\ Len(<<"eax", "eax", "eax", "eax">>) = 4
  BY DEF Register, General

(* iret undoes what the processor pushed on the way through a gate. *)
LEMMA IretFacts ==
    ASSUME NEW c \in Cpu, NEW n \in Nat, Len(c.stack) = n + 3
    PROVE  /\ iret(c) \in Cpu
           /\ Len(iret(c).stack) = n
           /\ \A i \in 1 .. n : iret(c).stack[i] = c.stack[i]
           /\ iret(c).reg["eip"] = c.stack[n + 3]
           /\ iret(c).reg["cs"] = c.stack[n + 2]
           /\ iret(c).reg["eflags"] = c.stack[n + 1]
           /\ \A r \in Register \ {"eip", "cs", "eflags"} : iret(c).reg[r] = c.reg[r]
<1> DEFINE rs == <<"eip", "cs", "eflags">>
           d  == iret(c)
<1>1. /\ rs \in Seq(Register) /\ Len(rs) = 3
      /\ rs[1] = "eip" /\ rs[2] = "cs" /\ rs[3] = "eflags"
  BY RegisterLists
<1>2. d = pop_regs(c, rs)
  BY DEF iret
<1> HIDE DEF rs, d
<1>3. \A i \in 1 .. Len(rs) : \E k \in 1 .. Len(rs) :
          rs[k] = rs[i] /\ \A j \in 1 .. Len(rs) : rs[j] = rs[k] => j <= k
  BY <1>1
<1>4. Popped(c, d, rs)
  <2>1. Len(rs) <= Len(c.stack)
    BY <1>1
  <2> QED
    BY <1>1, <1>2, <1>3, <2>1, PopFacts
<1>5. /\ d \in Cpu /\ Len(d.stack) = n /\ \A i \in 1 .. n : d.stack[i] = c.stack[i]
  BY <1>1, <1>4 DEF Popped
<1>6. /\ d.reg["eip"] = c.stack[n + 3] /\ d.reg["cs"] = c.stack[n + 2]
      /\ d.reg["eflags"] = c.stack[n + 1]
  <2>1. /\ 1 \in 1 .. Len(rs) /\ \A j \in 1 .. Len(rs) : rs[j] = rs[1] => j <= 1
        /\ 2 \in 1 .. Len(rs) /\ \A j \in 1 .. Len(rs) : rs[j] = rs[2] => j <= 2
        /\ 3 \in 1 .. Len(rs) /\ \A j \in 1 .. Len(rs) : rs[j] = rs[3] => j <= 3
    BY <1>1
  <2>2. /\ Len(c.stack) + 1 - 1 = n + 3 /\ Len(c.stack) + 1 - 2 = n + 2
        /\ Len(c.stack) + 1 - 3 = n + 1
    OBVIOUS
  <2>3. /\ d.reg[rs[1]] = c.stack[Len(c.stack) + 1 - 1]
        /\ d.reg[rs[2]] = c.stack[Len(c.stack) + 1 - 2]
        /\ d.reg[rs[3]] = c.stack[Len(c.stack) + 1 - 3]
    BY <1>4, <2>1 DEF Popped
  <2> QED
    BY <1>1, <2>2, <2>3
<1>7. ASSUME NEW r \in Register \ {"eip", "cs", "eflags"} PROVE d.reg[r] = c.reg[r]
  <2>1. \A k \in 1 .. Len(rs) : rs[k] # r
    BY <1>1
  <2> QED
    BY <1>4, <2>1 DEF Popped
<1> QED
  BY <1>5, <1>6, <1>7 DEF d

(* What ignore_int does to the interrupted code: eflags is cleared, the    *)
(* registers a C function may change are lost, and everything else is as   *)
(* it was.                                                                 *)
LEMMA IgnoreIntFacts ==
    ASSUME NEW c \in Cpu, NEW n \in Nat, Len(c.stack) = n + 3
    PROVE  /\ ignore_int(c) \in Cpu
           /\ Len(ignore_int(c).stack) = n
           /\ ignore_int(c).reg["eip"] = c.stack[n + 3]
           /\ ignore_int(c).reg["cs"] = c.stack[n + 2]
           /\ ignore_int(c).reg["eflags"] = Const(0)
           /\ \A r \in Register \ {"eip", "cs", "eflags", "ecx", "edx"} :
                 ignore_int(c).reg[r] = c.reg[r]
<1> DEFINE a  == push_regs(c, <<"eax">>)
           b  == push(a, Const(8))
           d  == push(b, Const(4))
           x  == push(d, <<"slot", Len(d.stack)>>)
           e  == called(x)
           i  == slot(e, eflags_offset)
           f  == [e EXCEPT !.stack[i] = Const(0)]
           g  == called(f)
           rs == <<"eax", "eax", "eax", "eax">>
           h  == pop_regs(g, rs)
<1>0. ignore_int(c) = iret(h)
  BY DEF ignore_int
<1>1. /\ rs \in Seq(Register) /\ Len(rs) = 4
      /\ \A k \in 1 .. 4 : rs[k] = "eax"
  BY RegisterLists
<1>2. Above(c, a, 1) /\ a \in Cpu /\ Len(a.stack) = n + 4 /\ a.stack[n + 4] = c.reg["eax"]
  <2> DEFINE r1 == <<"eax">>
  <2>1. r1 \in Seq(Register) /\ Len(r1) = 1 /\ r1[1] = "eax" /\ a = push_regs(c, r1)
    BY RegisterLists
  <2> HIDE DEF r1, a
  <2>2. /\ Above(c, a, Len(r1))
        /\ \A k \in 1 .. Len(r1) : a.stack[Len(c.stack) + k] = c.reg[r1[k]]
    BY <2>1, PushRegsFacts
  <2>3. (n + 3) + 1 = n + 4 /\ 1 \in 1 .. Len(r1)
    BY <2>1
  <2>4. a.stack[(n + 3) + 1] = c.reg["eax"]
    BY <2>1, <2>2, <2>3
  <2>5. Above(c, a, 1)
    BY <2>1, <2>2
  <2> QED
    BY <2>3, <2>4, <2>5 DEF Above
<1> HIDE DEF a
<1>3. Above(a, b, 1)
  <2>1. Const(8) \in Value
    BY ConstValue
  <2> QED
    BY <1>2, <2>1, PushFacts
<1>4. Above(b, d, 1)
  <2>1. Const(4) \in Value /\ b \in Cpu
    BY <1>3, ConstValue DEF Above
  <2> HIDE DEF b
  <2> QED
    BY <2>1, PushFacts
<1>5. Above(d, x, 1)
  <2>1. d \in Cpu
    BY <1>4 DEF Above
  <2> HIDE DEF d
  <2>2. <<"slot", Len(d.stack)>> \in Value
    BY <2>1, SlotValue DEF Cpu
  <2> QED
    BY <2>1, <2>2, PushFacts
<1> HIDE DEF b, d, x
<1>6. /\ x \in Cpu /\ Len(x.stack) = n + 7 /\ x.reg = c.reg
      /\ x.stack[n + 4] = c.reg["eax"]
      /\ x.stack[n + 3] = c.stack[n + 3] /\ x.stack[n + 2] = c.stack[n + 2]
  <2>1. Above(a, d, 1 + 1)
    BY <1>2, <1>3, <1>4, AboveTwice
  <2>2. Above(a, x, (1 + 1) + 1)
    BY <1>2, <1>5, <2>1, AboveTwice
  <2>3. Above(c, x, 1 + ((1 + 1) + 1))
    <3>1. ((1 + 1) + 1) \in Nat
      OBVIOUS
    <3> QED
      BY <1>2, <2>2, <3>1, AboveTwice, Zenon
  <2>4. x \in Cpu /\ Len(x.stack) = n + 7 /\ x.reg = c.reg
    BY <2>3 DEF Above
  <2>5. x.stack[n + 4] = a.stack[n + 4]
    BY <1>2, <2>2 DEF Above
  <2>6. x.stack[n + 3] = c.stack[n + 3] /\ x.stack[n + 2] = c.stack[n + 2]
    <3>1. n + 3 \in 1 .. Len(c.stack) /\ n + 2 \in 1 .. Len(c.stack)
      OBVIOUS
    <3> QED
      BY <2>3, <3>1 DEF Above
  <2> QED
    BY <1>2, <2>4, <2>5, <2>6
<1>7. /\ e \in Cpu /\ e.stack = x.stack
      /\ \A r \in Register \ {"eax", "ecx", "edx"} : e.reg[r] = c.reg[r]
  BY <1>6, CalledFacts
<1>8. i = n + 1 /\ i \in 1 .. Len(e.stack)
  BY <1>6, <1>7 DEF slot, eflags_offset
<1> HIDE DEF e, i
<1>9. Stored(e, f, n + 1, Const(0))
  <2>1. Const(0) \in Value
    BY ConstValue
  <2>2. Stored(e, f, i, Const(0))
    BY <1>7, <1>8, <2>1, WithSlot
  <2> QED
    BY <1>8, <2>2
<1> HIDE DEF f
<1>10. f \in Cpu
  BY <1>9 DEF Stored
<1>11. /\ g \in Cpu /\ g.stack = f.stack
       /\ \A r \in Register \ {"eax", "ecx", "edx"} : g.reg[r] = f.reg[r]
  BY <1>10, CalledFacts
<1> HIDE DEF g, rs
<1>12. /\ Len(g.stack) = n + 7
       /\ g.stack[n + 4] = c.reg["eax"] /\ g.stack[n + 3] = c.stack[n + 3]
       /\ g.stack[n + 2] = c.stack[n + 2] /\ g.stack[n + 1] = Const(0)
       /\ \A r \in Register \ {"eax", "ecx", "edx"} : g.reg[r] = c.reg[r]
  BY <1>6, <1>7, <1>9, <1>11 DEF Stored
<1>13. Popped(g, h, rs)
  <2>1. \A j \in 1 .. Len(rs) : \E k \in 1 .. Len(rs) :
            rs[k] = rs[j] /\ \A l \in 1 .. Len(rs) : rs[l] = rs[k] => l <= k
    <3>1. 4 \in 1 .. Len(rs) /\ \A j \in 1 .. Len(rs) : rs[4] = rs[j] /\ j <= 4
      BY <1>1
    <3> QED
      BY <3>1
  <2>2. Len(rs) <= Len(g.stack)
    BY <1>1, <1>12
  <2> QED
    BY <1>1, <1>11, <2>1, <2>2, PopFacts
<1> HIDE DEF h
<1>14. /\ h \in Cpu /\ Len(h.stack) = n + 3
       /\ h.stack[n + 3] = c.stack[n + 3] /\ h.stack[n + 2] = c.stack[n + 2]
       /\ h.stack[n + 1] = Const(0)
  BY <1>1, <1>12, <1>13 DEF Popped
<1>15. h.reg["eax"] = c.reg["eax"]
  <2>1. 4 \in 1 .. Len(rs) /\ (\A j \in 1 .. Len(rs) : rs[j] = rs[4] => j <= 4)
        /\ rs[4] = "eax" /\ Len(g.stack) + 1 - 4 = n + 4
    BY <1>1, <1>12
  <2>2. h.reg[rs[4]] = g.stack[Len(g.stack) + 1 - 4]
    BY <1>13, <2>1 DEF Popped
  <2> QED
    BY <1>12, <2>1, <2>2
<1>16. \A r \in Register \ {"eax", "ecx", "edx"} : h.reg[r] = c.reg[r]
  <2>1. \A r \in Register : r # "eax" => h.reg[r] = g.reg[r]
    BY <1>1, <1>13 DEF Popped
  <2> QED
    BY <1>12, <2>1
<1>17. /\ iret(h) \in Cpu /\ Len(iret(h).stack) = n
       /\ iret(h).reg["eip"] = h.stack[n + 3]
       /\ iret(h).reg["cs"] = h.stack[n + 2]
       /\ iret(h).reg["eflags"] = h.stack[n + 1]
       /\ \A r \in Register \ {"eip", "cs", "eflags"} : iret(h).reg[r] = h.reg[r]
  BY <1>14, IretFacts
<1>18. \A r \in Register \ {"eip", "cs", "eflags", "ecx", "edx"} :
          iret(h).reg[r] = c.reg[r]
  BY <1>15, <1>16, <1>17
<1> QED
  BY <1>0, <1>14, <1>17, <1>18

(* What the processor pushes on the way through a gate. *)
LEMMA ThroughFacts ==
    ASSUME NEW c \in Cpu, NEW n \in Nat, Len(c.stack) = n, NEW gate
    PROVE  LET d == Through(gate, c, << >>)
           IN  /\ d \in Cpu /\ Len(d.stack) = n + 3
               /\ d.stack[n + 1] = c.reg["eflags"] /\ d.stack[n + 2] = c.reg["cs"]
               /\ d.stack[n + 3] = c.reg["eip"]
               /\ \A r \in Register \ {"eflags"} : d.reg[r] = c.reg[r]
               /\ Type(gate) # INTR_GATE => d.reg = c.reg
<1> DEFINE rs == <<"eflags", "cs", "eip">>
           a  == push_regs(c, rs)
           d  == Through(gate, c, << >>)
<1>1. /\ rs \in Seq(Register) /\ Len(rs) = 3
      /\ rs[1] = "eflags" /\ rs[2] = "cs" /\ rs[3] = "eip"
  BY RegisterLists
<1>2. d = IF Type(gate) = INTR_GATE THEN [a EXCEPT !.reg["eflags"] = Flags(FALSE)] ELSE a
  BY DEF Through
<1> HIDE DEF rs, d
<1>3. /\ Above(c, a, Len(rs))
      /\ \A k \in 1 .. Len(rs) : a.stack[Len(c.stack) + k] = c.reg[rs[k]]
  BY <1>1, PushRegsFacts
<1> HIDE DEF a
<1>4. 1 \in 1 .. Len(rs) /\ 2 \in 1 .. Len(rs) /\ 3 \in 1 .. Len(rs)
  BY <1>1
<1>5. /\ a \in Cpu /\ Len(a.stack) = n + 3 /\ a.reg = c.reg
      /\ a.stack[n + 1] = c.reg["eflags"] /\ a.stack[n + 2] = c.reg["cs"]
      /\ a.stack[n + 3] = c.reg["eip"]
  BY <1>1, <1>3, <1>4 DEF Above
<1>6. CASE Type(gate) = INTR_GATE
  <2>1. "eflags" \in Register /\ Flags(FALSE) \in Value
    BY FlagsValue DEF Register
  <2>2. d = [a EXCEPT !.reg["eflags"] = Flags(FALSE)]
    BY <1>2, <1>6
  <2>3. d \in Cpu /\ d.stack = a.stack /\ d.reg = [a.reg EXCEPT !["eflags"] = Flags(FALSE)]
    BY <1>5, <2>1, <2>2, WithReg
  <2>4. \A r \in Register \ {"eflags"} : d.reg[r] = c.reg[r]
    BY <1>5, <2>3 DEF Cpu
  <2> QED
    BY <1>5, <1>6, <2>3, <2>4 DEF d
<1>7. CASE Type(gate) # INTR_GATE
  BY <1>2, <1>5, <1>7 DEF d
<1> QED
  BY <1>6, <1>7

(* The same for an exception with an error code. *)
LEMMA ThroughWithCode ==
    ASSUME NEW c \in Cpu, NEW n \in Nat, Len(c.stack) = n, NEW gate, Type(gate) # INTR_GATE,
           NEW v \in Value
    PROVE  LET d == Through(gate, c, <<v>>)
           IN  /\ d \in Cpu /\ Len(d.stack) = n + 4 /\ d.reg = c.reg
               /\ d.stack[n + 1] = c.reg["eflags"] /\ d.stack[n + 2] = c.reg["cs"]
               /\ d.stack[n + 3] = c.reg["eip"] /\ d.stack[n + 4] = v
<1> DEFINE a == Through(gate, c, << >>)
           d == Through(gate, c, <<v>>)
<1>1. d = push(a, v)
  <2>1. <<v>> # << >> /\ <<v>>[1] = v
    OBVIOUS
  <2> QED
    BY <2>1 DEF Through
<1>2. /\ a \in Cpu /\ Len(a.stack) = n + 3 /\ a.reg = c.reg
      /\ a.stack[n + 1] = c.reg["eflags"] /\ a.stack[n + 2] = c.reg["cs"]
      /\ a.stack[n + 3] = c.reg["eip"]
  BY ThroughFacts
<1> HIDE DEF a, d
<1>3. Above(a, d, 1) /\ d.stack[Len(a.stack) + 1] = v
  BY <1>1, <1>2, PushFacts
<1>4. /\ n + 1 \in 1 .. Len(a.stack) /\ n + 2 \in 1 .. Len(a.stack)
      /\ n + 3 \in 1 .. Len(a.stack) /\ Len(a.stack) + 1 = n + 4
  BY <1>2
<1> QED
  BY <1>2, <1>3, <1>4 DEF Above, d
-----------------------------------------------------------------------------
(* The frame that the entries build above what the processor pushed for    *)
(* code that had nothing on the stack and the registers of c.              *)
Framed(c, d) ==
    /\ d \in Cpu /\ Len(d.stack) = 13
    /\ d.stack[1] = c.reg["eflags"] /\ d.stack[2] = c.reg["cs"] /\ d.stack[3] = c.reg["eip"]
    /\ d.stack[4] = c.reg["eax"] /\ d.stack[5] = c.reg["ebx"] /\ d.stack[6] = c.reg["ecx"]
    /\ d.stack[7] = c.reg["edx"] /\ d.stack[8] = c.reg["edi"] /\ d.stack[9] = c.reg["esi"]
    /\ d.stack[10] = c.reg["ebp"] /\ d.stack[11] = c.reg["ds"] /\ d.stack[12] = c.reg["es"]
    /\ d.stack[13] = c.reg["fs"]

(* The list of saved registers, behind ebx or not. *)
LEMMA SavedLists ==
    /\ saved \in Seq(Register) /\ Len(saved) = 8
    /\ saved[1] = "ecx" /\ saved[2] = "edx" /\ saved[3] = "edi" /\ saved[4] = "esi"
    /\ saved[5] = "ebp" /\ saved[6] = "ds" /\ saved[7] = "es" /\ saved[8] = "fs"
    /\ <<"ebx">> \o saved \in Seq(Register) /\ Len(<<"ebx">> \o saved) = 9
    /\ (<<"ebx">> \o saved)[1] = "ebx"
    /\ \A k \in 1 .. 8 : (<<"ebx">> \o saved)[k + 1] = saved[k]
<1>1. /\ saved \in Seq(Register) /\ Len(saved) = 8
      /\ saved[1] = "ecx" /\ saved[2] = "edx" /\ saved[3] = "edi" /\ saved[4] = "esi"
      /\ saved[5] = "ebp" /\ saved[6] = "ds" /\ saved[7] = "es" /\ saved[8] = "fs"
  BY DEF saved, Register, General
<1> DEFINE b == <<"ebx">>
<1>2. b \in Seq(Register) /\ Len(b) = 1 /\ b[1] = "ebx"
  BY DEF Register, General
<1> HIDE DEF b
<1>3. /\ b \o saved \in Seq(Register) /\ Len(b \o saved) = 9
      /\ \A i \in 1 .. 9 : (b \o saved)[i] = IF i <= 1 THEN b[i] ELSE saved[i - 1]
  <2>1. /\ b \o saved \in Seq(Register) /\ Len(b \o saved) = Len(b) + Len(saved)
        /\ \A i \in 1 .. Len(b) + Len(saved) :
              (b \o saved)[i] = IF i <= Len(b) THEN b[i] ELSE saved[i - Len(b)]
    BY ZenonT(40), <1>1, <1>2, ConcatProperties
  <2>2. Len(b) + Len(saved) = 9
    BY <1>1, <1>2
  <2> QED
    BY <1>2, <2>1, <2>2
<1>4. \A k \in 1 .. 8 : k + 1 \in 1 .. 9 /\ ~(k + 1 <= 1) /\ (k + 1) - 1 = k
  OBVIOUS
<1>5. \A k \in 1 .. 8 : (b \o saved)[k + 1] = saved[k]
  BY <1>3, <1>4
<1> QED
  BY <1>1, <1>2, <1>3, <1>5 DEF b

(* xchg swaps a register with a slot of the stack. *)
LEMMA XchgFacts ==
    ASSUME NEW c \in Cpu, NEW r \in Register, NEW off \in Nat,
           slot(c, off) \in 1 .. Len(c.stack)
    PROVE  LET d == xchg(c, r, off)
               k == slot(c, off)
           IN  /\ d \in Cpu /\ Len(d.stack) = Len(c.stack)
               /\ d.stack[k] = c.reg[r]
               /\ \A j \in 1 .. Len(c.stack) : j # k => d.stack[j] = c.stack[j]
               /\ d.reg[r] = c.stack[k]
               /\ \A q \in Register : q # r => d.reg[q] = c.reg[q]
<1> DEFINE k == slot(c, off)
           a == [c EXCEPT !.reg[r] = c.stack[k]]
           d == xchg(c, r, off)
<1>1. /\ c.stack[k] \in Value /\ c.reg[r] \in Value /\ k \in 1 .. Len(c.stack)
      /\ c.reg \in [Register -> Value]
  BY DEF Cpu
<1>2. d = [a EXCEPT !.stack[k] = c.reg[r]]
  BY DEF xchg
<1> HIDE DEF k, d
<1>3. a \in Cpu /\ a.stack = c.stack /\ a.reg = [c.reg EXCEPT ![r] = c.stack[k]]
  BY <1>1, WithReg
<1> HIDE DEF a
<1>4. Stored(a, d, k, c.reg[r])
  BY <1>1, <1>2, <1>3, WithSlot
<1>5. /\ a.reg[r] = c.stack[k]
      /\ \A q \in Register : q # r => a.reg[q] = c.reg[q]
  BY <1>1, <1>3
<1> QED
  BY <1>3, <1>4, <1>5 DEF Stored, d, k

(* The two ways to the frame: with the function on top of the stack, and   *)
(* with the error code of the processor below it.                          *)
LEMMA FrameWithoutCode ==
    ASSUME NEW c \in Cpu, NEW t \in Cpu, NEW f \in Value, Len(t.stack) = 3,
           t.reg = c.reg,
           t.stack[1] = c.reg["eflags"], t.stack[2] = c.reg["cs"], t.stack[3] = c.reg["eip"]
    PROVE  LET d == push_regs(xchg(push(t, f), "eax", 0), <<"ebx">> \o saved)
           IN  Framed(c, d) /\ d.reg["eax"] = f /\ d.reg["eflags"] = c.reg["eflags"]
<1> DEFINE a  == push(t, f)
           b  == xchg(a, "eax", 0)
           rs == <<"ebx">> \o saved
           d  == push_regs(b, rs)
<1>1. Above(t, a, 1) /\ a.stack[3 + 1] = f
  BY PushFacts
<1> HIDE DEF a
<1>2. /\ a \in Cpu /\ a.reg = c.reg /\ Len(a.stack) = 4 /\ a.stack[4] = f
      /\ a.stack[1] = c.reg["eflags"] /\ a.stack[2] = c.reg["cs"] /\ a.stack[3] = c.reg["eip"]
  <2>1. 1 \in 1 .. Len(t.stack) /\ 2 \in 1 .. Len(t.stack) /\ 3 \in 1 .. Len(t.stack)
    OBVIOUS
  <2> QED
    BY <1>1, <2>1 DEF Above
<1>3. slot(a, 0) = 4 /\ slot(a, 0) \in 1 .. Len(a.stack) /\ "eax" \in Register /\ 0 \in Nat
  BY <1>2 DEF slot, Register, General
<1>4. /\ b \in Cpu /\ Len(b.stack) = Len(a.stack)
      /\ b.stack[slot(a, 0)] = a.reg["eax"]
      /\ \A j \in 1 .. Len(a.stack) : j # slot(a, 0) => b.stack[j] = a.stack[j]
      /\ b.reg["eax"] = a.stack[slot(a, 0)]
      /\ \A q \in Register : q # "eax" => b.reg[q] = a.reg[q]
  BY <1>2, <1>3, XchgFacts
<1> HIDE DEF b
<1>5. /\ b \in Cpu /\ Len(b.stack) = 4 /\ b.stack[4] = c.reg["eax"] /\ b.reg["eax"] = f
      /\ b.stack[1] = c.reg["eflags"] /\ b.stack[2] = c.reg["cs"] /\ b.stack[3] = c.reg["eip"]
      /\ \A q \in Register : q # "eax" => b.reg[q] = c.reg[q]
  <2>1. /\ 1 \in 1 .. Len(a.stack) /\ 2 \in 1 .. Len(a.stack) /\ 3 \in 1 .. Len(a.stack)
        /\ slot(a, 0) = 4 /\ 1 # 4 /\ 2 # 4 /\ 3 # 4
    BY <1>2, <1>3
  <2>2. /\ b.stack[1] = a.stack[1] /\ b.stack[2] = a.stack[2] /\ b.stack[3] = a.stack[3]
        /\ b.stack[4] = a.reg["eax"] /\ b.reg["eax"] = a.stack[4]
    BY <1>4, <2>1
  <2> QED
    BY <1>2, <1>4, <2>2
<1>6. /\ rs \in Seq(Register) /\ Len(rs) = 9 /\ rs[1] = "ebx"
      /\ rs[1 + 1] = "ecx" /\ rs[2 + 1] = "edx" /\ rs[3 + 1] = "edi" /\ rs[4 + 1] = "esi"
      /\ rs[5 + 1] = "ebp" /\ rs[6 + 1] = "ds" /\ rs[7 + 1] = "es" /\ rs[8 + 1] = "fs"
  BY SavedLists
<1> HIDE DEF rs
<1>7. /\ Above(b, d, Len(rs))
      /\ \A k \in 1 .. Len(rs) : d.stack[Len(b.stack) + k] = b.reg[rs[k]]
  BY <1>5, <1>6, PushRegsFacts
<1> HIDE DEF d
<1>8. /\ d \in Cpu /\ Len(d.stack) = 13 /\ d.reg["eax"] = f
      /\ d.reg["eflags"] = c.reg["eflags"]
      /\ d.stack[1] = c.reg["eflags"] /\ d.stack[2] = c.reg["cs"] /\ d.stack[3] = c.reg["eip"]
      /\ d.stack[4] = c.reg["eax"]
  <2>1. /\ 1 \in 1 .. Len(b.stack) /\ 2 \in 1 .. Len(b.stack) /\ 3 \in 1 .. Len(b.stack)
        /\ 4 \in 1 .. Len(b.stack) /\ Len(b.stack) + Len(rs) = 13
        /\ "eflags" \in Register
    BY <1>5, <1>6 DEF Register
  <2> QED
    BY <1>5, <1>7, <2>1 DEF Above
<1>9. \A k \in 1 .. 9 : d.stack[4 + k] = b.reg[rs[k]]
  BY <1>5, <1>6, <1>7
<1>10. {"ebx", "ecx", "edx", "edi", "esi", "ebp", "ds", "es", "fs"} \subseteq Register \ {"eax"}
  BY DEF Register, General
<1>11. /\ d.stack[5] = c.reg["ebx"] /\ d.stack[6] = c.reg["ecx"] /\ d.stack[7] = c.reg["edx"]
       /\ d.stack[8] = c.reg["edi"] /\ d.stack[9] = c.reg["esi"] /\ d.stack[10] = c.reg["ebp"]
       /\ d.stack[11] = c.reg["ds"] /\ d.stack[12] = c.reg["es"] /\ d.stack[13] = c.reg["fs"]
  BY <1>5, <1>6, <1>9, <1>10
<1> QED
  BY <1>8, <1>11 DEF Framed, d, rs, b, a

(* The frame of error_code. *)
LEMMA FrameWithCode ==
    ASSUME NEW c \in Cpu, NEW t \in Cpu, NEW f \in Value, Len(t.stack) = 4,
           t.reg = c.reg,
           t.stack[1] = c.reg["eflags"], t.stack[2] = c.reg["cs"], t.stack[3] = c.reg["eip"]
    PROVE  LET d == push_regs(xchg(xchg(push(t, f), "eax", 4), "ebx", 0), saved)
           IN  /\ Framed(c, d) /\ d.reg["ebx"] = f /\ d.reg["eax"] = t.stack[4]
               /\ d.reg["eflags"] = c.reg["eflags"]
<1> DEFINE a == push(t, f)
           x == xchg(a, "eax", 4)
           b == xchg(x, "ebx", 0)
           d == push_regs(b, saved)
<1>1. Above(t, a, 1) /\ a.stack[4 + 1] = f
  BY PushFacts
<1> HIDE DEF a
<1>2. /\ a \in Cpu /\ a.reg = c.reg /\ Len(a.stack) = 5
      /\ a.stack[4] = t.stack[4] /\ a.stack[5] = f
      /\ a.stack[1] = c.reg["eflags"] /\ a.stack[2] = c.reg["cs"] /\ a.stack[3] = c.reg["eip"]
  <2>1. /\ 1 \in 1 .. Len(t.stack) /\ 2 \in 1 .. Len(t.stack) /\ 3 \in 1 .. Len(t.stack)
        /\ 4 \in 1 .. Len(t.stack)
    OBVIOUS
  <2> QED
    BY <1>1, <2>1 DEF Above
<1>3. /\ slot(a, 4) = 4 /\ slot(a, 4) \in 1 .. Len(a.stack)
      /\ "eax" \in Register /\ "ebx" \in Register
      /\ 0 \in Nat /\ 4 \in Nat
  BY <1>2 DEF slot, Register, General
<1>4. /\ x \in Cpu /\ Len(x.stack) = Len(a.stack)
      /\ x.stack[slot(a, 4)] = a.reg["eax"]
      /\ \A j \in 1 .. Len(a.stack) : j # slot(a, 4) => x.stack[j] = a.stack[j]
      /\ x.reg["eax"] = a.stack[slot(a, 4)]
      /\ \A q \in Register : q # "eax" => x.reg[q] = a.reg[q]
  BY <1>2, <1>3, XchgFacts
<1> HIDE DEF x
<1>5. /\ x \in Cpu /\ Len(x.stack) = 5 /\ x.stack[4] = c.reg["eax"] /\ x.stack[5] = f
      /\ x.reg["eax"] = t.stack[4]
      /\ x.stack[1] = c.reg["eflags"] /\ x.stack[2] = c.reg["cs"] /\ x.stack[3] = c.reg["eip"]
      /\ \A q \in Register : q # "eax" => x.reg[q] = c.reg[q]
  <2>1. /\ 1 \in 1 .. Len(a.stack) /\ 2 \in 1 .. Len(a.stack) /\ 3 \in 1 .. Len(a.stack)
        /\ 5 \in 1 .. Len(a.stack)
        /\ slot(a, 4) = 4 /\ 1 # 4 /\ 2 # 4 /\ 3 # 4 /\ 5 # 4
    BY <1>2, <1>3
  <2>2. /\ x.stack[1] = a.stack[1] /\ x.stack[2] = a.stack[2] /\ x.stack[3] = a.stack[3]
        /\ x.stack[5] = a.stack[5] /\ x.stack[4] = a.reg["eax"] /\ x.reg["eax"] = a.stack[4]
    BY <1>4, <2>1
  <2> QED
    BY <1>2, <1>4, <2>2
<1>6. slot(x, 0) = 5 /\ slot(x, 0) \in 1 .. Len(x.stack)
  BY <1>5 DEF slot
<1>7. /\ b \in Cpu /\ Len(b.stack) = Len(x.stack)
      /\ b.stack[slot(x, 0)] = x.reg["ebx"]
      /\ \A j \in 1 .. Len(x.stack) : j # slot(x, 0) => b.stack[j] = x.stack[j]
      /\ b.reg["ebx"] = x.stack[slot(x, 0)]
      /\ \A q \in Register : q # "ebx" => b.reg[q] = x.reg[q]
  BY <1>3, <1>5, <1>6, XchgFacts
<1> HIDE DEF b
<1>8. /\ b \in Cpu /\ Len(b.stack) = 5 /\ b.stack[4] = c.reg["eax"] /\ b.stack[5] = c.reg["ebx"]
      /\ b.reg["ebx"] = f /\ b.reg["eax"] = t.stack[4]
      /\ b.stack[1] = c.reg["eflags"] /\ b.stack[2] = c.reg["cs"] /\ b.stack[3] = c.reg["eip"]
      /\ \A q \in Register : q \notin {"eax", "ebx"} => b.reg[q] = c.reg[q]
  <2>1. /\ 1 \in 1 .. Len(x.stack) /\ 2 \in 1 .. Len(x.stack) /\ 3 \in 1 .. Len(x.stack)
        /\ 4 \in 1 .. Len(x.stack)
        /\ slot(x, 0) = 5 /\ 1 # 5 /\ 2 # 5 /\ 3 # 5 /\ 4 # 5
    BY <1>5, <1>6
  <2>2. /\ b.stack[1] = x.stack[1] /\ b.stack[2] = x.stack[2] /\ b.stack[3] = x.stack[3]
        /\ b.stack[4] = x.stack[4] /\ b.stack[5] = x.reg["ebx"] /\ b.reg["ebx"] = x.stack[5]
    BY <1>7, <2>1
  <2>3. x.reg["ebx"] = c.reg["ebx"] /\ b.reg["eax"] = x.reg["eax"]
    BY <1>3, <1>5, <1>7
  <2> QED
    BY <1>5, <1>7, <2>2, <2>3
<1>9. /\ saved \in Seq(Register) /\ Len(saved) = 8
      /\ saved[1] = "ecx" /\ saved[2] = "edx" /\ saved[3] = "edi" /\ saved[4] = "esi"
      /\ saved[5] = "ebp" /\ saved[6] = "ds" /\ saved[7] = "es" /\ saved[8] = "fs"
  BY SavedLists
<1>10. /\ Above(b, d, Len(saved))
       /\ \A k \in 1 .. Len(saved) : d.stack[Len(b.stack) + k] = b.reg[saved[k]]
  BY <1>8, <1>9, PushRegsFacts
<1> HIDE DEF d
<1>11. /\ d \in Cpu /\ Len(d.stack) = 13 /\ d.reg["ebx"] = f /\ d.reg["eax"] = t.stack[4]
       /\ d.reg["eflags"] = c.reg["eflags"]
       /\ d.stack[1] = c.reg["eflags"] /\ d.stack[2] = c.reg["cs"] /\ d.stack[3] = c.reg["eip"]
       /\ d.stack[4] = c.reg["eax"] /\ d.stack[5] = c.reg["ebx"]
  <2>1. /\ 1 \in 1 .. Len(b.stack) /\ 2 \in 1 .. Len(b.stack) /\ 3 \in 1 .. Len(b.stack)
        /\ 4 \in 1 .. Len(b.stack) /\ 5 \in 1 .. Len(b.stack) /\ Len(b.stack) + Len(saved) = 13
        /\ "eflags" \in Register
    BY <1>8, <1>9 DEF Register
  <2> QED
    BY <1>8, <1>10, <2>1 DEF Above
<1>12. \A k \in 1 .. 8 : d.stack[5 + k] = b.reg[saved[k]]
  BY <1>8, <1>9, <1>10
<1>13. {"ecx", "edx", "edi", "esi", "ebp", "ds", "es", "fs"} \subseteq Register \ {"eax", "ebx"}
  BY DEF Register, General
<1>14. /\ d.stack[6] = c.reg["ecx"] /\ d.stack[7] = c.reg["edx"]
       /\ d.stack[8] = c.reg["edi"] /\ d.stack[9] = c.reg["esi"] /\ d.stack[10] = c.reg["ebp"]
       /\ d.stack[11] = c.reg["ds"] /\ d.stack[12] = c.reg["es"] /\ d.stack[13] = c.reg["fs"]
  BY <1>8, <1>9, <1>12, <1>13
<1> QED
  BY <1>11, <1>14 DEF Framed, d, b, x, a

(* Loading the segments of the kernel touches no other register. *)
LEMMA KernelSegments ==
    ASSUME NEW c \in Cpu
    PROVE  /\ kernel_segments(c) \in Cpu
           /\ kernel_segments(c).stack = c.stack
           /\ \A r \in {"ds", "es", "fs"} : kernel_segments(c).reg[r] = Const(16)
           /\ \A r \in Register \ {"ds", "es", "fs"} : kernel_segments(c).reg[r] = c.reg[r]
<1> DEFINE a == [c EXCEPT !.reg["ds"] = Const(16)]
           b == [a EXCEPT !.reg["es"] = Const(16)]
           d == [b EXCEPT !.reg["fs"] = Const(16)]
<1>1. "ds" \in Register /\ "es" \in Register /\ "fs" \in Register /\ Const(16) \in Value
  BY ConstValue DEF Register, General
<1>2. kernel_segments(c) = d
  BY DEF kernel_segments, Cpu
<1>3. a \in Cpu /\ a.stack = c.stack /\ a.reg = [c.reg EXCEPT !["ds"] = Const(16)]
  BY <1>1, WithReg
<1> HIDE DEF a
<1>4. b \in Cpu /\ b.stack = a.stack /\ b.reg = [a.reg EXCEPT !["es"] = Const(16)]
  BY <1>1, <1>3, WithReg
<1> HIDE DEF b
<1>5. d \in Cpu /\ d.stack = b.stack /\ d.reg = [b.reg EXCEPT !["fs"] = Const(16)]
  BY <1>1, <1>4, WithReg
<1> HIDE DEF d
<1>6. c.reg \in [Register -> Value] /\ a.reg \in [Register -> Value] /\ b.reg \in [Register -> Value]
  BY <1>3, <1>4 DEF Cpu
<1>7. /\ \A r \in {"ds", "es", "fs"} : d.reg[r] = Const(16)
      /\ \A r \in Register \ {"ds", "es", "fs"} : d.reg[r] = c.reg[r]
  BY <1>1, <1>3, <1>4, <1>5, <1>6
<1> QED
  BY <1>2, <1>3, <1>4, <1>5, <1>7

(* The arguments of the C function above a frame: an error code, and the   *)
(* address of the slot with the interrupted eip.                           *)
Arguments(d, p, errcode, r) ==
    /\ p \in Cpu /\ Len(p.stack) = 15
    /\ \A i \in 1 .. 13 : p.stack[i] = d.stack[i]
    /\ p.stack[14] = errcode /\ p.stack[15] = <<"slot", 3>>
    /\ \A q \in {"ds", "es", "fs"} : p.reg[q] = Const(16)
    /\ \A q \in Register \ {r, "ds", "es", "fs"} : p.reg[q] = d.reg[q]

(* push_args leaves the frame alone and puts the arguments above it. *)
LEMMA PushArgsFacts ==
    ASSUME NEW d \in Cpu, Len(d.stack) = 13, NEW errcode \in Value, NEW r \in Register
    PROVE  Arguments(d, push_args(d, errcode, r), errcode, r)
<1> DEFINE a == push(d, errcode)
           v == <<"slot", slot(a, frame_offset)>>
           b == [a EXCEPT !.reg[r] = v]
           x == push(b, b.reg[r])
           y == [x EXCEPT !.reg[r] = Const(16)]
           p == push_args(d, errcode, r)
<1>1. p = kernel_segments(y)
  BY DEF push_args
<1> HIDE DEF p
<1>2. Above(d, a, 1) /\ a.stack[13 + 1] = errcode
  BY PushFacts
<1> HIDE DEF a
<1>3. a \in Cpu /\ Len(a.stack) = 14 /\ a.reg = d.reg
      /\ a.stack[14] = errcode /\ \A i \in 1 .. 13 : a.stack[i] = d.stack[i]
  BY <1>2 DEF Above
<1>4. v = <<"slot", 3>> /\ v \in Value
  <2>1. slot(a, frame_offset) = 3 /\ 3 \in Int
    BY <1>3 DEF slot, frame_offset
  <2> QED
    BY <2>1, SlotValue
<1> HIDE DEF v
<1>5. b \in Cpu /\ b.stack = a.stack /\ b.reg = [a.reg EXCEPT ![r] = v]
  BY <1>3, <1>4, WithReg
<1> HIDE DEF b
<1>6. /\ a.reg \in [Register -> Value] /\ b.reg \in [Register -> Value]
      /\ b.reg[r] = v /\ \A q \in Register : q # r => b.reg[q] = d.reg[q]
  <2>1. a.reg \in [Register -> Value] /\ b.reg \in [Register -> Value]
    BY <1>3, <1>5 DEF Cpu
  <2> QED
    BY <1>3, <1>5, <2>1
<1>7. Above(b, x, 1) /\ x.stack[Len(b.stack) + 1] = v
  <2>1. b.reg[r] \in Value
    BY <1>4, <1>6
  <2>2. Above(b, x, 1) /\ x.stack[Len(b.stack) + 1] = b.reg[r]
    BY <1>5, <2>1, PushFacts
  <2> QED
    BY <1>6, <2>2
<1> HIDE DEF x
<1>8. /\ x \in Cpu /\ Len(x.stack) = 15 /\ x.reg = b.reg /\ x.stack[15] = v
      /\ x.stack[14] = errcode /\ \A i \in 1 .. 13 : x.stack[i] = d.stack[i]
  <2>1. Len(b.stack) = 14
    BY <1>3, <1>5
  <2>2. 14 \in 1 .. Len(b.stack) /\ (\A i \in 1 .. 13 : i \in 1 .. Len(b.stack))
        /\ Len(b.stack) + 1 = 15
    BY <2>1
  <2>3. /\ x \in Cpu /\ x.reg = b.reg /\ Len(x.stack) = Len(b.stack) + 1
        /\ \A i \in 1 .. Len(b.stack) : x.stack[i] = b.stack[i]
    BY <1>7 DEF Above
  <2> DEFINE s == b.stack
  <2>7. s[14] = errcode /\ \A i \in 1 .. 13 : s[i] = d.stack[i]
    BY <1>3, <1>5
  <2>8. \A i \in 1 .. 14 : x.stack[i] = s[i]
    BY <2>1, <2>3
  <2> HIDE DEF s
  <2>4. x.stack[14] = errcode
    BY <2>7, <2>8
  <2>5. \A i \in 1 .. 13 : x.stack[i] = d.stack[i]
    BY <2>7, <2>8
  <2>6. Len(x.stack) = 15 /\ x.stack[15] = v
    BY <1>7, <2>2, <2>3
  <2> QED
    BY <2>3, <2>4, <2>5, <2>6
<1>9. y \in Cpu /\ y.stack = x.stack /\ y.reg = [x.reg EXCEPT ![r] = Const(16)]
  <2>1. Const(16) \in Value
    BY ConstValue
  <2> QED
    BY <1>8, <2>1, WithReg
<1> HIDE DEF y
<1>10. \A q \in Register : q # r => y.reg[q] = d.reg[q]
  BY <1>6, <1>8, <1>9
<1>11. /\ p \in Cpu /\ p.stack = y.stack
       /\ \A q \in {"ds", "es", "fs"} : p.reg[q] = Const(16)
       /\ \A q \in Register \ {"ds", "es", "fs"} : p.reg[q] = y.reg[q]
  BY <1>1, <1>9, KernelSegments
<1>12. /\ Len(p.stack) = 15 /\ p.stack[14] = errcode /\ p.stack[15] = <<"slot", 3>>
       /\ \A i \in 1 .. 13 : p.stack[i] = d.stack[i]
  BY <1>4, <1>8, <1>9, <1>11
<1>13. \A q \in Register \ {r, "ds", "es", "fs"} : p.reg[q] = d.reg[q]
  BY <1>10, <1>11
<1> QED
  BY <1>11, <1>12, <1>13 DEF Arguments, p

(* What the entries pop is what they pushed, register by register.         *)
LEMMA LeaveFacts ==
    ASSUME NEW c \in Cpu, NEW d, NEW p, NEW errcode, NEW r,
           c.stack = << >>, Framed(c, d), Arguments(d, p, errcode, r)
    PROVE  leave(p) = c
<1> DEFINE rs == <<"fs", "es", "ds", "ebp", "esi", "edi", "edx", "ecx", "ebx", "eax">>
           a  == drop(p, 8)
           h  == pop_regs(a, rs)
           e  == iret(h)
<1>1. leave(p) = e
  BY DEF leave
<1>2. /\ rs \in Seq(Register) /\ Len(rs) = 10
      /\ rs[1] = "fs" /\ rs[2] = "es" /\ rs[3] = "ds" /\ rs[4] = "ebp" /\ rs[5] = "esi"
      /\ rs[6] = "edi" /\ rs[7] = "edx" /\ rs[8] = "ecx" /\ rs[9] = "ebx" /\ rs[10] = "eax"
  BY DEF Register, General
<1> HIDE DEF rs
<1>3. p \in Cpu /\ Len(p.stack) = 15 /\ \A i \in 1 .. 13 : p.stack[i] = d.stack[i]
  BY DEF Arguments
<1>4. a \in Cpu /\ Len(a.stack) = 13 /\ \A i \in 1 .. 13 : a.stack[i] = d.stack[i]
  <2> DEFINE s == SubSeq(p.stack, 1, 13)
  <2>1. p.stack \in Seq(Value) /\ p.reg \in [Register -> Value]
    BY <1>3 DEF Cpu
  <2>2. s \in Seq(Value) /\ Len(s) = 13 /\ \A i \in 1 .. 13 : s[i] = p.stack[i]
    <3> DEFINE q == p.stack
    <3>1. q \in Seq(Value) /\ 13 \in Nat /\ 13 <= Len(q)
      BY <1>3, <2>1
    <3> HIDE DEF q
    <3>2. /\ SubSeq(q, 1, 13) \in Seq(Value) /\ Len(SubSeq(q, 1, 13)) = 13
          /\ \A i \in 1 .. 13 : SubSeq(q, 1, 13)[i] = q[i]
      BY <3>1, FrontOf
    <3> QED
      BY <3>2 DEF q
  <2>3. a = [p EXCEPT !.stack = s]
    <3>1. 8 \div 4 = 2 /\ Len(p.stack) - 2 = 13
      BY <1>3
    <3> QED
      BY <3>1 DEF drop
  <2> HIDE DEF s, a
  <2>4. a = [stack |-> s, reg |-> p.reg]
    BY <1>3, <2>2, <2>3, WithStack
  <2>5. a \in Cpu /\ a.stack = s
    BY <2>1, <2>2, <2>4 DEF Cpu
  <2> QED
    BY <1>3, <2>2, <2>5
<1> HIDE DEF a
<1>5. \A j, k \in 1 .. 10 : rs[j] = rs[k] => j = k
  BY <1>2
<1>6. Popped(a, h, rs)
  <2>1. \A i \in 1 .. Len(rs) : \E k \in 1 .. Len(rs) :
            rs[k] = rs[i] /\ \A j \in 1 .. Len(rs) : rs[j] = rs[k] => j <= k
    BY <1>2, <1>5
  <2>2. Len(rs) <= Len(a.stack)
    BY <1>2, <1>4
  <2> QED
    BY <1>2, <1>4, <2>1, <2>2, PopFacts
<1> HIDE DEF h
<1>7. /\ h \in Cpu /\ Len(h.stack) = 3
      /\ h.stack[1] = c.reg["eflags"] /\ h.stack[2] = c.reg["cs"] /\ h.stack[3] = c.reg["eip"]
  <2>1. /\ h \in Cpu /\ Len(h.stack) = 3 /\ \A i \in 1 .. 3 : h.stack[i] = a.stack[i]
    BY <1>2, <1>4, <1>6 DEF Popped
  <2> QED
    BY <1>4, <2>1 DEF Framed
<1>8. \A k \in 1 .. 10 : h.reg[rs[k]] = d.stack[14 - k]
  <2> SUFFICES ASSUME NEW k \in 1 .. 10 PROVE h.reg[rs[k]] = d.stack[14 - k]
    OBVIOUS
  <2>1. k \in 1 .. Len(rs) /\ \A j \in 1 .. Len(rs) : rs[j] = rs[k] => j <= k
    BY <1>2, <1>5
  <2>2. Len(a.stack) + 1 - k = 14 - k /\ 14 - k \in 1 .. 13
    BY <1>4
  <2>3. h.reg[rs[k]] = a.stack[Len(a.stack) + 1 - k]
    BY <1>6, <2>1 DEF Popped
  <2> QED
    BY <1>4, <2>2, <2>3
<1>9. /\ h.reg["fs"] = c.reg["fs"] /\ h.reg["es"] = c.reg["es"] /\ h.reg["ds"] = c.reg["ds"]
      /\ h.reg["ebp"] = c.reg["ebp"] /\ h.reg["esi"] = c.reg["esi"]
      /\ h.reg["edi"] = c.reg["edi"] /\ h.reg["edx"] = c.reg["edx"]
      /\ h.reg["ecx"] = c.reg["ecx"] /\ h.reg["ebx"] = c.reg["ebx"]
      /\ h.reg["eax"] = c.reg["eax"]
  <2>1. /\ h.reg[rs[1]] = d.stack[13] /\ h.reg[rs[2]] = d.stack[12] /\ h.reg[rs[3]] = d.stack[11]
        /\ h.reg[rs[4]] = d.stack[10] /\ h.reg[rs[5]] = d.stack[9] /\ h.reg[rs[6]] = d.stack[8]
        /\ h.reg[rs[7]] = d.stack[7] /\ h.reg[rs[8]] = d.stack[6] /\ h.reg[rs[9]] = d.stack[5]
        /\ h.reg[rs[10]] = d.stack[4]
    BY <1>8
  <2> QED
    BY <1>2, <2>1 DEF Framed
<1>10. /\ e \in Cpu /\ Len(e.stack) = 0
       /\ e.reg["eip"] = h.stack[3] /\ e.reg["cs"] = h.stack[2] /\ e.reg["eflags"] = h.stack[1]
       /\ \A q \in Register \ {"eip", "cs", "eflags"} : e.reg[q] = h.reg[q]
  <2>1. 0 \in Nat /\ Len(h.stack) = 0 + 3
    BY <1>7
  <2>2. /\ e \in Cpu /\ Len(e.stack) = 0
        /\ e.reg["eip"] = h.stack[0 + 3] /\ e.reg["cs"] = h.stack[0 + 2]
        /\ e.reg["eflags"] = h.stack[0 + 1]
        /\ \A q \in Register \ {"eip", "cs", "eflags"} : e.reg[q] = h.reg[q]
    BY <1>7, <2>1, IretFacts
  <2> QED
    BY <2>2
<1> HIDE DEF e
<1>11. \A q \in Register : e.reg[q] = c.reg[q]
  BY <1>7, <1>9, <1>10 DEF Register, General
<1>12. e.stack = << >>
  BY <1>10, EmptySeq DEF Cpu
<1>13. e.reg = c.reg
  BY <1>10, <1>11 DEF Cpu
<1>14. e = c
  BY <1>10, <1>12, <1>13 DEF Cpu
<1> QED
  BY <1>1, <1>14
-----------------------------------------------------------------------------
(* The gates of both kinds lead where they were made to lead.              *)
LEMMA GateFacts ==
    ASSUME NEW e \in DOMAIN Address
    PROVE  /\ Usable(default_gate(e)) /\ Target(default_gate(e)) = e
           /\ Type(default_gate(e)) = INTR_GATE
           /\ Usable(set_trap_gate(e)) /\ Target(set_trap_gate(e)) = e
           /\ Type(set_trap_gate(e)) = TRAP_GATE
<1> DEFINE g == default_gate(e)
           t == set_trap_gate(e)
<1>1. /\ Address[e] = <<Address[e][1], Address[e][2]>>
      /\ \A f \in DOMAIN Address : Address[f] = Address[e] => f = e
  BY AddressAssumption
<1>2. /\ g[1] = Address[e][2] /\ g[2] = 8 /\ g[3] = 36352 /\ g[4] = Address[e][1]
      /\ t[1] = Address[e][2] /\ t[2] = 8 /\ t[3] = 36608 /\ t[4] = Address[e][1]
  BY DEF default_gate, idt_desc, set_trap_gate, _set_gate, TRAP_GATE
<1> HIDE DEF g, t
<1>3. <<g[4], g[1]>> = Address[e] /\ <<t[4], t[1]>> = Address[e]
  BY <1>1, <1>2
<1>4. Target(g) = e /\ Target(t) = e
  BY <1>1, <1>3 DEF Target
<1>5. Type(g) = INTR_GATE /\ Type(t) = TRAP_GATE
  BY <1>2 DEF Type, INTR_GATE, TRAP_GATE
<1>6. Usable(g) /\ Usable(t)
  <2>1. /\ 36352 \div 32768 = 1 /\ (36352 \div 4096) % 2 = 0
        /\ 36608 \div 32768 = 1 /\ (36608 \div 4096) % 2 = 0
    OBVIOUS
  <2> QED
    BY <1>2, <1>3, <1>5, <2>1 DEF Usable
<1> QED
  BY <1>4, <1>5, <1>6 DEF g, t

(* The exceptions with a trap gate lead to entries of irq_entry.S. *)
LEMMA EntryNames ==
    /\ DOMAIN trap_gates = {0, 4, 5, 6, 7, 8, 10, 11, 12, 13, 14}
    /\ \A v \in DOMAIN trap_gates :
          trap_gates[v] \in (DOMAIN entries \intersect DOMAIN Address) \ {"ignore_int"}
    /\ "ignore_int" \in DOMAIN Address
<1>1. DOMAIN entries =
        {"divide_error", "dev_noavailable", "invalid_opcode", "overflow_trap", "bounds_error",
         "double_fault", "gp_exception", "page_fault", "stack_fault", "seg_nopresent",
         "invalid_tss"}
  BY DEF entries
<1>2. DOMAIN entries \union {"ignore_int"} = DOMAIN Address
  BY InterruptsAssumption
<1>3. /\ DOMAIN trap_gates = {0, 4, 5, 6, 7, 8, 10, 11, 12, 13, 14}
      /\ \A v \in DOMAIN trap_gates : trap_gates[v] \in DOMAIN entries
  BY <1>1 DEF trap_gates
<1>4. "ignore_int" \notin DOMAIN entries
  BY <1>1
<1> QED
  BY <1>2, <1>3, <1>4
-----------------------------------------------------------------------------
(* The words that the kernel writes to the controllers.                    *)
LEMMA Words ==
    /\ 4 \in Bits(17)
    /\ Bits(251) = Line \ {2} /\ Bits(255) = Line
<1>1. /\ 2^0 = 1 /\ 2^1 = 2 /\ 2^2 = 4 /\ 2^3 = 8 /\ 2^4 = 16 /\ 2^5 = 32 /\ 2^6 = 64
      /\ 2^7 = 128
  OBVIOUS
<1>2. ASSUME NEW k \in Line
      PROVE  /\ ((251 \div 2^k) % 2 = 1) <=> k # 2
             /\ (255 \div 2^k) % 2 = 1
  <2>1. k \in {0, 1, 2, 3, 4, 5, 6, 7}
    BY DEF Line
  <2>2. CASE k = 0
    BY <1>1, <2>2
  <2>3. CASE k = 1
    BY <1>1, <2>3
  <2>4. CASE k = 2
    BY <1>1, <2>4
  <2>5. CASE k = 3
    BY <1>1, <2>5
  <2>6. CASE k = 4
    BY <1>1, <2>6
  <2>7. CASE k = 5
    BY <1>1, <2>7
  <2>8. CASE k = 6
    BY <1>1, <2>8
  <2>9. CASE k = 7
    BY <1>1, <2>9
  <2> QED
    BY <2>1, <2>2, <2>3, <2>4, <2>5, <2>6, <2>7, <2>8, <2>9
<1>3. 4 \in Bits(17)
  BY <1>1 DEF Bits, Line
<1> QED
  BY <1>2, <1>3 DEF Bits

(* The output of the slave may latch line 2 and changes nothing else. *)
LEMMA BecomeFacts ==
    ASSUME NEW m \in Chip, NEW s \in Chip, Become(m, s)
    PROVE  /\ slave' = s /\ master' \in Chip
           /\ master'.imr = m.imr /\ master'.base = m.base /\ master'.expect = m.expect
           /\ Requesting(s) = {} => master' = m
<1>1. slave' = s /\ (master' = m \/ master' = [m EXCEPT !.irr = @ \union {2}])
      /\ (Requesting(s) = {} => master' = m)
  BY DEF Become
<1>2. 2 \in Line
  BY DEF Line
<1>3. [m EXCEPT !.irr = @ \union {2}] \in Chip
  BY <1>2 DEF Chip
<1> QED
  BY <1>1, <1>3 DEF Chip

(* ICW1 to either chip. *)
LEMMA CommandFacts ==
    ASSUME NEW chip \in Chip
    PROVE  /\ command(chip, 17) \in Chip
           /\ command(chip, 17).expect = "ICW2" /\ command(chip, 17).base = chip.base
  BY ZenonT(40), Words DEF command, Chip

(* What a word to its data port makes of a chip, by what it expects. *)
Takes(chip, val, then) ==
    /\ chip.expect = "ICW2" => then.base = (val \div 8) * 8 /\ then.expect = "ICW3"
    /\ chip.expect = "ICW3" => then.base = chip.base /\ then.expect = "ICW4"
    /\ chip.expect = "ICW4" => then.base = chip.base /\ then.expect = "OCW1"
    /\ chip.expect = "OCW1" =>
          then.base = chip.base /\ then.expect = "OCW1" /\ then.imr = Bits(val)

LEMMA DataFacts ==
    ASSUME NEW chip \in Chip, NEW val \in 0 .. 255
    PROVE  data(chip, val) \in Chip /\ Takes(chip, val, data(chip, val))
<1>1. (val \div 8) * 8 \in 0 .. 255 /\ Bits(val) \in SUBSET Line
  BY DEF Bits
<1>2. chip.expect \in {"ICW2", "ICW3", "ICW4", "OCW1"}
  BY DEF Chip
<1>3. CASE chip.expect = "ICW2"
  BY <1>1, <1>3 DEF data, Chip, Takes
<1>4. CASE chip.expect = "ICW3"
  BY <1>4 DEF data, Chip, Takes
<1>5. CASE chip.expect = "ICW4"
  BY <1>5 DEF data, Chip, Takes
<1>6. CASE chip.expect = "OCW1"
  BY <1>1, <1>6 DEF data, Chip, Takes
<1> QED
  BY <1>2, <1>3, <1>4, <1>5, <1>6
-----------------------------------------------------------------------------
(* What the first n words of init_8259A have done to the controllers.      *)
Initialised(n) ==
    /\ n \in {1, 2} => master.expect = "ICW2"
    /\ n \in {3, 4} => master.expect = "ICW3"
    /\ n \in {5, 6} => master.expect = "ICW4"
    /\ n \in {7, 8, 9, 10} => master.expect = "OCW1"
    /\ n \in 3 .. 10 => master.base = 32
    /\ n \in {9, 10} => master.imr = Line \ {2}
    /\ n \in {2, 3} => slave.expect = "ICW2"
    /\ n \in {4, 5} => slave.expect = "ICW3"
    /\ n \in {6, 7} => slave.expect = "ICW4"
    /\ n \in {8, 9, 10} => slave.expect = "OCW1"
    /\ n \in 4 .. 10 => slave.base = 40
    /\ n = 10 => slave.imr = Line

Chips == master \in Chip /\ slave \in Chip

(* A write to a data port leaves the controllers well formed. *)
LEMMA OutbChips ==
    ASSUME Chips, NEW val \in 0 .. 255, NEW port \in {33, 161}, outb(val, port)
    PROVE  Chips'
<1>1. /\ data(master, val) \in Chip /\ data(slave, val) \in Chip
  <2>1. master \in Chip /\ slave \in Chip
    BY DEF Chips
  <2> QED
    BY <2>1, DataFacts
<1>2. CASE port = 33
  <2>1. Become(data(master, val), slave)
    BY <1>2 DEF outb
  <2> QED
    BY <1>1, <2>1, BecomeFacts DEF Chips
<1>3. CASE port = 161
  <2>1. Become(master, data(slave, val))
    BY <1>3 DEF outb
  <2> QED
    BY <1>1, <2>1, BecomeFacts DEF Chips
<1> QED
  BY <1>2, <1>3

(* The steps of init_8259A on the master and on the slave. *)
LEMMA MasterData ==
    ASSUME Chips, NEW val \in 0 .. 255, outb(val, 33)
    PROVE  Chips' /\ slave' = slave /\ Takes(master, val, master')
<1> DEFINE d == data(master, val)
<1>1. master \in Chip /\ slave \in Chip
  BY DEF Chips
<1>2. d \in Chip /\ Takes(master, val, d)
  BY <1>1, DataFacts
<1>3. Become(d, slave)
  BY DEF outb
<1> HIDE DEF d
<1>4. /\ slave' = slave /\ master' \in Chip
      /\ master'.imr = d.imr /\ master'.base = d.base /\ master'.expect = d.expect
  BY <1>1, <1>2, <1>3, BecomeFacts
<1>5. Takes(master, val, master')
  BY <1>2, <1>4 DEF Takes
<1> QED
  BY <1>1, <1>4, <1>5 DEF Chips

(* A word to the data port of the slave. *)
LEMMA SlaveData ==
    ASSUME Chips, NEW val \in 0 .. 255, outb(val, 161)
    PROVE  /\ Chips'
           /\ master'.imr = master.imr /\ master'.base = master.base
           /\ master'.expect = master.expect
           /\ Takes(slave, val, slave')
<1> DEFINE d == data(slave, val)
<1>1. master \in Chip /\ slave \in Chip
  BY DEF Chips
<1>2. d \in Chip /\ Takes(slave, val, d)
  BY <1>1, DataFacts
<1>3. Become(master, d)
  BY DEF outb
<1> HIDE DEF d
<1>4. /\ slave' = d /\ master' \in Chip
      /\ master'.imr = master.imr /\ master'.base = master.base /\ master'.expect = master.expect
  BY <1>1, <1>2, <1>3, BecomeFacts
<1> QED
  BY <1>1, <1>2, <1>4 DEF Chips

(* ICW1 to the master. *)
LEMMA MasterCommand ==
    ASSUME Chips, outb(17, 32)
    PROVE  Chips' /\ slave' = slave /\ master'.expect = "ICW2"
<1> DEFINE d == command(master, 17)
<1>1. d \in Chip /\ d.expect = "ICW2"
  BY CommandFacts DEF Chips
<1>2. Become(d, slave)
  BY DEF outb
<1> HIDE DEF d
<1> QED
  BY <1>1, <1>2, BecomeFacts DEF Chips

(* ICW1 to the slave. *)
LEMMA SlaveCommand ==
    ASSUME Chips, outb(17, 160)
    PROVE  /\ Chips' /\ slave'.expect = "ICW2"
           /\ master'.imr = master.imr /\ master'.base = master.base
           /\ master'.expect = master.expect
<1> DEFINE d == command(slave, 17)
<1>1. d \in Chip /\ d.expect = "ICW2"
  BY CommandFacts DEF Chips
<1>2. Become(master, d)
  BY DEF outb
<1> HIDE DEF d
<1> QED
  BY <1>1, <1>2, BecomeFacts DEF Chips

(* One more word of init_8259A. *)
LEMMA WriteInitialises ==
    ASSUME Chips, NEW n \in 0 .. 9, Initialised(n),
           outb(init_8259A[n + 1][1], init_8259A[n + 1][2])
    PROVE  Chips' /\ Initialised(n + 1)'
<1>1. n \in {0, 1, 2, 3, 4, 5, 6, 7, 8, 9}
  OBVIOUS
<1>2. CASE n = 0
  <2>1. outb(17, 32)
    BY <1>2 DEF init_8259A
  <2> QED
    BY <1>2, <2>1, MasterCommand DEF Initialised
<1>3. CASE n = 1
  <2>1. outb(17, 160)
    BY <1>3 DEF init_8259A
  <2> QED
    BY <1>3, <2>1, SlaveCommand DEF Initialised
<1>4. CASE n = 2
  <2>1. outb(32, 33) /\ (32 \div 8) * 8 = 32
    BY <1>4 DEF init_8259A
  <2>2. Chips' /\ Takes(master, 32, master')
    BY <2>1, MasterData
  <2>3. slave' = slave
    BY <2>1, MasterData
  <2> QED
    BY <1>4, <2>1, <2>2, <2>3 DEF Initialised, Takes
<1>5. CASE n = 3
  <2>1. outb(40, 161) /\ (40 \div 8) * 8 = 40
    BY <1>5 DEF init_8259A
  <2>2. Chips' /\ Takes(slave, 40, slave')
    BY <2>1, SlaveData
  <2>3. /\ master'.imr = master.imr /\ master'.base = master.base
        /\ master'.expect = master.expect
    BY <2>1, SlaveData
  <2> QED
    BY <1>5, <2>1, <2>2, <2>3 DEF Initialised, Takes
<1>6. CASE n = 4
  <2>1. outb(4, 33)
    BY <1>6 DEF init_8259A
  <2>2. Chips' /\ Takes(master, 4, master')
    BY <2>1, MasterData
  <2>3. slave' = slave
    BY <2>1, MasterData
  <2> QED
    BY <1>6, <2>1, <2>2, <2>3 DEF Initialised, Takes
<1>7. CASE n = 5
  <2>1. outb(2, 161)
    BY <1>7 DEF init_8259A
  <2>2. Chips' /\ Takes(slave, 2, slave')
    BY <2>1, SlaveData
  <2>3. /\ master'.imr = master.imr /\ master'.base = master.base
        /\ master'.expect = master.expect
    BY <2>1, SlaveData
  <2> QED
    BY <1>7, <2>1, <2>2, <2>3 DEF Initialised, Takes
<1>8. CASE n = 6
  <2>1. outb(1, 33)
    BY <1>8 DEF init_8259A
  <2>2. Chips' /\ Takes(master, 1, master')
    BY <2>1, MasterData
  <2>3. slave' = slave
    BY <2>1, MasterData
  <2> QED
    BY <1>8, <2>1, <2>2, <2>3 DEF Initialised, Takes
<1>9. CASE n = 7
  <2>1. outb(1, 161)
    BY <1>9 DEF init_8259A
  <2>2. Chips' /\ Takes(slave, 1, slave')
    BY <2>1, SlaveData
  <2>3. /\ master'.imr = master.imr /\ master'.base = master.base
        /\ master'.expect = master.expect
    BY <2>1, SlaveData
  <2> QED
    BY <1>9, <2>1, <2>2, <2>3 DEF Initialised, Takes
<1>10. CASE n = 8
  <2>1. outb(251, 33)
    BY <1>10 DEF init_8259A
  <2>2. Chips' /\ Takes(master, 251, master')
    BY <2>1, MasterData
  <2>3. slave' = slave
    BY <2>1, MasterData
  <2> QED
    BY <1>10, <2>1, <2>2, <2>3, Words DEF Initialised, Takes
<1>11. CASE n = 9
  <2>1. outb(255, 161)
    BY <1>11 DEF init_8259A
  <2>2. Chips' /\ Takes(slave, 255, slave')
    BY <2>1, SlaveData
  <2>3. /\ master'.imr = master.imr /\ master'.base = master.base
        /\ master'.expect = master.expect
    BY <2>1, SlaveData
  <2> QED
    BY <1>11, <2>1, <2>2, <2>3, Words DEF Initialised, Takes
<1> QED
  BY <1>1, <1>2, <1>3, <1>4, <1>5, <1>6, <1>7, <1>8, <1>9, <1>10, <1>11
-----------------------------------------------------------------------------
(* Where the gate of an exception leads, and what is called from there.    *)
LEMMA EntryOf ==
    ASSUME NEW v \in DOMAIN trap_gates
    PROVE  /\ <<v, entries[trap_gates[v]][1]>> \in INT_VECTOR
           /\ entries[trap_gates[v]][2] = "error_code" <=> v \in WithErrorCode
<1>1. v \in {0, 4, 5, 6, 7, 8, 10, 11, 12, 13, 14}
  BY EntryNames
<1>2. /\ trap_gates[0] = "divide_error"
      /\ trap_gates[4] = "overflow_trap"
      /\ trap_gates[5] = "bounds_error"
      /\ trap_gates[6] = "invalid_opcode"
      /\ trap_gates[7] = "dev_noavailable"
      /\ trap_gates[8] = "double_fault"
      /\ trap_gates[10] = "invalid_tss"
      /\ trap_gates[11] = "seg_nopresent"
      /\ trap_gates[12] = "stack_fault"
      /\ trap_gates[13] = "gp_exception"
      /\ trap_gates[14] = "page_fault"
  BY DEF trap_gates
<1>3. /\ entries["divide_error"] = <<"do_divide_error", "no_error_code">>
      /\ entries["overflow_trap"] = <<"do_overflow_trap", "no_error_code">>
      /\ entries["bounds_error"] = <<"do_bounds_error", "no_error_code">>
      /\ entries["invalid_opcode"] = <<"do_invalid_opcode", "no_error_code">>
      /\ entries["dev_noavailable"] = <<"do_dev_noavailable", "no_error_code">>
      /\ entries["double_fault"] = <<"do_double_fault", "error_code">>
      /\ entries["invalid_tss"] = <<"do_invalid_tss", "error_code">>
      /\ entries["seg_nopresent"] = <<"do_seg_nopresent", "error_code">>
      /\ entries["stack_fault"] = <<"do_stack_fault", "error_code">>
      /\ entries["gp_exception"] = <<"do_gp_exception", "error_code">>
      /\ entries["page_fault"] = <<"do_page_fault", "error_code">>
  BY DEF entries
<1>4. CASE v = 0
  <2>1. entries[trap_gates[v]] = <<"do_divide_error", "no_error_code">>
    BY <1>2, <1>3, <1>4
  <2>2. <<v, "do_divide_error">> \in INT_VECTOR
    BY <1>4 DEF INT_VECTOR
  <2>3. entries[trap_gates[v]][1] = "do_divide_error" /\ entries[trap_gates[v]][2] = "no_error_code"
    BY <2>1
  <2> QED
    BY <1>4, <2>2, <2>3 DEF WithErrorCode
<1>5. CASE v = 4
  <2>1. entries[trap_gates[v]] = <<"do_overflow_trap", "no_error_code">>
    BY <1>2, <1>3, <1>5
  <2>2. <<v, "do_overflow_trap">> \in INT_VECTOR
    BY <1>5 DEF INT_VECTOR
  <2>3. entries[trap_gates[v]][1] = "do_overflow_trap" /\ entries[trap_gates[v]][2] = "no_error_code"
    BY <2>1
  <2> QED
    BY <1>5, <2>2, <2>3 DEF WithErrorCode
<1>6. CASE v = 5
  <2>1. entries[trap_gates[v]] = <<"do_bounds_error", "no_error_code">>
    BY <1>2, <1>3, <1>6
  <2>2. <<v, "do_bounds_error">> \in INT_VECTOR
    BY <1>6 DEF INT_VECTOR
  <2>3. entries[trap_gates[v]][1] = "do_bounds_error" /\ entries[trap_gates[v]][2] = "no_error_code"
    BY <2>1
  <2> QED
    BY <1>6, <2>2, <2>3 DEF WithErrorCode
<1>7. CASE v = 6
  <2>1. entries[trap_gates[v]] = <<"do_invalid_opcode", "no_error_code">>
    BY <1>2, <1>3, <1>7
  <2>2. <<v, "do_invalid_opcode">> \in INT_VECTOR
    BY <1>7 DEF INT_VECTOR
  <2>3. entries[trap_gates[v]][1] = "do_invalid_opcode" /\ entries[trap_gates[v]][2] = "no_error_code"
    BY <2>1
  <2> QED
    BY <1>7, <2>2, <2>3 DEF WithErrorCode
<1>8. CASE v = 7
  <2>1. entries[trap_gates[v]] = <<"do_dev_noavailable", "no_error_code">>
    BY <1>2, <1>3, <1>8
  <2>2. <<v, "do_dev_noavailable">> \in INT_VECTOR
    BY <1>8 DEF INT_VECTOR
  <2>3. entries[trap_gates[v]][1] = "do_dev_noavailable" /\ entries[trap_gates[v]][2] = "no_error_code"
    BY <2>1
  <2> QED
    BY <1>8, <2>2, <2>3 DEF WithErrorCode
<1>9. CASE v = 8
  <2>1. entries[trap_gates[v]] = <<"do_double_fault", "error_code">>
    BY <1>2, <1>3, <1>9
  <2>2. <<v, "do_double_fault">> \in INT_VECTOR
    BY <1>9 DEF INT_VECTOR
  <2>3. entries[trap_gates[v]][1] = "do_double_fault" /\ entries[trap_gates[v]][2] = "error_code"
    BY <2>1
  <2> QED
    BY <1>9, <2>2, <2>3 DEF WithErrorCode
<1>10. CASE v = 10
  <2>1. entries[trap_gates[v]] = <<"do_invalid_tss", "error_code">>
    BY <1>2, <1>3, <1>10
  <2>2. <<v, "do_invalid_tss">> \in INT_VECTOR
    BY <1>10 DEF INT_VECTOR
  <2>3. entries[trap_gates[v]][1] = "do_invalid_tss" /\ entries[trap_gates[v]][2] = "error_code"
    BY <2>1
  <2> QED
    BY <1>10, <2>2, <2>3 DEF WithErrorCode
<1>11. CASE v = 11
  <2>1. entries[trap_gates[v]] = <<"do_seg_nopresent", "error_code">>
    BY <1>2, <1>3, <1>11
  <2>2. <<v, "do_seg_nopresent">> \in INT_VECTOR
    BY <1>11 DEF INT_VECTOR
  <2>3. entries[trap_gates[v]][1] = "do_seg_nopresent" /\ entries[trap_gates[v]][2] = "error_code"
    BY <2>1
  <2> QED
    BY <1>11, <2>2, <2>3 DEF WithErrorCode
<1>12. CASE v = 12
  <2>1. entries[trap_gates[v]] = <<"do_stack_fault", "error_code">>
    BY <1>2, <1>3, <1>12
  <2>2. <<v, "do_stack_fault">> \in INT_VECTOR
    BY <1>12 DEF INT_VECTOR
  <2>3. entries[trap_gates[v]][1] = "do_stack_fault" /\ entries[trap_gates[v]][2] = "error_code"
    BY <2>1
  <2> QED
    BY <1>12, <2>2, <2>3 DEF WithErrorCode
<1>13. CASE v = 13
  <2>1. entries[trap_gates[v]] = <<"do_gp_exception", "error_code">>
    BY <1>2, <1>3, <1>13
  <2>2. <<v, "do_gp_exception">> \in INT_VECTOR
    BY <1>13 DEF INT_VECTOR
  <2>3. entries[trap_gates[v]][1] = "do_gp_exception" /\ entries[trap_gates[v]][2] = "error_code"
    BY <2>1
  <2> QED
    BY <1>13, <2>2, <2>3 DEF WithErrorCode
<1>14. CASE v = 14
  <2>1. entries[trap_gates[v]] = <<"do_page_fault", "error_code">>
    BY <1>2, <1>3, <1>14
  <2>2. <<v, "do_page_fault">> \in INT_VECTOR
    BY <1>14 DEF INT_VECTOR
  <2>3. entries[trap_gates[v]][1] = "do_page_fault" /\ entries[trap_gates[v]][2] = "error_code"
    BY <2>1
  <2> QED
    BY <1>14, <2>2, <2>3 DEF WithErrorCode
<1> QED
  BY <1>1, <1>4, <1>5, <1>6, <1>7, <1>8, <1>9, <1>10, <1>11, <1>12, <1>13, <1>14

(* The processor e in the handler called as k, entered from code with the  *)
(* processor c by exception v, with this error code.                       *)
SeesFrame(v, c, e, k, errcode) ==
    /\ <<v, k.function>> \in INT_VECTOR
    /\ k.errcode = errcode
    /\ k.esp = <<"slot", 3>>
    /\ e.stack[3] = c.reg["eip"] /\ e.stack[2] = c.reg["cs"] /\ e.stack[1] = c.reg["eflags"]
    /\ \A r \in {"ds", "es", "fs"} : e.reg[r] = Const(16)
    /\ e.reg["eflags"] = c.reg["eflags"]
    /\ leave(e) = c

(* The entry code of irq_entry.S and what its leave part undoes. *)
LEMMA HandlerFrame ==
    ASSUME NEW c \in Cpu, c.stack = << >>, NEW v \in DOMAIN trap_gates,
           NEW gate, Type(gate) # INTR_GATE
    PROVE  LET errcode == IF v \in WithErrorCode THEN <<<<"error", v>>>> ELSE << >>
               entry   == trap_gates[v]
               e       == enter(entry, Through(gate, c, errcode))
           IN  SeesFrame(v, c, e, call_of(entry, e),
                         IF errcode = << >> THEN Const(0) ELSE errcode[1])
<1> DEFINE entry == trap_gates[v]
           f     == <<"code", entries[entry][1]>>
<1>1. /\ entry \in DOMAIN entries /\ <<v, entries[entry][1]>> \in INT_VECTOR
      /\ entries[entry][2] = "error_code" <=> v \in WithErrorCode
      /\ v \in Int
  <2>1. v \in Int
    BY EntryNames
  <2> QED
    BY <2>1, EntryOf, EntryNames
<1>2. f \in Value /\ f[2] = entries[entry][1]
  BY <1>1 DEF Value
<1>3. Len(c.stack) = 0
  OBVIOUS
<1> HIDE DEF entry
<1>4. CASE v \notin WithErrorCode
  <2> DEFINE t == Through(gate, c, << >>)
             d == push_regs(xchg(push(t, f), "eax", 0), <<"ebx">> \o saved)
             e == enter(entry, t)
             k == call_of(entry, e)
  <2>1. e = push_args(d, Const(0), "edx")
    BY <1>1, <1>4 DEF enter, no_error_code
  <2>2. k = Call(e.reg["eax"], e)
    BY <1>1, <1>4 DEF call_of
  <2>3. /\ t \in Cpu /\ Len(t.stack) = 3 /\ t.reg = c.reg
        /\ t.stack[1] = c.reg["eflags"] /\ t.stack[2] = c.reg["cs"] /\ t.stack[3] = c.reg["eip"]
    <3>1. ASSUME NEW n \in Nat, Len(c.stack) = n
          PROVE  /\ t \in Cpu /\ Len(t.stack) = n + 3 /\ t.reg = c.reg
                 /\ t.stack[n + 1] = c.reg["eflags"] /\ t.stack[n + 2] = c.reg["cs"]
                 /\ t.stack[n + 3] = c.reg["eip"]
      BY <3>1, ThroughFacts
    <3> HIDE DEF t
    <3>2. PICK n \in Nat : n = 0
      OBVIOUS
    <3>3. Len(c.stack) = n
      BY <1>3, <3>2
    <3>4. /\ t \in Cpu /\ Len(t.stack) = n + 3 /\ t.reg = c.reg
          /\ t.stack[n + 1] = c.reg["eflags"] /\ t.stack[n + 2] = c.reg["cs"]
          /\ t.stack[n + 3] = c.reg["eip"]
      BY <3>1, <3>3, Zenon
    <3> QED
      BY <3>2, <3>4
  <2> HIDE DEF t, f
  <2>4. Framed(c, d) /\ d.reg["eax"] = f /\ d.reg["eflags"] = c.reg["eflags"]
    BY <1>2, <2>3, FrameWithoutCode
  <2> HIDE DEF d, e, k
  <2>5. d \in Cpu /\ Len(d.stack) = 13
    BY <2>4 DEF Framed
  <2>6. "edx" \in Register /\ Const(0) \in Value /\ "eax" \in Register \ {"edx", "ds", "es", "fs"}
        /\ "eflags" \in Register \ {"edx", "ds", "es", "fs"}
    BY ConstValue DEF Register, General
  <2>7. Arguments(d, e, Const(0), "edx")
    BY <2>1, <2>5, <2>6, PushArgsFacts
  <2>8. leave(e) = c
    BY <2>4, <2>7, LeaveFacts
  <2>9. /\ Len(e.stack) = 15 /\ e.stack[14] = Const(0) /\ e.stack[15] = <<"slot", 3>>
        /\ e.stack[1] = d.stack[1] /\ e.stack[2] = d.stack[2] /\ e.stack[3] = d.stack[3]
        /\ e.reg["eax"] = f /\ e.reg["eflags"] = c.reg["eflags"]
        /\ \A r \in {"ds", "es", "fs"} : e.reg[r] = Const(16)
    <3>1. 1 \in 1 .. 13 /\ 2 \in 1 .. 13 /\ 3 \in 1 .. 13
      OBVIOUS
    <3>2. /\ Len(e.stack) = 15 /\ e.stack[14] = Const(0) /\ e.stack[15] = <<"slot", 3>>
          /\ \A r \in {"ds", "es", "fs"} : e.reg[r] = Const(16)
      BY <2>7 DEF Arguments
    <3>3. e.stack[1] = d.stack[1] /\ e.stack[2] = d.stack[2] /\ e.stack[3] = d.stack[3]
      BY <2>7, <3>1 DEF Arguments
    <3>4. e.reg["eax"] = d.reg["eax"] /\ e.reg["eflags"] = d.reg["eflags"]
      BY <2>6, <2>7 DEF Arguments
    <3> QED
      BY <2>4, <3>2, <3>3, <3>4
  <2>10. k.function = f[2] /\ k.esp = <<"slot", 3>> /\ k.errcode = Const(0)
    BY <2>2, <2>9 DEF Call
  <2>11. SeesFrame(v, c, e, k, Const(0))
    BY <1>1, <1>2, <2>4, <2>8, <2>9, <2>10 DEF SeesFrame, Framed
  <2> QED
    BY <1>4, <2>11 DEF e, k, t, entry
<1>5. CASE v \in WithErrorCode
  <2> DEFINE u == <<"error", v>>
             t == Through(gate, c, <<u>>)
             d == push_regs(xchg(xchg(push(t, f), "eax", 4), "ebx", 0), saved)
             e == enter(entry, t)
             k == call_of(entry, e)
  <2>1. e = push_args(d, d.reg["eax"], "eax")
    BY <1>1, <1>5 DEF enter, error_code
  <2>2. k = Call(e.reg["ebx"], e)
    BY <1>1, <1>5 DEF call_of
  <2>3. u \in Value
    BY <1>1 DEF Value
  <2> HIDE DEF u
  <2>4. /\ t \in Cpu /\ Len(t.stack) = 4 /\ t.reg = c.reg
        /\ t.stack[1] = c.reg["eflags"] /\ t.stack[2] = c.reg["cs"] /\ t.stack[3] = c.reg["eip"]
        /\ t.stack[4] = u
    <3>1. ASSUME NEW n \in Nat, Len(c.stack) = n
          PROVE  /\ t \in Cpu /\ Len(t.stack) = n + 4 /\ t.reg = c.reg
                 /\ t.stack[n + 1] = c.reg["eflags"] /\ t.stack[n + 2] = c.reg["cs"]
                 /\ t.stack[n + 3] = c.reg["eip"] /\ t.stack[n + 4] = u
      BY <2>3, <3>1, ThroughWithCode
    <3> HIDE DEF t
    <3>2. PICK n \in Nat : n = 0
      OBVIOUS
    <3>3. Len(c.stack) = n
      BY <1>3, <3>2
    <3>4. /\ t \in Cpu /\ Len(t.stack) = n + 4 /\ t.reg = c.reg
          /\ t.stack[n + 1] = c.reg["eflags"] /\ t.stack[n + 2] = c.reg["cs"]
          /\ t.stack[n + 3] = c.reg["eip"] /\ t.stack[n + 4] = u
      BY <3>1, <3>3, Zenon
    <3> QED
      BY <3>2, <3>4
  <2> HIDE DEF t, f
  <2>5. /\ Framed(c, d) /\ d.reg["ebx"] = f /\ d.reg["eax"] = t.stack[4]
        /\ d.reg["eflags"] = c.reg["eflags"]
    BY <1>2, <2>4, FrameWithCode
  <2> HIDE DEF d, e, k
  <2>6. d \in Cpu /\ Len(d.stack) = 13 /\ d.reg["eax"] = u
    BY <2>4, <2>5 DEF Framed
  <2>7. "eax" \in Register /\ "ebx" \in Register \ {"eax", "ds", "es", "fs"}
        /\ "eflags" \in Register \ {"eax", "ds", "es", "fs"}
    BY DEF Register, General
  <2>8. Arguments(d, e, u, "eax")
    BY <2>1, <2>3, <2>6, <2>7, PushArgsFacts
  <2>9. leave(e) = c
    BY <2>5, <2>8, LeaveFacts
  <2>10. /\ Len(e.stack) = 15 /\ e.stack[14] = u /\ e.stack[15] = <<"slot", 3>>
         /\ e.stack[1] = d.stack[1] /\ e.stack[2] = d.stack[2] /\ e.stack[3] = d.stack[3]
         /\ e.reg["ebx"] = f /\ e.reg["eflags"] = c.reg["eflags"]
         /\ \A r \in {"ds", "es", "fs"} : e.reg[r] = Const(16)
    <3>1. 1 \in 1 .. 13 /\ 2 \in 1 .. 13 /\ 3 \in 1 .. 13
      OBVIOUS
    <3>2. /\ Len(e.stack) = 15 /\ e.stack[14] = u /\ e.stack[15] = <<"slot", 3>>
          /\ \A r \in {"ds", "es", "fs"} : e.reg[r] = Const(16)
      BY <2>8 DEF Arguments
    <3>3. e.stack[1] = d.stack[1] /\ e.stack[2] = d.stack[2] /\ e.stack[3] = d.stack[3]
      BY <2>8, <3>1 DEF Arguments
    <3>4. e.reg["ebx"] = d.reg["ebx"] /\ e.reg["eflags"] = d.reg["eflags"]
      BY <2>7, <2>8 DEF Arguments
    <3> QED
      BY <2>5, <3>2, <3>3, <3>4
  <2>11. k.function = f[2] /\ k.esp = <<"slot", 3>> /\ k.errcode = u
    BY <2>2, <2>10 DEF Call
  <2>12. SeesFrame(v, c, e, k, u)
    BY <1>1, <1>2, <2>5, <2>9, <2>10, <2>11 DEF SeesFrame, Framed
  <2>13. <<u>> # << >> /\ <<u>>[1] = u
    OBVIOUS
  <2> QED
    BY <1>5, <2>12, <2>13 DEF e, k, t, u, entry
<1> QED
  BY <1>4, <1>5
-----------------------------------------------------------------------------
(* The inductive invariant.  Interrupts are off until sti; by then the     *)
(* controllers are initialised with all lines masked but the one of the    *)
(* slave, which no device is on, so that what a chip still offers is a     *)
(* request that has gone.                                                  *)
Ready == {"traps_init", "mm_init", "idle", "handler", "die"}

Interrupted == Register \ {"ecx", "edx", "eflags"}

Controllers ==
    /\ Chips
    /\ stage \in {"boot_main", "irq_init", "init_8259A"} \union Ready
    /\ step \in 0 .. Len(Writes)
    /\ stage = "init_8259A" => Initialised(step)
    /\ stage \in Ready => Initialised(10)

Table ==
    /\ DOMAIN idt = 0 .. GateCount - 1
    /\ stage \in {"init_8259A", "traps_init"} =>
          \A v \in DOMAIN idt : idt[v] = default_gate("ignore_int")
    /\ stage \in Ready \ {"traps_init"} =>
          \A v \in DOMAIN idt :
             idt[v] = IF v \in DOMAIN trap_gates THEN set_trap_gate(trap_gates[v])
                      ELSE default_gate("ignore_int")

Processor ==
    /\ stage \notin {"handler", "die"} =>
          /\ cpu \in Cpu /\ cpu.stack = << >>
          /\ \A r \in Interrupted : cpu.reg[r] = <<"was", r>>
    /\ stage \notin {"idle", "handler", "die"} => ~IF_set(cpu) /\ accepted = {}
    /\ accepted \subseteq {39, 47}
    /\ stage = "idle" /\ accepted # {} => ~IF_set(cpu) /\ Cardinality(accepted) = 1
    /\ stage \in {"handler", "die"} => ~Accepts

Inv == Controllers /\ Table /\ Processor /\ HandlerSeesFrame

(* Through an interrupt gate to ignore_int and back. *)
LEMMA Ignored ==
    ASSUME NEW c \in Cpu, c.stack = << >>, NEW gate
    PROVE  LET d == ignore_int(Through(gate, c, << >>))
           IN  /\ d \in Cpu /\ d.stack = << >> /\ d.reg["eflags"] = Const(0)
               /\ \A r \in Interrupted : d.reg[r] = c.reg[r]
<1> DEFINE t == Through(gate, c, << >>)
           d == ignore_int(t)
<1>1. PICK n \in Nat : n = 0
  OBVIOUS
<1>2. Len(c.stack) = n
  BY <1>1
<1>3. /\ t \in Cpu /\ Len(t.stack) = n + 3
      /\ t.stack[n + 2] = c.reg["cs"] /\ t.stack[n + 3] = c.reg["eip"]
      /\ \A r \in Register \ {"eflags"} : t.reg[r] = c.reg[r]
  BY <1>2, ThroughFacts
<1> HIDE DEF t
<1>4. /\ d \in Cpu /\ Len(d.stack) = n
      /\ d.reg["eip"] = t.stack[n + 3] /\ d.reg["cs"] = t.stack[n + 2]
      /\ d.reg["eflags"] = Const(0)
      /\ \A r \in Register \ {"eip", "cs", "eflags", "ecx", "edx"} : d.reg[r] = t.reg[r]
  BY <1>3, IgnoreIntFacts
<1> HIDE DEF d
<1>5. d.stack = << >>
  BY <1>1, <1>4, EmptySeq DEF Cpu
<1>6. ASSUME NEW r \in Interrupted PROVE d.reg[r] = c.reg[r]
  <2>1. r \in Register /\ r # "eflags" /\ r # "ecx" /\ r # "edx"
    BY DEF Interrupted
  <2>2. CASE r = "eip"
    BY <1>3, <1>4, <2>2
  <2>3. CASE r = "cs"
    BY <1>3, <1>4, <2>3
  <2>4. CASE r # "eip" /\ r # "cs"
    <3>1. d.reg[r] = t.reg[r] /\ t.reg[r] = c.reg[r]
      BY <1>3, <1>4, <2>1, <2>4
    <3> QED
      BY <3>1
  <2> QED
    BY <2>2, <2>3, <2>4
<1> QED
  BY <1>4, <1>5, <1>6 DEF d, t

(* A device changes nothing but the requests that are latched, and none    *)
(* but the slave's output raises line 2 of the master.                     *)
LEMMA DeviceMoves ==
    ASSUME Chips, Request \/ Forget
    PROVE  \E m, s \in Chip :
              /\ Become(m, s)
              /\ m.irr \subseteq master.irr \union (Line \ {2})
              /\ m.imr = master.imr /\ m.base = master.base /\ m.expect = master.expect
              /\ s.imr = slave.imr /\ s.base = slave.base /\ s.expect = slave.expect
<1>1. master \in Chip /\ slave \in Chip
  BY DEF Chips
<1>2. PICK i \in 0 .. 15 :
         \/ Raise(i) /\ i # 2
         \/ Withdraw(i)
  BY InterruptsAssumption DEF Request, Forget
<1>3. CASE i < 8
  <2> DEFINE up == [master EXCEPT !.irr = @ \union {i}]
             dn == [master EXCEPT !.irr = @ \ {i}]
  <2>1. i \in Line
    BY <1>3 DEF Line
  <2>2. /\ up \in Chip /\ up.imr = master.imr /\ up.base = master.base
        /\ up.expect = master.expect /\ up.irr = master.irr \union {i}
    BY <1>1, <2>1 DEF Chip
  <2>3. /\ dn \in Chip /\ dn.imr = master.imr /\ dn.base = master.base
        /\ dn.expect = master.expect /\ dn.irr = master.irr \ {i}
    BY <1>1, <2>1 DEF Chip
  <2>4. (Become(up, slave) /\ i # 2) \/ Become(dn, slave)
    BY <1>2, <1>3 DEF Raise, Withdraw
  <2> HIDE DEF up, dn
  <2> QED
    BY <1>1, <2>1, <2>2, <2>3, <2>4
<1>4. CASE ~(i < 8)
  <2> DEFINE up == [slave EXCEPT !.irr = @ \union {i - 8}]
             dn == [slave EXCEPT !.irr = @ \ {i - 8}]
  <2>1. i - 8 \in Line
    BY <1>4 DEF Line
  <2>2. up \in Chip /\ up.imr = slave.imr /\ up.base = slave.base /\ up.expect = slave.expect
    BY <1>1, <2>1 DEF Chip
  <2>3. dn \in Chip /\ dn.imr = slave.imr /\ dn.base = slave.base /\ dn.expect = slave.expect
    BY <1>1, <2>1 DEF Chip
  <2>4. Become(master, up) \/ Become(master, dn)
    BY <1>2, <1>4 DEF Raise, Withdraw
  <2> HIDE DEF up, dn
  <2> QED
    BY <1>1, <2>2, <2>3, <2>4
<1> QED
  BY <1>3, <1>4

(* Devices undo no initialisation, and cannot make a request pending. *)
LEMMA DevicesKeep ==
    ASSUME Chips, Request \/ Forget, NEW n \in 0 .. 10, Initialised(n)
    PROVE  Chips' /\ Initialised(n)' /\ (n = 10 /\ Pending' => Pending)
<1>1. PICK m, s \in Chip :
              /\ Become(m, s)
              /\ m.irr \subseteq master.irr \union (Line \ {2})
              /\ m.imr = master.imr /\ m.base = master.base /\ m.expect = master.expect
              /\ s.imr = slave.imr /\ s.base = slave.base /\ s.expect = slave.expect
  BY DeviceMoves
<1>2. /\ slave' = s /\ master' \in Chip
      /\ master'.imr = m.imr /\ master'.base = m.base /\ master'.expect = m.expect
      /\ Requesting(s) = {} => master' = m
  BY <1>1, BecomeFacts
<1>3. Chips'
  BY <1>2 DEF Chips
<1>4. Initialised(n)'
  BY <1>1, <1>2 DEF Initialised
<1>5. ASSUME n = 10, Pending' PROVE Pending
  <2>1. master.imr = Line \ {2} /\ slave.imr = Line
    BY <1>5 DEF Initialised
  <2>2. Requesting(s) = {}
    BY <1>1, <2>1 DEF Requesting, Chip
  <2>3. PICK l : l \in master'.irr /\ l \notin master'.imr
    BY <1>5 DEF Pending, Requesting
  <2>4. master' = m /\ master \in Chip
    BY <1>2, <2>2 DEF Chips
  <2>5. l \in Line /\ l \in m.irr /\ l \notin Line \ {2}
    BY <1>1, <2>1, <2>3, <2>4 DEF Chip
  <2>6. 2 \in master.irr /\ 2 \notin master.imr
    BY <1>1, <2>1, <2>5
  <2> QED
    BY <2>6 DEF Pending, Requesting
<1> QED
  BY <1>3, <1>4, <1>5

(* What the processor is given once the controllers are initialised: the   *)
(* request of the slave, which has nothing to offer.                       *)
LEMMA OnlyStrays ==
    ASSUME Chips, Initialised(10), Pending
    PROVE  Vectors = {39, 47}
<1>1. /\ master.imr = Line \ {2} /\ slave.imr = Line /\ master.base = 32 /\ slave.base = 40
      /\ master \in Chip /\ slave \in Chip
  BY DEF Initialised, Chips
<1>2. Requesting(slave) = {}
  BY <1>1 DEF Requesting, Chip
<1>3. Requesting(master) = {2}
  BY <1>1 DEF Pending, Requesting, Chip
<1>4. First(master) = 2
  BY <1>3 DEF First
<1> QED
  BY <1>1, <1>2, <1>4 DEF Vectors

(* The acknowledgement of a stray undoes no initialisation. *)
LEMMA AcknowledgeKeeps ==
    ASSUME Chips, Initialised(10), Pending, Acknowledge
    PROVE  Chips' /\ Initialised(10)'
<1> DEFINE m == [master EXCEPT !.irr = @ \ {First(master)}]
<1>1. slave.imr = Line /\ master \in Chip /\ slave \in Chip
  BY DEF Initialised, Chips
<1>2. Requesting(slave) = {}
  BY <1>1 DEF Requesting, Chip
<1>3. Become(m, slave)
  BY <1>2 DEF Acknowledge
<1>4. m \in Chip /\ m.imr = master.imr /\ m.base = master.base /\ m.expect = master.expect
  BY <1>1 DEF Chip
<1> HIDE DEF m
<1>5. /\ slave' = slave /\ master' \in Chip
      /\ master'.imr = m.imr /\ master'.base = m.base /\ master'.expect = m.expect
  BY <1>1, <1>3, <1>4, BecomeFacts
<1>6. Initialised(10)'
  BY <1>4, <1>5 DEF Initialised
<1> QED
  BY <1>1, <1>5, <1>6 DEF Chips
-----------------------------------------------------------------------------
(* How many words the two lists of writes have. *)
LEMMA Lengths == Len(mask_all_ints) = 2 /\ Len(init_8259A) = 10
  BY DEF mask_all_ints, init_8259A

(* The interrupt flag is clear in eflags = 0 and after cli. *)
LEMMA FlagsDiffer == Const(0) # Flags(TRUE) /\ Flags(FALSE) # Flags(TRUE)
  BY DEF Const, Flags

(* The loader hands over with interrupts off. *)
LEMMA InitInv == Init => Inv
<1> SUFFICES ASSUME Init PROVE Inv
  OBVIOUS
<1>1. stage = "boot_main" /\ step = 0
  BY DEF Init
<1>2. Controllers
  <2>1. Chips
    <3>1. PICK m, s \in {{}, Line} :
            /\ master = [irr |-> {}, imr |-> m, base |-> 8, expect |-> "OCW1"]
            /\ slave = [irr |-> {}, imr |-> s, base |-> 112, expect |-> "OCW1"]
      BY DEF Init, PicInit
    <3>2. m \in SUBSET Line /\ s \in SUBSET Line
      OBVIOUS
    <3> QED
      BY <3>1, <3>2 DEF Chips, Chip
  <2> QED
    BY <1>1, <2>1, Lengths DEF Controllers, Ready, Writes
<1>3. Table
  BY <1>1 DEF Init, Table, Ready
<1>4. Processor
  <2>1. cpu.stack = << >> /\ cpu.reg["eflags"] = Flags(FALSE)
        /\ \A r \in Interrupted : cpu.reg[r] = <<"was", r>>
    BY DEF Init, Running, Interrupted, Register
  <2>2. cpu \in Cpu
    <3>1. [r \in Register |-> IF r = "eflags" THEN Flags(FALSE) ELSE <<"was", r>>]
            \in [Register -> Value]
      BY FlagsValue, RegisterValue
    <3>2. << >> \in Seq(Value)
      OBVIOUS
    <3> QED
      BY <3>1, <3>2 DEF Init, Running, Cpu
  <2>3. ~IF_set(cpu) /\ accepted = {}
    BY <2>1, FlagsDiffer DEF IF_set, Init
  <2> QED
    BY <1>1, <2>1, <2>2, <2>3 DEF Processor
<1>5. HandlerSeesFrame
  BY <1>1 DEF HandlerSeesFrame
<1> QED
  BY <1>2, <1>3, <1>4, <1>5 DEF Inv

(* The steps of the kernel before sti. *)
LEMMA KernelInv == Inv /\ Kernel => Inv'
<1> SUFFICES ASSUME Inv, Kernel PROVE Inv'
  OBVIOUS
<1>1. Chips /\ stage \in {"boot_main", "irq_init", "init_8259A"} \union Ready
      /\ step \in 0 .. Len(Writes)
  BY DEF Inv, Controllers
<1>2. CASE WritePort
  <2>1. /\ step < Len(Writes) /\ step' = step + 1 /\ stage' = stage /\ idt' = idt
        /\ cpu' = cpu /\ accepted' = accepted /\ trap' = trap
        /\ outb(Writes[step + 1][1], Writes[step + 1][2])
    BY <1>2 DEF WritePort
  <2>2. Len(Writes) \in Nat /\ Writes' = Writes
    BY <2>1, Lengths DEF Writes
  <2>3. stage = "boot_main" \/ stage = "init_8259A"
    BY <2>1, <1>1 DEF Writes
  <2>4. step + 1 \in 0 .. Len(Writes)
    BY <1>1, <2>1, <2>2
  <2>5. CASE stage = "boot_main"
    <3>1. Writes = mask_all_ints
      BY <2>5 DEF Writes
    <3>2. step = 0 \/ step = 1
      BY <1>1, <2>1, <3>1, Lengths
    <3>3. outb(255, 161) \/ outb(251, 33)
      BY <2>1, <3>1, <3>2 DEF mask_all_ints
    <3>4. Chips'
      BY <1>1, <3>3, OutbChips
    <3>5. Controllers'
      BY <1>1, <2>1, <2>2, <2>4, <2>5, <3>4 DEF Controllers, Ready
    <3>6. Table' /\ Processor' /\ HandlerSeesFrame'
      BY <2>1, <2>5 DEF Inv, Table, Processor, HandlerSeesFrame, Ready, IF_set
    <3> QED
      BY <3>5, <3>6 DEF Inv
  <2>6. CASE stage = "init_8259A"
    <3>1. Writes = init_8259A
      BY <2>6 DEF Writes
    <3>2. PICK n \in 0 .. 9 : step = n
      BY <1>1, <2>1, <3>1, Lengths
    <3>3. Initialised(n) /\ outb(init_8259A[n + 1][1], init_8259A[n + 1][2])
      BY <2>1, <2>6, <3>1, <3>2 DEF Inv, Controllers
    <3>4. Chips' /\ Initialised(n + 1)'
      BY <1>1, <3>3, WriteInitialises
    <3>5. Controllers'
      <4>1. Initialised(step)'
        BY <2>1, <3>2, <3>4 DEF Initialised
      <4> QED
        BY <1>1, <2>1, <2>2, <2>4, <2>6, <3>4, <4>1 DEF Controllers, Ready
    <3>6. Table' /\ Processor' /\ HandlerSeesFrame'
      BY <2>1, <2>6 DEF Inv, Table, Processor, HandlerSeesFrame, Ready, IF_set
    <3> QED
      BY <3>5, <3>6 DEF Inv
  <2> QED
    BY <2>3, <2>5, <2>6
<1>3. ASSUME NEW from, NEW to, Proceed(from, to), UNCHANGED pic_vars
      PROVE  /\ stage = from /\ stage' = to /\ step' = 0 /\ step' \in 0 .. Len(Writes)'
             /\ Chips' /\ \A n \in 0 .. 10 : Initialised(n) => Initialised(n)'
  <2>1. stage = from /\ stage' = to /\ step' = 0
    BY <1>3 DEF Proceed
  <2>2. Len(Writes)' \in Nat
    BY Lengths DEF Writes
  <2> QED
    BY <1>1, <1>3, <2>1, <2>2 DEF pic_vars, Chips, Initialised
<1>4. CASE EnterKernel
  <2>1. Proceed("boot_main", "irq_init") /\ UNCHANGED pic_vars
        /\ cpu' = [cpu EXCEPT !.reg["eflags"] = Const(0)]
        /\ idt' = idt /\ trap' = trap /\ accepted' = accepted
    BY <1>4 DEF EnterKernel
  <2>2. stage = "boot_main" /\ stage' = "irq_init" /\ step' \in 0 .. Len(Writes)' /\ Chips'
    BY <1>3, <2>1
  <2>3. Controllers'
    BY <2>2 DEF Controllers, Ready
  <2>4. Table' /\ HandlerSeesFrame'
    BY <2>1, <2>2 DEF Inv, Table, HandlerSeesFrame, Ready
  <2>5. Processor'
    <3>1. cpu \in Cpu /\ cpu.stack = << >> /\ accepted = {}
          /\ \A r \in Interrupted : cpu.reg[r] = <<"was", r>>
      BY <2>2 DEF Inv, Processor
    <3>2. "eflags" \in Register /\ Const(0) \in Value /\ Interrupted \subseteq Register
          /\ "eflags" \notin Interrupted
      BY ConstValue DEF Register, Interrupted
    <3>3. cpu' \in Cpu /\ cpu'.stack = cpu.stack
          /\ cpu'.reg = [cpu.reg EXCEPT !["eflags"] = Const(0)]
      BY <2>1, <3>1, <3>2, WithReg
    <3>4. cpu'.reg["eflags"] = Const(0) /\ \A r \in Interrupted : cpu'.reg[r] = <<"was", r>>
      BY <3>1, <3>2, <3>3 DEF Cpu
    <3>5. ~IF_set(cpu)'
      BY <3>4, FlagsDiffer DEF IF_set
    <3> QED
      BY <2>1, <2>2, <3>1, <3>3, <3>4, <3>5 DEF Processor
  <2> QED
    BY <2>3, <2>4, <2>5 DEF Inv
<1>5. CASE FillTable
  <2>1. Proceed("irq_init", "init_8259A") /\ UNCHANGED pic_vars
        /\ idt' = [v \in 0 .. GateCount - 1 |-> default_gate("ignore_int")]
        /\ cpu' = cpu /\ trap' = trap /\ accepted' = accepted
    BY <1>5 DEF FillTable
  <2>2. stage = "irq_init" /\ stage' = "init_8259A" /\ step' \in 0 .. Len(Writes)' /\ Chips'
        /\ step' = 0
    BY <1>3, <2>1
  <2>3. Controllers'
    <3>1. Initialised(step)'
      BY <2>2 DEF Initialised
    <3> QED
      BY <2>2, <3>1 DEF Controllers, Ready
  <2>4. Table'
    BY <2>1, <2>2 DEF Table, Ready
  <2>5. Processor' /\ HandlerSeesFrame'
    BY <2>1, <2>2 DEF Inv, Processor, HandlerSeesFrame, IF_set
  <2> QED
    BY <2>3, <2>4, <2>5 DEF Inv
<1>6. CASE LoadTable
  <2>1. Proceed("init_8259A", "traps_init") /\ UNCHANGED pic_vars
        /\ cpu' = [cpu EXCEPT !.reg["eflags"] = Flags(FALSE)]
        /\ idt' = idt /\ trap' = trap /\ accepted' = accepted
    BY <1>6 DEF LoadTable
  <2>2. stage = "init_8259A" /\ stage' = "traps_init" /\ step' \in 0 .. Len(Writes)' /\ Chips'
    BY <1>3, <2>1
  <2>3. Controllers'
    <3>1. step = 10
      BY <2>1, <2>2, Lengths DEF Proceed, Writes
    <3>2. Initialised(10)
      BY <2>2, <3>1 DEF Inv, Controllers
    <3>3. Initialised(10)'
      BY <1>3, <2>1, <3>2
    <3> QED
      BY <2>2, <3>3 DEF Controllers, Ready
  <2>4. Table' /\ HandlerSeesFrame'
    BY <2>1, <2>2 DEF Inv, Table, HandlerSeesFrame, Ready
  <2>5. Processor'
    <3>1. cpu \in Cpu /\ cpu.stack = << >> /\ accepted = {}
          /\ \A r \in Interrupted : cpu.reg[r] = <<"was", r>>
      BY <2>2 DEF Inv, Processor
    <3>2. "eflags" \in Register /\ Flags(FALSE) \in Value /\ Interrupted \subseteq Register
          /\ "eflags" \notin Interrupted
      BY FlagsValue DEF Register, Interrupted
    <3>3. cpu' \in Cpu /\ cpu'.stack = cpu.stack
          /\ cpu'.reg = [cpu.reg EXCEPT !["eflags"] = Flags(FALSE)]
      <4>1. PICK r \in Register, v \in Value : r = "eflags" /\ v = Flags(FALSE)
        BY <3>2
      <4>2. cpu' = [cpu EXCEPT !.reg[r] = v]
        BY <2>1, <4>1
      <4>3. cpu' \in Cpu /\ cpu'.stack = cpu.stack /\ cpu'.reg = [cpu.reg EXCEPT ![r] = v]
        BY <3>1, <4>2, WithReg
      <4> QED
        BY <4>1, <4>3
    <3>4. cpu'.reg["eflags"] = Flags(FALSE)
          /\ \A r \in Interrupted : cpu'.reg[r] = <<"was", r>>
      BY <3>1, <3>2, <3>3 DEF Cpu
    <3>5. ~IF_set(cpu)'
      BY <3>4, FlagsDiffer DEF IF_set
    <3> QED
      BY <2>1, <2>2, <3>1, <3>3, <3>4, <3>5 DEF Processor
  <2> QED
    BY <2>3, <2>4, <2>5 DEF Inv
<1>7. CASE traps_init
  <2>1. Proceed("traps_init", "mm_init") /\ UNCHANGED pic_vars
        /\ idt' = [v \in DOMAIN idt |->
                     IF v \in DOMAIN trap_gates THEN set_trap_gate(trap_gates[v]) ELSE idt[v]]
        /\ cpu' = cpu /\ trap' = trap /\ accepted' = accepted
    BY <1>7 DEF traps_init
  <2>2. stage = "traps_init" /\ stage' = "mm_init" /\ step' \in 0 .. Len(Writes)' /\ Chips'
    BY <1>3, <2>1
  <2>3. Controllers'
    <3>1. Initialised(10)'
      BY <1>3, <2>1, <2>2 DEF Inv, Controllers, Ready
    <3> QED
      BY <2>2, <3>1 DEF Controllers, Ready
  <2>4. Table'
    <3>1. \A v \in DOMAIN idt : idt[v] = default_gate("ignore_int")
      BY <2>2 DEF Inv, Table
    <3> QED
      BY <2>1, <2>2, <3>1 DEF Inv, Table, Ready
  <2>5. Processor' /\ HandlerSeesFrame'
    BY <2>1, <2>2 DEF Inv, Processor, HandlerSeesFrame, IF_set
  <2> QED
    BY <2>3, <2>4, <2>5 DEF Inv
<1>8. CASE Sti
  <2>1. Proceed("mm_init", "idle") /\ UNCHANGED pic_vars
        /\ cpu' = [cpu EXCEPT !.reg["eflags"] = Flags(TRUE)]
        /\ idt' = idt /\ trap' = trap /\ accepted' = accepted
    BY <1>8 DEF Sti
  <2>2. stage = "mm_init" /\ stage' = "idle" /\ step' \in 0 .. Len(Writes)' /\ Chips'
    BY <1>3, <2>1
  <2>3. Controllers'
    <3>1. Initialised(10)'
      BY <1>3, <2>1, <2>2 DEF Inv, Controllers, Ready
    <3> QED
      BY <2>2, <3>1 DEF Controllers, Ready
  <2>4. Table' /\ HandlerSeesFrame'
    BY <2>1, <2>2 DEF Inv, Table, HandlerSeesFrame, Ready
  <2>5. Processor'
    <3>1. cpu \in Cpu /\ cpu.stack = << >> /\ accepted = {}
          /\ \A r \in Interrupted : cpu.reg[r] = <<"was", r>>
      BY <2>2 DEF Inv, Processor
    <3>2. "eflags" \in Register /\ Flags(TRUE) \in Value /\ Interrupted \subseteq Register
          /\ "eflags" \notin Interrupted
      BY FlagsValue DEF Register, Interrupted
    <3>3. cpu' \in Cpu /\ cpu'.stack = cpu.stack
          /\ cpu'.reg = [cpu.reg EXCEPT !["eflags"] = Flags(TRUE)]
      <4>1. PICK r \in Register, v \in Value : r = "eflags" /\ v = Flags(TRUE)
        BY <3>2
      <4>2. cpu' = [cpu EXCEPT !.reg[r] = v]
        BY <2>1, <4>1
      <4>3. cpu' \in Cpu /\ cpu'.stack = cpu.stack /\ cpu'.reg = [cpu.reg EXCEPT ![r] = v]
        BY <3>1, <4>2, WithReg
      <4> QED
        BY <4>1, <4>3
    <3>4. \A r \in Interrupted : cpu'.reg[r] = <<"was", r>>
      BY <3>1, <3>2, <3>3 DEF Cpu
    <3> QED
      BY <2>1, <2>2, <3>1, <3>3, <3>4 DEF Processor
  <2> QED
    BY <2>3, <2>4, <2>5 DEF Inv
<1> QED
  BY <1>2, <1>4, <1>5, <1>6, <1>7, <1>8 DEF Kernel

(* An interrupt that the processor takes: only in the idle loop, only a    *)
(* stray, and no other after it.                                           *)
LEMMA AcceptInv == Inv /\ Accept => Inv'
<1> SUFFICES ASSUME Inv, Accept PROVE Inv'
  OBVIOUS
<1>1. /\ IF_set(cpu) /\ Pending /\ Acknowledge
      /\ step' = step /\ idt' = idt /\ trap' = trap
  BY DEF Accept, Accepts
<1>2. stage = "idle"
  BY <1>1 DEF Inv, Controllers, Processor, Accepts, Ready
<1>3. Chips /\ Initialised(10)
  BY <1>2 DEF Inv, Controllers, Ready
<1>4. PICK v \in {39, 47} :
         /\ accepted' = accepted \union {v}
         /\ IF Loaded /\ Usable(idt[v]) /\ Target(idt[v]) = "ignore_int"
            THEN /\ cpu' = ignore_int(Through(idt[v], cpu, << >>))
                 /\ stage' = IF stage = "die" THEN "astray" ELSE stage
            ELSE stage' = "astray" /\ UNCHANGED cpu
  BY <1>1, <1>3, OnlyStrays DEF Accept
<1>5. Usable(idt[v]) /\ Target(idt[v]) = "ignore_int"
  <2>1. v \notin DOMAIN trap_gates /\ "ignore_int" \in DOMAIN Address
    BY EntryNames
  <2>2. v \in 0 .. GateCount - 1
    BY InterruptsAssumption
  <2>3. idt[v] = default_gate("ignore_int")
    BY <1>2, <2>1, <2>2 DEF Inv, Table, Ready
  <2> QED
    BY <2>1, <2>3, GateFacts
<1>6. Loaded
  BY <1>2 DEF Loaded
<1>7. cpu' = ignore_int(Through(idt[v], cpu, << >>)) /\ stage' = "idle"
  BY <1>2, <1>4, <1>5, <1>6
<1>8. cpu \in Cpu /\ cpu.stack = << >> /\ accepted = {}
      /\ \A r \in Interrupted : cpu.reg[r] = <<"was", r>>
  BY <1>1, <1>2 DEF Inv, Processor
<1>9. /\ cpu' \in Cpu /\ cpu'.stack = << >> /\ cpu'.reg["eflags"] = Const(0)
      /\ \A r \in Interrupted : cpu'.reg[r] = cpu.reg[r]
  BY <1>7, <1>8, Ignored
<1>10. Controllers'
  <2>1. Chips' /\ Initialised(10)'
    BY <1>1, <1>3, AcknowledgeKeeps
  <2>2. step' \in 0 .. Len(Writes)'
    BY <1>1, <1>2, <1>7 DEF Inv, Controllers, Writes
  <2> QED
    BY <1>7, <2>1, <2>2 DEF Controllers, Ready
<1>11. Table' /\ HandlerSeesFrame'
  BY <1>1, <1>2, <1>7 DEF Inv, Table, HandlerSeesFrame, Ready
<1>12. Processor'
  <2>1. accepted' = {v} /\ Cardinality({v}) = 1
    BY <1>4, <1>8, FS_Singleton
  <2>2. ~IF_set(cpu)'
    BY <1>9, FlagsDiffer DEF IF_set
  <2> QED
    BY <1>7, <1>8, <1>9, <2>1, <2>2 DEF Processor
<1> QED
  BY <1>10, <1>11, <1>12 DEF Inv

(* An exception: through a trap gate into its handler, or into ignore_int. *)
LEMMA FaultInv == Inv /\ (\E v \in Exceptions : Fault(v)) => Inv'
<1> SUFFICES ASSUME Inv, NEW v \in Exceptions, Fault(v) PROVE Inv'
  OBVIOUS
<1> DEFINE errcode == IF v \in WithErrorCode THEN <<<<"error", v>>>> ELSE << >>
           entry   == Target(idt[v])
           c       == Through(idt[v], cpu, errcode)
<1>1. /\ stage \in {"mm_init", "idle"} /\ ~Accepts
      /\ master' = master /\ slave' = slave
      /\ step' = step /\ idt' = idt /\ accepted' = accepted
  BY DEF Fault, pic_vars
<1>2. Chips /\ Initialised(10)
  BY <1>1 DEF Inv, Controllers, Ready
<1>3. v \in 0 .. 19 /\ v # 17 /\ v \in DOMAIN idt
  BY InterruptsAssumption DEF Inv, Table
<1>4. idt[v] = IF v \in DOMAIN trap_gates THEN set_trap_gate(trap_gates[v])
               ELSE default_gate("ignore_int")
  BY <1>1, <1>3 DEF Inv, Table, Ready
<1>5. cpu \in Cpu /\ cpu.stack = << >>
      /\ \A r \in Interrupted : cpu.reg[r] = <<"was", r>>
  BY <1>1 DEF Inv, Processor
<1>6. Chips' /\ Initialised(10)' /\ Pending' = Pending
  BY <1>1, <1>2 DEF Chips, Initialised, Pending
<1>7. CASE v \notin DOMAIN trap_gates
  <2>1. entry = "ignore_int" /\ Usable(idt[v])
    BY <1>4, <1>7, EntryNames, GateFacts
  <2>2. errcode = << >>
    BY <1>3, <1>7, EntryNames DEF WithErrorCode
  <2>3. cpu' = ignore_int(c) /\ stage' = stage /\ trap' = trap
    BY <2>1 DEF Fault
  <2>4. cpu' = ignore_int(Through(idt[v], cpu, << >>))
    BY <2>2, <2>3
  <2>5. /\ cpu' \in Cpu /\ cpu'.stack = << >> /\ cpu'.reg["eflags"] = Const(0)
        /\ \A r \in Interrupted : cpu'.reg[r] = cpu.reg[r]
    BY <1>5, <2>4, Ignored
  <2>6. Controllers'
    <3>1. step' \in 0 .. Len(Writes)'
      BY <1>1, <2>3 DEF Inv, Controllers, Writes
    <3> QED
      BY <1>1, <1>6, <2>3, <3>1 DEF Controllers, Ready
  <2>7. Table' /\ HandlerSeesFrame'
    BY <1>1, <2>3 DEF Inv, Table, HandlerSeesFrame, Ready
  <2>8. Processor'
    <3>1. ~IF_set(cpu)'
      BY <2>5, FlagsDiffer DEF IF_set
    <3> QED
      BY <1>1, <1>5, <2>3, <2>5, <3>1 DEF Inv, Processor
  <2> QED
    BY <2>6, <2>7, <2>8 DEF Inv
<1>8. CASE v \in DOMAIN trap_gates
  <2> DEFINE name == trap_gates[v]
             err  == IF errcode = << >> THEN Const(0) ELSE errcode[1]
             e    == enter(name, Through(idt[v], cpu, errcode))
  <2>1. entry = name /\ Type(idt[v]) # INTR_GATE /\ name # "ignore_int"
    <3>1. idt[v] = set_trap_gate(name) /\ name \in DOMAIN Address /\ name # "ignore_int"
      BY <1>4, <1>8, EntryNames
    <3>2. Target(idt[v]) = name /\ Type(idt[v]) = TRAP_GATE
      BY <3>1, GateFacts
    <3> QED
      BY <3>1, <3>2 DEF TRAP_GATE, INTR_GATE
  <2>2. /\ stage' = "handler" /\ cpu' = e
        /\ trap' = [vector |-> v, before |-> cpu, errcode |-> err, call |-> call_of(name, e)]
    BY <2>1 DEF Fault
  <2>3. SeesFrame(v, cpu, e, call_of(name, e), err)
    BY <1>5, <1>8, <2>1, HandlerFrame
  <2> HIDE DEF e, err, name
  <2>4. /\ trap'.vector = v /\ trap'.before = cpu /\ trap'.errcode = err
        /\ trap'.call = call_of(name, e)
    BY <2>2
  <2>5. HandlerSeesFrame'
    <3>1. /\ <<v, call_of(name, e).function>> \in INT_VECTOR
          /\ call_of(name, e).errcode = err
          /\ call_of(name, e).esp[1] = "slot" /\ call_of(name, e).esp[2] = 3
          /\ e.stack[3] = cpu.reg["eip"] /\ e.stack[3 - 1] = cpu.reg["cs"]
          /\ e.stack[3 - 2] = cpu.reg["eflags"]
          /\ \A r \in {"ds", "es", "fs"} : e.reg[r] = Const(16)
          /\ leave(e) = cpu
      BY <2>3 DEF SeesFrame
    <3> QED
      BY <2>2, <2>4, <3>1 DEF HandlerSeesFrame
  <2>6. ~Accepts'
    <3>1. e.reg["eflags"] = cpu.reg["eflags"]
      BY <2>3 DEF SeesFrame
    <3> QED
      BY <1>1, <1>6, <2>2, <3>1 DEF Accepts, IF_set
  <2>7. Controllers'
    <3>1. step' \in 0 .. Len(Writes)'
      BY <1>1, <2>2 DEF Inv, Controllers, Writes
    <3> QED
      BY <1>6, <2>2, <3>1 DEF Controllers, Ready
  <2>8. Table'
    BY <1>1, <2>2 DEF Inv, Table, Ready
  <2>9. Processor'
    BY <1>1, <2>2, <2>6 DEF Inv, Processor
  <2> QED
    BY <2>5, <2>7, <2>8, <2>9 DEF Inv
<1> QED
  BY <1>7, <1>8

(* What the devices do never offers the processor anything that was not    *)
(* offered to it before.                                                   *)
LEMMA EnvironmentInv == Inv /\ Environment => Inv'
<1> SUFFICES ASSUME Inv, Environment PROVE Inv'
  OBVIOUS
<1>1. /\ Request \/ Forget
      /\ stage' = stage /\ step' = step /\ idt' = idt /\ cpu' = cpu /\ trap' = trap
      /\ accepted' = accepted
  BY DEF Environment
<1>2. Chips
  BY DEF Inv, Controllers
<1>3. \A n \in 0 .. 10 : Initialised(n) => Chips' /\ Initialised(n)' /\ (n = 10 /\ Pending' => Pending)
  BY <1>1, <1>2, DevicesKeep
<1>4. Chips'
  <2>1. Initialised(0)
    BY DEF Initialised
  <2> QED
    BY <1>3, <2>1
<1>5. stage = "init_8259A" => Initialised(step)'
  <2>1. SUFFICES ASSUME stage = "init_8259A" PROVE Initialised(step)'
    OBVIOUS
  <2>2. PICK n \in 0 .. 10 : n = step
    BY <2>1, Lengths DEF Inv, Controllers, Writes
  <2>3. Initialised(n)'
    BY <1>3, <2>1, <2>2 DEF Inv, Controllers
  <2> QED
    BY <1>1, <2>2, <2>3 DEF Initialised
<1>6. stage \in Ready => Initialised(10)' /\ (Pending' => Pending)
  BY <1>3 DEF Inv, Controllers
<1>7. Controllers'
  <2>1. step' \in 0 .. Len(Writes)'
    BY <1>1 DEF Inv, Controllers, Writes
  <2> QED
    BY <1>1, <1>4, <1>5, <1>6, <2>1 DEF Inv, Controllers
<1>8. Table' /\ HandlerSeesFrame'
  BY <1>1 DEF Inv, Table, HandlerSeesFrame
<1>9. Processor'
  BY <1>1, <1>6 DEF Inv, Processor, Accepts, IF_set, Ready
<1> QED
  BY <1>7, <1>8, <1>9 DEF Inv

(* The handler calls die. *)
LEMMA DieInv == Inv /\ Die => Inv'
<1> SUFFICES ASSUME Inv, Die PROVE Inv'
  OBVIOUS
<1>1. /\ stage = "handler" /\ ~Accepts /\ stage' = "die"
      /\ master' = master /\ slave' = slave
      /\ step' = step /\ idt' = idt /\ cpu' = cpu /\ trap' = trap /\ accepted' = accepted
  BY DEF Die, pic_vars
<1>2. Controllers'
  <2>1. step' \in 0 .. Len(Writes)'
    BY <1>1 DEF Inv, Controllers, Writes
  <2>2. Chips' /\ Initialised(10)'
    BY <1>1 DEF Inv, Controllers, Ready, Chips, Initialised
  <2> QED
    BY <1>1, <2>1, <2>2 DEF Controllers, Ready
<1>3. Table' /\ HandlerSeesFrame'
  BY <1>1 DEF Inv, Table, HandlerSeesFrame, Ready
<1>4. Processor'
  BY <1>1 DEF Inv, Processor, Accepts, Pending, IF_set
<1> QED
  BY <1>2, <1>3, <1>4 DEF Inv

(* Every step keeps the invariant. *)
LEMMA NextInv == Inv /\ [Next]_vars => Inv'
<1> SUFFICES ASSUME Inv, [Next]_vars PROVE Inv'
  OBVIOUS
<1>1. CASE UNCHANGED vars
  <2>1. Controllers'
    BY <1>1 DEF Inv, Controllers, Chips, Initialised, Writes, vars, pic_vars
  <2>2. Table' /\ HandlerSeesFrame'
    BY <1>1 DEF Inv, Table, HandlerSeesFrame, vars
  <2>3. Processor'
    BY <1>1 DEF Inv, Processor, Accepts, Pending, IF_set, vars, pic_vars
  <2> QED
    BY <2>1, <2>2, <2>3 DEF Inv
<1>2. CASE Next
  BY <1>1, <1>2, KernelInv, AcceptInv, FaultInv, EnvironmentInv, DieInv DEF Next, Stopped
<1> QED
  BY <1>1, <1>2

(* The invariant holds in every behaviour. *)
THEOREM Invariance == Spec => []Inv
<1>1. Init => Inv
  BY InitInv
<1>2. Inv /\ [Next]_vars => Inv'
  BY NextInv
<1> QED
  BY <1>1, <1>2, PTL DEF Spec

(* The only interrupts the processor takes, whatever the devices do, are   *)
(* the strays of the two controllers.                                      *)
THEOREM OnlyStraysTaken == Spec => []VectorsApart
<1>1. Inv => VectorsApart
  BY DEF Inv, Processor, VectorsApart
<1> QED
  BY <1>1, Invariance, PTL

(* Code that an interrupt broke into has its stack and all its registers   *)
(* but ecx and edx, and is not interrupted again.                          *)
THEOREM InterruptedResumes == Spec => []ResumesMasked
<1>1. Inv => ResumesMasked
  BY DEF Inv, Processor, Controllers, Ready, Interrupted, ResumesMasked
<1> QED
  BY <1>1, Invariance, PTL

(* Every handler is the one of its vector and finds the frame and the      *)
(* error code of the exception.                                            *)
THEOREM HandlersSeeFrames == Spec => []HandlerSeesFrame
<1>1. Inv => HandlerSeesFrame
  BY DEF Inv
<1> QED
  BY <1>1, Invariance, PTL

(* A machine that died takes no further step of the kernel.                *)
THEOREM DeadStayDead == Spec => DiesForGood
<1>1. Inv /\ [Next]_vars => [stage = "die" => stage' = "die" /\ UNCHANGED cpu]_vars
  <2> SUFFICES ASSUME Inv, Next, stage = "die" PROVE stage' = "die" /\ UNCHANGED cpu
    BY DEF vars, pic_vars
  <2>1. ~Accepts
    BY DEF Inv, Processor
  <2>2. ~Kernel
    <3>1. step \in Nat /\ Writes = << >>
      BY Lengths DEF Inv, Controllers, Writes
    <3>2. ~WritePort
      BY <3>1 DEF WritePort
    <3>3. ~EnterKernel /\ ~FillTable /\ ~LoadTable /\ ~traps_init /\ ~Sti
      BY DEF EnterKernel, FillTable, LoadTable, traps_init, Sti, Proceed
    <3> QED
      BY <3>2, <3>3 DEF Kernel
  <2>3. ~Accept /\ ~Die /\ ~(\E v \in Exceptions : Fault(v))
    BY <2>1 DEF Accept, Die, Fault
  <2>4. Environment \/ Stopped
    BY <2>2, <2>3 DEF Next
  <2> QED
    BY <2>4 DEF Environment, Stopped, vars
<1> QED
  BY <1>1, Invariance, PTL DEF Spec, DiesForGood
=============================================================================
