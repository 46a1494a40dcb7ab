------------------------------- MODULE Printf -------------------------------
(***************************************************************************)
(* kernel/printf.c: vsnprintf, one directive of the format after another,  *)
(* and printf, which prints the buffer it leaves.  Pointers and sizes are  *)
(* numbers modulo IntWord and comparisons are unsigned: what C leaves open *)
(* for a pointer that is moved past the top of the address space is what   *)
(* the instructions do that gcc -O2 makes of it.  `out' is all the         *)
(* characters generated so far, and `memory' holds, by their addresses,    *)
(* those that were stored.  fmt[p] is the character fmt points to.         *)
(*                                                                         *)
(* A variable argument is any member of the set of its type.               *)
(***************************************************************************)
EXTENDS NumberSpec

CONSTANTS
    NUL,
    Char,        \* the characters, NUL among them
    Formats,     \* the formats considered, sequences of characters
    Bufs, Sizes, \* the buffers, by their addresses, and sizes callers pass
    BufSize,     \* sizeof(printf_buf), the size printf passes
    MaxWidth,    \* bound of the model: no larger width or precision is asked for
    IntWord,     \* 2^32, the modulus of int, long, size_t and pointers
    ShortWord,   \* 2^16
    IntArgs,     \* values of an int argument, below IntWord
    LongLongArgs,
    CharArgs,
    StringArgs   \* a string argument, or NUL for a pointer below PAGE_SIZE

ASSUME PrintfAssumption ==
    /\ IntWord \in 1 .. Word /\ ShortWord \in 1 .. Word
    /\ Bufs \subseteq 0 .. IntWord - 1 /\ Sizes \subseteq 0 .. IntWord - 1
    /\ BufSize \in Nat \ {0}
    /\ IntArgs \subseteq 0 .. IntWord - 1 /\ LongLongArgs \subseteq 0 .. Word - 1
    /\ Formats \subseteq Seq(Char) /\ CharArgs \subseteq Char
    /\ StringArgs \ {NUL} \subseteq Seq(Char)

IsDigit(char) == char \in {DigitChar[i] : i \in 1 .. 10}

\* No width overflows an int, and no argument fills the address space.
ASSUME WidthAssumption ==
    /\ MaxWidth \in Nat /\ MaxWidth < IntWord \div 2
    /\ \A f \in Formats : \A i \in 1 .. Len(f) : \A j \in i .. Len(f) :
          (\A k \in i .. j : IsDigit(f[k])) => 10 ^ (j - i + 1) <= MaxWidth + 1
    /\ \A s \in StringArgs \ {NUL} : Len(s) < IntWord \div 2

\* Nothing that means something in a format is NUL.
ASSUME CharAssumption ==
    /\ NUL \in Char
    /\ {DigitChar[i] : i \in 1 .. 16} \union {"+", "-", " ", "x", "%", "<", "N", "U", "L", ">"}
            \subseteq Char
    /\ NUL \notin {DigitChar[i] : i \in 1 .. 10} \union {"%", "-", "+", " ", "#", "*", "."}
    /\ NUL \notin {"h", "l", "L", "Z", "z", "c", "s", "p", "n", "o", "X", "x", "d", "i", "u"}

VARIABLES
    pc, fmt, buf, size, p,
    flags, field_width, precision, qualifier,
    memory, out,
    count,       \* what the latest %n stored
    conversion,  \* the latest call of number
    ret,
    shown        \* what printf has passed to puts

spec_fields == <<flags, field_width, precision, qualifier>>
notes == <<count, conversion>>
vars == <<pc, fmt, buf, size, p, spec_fields, memory, out, notes, ret, shown>>

Stale == "?"

NoConversion == [num |-> 0, base |-> 0, size |-> 0, precision |-> 0, type |-> {}, text |-> << >>]

Init ==
    /\ pc = "vsnprintf"
    /\ fmt \in Formats /\ buf \in Bufs /\ size \in Sizes
    /\ p = 1
    /\ flags = {} /\ field_width = -1 /\ precision = -1 /\ qualifier = NUL
    /\ memory = << >> /\ out = << >>
    /\ ret = 0 /\ shown = << >> /\ count = 0 /\ conversion = NoConversion

At(i) == IF i <= Len(fmt) THEN fmt[i] ELSE NUL

Signed(a, word) == IF a >= word \div 2 THEN a - word ELSE a

\* Mutant: the cell behind the buffer is taken for its last one.
one_behind == (buf + size) % IntWord

last_cell == (buf + size - 1) % IntWord

\* Mutant: nobody looks whether the sum has wrapped around.
unclamped == last_cell

\* (void *) -1 for a buffer that reaches past the top of the address space;
\* then str <= end, and nobody asks for size again.
end == IF last_cell < (buf - 1) % IntWord THEN IntWord - 1 ELSE last_cell

str == (buf + Len(out)) % IntWord

\* Stores the characters one after another where str <= end, and counts them all.
Emit(chars) ==
    LET stored == {a \in {(str + k) % IntWord : k \in 0 .. Len(chars) - 1} : a <= end}
    IN  /\ out' = out \o chars
        /\ memory' = [a \in DOMAIN memory \union stored |->
                         IF a \in stored THEN chars[((a - str) % IntWord) + 1] ELSE memory[a]]

Read(a) == IF a \in DOMAIN memory THEN memory[a] ELSE Stale

\* str - buf, as an int.
Generated == Signed((str - buf) % IntWord, IntWord)

DigitValue(char) == CHOOSE v \in 0 .. 9 : DigitChar[v + 1] = char

\* The digits that start at fmt[i].
DigitRun(i) ==
    LET n == CHOOSE n \in 0 .. Len(fmt) :
                 /\ \A k \in 0 .. n - 1 : IsDigit(At(i + k))
                 /\ ~IsDigit(At(i + n))
    IN  [k \in 1 .. n |-> At(i + k - 1)]

skip_atoi(i) ==
    LET value[n \in 0 .. Len(DigitRun(i))] ==
            IF n = 0 THEN 0 ELSE 10 * value[n - 1] + DigitValue(At(i + n - 1))
    IN  value[Len(DigitRun(i))]
-----------------------------------------------------------------------------
Reject ==
    /\ pc = "vsnprintf" /\ Signed(size, IntWord) < 0
    /\ ret' = 0
    /\ pc' = "printf"
    /\ UNCHANGED <<fmt, buf, size, p, spec_fields, memory, out, notes, shown>>

Accept ==
    /\ pc = "vsnprintf" /\ Signed(size, IntWord) >= 0
    /\ pc' = "directive"
    /\ UNCHANGED <<fmt, buf, size, p, spec_fields, memory, out, notes, ret, shown>>

Ordinary ==
    /\ pc = "directive" /\ At(p) \notin {"%", NUL}
    /\ Emit(<<At(p)>>)
    /\ p' = p + 1
    /\ UNCHANGED <<pc, fmt, buf, size, spec_fields, notes, ret, shown>>

Percent ==
    /\ pc = "directive" /\ At(p) = "%"
    /\ p' = p + 1
    /\ flags' = {}
    /\ pc' = "flags"
    /\ UNCHANGED <<fmt, buf, size, field_width, precision, qualifier, memory, out, notes,
                   ret, shown>>

FlagOf(char) ==
    CASE char = "-" -> {"LEFT"} [] char = "+" -> {"PLUS"} [] char = " " -> {"SPACE"}
      [] char = "#" -> {"SPECIAL"} [] char = "0" -> {"ZEROPAD"} [] OTHER -> {}

\* Mutant: the jump goes behind ++fmt.
same_flag(i) == i

repeat(i) == i + 1

Flag ==
    /\ pc = "flags" /\ FlagOf(At(p)) # {}
    /\ flags' = flags \union FlagOf(At(p))
    /\ p' = repeat(p)
    /\ UNCHANGED <<pc, fmt, buf, size, field_width, precision, qualifier, memory, out, notes,
                   ret, shown>>

\* The arguments that a `*' takes.
StarArgs == {a \in IntArgs : Signed(a, IntWord) \in -MaxWidth .. MaxWidth}

\* A negative width from an argument means LEFT.
FieldWidth ==
    /\ pc = "flags" /\ FlagOf(At(p)) = {}
    /\ \/ /\ IsDigit(At(p))
          /\ field_width' = skip_atoi(p)
          /\ p' = p + Len(DigitRun(p))
          /\ UNCHANGED flags
       \/ /\ At(p) = "*"
          /\ \E a \in StarArgs :
                LET width == Signed(a, IntWord)
                IN  IF width < 0
                    THEN field_width' = -width /\ flags' = flags \union {"LEFT"}
                    ELSE field_width' = width /\ UNCHANGED flags
          /\ p' = p + 1
       \/ /\ ~IsDigit(At(p)) /\ At(p) # "*"
          /\ field_width' = -1
          /\ UNCHANGED <<p, flags>>
    /\ pc' = "precision"
    /\ UNCHANGED <<fmt, buf, size, precision, qualifier, memory, out, notes, ret, shown>>

Precision ==
    /\ pc = "precision"
    /\ \/ /\ At(p) # "."
          /\ precision' = -1
          /\ UNCHANGED p
       \/ /\ At(p) = "." /\ IsDigit(At(p + 1))
          /\ precision' = skip_atoi(p + 1)
          /\ p' = p + 1 + Len(DigitRun(p + 1))
       \/ /\ At(p) = "." /\ At(p + 1) = "*"
          /\ \E a \in StarArgs : precision' = larger(Signed(a, IntWord), 0)
          /\ p' = p + 2
       \/ /\ At(p) = "." /\ ~IsDigit(At(p + 1)) /\ At(p + 1) # "*"
          /\ precision' = 0
          /\ p' = p + 1
    /\ pc' = "qualifier"
    /\ UNCHANGED <<fmt, buf, size, flags, field_width, qualifier, memory, out, notes, ret, shown>>

Qualifier ==
    /\ pc = "qualifier"
    /\ \/ /\ At(p) \notin {"h", "l", "L", "Z", "z"}
          /\ qualifier' = NUL
          /\ UNCHANGED p
       \/ /\ At(p) \in {"h", "l", "L", "Z", "z"} /\ <<At(p), At(p + 1)>> # <<"l", "l">>
          /\ qualifier' = At(p)
          /\ p' = p + 1
       \/ /\ <<At(p), At(p + 1)>> = <<"l", "l">>
          /\ qualifier' = "L"
          /\ p' = p + 2
    /\ pc' = "convert"
    /\ UNCHANGED <<fmt, buf, size, flags, field_width, precision, memory, out, notes, ret, shown>>
-----------------------------------------------------------------------------
\* `continue', which moves on to the next character of the format.
Continue ==
    /\ p' = p + 1
    /\ pc' = "directive"
    /\ UNCHANGED <<fmt, buf, size, spec_fields, ret, shown>>

Pad(n) == Repeat(" ", n)

\* chars in a field of the width asked for.
InField(chars) ==
    IF "LEFT" \in flags THEN chars \o Pad(field_width - Len(chars))
                        ELSE Pad(field_width - Len(chars)) \o chars

ConvertChar ==
    /\ pc = "convert" /\ At(p) = "c"
    /\ \E c \in CharArgs : Emit(InField(<<c>>))
    /\ Continue
    /\ UNCHANGED notes

null_string == <<"<", "N", "U", "L", "L", ">">>

\* Mutant: the precision is a maximum only when it is not zero.
nonzero_maximum(string) == IF precision > 0 /\ precision < Len(string) THEN precision
                           ELSE Len(string)

\* strnlen of a precision of -1 counts up to the largest size_t.
length(string) == IF precision >= 0 /\ precision < Len(string) THEN precision
                  ELSE Len(string)

ConvertString ==
    /\ pc = "convert" /\ At(p) = "s"
    /\ \E a \in StringArgs :
          LET s == IF a = NUL THEN null_string ELSE a
          IN  Emit(InField(SubSeq(s, 1, length(s))))
    /\ Continue
    /\ UNCHANGED notes

\* number(), which takes its arguments from the directive but for the size.
Convert(num, base, width, type) ==
    LET text == number(num, base, width, precision, type)
    IN  /\ Emit(text)
        /\ conversion' = [num |-> num, base |-> base, size |-> width,
                          precision |-> precision, type |-> type, text |-> text]
        /\ UNCHANGED count

ConvertPointer ==
    /\ pc = "convert" /\ At(p) = "p"
    /\ \E a \in IntArgs :
          IF field_width = -1 THEN Convert(a, 16, 8, flags \union {"ZEROPAD"})
          ELSE Convert(a, 16, field_width, flags)
    /\ Continue

StoreCount ==
    /\ pc = "convert" /\ At(p) = "n"
    /\ count' = Generated
    /\ Continue
    /\ UNCHANGED <<memory, out, conversion>>

PercentSign ==
    /\ pc = "convert" /\ At(p) = "%"
    /\ Emit(<<"%">>)
    /\ Continue
    /\ UNCHANGED notes

IntegerConversions == {"o", "X", "x", "d", "i", "u"}

\* A negative value is sign extended to unsigned long long.
Extend(a, word) == IF Signed(a, word) < 0 THEN a - word + Word ELSE a

IntegerArgs ==
    LET signed == At(p) \in {"d", "i"}
        As(a, word) == IF signed THEN Extend(a, word) ELSE a
    IN  CASE qualifier = "L" -> LongLongArgs
          [] qualifier \in {"Z", "z"} -> IntArgs
          [] qualifier = "h" -> {As(a % ShortWord, ShortWord) : a \in IntArgs}
          [] OTHER -> {As(a, IntWord) : a \in IntArgs}

ConvertInteger ==
    /\ pc = "convert" /\ At(p) \in IntegerConversions
    /\ LET base == CASE At(p) = "o" -> 8 [] At(p) \in {"x", "X"} -> 16 [] OTHER -> 10
           type == IF At(p) \in {"d", "i"} THEN flags \union {"SIGN"} ELSE flags
       IN  \E num \in IntegerArgs : Convert(num, base, field_width, type)
    /\ Continue

after_unknown(i) == IF At(i) = NUL THEN i ELSE i + 1

Unknown ==
    /\ pc = "convert" /\ At(p) \notin IntegerConversions \union {"c", "s", "p", "n", "%"}
    /\ Emit(IF At(p) = NUL THEN <<"%">> ELSE <<"%", At(p)>>)
    /\ p' = after_unknown(p)
    /\ pc' = "directive"
    /\ UNCHANGED <<fmt, buf, size, spec_fields, notes, ret, shown>>

\* Mutant: the terminator goes where the output ended.
terminate_at_str(a) == a

\* Where the terminator goes, when there is room for one.
terminator(a) == IF a <= end THEN a ELSE end

Terminate ==
    /\ pc = "directive" /\ At(p) = NUL
    /\ memory' = IF str <= end \/ size > 0
                 THEN [a \in DOMAIN memory \union {terminator(str)} |->
                          IF a = terminator(str) THEN NUL ELSE memory[a]]
                 ELSE memory
    /\ ret' = Generated
    /\ pc' = "printf"
    /\ UNCHANGED <<fmt, buf, size, p, spec_fields, out, notes, shown>>

\* puts stops at the first NUL; vsnprintf's other callers do what they like.
UpToNul == LET cell(k) == Read((buf + k) % IntWord)
               n == CHOOSE n \in 0 .. IntWord :
                        /\ \A k \in 0 .. n - 1 : cell(k) # NUL
                        /\ n = IntWord \/ cell(n) = NUL
           IN  [k \in 1 .. n |-> cell(k - 1)]

Puts ==
    /\ pc = "printf"
    /\ shown' = IF size = BufSize /\ ret > 0 THEN UpToNul ELSE shown
    /\ pc' = "done"
    /\ UNCHANGED <<fmt, buf, size, p, spec_fields, memory, out, notes, ret>>

Done == pc = "done" /\ UNCHANGED vars

Work ==
    \/ Reject \/ Accept
    \/ Ordinary \/ Percent \/ Flag \/ FieldWidth \/ Precision \/ Qualifier
    \/ ConvertChar \/ ConvertString \/ ConvertPointer \/ StoreCount \/ PercentSign
    \/ ConvertInteger \/ Unknown
    \/ Terminate \/ Puts

Next == Work \/ Done

\* The processor goes on executing a call it has begun.
Spec == Init /\ [][Next]_vars /\ WF_vars(Work)
-----------------------------------------------------------------------------
\* The address space ends neither before the buffer nor before the output.
InReach == 0 < buf /\ buf + Len(out) < IntWord /\ Len(out) < IntWord \div 2

\* The buffer ends with the last address there is or behind it, or begins at NULL.
ReachesTop == buf = 0 \/ buf + size >= IntWord

(* The format is never read past the NUL that ends it, whatever unfinished *)
(* directive it ends in, and nothing is stored outside the buffer, whatever *)
(* is generated, as long as that does not reach the top of the address     *)
(* space; the buffer may, by its size.                                     *)
StaysInBounds ==
    /\ p <= Len(fmt) + 1
    /\ InReach => \A a \in DOMAIN memory : buf <= a /\ a < buf + size

(* printf.c:157-163: the result is the output, cut off where the buffer    *)
(* ends, with a NUL behind it, and ret the length it would have had, as    *)
(* long as that does not reach the top of the address space.  What printf  *)
(* shows is that much up to its first NUL, and nothing that a former call  *)
(* left in its static buffer.                                              *)
CutsOffBelowTop ==
    pc \in {"printf", "done"} /\ Signed(size, IntWord) > 0 /\ InReach =>
        LET kept == IF Len(out) < size THEN Len(out) ELSE size - 1
        IN  /\ ret = Len(out)
            /\ \A k \in 0 .. kept - 1 : Read(buf + k) = out[k + 1]
            /\ Read(buf + kept) = NUL
            /\ Len(shown) <= kept /\ shown = SubSeq(out, 1, Len(shown))
            /\ pc = "done" /\ size = BufSize /\ Len(shown) < kept => out[Len(shown) + 1] = NUL

(* A buffer that reaches the top of the address space, and one at NULL,    *)
(* before which there is no address, have the last address for end.  Their *)
(* output is stored to its end and with its NUL, over the top and on from  *)
(* 0: it is not cut off, although the value returned may say so            *)
(* (printf.c:161-163), and a size of zero gets its null byte               *)
(* (printf.c:398).                                                         *)
NothingCutAtTop ==
    pc \in {"printf", "done"} /\ Signed(size, IntWord) >= 0
      /\ ReachesTop /\ Len(out) < IntWord \div 2 =>
        /\ \A k \in 0 .. Len(out) - 1 : Read((buf + k) % IntWord) = out[k + 1]
        /\ Read(str) = NUL

(* What of an output is stored, and where, for every buffer: what does not *)
(* fit is cut off, but where the buffer reaches the top nothing is.        *)
TruncatesOutput == CutsOffBelowTop /\ NothingCutAtTop

(* A conversion fills its field: it generates at least field_width         *)
(* characters, and no string more than its precision and its field allow.  *)
FillsField ==
    [][pc = "convert" /\ At(p) \in IntegerConversions \union {"c", "s", "p"} =>
          LET n == Len(out') - Len(out)
          IN  /\ n >= field_width
              /\ At(p) = "s" /\ precision >= 0 => n <= larger(field_width, precision)]_vars

(* A number reads back from its text: its sign, its value in its base,     *)
(* also for the most negative number, whatever is padded around it.        *)
ReadsBack == conversion # NoConversion => Legible(conversion)

(* The text of a number is as wide as its field, or as its sign, prefix    *)
(* and digits need: of the three padding loops that share size, one pads,  *)
(* on the side the flags ask for, with zeros only between sign and digits. *)
PadsOneSide == conversion # NoConversion => WideEnough(conversion) /\ PaddedOneSide(conversion)

(* vsnprintf comes to the end of every format. *)
FormatEnds == <>(pc = "done")
=============================================================================
