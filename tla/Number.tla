------------------------------- MODULE Number -------------------------------
(***************************************************************************)
(* kernel/printf.c, number(): the characters of one converted integer.     *)
(* `num' is an unsigned long long, below Word; `type' is the set of flags. *)
(* LARGE, which only chooses the letters of the digits, is left out.       *)
(* Where the characters are stored is the business of module Printf.       *)
(***************************************************************************)
EXTENDS Integers, Sequences

CONSTANT Word   \* 2^64

ASSUME WordAssumption == Word \in Nat /\ Word % 2 = 0 /\ Word > 0

Flags == {"ZEROPAD", "SIGN", "PLUS", "SPACE", "LEFT", "SPECIAL"}

DigitChar == <<"0", "1", "2", "3", "4", "5", "6", "7", "8", "9", "a", "b", "c", "d", "e", "f">>

larger(a, b) == IF a > b THEN a ELSE b

Repeat(char, n) == [i \in 1 .. larger(n, 0) |-> char]

\* The digits of num, most significant first; do_div takes them off one by one.
Digits(num, base) ==
    LET of[n \in 0 .. num] ==
            IF n = 0 THEN << >> ELSE Append(of[n \div base], DigitChar[(n % base) + 1])
    IN  IF num = 0 THEN <<"0">> ELSE of[num]

Negative(num, type) == "SIGN" \in type /\ num >= Word \div 2

SignOf(num, type) ==
    IF "SIGN" \notin type THEN << >>
    ELSE IF Negative(num, type) THEN <<"-">>
    ELSE IF "PLUS" \in type THEN <<"+">>
    ELSE IF "SPACE" \in type THEN <<" ">> ELSE << >>

PrefixOf(base, type) ==
    IF "SPECIAL" \notin type THEN << >>
    ELSE CASE base = 16 -> <<"0", "x">> [] base = 8 -> <<"0">> [] OTHER -> << >>

\* Mutant: the absolute value is not taken.
as_unsigned(num, type) == num

magnitude(num, type) == IF Negative(num, type) THEN Word - num ELSE num

\* Mutant: the padding loop works on a copy of size.
keeps_room(size) == size

\* What `while (size-- > 0)' leaves in size.
spent(size) == IF size > 0 THEN -1 ELSE size - 1

pads_zero(type) == "ZEROPAD" \in type /\ "LEFT" \notin type

number(num, base, size, precision, type) ==
    LET left   == "LEFT" \in type
        sign   == SignOf(num, type)
        prefix == PrefixOf(base, type)
        digits == Digits(magnitude(num, type), base)
        least  == larger(Len(digits), precision)
        room   == size - Len(sign) - Len(prefix) - least
        front  == IF left \/ pads_zero(type) THEN 0 ELSE room
        inner  == IF left \/ pads_zero(type) THEN room ELSE spent(room)
        back   == IF left THEN inner ELSE spent(inner)
    IN  Repeat(" ", front) \o sign \o prefix
            \o (IF left THEN << >> ELSE Repeat(IF pads_zero(type) THEN "0" ELSE " ", inner))
            \o Repeat("0", least - Len(digits)) \o digits
            \o Repeat(" ", back)
=============================================================================
