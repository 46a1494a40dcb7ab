----------------------------- MODULE NumberSpec -----------------------------
(***************************************************************************)
(* What the text of a converted number has to be.  A conversion is a       *)
(* record of the arguments number() was given and the text it generated.   *)
(***************************************************************************)
EXTENDS Number, SequencesExt, FiniteSets

\* The place of a digit character, and the value of a sequence of them.
ValueOf(char) == CHOOSE v \in 0 .. 15 : DigitChar[v + 1] = char

Value(digits, base) == FoldLeft(LAMBDA v, char : v * base + ValueOf(char), 0, digits)

IsNegative(c) == "SIGN" \in c.type /\ c.num >= Word \div 2

Absolute(c) == IF IsNegative(c) THEN Word - c.num ELSE c.num

\* What is left of a text without the spaces around it, and of that without
\* its sign and the prefix of its base.
Trimmed(text) ==
    LET ink   == {i \in DOMAIN text : text[i] # " "}
        first == CHOOSE i \in ink : \A j \in ink : i <= j
        last  == CHOOSE i \in ink : \A j \in ink : j <= i
    IN  SubSeq(text, first, last)

HasSign(text) == Trimmed(text)[1] \in {"-", "+"}

Unsigned(text) == IF HasSign(text) THEN Tail(Trimmed(text)) ELSE Trimmed(text)

HexPrefixed(c) == c.base = 16 /\ "SPECIAL" \in c.type

Figures(c) == IF HexPrefixed(c) THEN SubSeq(Unsigned(c.text), 3, Len(Unsigned(c.text)))
              ELSE Unsigned(c.text)

\* The number can be read back from its text.
Legible(c) ==
    /\ Trimmed(c.text)[1] = "-" <=> IsNegative(c)
    /\ HexPrefixed(c) => SubSeq(Unsigned(c.text), 1, 2) = <<"0", "x">>
    /\ Value(Figures(c), c.base) = Absolute(c)

Power(base, n) == LET to[i \in 0 .. n] == IF i = 0 THEN 1 ELSE base * to[i - 1] IN to[n]

\* How many figures the number has in its base, and how wide it is without padding.
FigureCount(c) ==
    CHOOSE k \in 1 .. Word :
        Power(c.base, k) > Absolute(c) /\ (k = 1 \/ Power(c.base, k - 1) <= Absolute(c))

SignWidth(c) ==
    IF "SIGN" \in c.type /\ (IsNegative(c) \/ {"PLUS", "SPACE"} \intersect c.type # {})
    THEN 1 ELSE 0

PrefixWidth(c) ==
    IF "SPECIAL" \notin c.type THEN 0
    ELSE CASE c.base = 16 -> 2 [] c.base = 8 -> 1 [] OTHER -> 0

Body(c) == SignWidth(c) + PrefixWidth(c) + larger(FigureCount(c), c.precision)

WideEnough(c) == Len(c.text) = larger(c.size, Body(c))

\* The only spaces are the one SPACE puts in the place of a sign and the
\* padding: behind the number with LEFT, otherwise in front of it, unless
\* ZEROPAD, which LEFT overrides, asks for zeros.
PaddedOneSide(c) ==
    LET n     == Len(c.text)
        room  == larger(c.size - Body(c), 0)
        left  == "LEFT" \in c.type
        zeros == "ZEROPAD" \in c.type /\ ~left
        sign  == IF left \/ zeros THEN 1 ELSE room + 1
    IN  {i \in 1 .. n : c.text[i] = " "} \ (IF SignWidth(c) = 1 THEN {sign} ELSE {})
            = IF left THEN n - room + 1 .. n ELSE IF zeros THEN {} ELSE 1 .. room
=============================================================================
