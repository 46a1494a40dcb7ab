------------------------------ MODULE MCPrintf ------------------------------
(* Printf for TLC: every format of up to four of the characters below, and *)
(* the integer directives with every set of flags.                         *)
EXTENDS Printf

Chars == {"a", "%", "-", "0", "3", "*", ".", "l", "d", "x", "s", "c"}

MCChar == Chars \union {DigitChar[i] : i \in 1 .. 16}
    \union {"+", " ", "#", "o", "h", "i", "z", "u", "n", "p", "X", "t", "<", "N", "U", "L", ">", NUL}

Option(chars) == {<< >>, chars}

IntegerDirectives ==
    {<<"%">> \o f[1] \o f[2] \o f[3] \o f[4] \o f[5] \o f[6] :
        f \in Option(<<"-">>) \X {<< >>, <<"+">>, <<" ">>} \X Option(<<"#">>)
                \X Option(<<"0">>) \X Option(<<"5">>)
                \X {<<"d">>, <<"x">>, <<"o">>, <<".", "2", "d">>, <<"l", "l", "d">>}}

MCFormats == UNION {[1 .. n -> Chars] : n \in 0 .. 3}
    \union {<<"%">> \o f : f \in [1 .. 3 -> Chars]}
    \union IntegerDirectives
    \union {<<"%", "+", "h", "d">>, <<"%", " ", "i">>, <<"%", "z", "u">>,
            <<"a", "%", "n", "%", "p">>, <<"%", "5", "p", "X">>,
            <<"%", "l", "l", "d", "%">>, <<"%", "-", "5", ".", "*", "X">>}

MCStrings == {NUL, << >>, <<"s", "t">>}
=============================================================================
