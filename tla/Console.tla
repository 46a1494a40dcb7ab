------------------------------- MODULE Console ------------------------------
(***************************************************************************)
(* kernel/printf.c: putchar and scroll on the text screen.  A cell is one  *)
(* character of video memory, two bytes; `at' is stdout_pt counted in      *)
(* cells.  The letters printed are numbered round and round in the order   *)
(* they are printed, so that the screen can be compared with the output;   *)
(* there are more numbers than cells.                                      *)
(***************************************************************************)
EXTENDS Integers

CONSTANTS
    Columns,     \* CHARS_PER_LINE
    Lines,       \* MAX_LINES
    DropLines,   \* lines scroll takes off the top
    KeepLines,   \* lines scroll moves up
    CopiedTo,    \* where scroll starts to clear, in lines from the copied ones
    ClearLines,  \* lines scroll clears
    Letters      \* bound: numbers for letters, more than there are cells

ASSUME ConsoleAssumption ==
    /\ Columns \in Nat \ {0, 1} /\ Lines \in Nat \ {0}
    /\ DropLines \in Nat \ {0} /\ KeepLines \in Nat \ {0}
    /\ CopiedTo \in Int /\ ClearLines \in Nat
    /\ DropLines + KeepLines = Lines
    /\ DropLines + CopiedTo = KeepLines /\ KeepLines + ClearLines = Lines
    /\ Letters \in Nat /\ Letters > Columns * Lines

VIDEO_MEM_SIZE == Columns * Lines

Cells == 0 .. VIDEO_MEM_SIZE - 1

Blank == -1
Old   == -2   \* what the BIOS left behind

VARIABLES screen, at, printed

vars == <<screen, at, printed>>

\* The loader clears all lines but the last one.
Init ==
    /\ screen \in {[c \in Cells |-> IF c \div Columns < Lines - 1 THEN Blank ELSE left] :
                      left \in {Blank, Old}}
    /\ at = 0
    /\ printed = 0

\* Mutant: the lines that were copied up stay where they were as well.
scroll_without_clear(s) ==
    [c \in Cells |-> IF c < KeepLines * Columns THEN s[c + DropLines * Columns] ELSE s[c]]

\* Mutant: the copy starts one line too far down.
scroll_skips_line(s) ==
    [c \in Cells |-> IF c < (KeepLines - 1) * Columns THEN s[c + (DropLines + 1) * Columns]
                     ELSE Blank]

\* memcpy copies upwards, byte after byte, so it may overlap its source.
scroll(s) ==
    LET pt    == DropLines * Columns
        clear == pt + CopiedTo * Columns
    IN  [c \in Cells |->
            IF c >= clear /\ c < clear + ClearLines * Columns THEN Blank
            ELSE IF c < KeepLines * Columns THEN s[c + pt] ELSE s[c]]

scrolled == KeepLines * Columns

\* Mutant: the last cell of the screen is thought to be free.
full_beyond_end(pt) == pt > VIDEO_MEM_SIZE

\* pt + 2 >= VIDEO_MEM_SIZE, in cells.
full(pt) == pt + 1 >= VIDEO_MEM_SIZE

\* The screen and the cursor after the test for the end of the screen.
page == IF full(at) THEN scroll(screen) ELSE screen
here == IF full(at) THEN scrolled ELSE at

PutNewline ==
    /\ screen' = page
    /\ at' = here + (Columns - (here % Columns))
    /\ UNCHANGED printed

PutLetter ==
    /\ screen' = [page EXCEPT ![here] = printed]
    /\ at' = here + 1
    /\ printed' = (printed + 1) % Letters

Next == PutNewline \/ PutLetter

Spec == Init /\ [][Next]_vars
-----------------------------------------------------------------------------
TypeOK ==
    /\ screen \in [Cells -> {Blank, Old} \union 0 .. Letters - 1]
    /\ at \in 0 .. VIDEO_MEM_SIZE
    /\ printed \in 0 .. Letters - 1

\* Whether the cell shows a letter, and whether none between two cells does.
Letter(c) == screen[c] >= 0

BlankBetween(c, d) == \A e \in Cells : c < e /\ e < d => ~Letter(e)

(* The screen shows the latest letters in the order they were printed:     *)
(* scrolling loses letters only at the top, and neither repeats one nor    *)
(* leaves one out: a letter is followed by the one printed after it, and   *)
(* the last one is the latest.  From the cursor on there is nothing that   *)
(* was printed before, so that new text never runs into old text.          *)
ReadsAsPrinted ==
    /\ \A c \in Cells : Letter(c) =>
          /\ \A d \in Cells : c < d /\ Letter(d) /\ BlankBetween(c, d) =>
                screen[d] = (screen[c] + 1) % Letters
          /\ BlankBetween(c, VIDEO_MEM_SIZE) => printed = (screen[c] + 1) % Letters
    /\ \A c \in Cells :
          c >= at => screen[c] = Blank \/ (screen[c] = Old /\ c \div Columns = Lines - 1)

(* A scroll, which may happen in the middle of a message, leaves the       *)
(* latest lines up: no letter disappears that is less than KeepLines lines *)
(* above the cursor.                                                       *)
KeepsLatestLines ==
    [][\A c \in Cells :
          /\ screen[c] >= 0
          /\ c \div Columns > (at - 1) \div Columns - KeepLines
          => \E d \in Cells : screen'[d] = screen[c] /\ d < at']_vars
=============================================================================
