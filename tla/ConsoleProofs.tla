---------------------------- MODULE ConsoleProofs ---------------------------
(***************************************************************************)
(* The screen shows what was printed, in its order and up to the latest    *)
(* letter, on a screen of any size on which scroll copies and clears what  *)
(* it leaves.  The cursor needs no more than its range and that nothing is *)
(* shown behind it: TypeOK and ReadsAsPrinted are inductive together.      *)
(***************************************************************************)
EXTENDS Console, TLAPS

(* The measures of the screen in cells. *)
LEMMA Measures ==
    /\ VIDEO_MEM_SIZE \in Nat /\ VIDEO_MEM_SIZE >= 2
    /\ Columns \in Nat /\ Columns >= 2
    /\ scrolled \in Nat /\ scrolled >= Columns
    /\ DropLines * Columns \in Nat /\ DropLines * Columns >= Columns
    /\ scrolled + DropLines * Columns = VIDEO_MEM_SIZE
    /\ Letters \in Nat /\ Letters > VIDEO_MEM_SIZE
<1>1. /\ Columns \in Nat /\ Columns >= 2 /\ Lines \in Nat /\ Lines >= 1
      /\ DropLines \in Nat /\ DropLines >= 1 /\ KeepLines \in Nat /\ KeepLines >= 1
      /\ Lines = KeepLines + DropLines
      /\ Letters \in Nat /\ Letters > Columns * Lines
  BY ConsoleAssumption
<1>2. ASSUME NEW n \in Nat, n >= 1 PROVE n * Columns \in Nat /\ n * Columns >= Columns
  <2>1. n - 1 \in Nat /\ n * Columns = (n - 1) * Columns + Columns
    BY <1>1, <1>2
  <2>2. (n - 1) * Columns \in Nat
    BY <1>1, <2>1
  <2> QED
    BY <1>1, <2>1, <2>2
<1>3. Columns * Lines = KeepLines * Columns + DropLines * Columns
  BY <1>1
<1>4. /\ KeepLines * Columns \in Nat /\ KeepLines * Columns >= Columns
      /\ DropLines * Columns \in Nat /\ DropLines * Columns >= Columns
  BY <1>1, <1>2
<1> QED
  BY <1>1, <1>3, <1>4 DEF VIDEO_MEM_SIZE, scrolled

(* scroll moves the screen up by the lines it drops and leaves the rest    *)
(* blank: what it copies and what it clears meet exactly.                  *)
LEMMA ScrollMovesUp ==
    ASSUME NEW s, NEW c \in Cells
    PROVE  /\ c < scrolled => c + DropLines * Columns \in Cells
                              /\ scroll(s)[c] = s[c + DropLines * Columns]
           /\ c >= scrolled => scroll(s)[c] = Blank
<1> DEFINE pt    == DropLines * Columns
           clear == pt + CopiedTo * Columns
           size  == ClearLines * Columns
<1>1. /\ Columns \in Nat /\ CopiedTo \in Int /\ ClearLines \in Int
      /\ DropLines \in Nat /\ KeepLines \in Nat
      /\ CopiedTo = KeepLines - DropLines /\ ClearLines = DropLines
  BY ConsoleAssumption
<1>2. clear = scrolled /\ size = pt
  BY <1>1 DEF scrolled
<1>3. scroll(s)[c] = IF c >= clear /\ c < clear + size THEN Blank
                     ELSE IF c < scrolled THEN s[c + pt] ELSE s[c]
  BY DEF scroll, scrolled
<1> HIDE DEF pt, clear, size
<1>4. /\ pt \in Nat /\ scrolled \in Nat /\ scrolled + pt = VIDEO_MEM_SIZE
      /\ VIDEO_MEM_SIZE \in Nat
  BY Measures DEF pt
<1>5. c \in Int /\ 0 <= c /\ c < VIDEO_MEM_SIZE
  BY <1>4 DEF Cells
<1>6. c < scrolled => c + pt \in Cells
  BY <1>4, <1>5 DEF Cells
<1>7. c < scrolled => scroll(s)[c] = s[c + pt]
  BY <1>2, <1>3, <1>4, <1>5
<1>8. c >= scrolled => scroll(s)[c] = Blank
  BY <1>2, <1>3, <1>4, <1>5
<1> QED
  BY <1>6, <1>7, <1>8 DEF pt
-----------------------------------------------------------------------------
Inv == TypeOK /\ ReadsAsPrinted

LEMMA InitInv == Init => Inv
<1> SUFFICES ASSUME Init PROVE Inv
  OBVIOUS
<1>1. at = 0 /\ printed = 0 /\ VIDEO_MEM_SIZE \in Nat /\ Letters \in Nat /\ Letters > 0
  BY Measures DEF Init
<1>2. PICK left \in {Blank, Old} :
         screen = [c \in Cells |-> IF c \div Columns < Lines - 1 THEN Blank ELSE left]
  BY DEF Init
<1>3. \A c \in Cells : screen[c] = Blank \/ (screen[c] = Old /\ c \div Columns = Lines - 1)
  <2> SUFFICES ASSUME NEW c \in Cells, ~(c \div Columns < Lines - 1)
               PROVE  c \div Columns = Lines - 1
    BY <1>2
  <2>1. /\ Columns \in Nat /\ Columns >= 2 /\ Lines \in Nat
        /\ c \in Nat /\ c < Columns * Lines
    BY <1>1, Measures, ConsoleAssumption DEF Cells, VIDEO_MEM_SIZE
  <2> DEFINE q == c \div Columns
  <2>2. q \in Nat /\ q * Columns <= c
    BY <2>1
  <2> HIDE DEF q
  <2>3. q < Lines
    <3> SUFFICES ASSUME q >= Lines PROVE FALSE
      BY <2>1, <2>2
    <3>1. q = Lines + (q - Lines) /\ q - Lines \in Nat
      BY <2>1, <2>2
    <3>2. q * Columns = Lines * Columns + (q - Lines) * Columns /\ (q - Lines) * Columns \in Nat
      BY <2>1, <2>2, <3>1
    <3> QED
      BY <2>1, <2>2, <3>2
  <2> QED
    BY <2>1, <2>2, <2>3 DEF q
<1>4. screen \in [Cells -> {Blank, Old} \union 0 .. Letters - 1]
  BY <1>2
<1>5. \A c \in Cells : ~Letter(c)
  BY <1>3 DEF Letter, Blank, Old
<1>6. TypeOK
  BY <1>1, <1>4 DEF TypeOK
<1>7. ReadsAsPrinted
  BY <1>3, <1>5 DEF ReadsAsPrinted
<1> QED
  BY <1>6, <1>7 DEF Inv
-----------------------------------------------------------------------------
(* The screen s reads as printed up to the number n, and shows nothing     *)
(* that was printed from the cell `free' on.                               *)
Shows(s, c) == s[c] >= 0

Order(s, n) ==
    \A c \in Cells : Shows(s, c) =>
        /\ \A d \in Cells :
              /\ c < d /\ Shows(s, d)
              /\ \A e \in Cells : c < e /\ e < d => ~Shows(s, e)
              => s[d] = (s[c] + 1) % Letters
        /\ (\A e \in Cells : c < e => ~Shows(s, e)) => n = (s[c] + 1) % Letters

Free(s, free) ==
    \A c \in Cells :
        c >= free => s[c] = Blank \/ (s[c] = Old /\ c \div Columns = Lines - 1)

ScreenType == [Cells -> {Blank, Old} \union 0 .. Letters - 1]

LEMMA Restated == ReadsAsPrinted <=> Order(screen, printed) /\ Free(screen, at)
<1>1. \A c, e \in Cells : e < VIDEO_MEM_SIZE
  BY Measures DEF Cells
<1> QED
  BY <1>1 DEF ReadsAsPrinted, Order, Free, Letter, BlankBetween, Shows

(* scroll keeps the order and frees all cells from the cursor on. *)
LEMMA ScrollKeepsOrder ==
    ASSUME NEW s \in ScreenType, NEW n, Order(s, n)
    PROVE  /\ scroll(s) \in ScreenType
           /\ Order(scroll(s), n)
           /\ Free(scroll(s), scrolled)
<1> DEFINE t  == scroll(s)
           pt == DropLines * Columns
<1>0. /\ VIDEO_MEM_SIZE \in Nat /\ scrolled \in Nat /\ pt \in Nat
      /\ scrolled + pt = VIDEO_MEM_SIZE /\ Letters \in Nat
  BY Measures
<1>1. \A c \in Cells : /\ c < scrolled => c + pt \in Cells /\ t[c] = s[c + pt]
                       /\ c >= scrolled => t[c] = Blank
  BY ScrollMovesUp
<1>2. t = [c \in Cells |-> t[c]]
  BY DEF scroll
<1> HIDE DEF t, pt
<1>3. \A c \in Cells : c \in Nat /\ c < VIDEO_MEM_SIZE
  BY <1>0 DEF Cells
<1>4. \A c \in Cells : t[c] \in {Blank, Old} \union 0 .. Letters - 1
  <2> SUFFICES ASSUME NEW c \in Cells PROVE t[c] \in {Blank, Old} \union 0 .. Letters - 1
    OBVIOUS
  <2>1. CASE c < scrolled
    BY <1>1, <2>1 DEF ScreenType
  <2>2. CASE c >= scrolled
    BY <1>1, <2>2
  <2> QED
    BY <1>0, <1>3, <2>1, <2>2
<1>5. t \in ScreenType
  BY <1>2, <1>4 DEF ScreenType
<1>6. Free(t, scrolled)
  BY <1>1 DEF Free
<1>7. \A c \in Cells : Shows(t, c) => c < scrolled /\ Shows(s, c + pt)
  BY <1>0, <1>1, <1>3 DEF Shows, Blank
\* A cell of s from pt on is where scroll finds a cell of t.
<1>8. \A e \in Cells : pt < e => /\ e - pt \in Cells /\ e - pt < scrolled
                                 /\ t[e - pt] = s[e]
  <2> SUFFICES ASSUME NEW e \in Cells, pt < e
               PROVE  e - pt \in Cells /\ e - pt < scrolled /\ t[e - pt] = s[e]
    OBVIOUS
  <2>1. e - pt \in Cells /\ e - pt < scrolled /\ (e - pt) + pt = e
    BY <1>0, <1>3 DEF Cells
  <2> QED
    BY <1>1, <2>1
<1>9. ASSUME NEW c \in Cells, Shows(t, c)
      PROVE  /\ \A d \in Cells :
                   /\ c < d /\ Shows(t, d)
                   /\ \A e \in Cells : c < e /\ e < d => ~Shows(t, e)
                   => t[d] = (t[c] + 1) % Letters
             /\ (\A e \in Cells : c < e => ~Shows(t, e)) => n = (t[c] + 1) % Letters
  <2>1. c + pt \in Cells /\ t[c] = s[c + pt] /\ Shows(s, c + pt) /\ c < scrolled
    BY <1>1, <1>7, <1>9
  <2>2. ASSUME NEW d \in Cells, c < d, Shows(t, d),
               \A e \in Cells : c < e /\ e < d => ~Shows(t, e)
        PROVE  t[d] = (t[c] + 1) % Letters
    <3>1. d + pt \in Cells /\ t[d] = s[d + pt] /\ Shows(s, d + pt)
      BY <1>1, <1>7, <2>2
    <3>2. c + pt < d + pt
      BY <1>0, <1>3, <2>2
    <3>3. ASSUME NEW e \in Cells, c + pt < e, e < d + pt PROVE ~Shows(s, e)
      <4>1. pt < e /\ c < e - pt /\ e - pt < d
        BY <1>0, <1>3, <3>3
      <4>2. e - pt \in Cells /\ t[e - pt] = s[e]
        BY <1>8, <4>1
      <4>3. ~Shows(t, e - pt)
        BY <2>2, <4>1, <4>2
      <4> QED
        BY <4>2, <4>3 DEF Shows
    <3>4. s[d + pt] = (s[c + pt] + 1) % Letters
      BY <2>1, <3>1, <3>2, <3>3 DEF Order
    <3> QED
      BY <2>1, <3>1, <3>4
  <2>3. ASSUME \A e \in Cells : c < e => ~Shows(t, e)
        PROVE  n = (t[c] + 1) % Letters
    <3>1. ASSUME NEW e \in Cells, c + pt < e PROVE ~Shows(s, e)
      <4>1. pt < e /\ c < e - pt
        BY <1>0, <1>3, <3>1
      <4>2. e - pt \in Cells /\ t[e - pt] = s[e]
        BY <1>8, <4>1
      <4>3. ~Shows(t, e - pt)
        BY <2>3, <4>1, <4>2
      <4> QED
        BY <4>2, <4>3 DEF Shows
    <3>2. n = (s[c + pt] + 1) % Letters
      BY <2>1, <3>1 DEF Order
    <3> QED
      BY <2>1, <3>2
  <2> QED
    BY <2>2, <2>3
<1>10. Order(t, n)
  BY <1>9 DEF Order
<1> QED
  BY <1>5, <1>6, <1>10 DEF t

(* The screen and the cursor that both characters start from. *)
LEMMA PageReady ==
    ASSUME Inv
    PROVE  /\ page \in ScreenType
           /\ Order(page, printed) /\ Free(page, here)
           /\ here \in Nat /\ here <= VIDEO_MEM_SIZE - 2
<1>1. /\ screen \in ScreenType /\ at \in Nat /\ at <= VIDEO_MEM_SIZE
      /\ Order(screen, printed) /\ Free(screen, at)
      /\ VIDEO_MEM_SIZE \in Nat
  BY Measures, Restated DEF Inv, TypeOK, ScreenType
<1>2. CASE full(at)
  <2>1. page = scroll(screen) /\ here = scrolled
    BY <1>2 DEF page, here
  <2>2. scrolled \in Nat /\ scrolled <= VIDEO_MEM_SIZE - 2
    BY Measures
  <2> QED
    BY <1>1, <2>1, <2>2, ScrollKeepsOrder
<1>3. CASE ~full(at)
  BY <1>1, <1>3 DEF page, here, full
<1> QED
  BY <1>2, <1>3

LEMMA StepInv == Inv /\ [Next]_vars => Inv'
<1> SUFFICES ASSUME Inv, [Next]_vars PROVE Inv'
  OBVIOUS
<1>1. /\ page \in ScreenType
      /\ Order(page, printed) /\ Free(page, here)
      /\ here \in Nat /\ here <= VIDEO_MEM_SIZE - 2
  BY PageReady
<1>2. /\ VIDEO_MEM_SIZE \in Nat /\ Letters \in Nat /\ Letters > 0
      /\ printed \in 0 .. Letters - 1
  BY Measures DEF Inv, TypeOK
<1>3. \A c \in Cells : c \in Nat /\ c < VIDEO_MEM_SIZE
  BY <1>2 DEF Cells
<1>4. CASE PutNewline
  <2>1. screen' = page /\ at' = here + (Columns - (here % Columns)) /\ printed' = printed
    BY <1>4 DEF PutNewline
  <2>2. at' \in Nat /\ here <= at' /\ at' <= VIDEO_MEM_SIZE
    <3>1. /\ Columns \in Nat /\ Columns >= 2 /\ Lines \in Nat
          /\ VIDEO_MEM_SIZE = Columns * Lines
      BY Measures, ConsoleAssumption DEF VIDEO_MEM_SIZE
    <3> DEFINE q == here \div Columns
               r == here % Columns
    <3>2. q \in Nat /\ r \in Nat /\ r < Columns /\ here = q * Columns + r
      BY <1>1, <3>1
    <3> HIDE DEF q, r
    <3>3. q < Lines
      <4> SUFFICES ASSUME q >= Lines PROVE FALSE
        BY <3>1, <3>2
      <4>1. q * Columns = Lines * Columns + (q - Lines) * Columns /\ (q - Lines) * Columns \in Nat
        BY <3>1, <3>2
      <4> QED
        BY <1>1, <1>2, <3>1, <3>2, <4>1
    <3>4. /\ Lines * Columns = (q + 1) * Columns + (Lines - (q + 1)) * Columns
          /\ (Lines - (q + 1)) * Columns \in Nat
          /\ (q + 1) * Columns = q * Columns + Columns
      BY <3>1, <3>2, <3>3
    <3>5. q * Columns \in Nat
      BY <3>1, <3>2
    <3>6. at' = q * Columns + Columns
      BY <2>1, <3>1, <3>2, <3>5 DEF r
    <3> QED
      BY <1>1, <1>2, <3>1, <3>2, <3>4, <3>5, <3>6
  <2>3. Free(screen', at')
    BY <1>1, <1>3, <2>1, <2>2 DEF Free
  <2>4. ReadsAsPrinted'
    <3>1. (ReadsAsPrinted <=> Order(screen, printed) /\ Free(screen, at))'
      BY Restated, PTL
    <3> QED
      BY <1>1, <2>1, <2>3, <3>1 DEF Order, Free, Shows
  <2> QED
    BY <1>1, <1>2, <2>1, <2>2, <2>4 DEF Inv, TypeOK, ScreenType
<1>5. CASE PutLetter
  <2>1. /\ screen' = [page EXCEPT ![here] = printed] /\ at' = here + 1
        /\ printed' = (printed + 1) % Letters
    BY <1>5 DEF PutLetter
  <2>2. here \in Cells
    BY <1>1, <1>2 DEF Cells
  <2>3. /\ screen' \in ScreenType /\ screen'[here] = printed
        /\ \A c \in Cells : c # here => screen'[c] = page[c]
    BY <1>1, <1>2, <2>1, <2>2 DEF ScreenType
  <2>4. printed' \in 0 .. Letters - 1 /\ at' \in 0 .. VIDEO_MEM_SIZE
    BY <1>1, <1>2, <2>1
  <2>5. \A c \in Cells : c >= here => ~Shows(page, c)
    BY <1>1 DEF Free, Shows, Blank, Old
  <2>6. Free(screen', at')
    <3> SUFFICES ASSUME NEW c \in Cells, c >= at'
                 PROVE  screen'[c] = Blank \/ (screen'[c] = Old /\ c \div Columns = Lines - 1)
      BY DEF Free
    <3>1. c >= here /\ c # here
      BY <1>1, <1>3, <2>1
    <3> QED
      BY <1>1, <2>3, <3>1 DEF Free
  <2>7. Shows(screen', here)
    BY <1>2, <2>3 DEF Shows
  <2>8. \A c \in Cells : Shows(screen', c) => c <= here
    BY <1>1, <1>3, <2>3, <2>5 DEF Shows
  <2>9. \A c \in Cells : c < here => (Shows(screen', c) <=> Shows(page, c))
    BY <1>1, <1>3, <2>3 DEF Shows
  <2>10. ASSUME NEW c \in Cells, Shows(screen', c)
         PROVE  /\ \A d \in Cells :
                      /\ c < d /\ Shows(screen', d)
                      /\ \A e \in Cells : c < e /\ e < d => ~Shows(screen', e)
                      => screen'[d] = (screen'[c] + 1) % Letters
                /\ (\A e \in Cells : c < e => ~Shows(screen', e))
                      => printed' = (screen'[c] + 1) % Letters
    <3>1. CASE c = here
      <4>1. \A d \in Cells : c < d => ~Shows(screen', d)
        BY <1>1, <1>3, <2>8, <3>1
      <4>2. printed' = (screen'[c] + 1) % Letters
        BY <2>1, <2>3, <3>1
      <4> QED
        BY <4>1, <4>2
    <3>2. CASE c < here
      <4>1. Shows(page, c) /\ screen'[c] = page[c]
        BY <1>1, <1>3, <2>3, <2>9, <2>10, <3>2
      <4>2. ASSUME NEW d \in Cells, c < d, Shows(screen', d),
                   \A e \in Cells : c < e /\ e < d => ~Shows(screen', e)
            PROVE  screen'[d] = (screen'[c] + 1) % Letters
        <5>1. CASE d = here
          <6>1. \A e \in Cells : c < e => ~Shows(page, e)
            BY <1>1, <1>3, <2>5, <2>9, <4>2, <5>1
          <6>2. printed = (page[c] + 1) % Letters
            BY <1>1, <4>1, <6>1 DEF Order
          <6> QED
            BY <2>3, <4>1, <5>1, <6>2
        <5>2. CASE d # here
          <6>1. d < here
            BY <1>1, <1>3, <2>8, <4>2, <5>2
          <6>2. Shows(page, d) /\ screen'[d] = page[d]
            BY <2>3, <2>9, <4>2, <5>2, <6>1
          <6>3. \A e \in Cells : c < e /\ e < d => ~Shows(page, e)
            BY <1>1, <1>3, <2>9, <4>2, <6>1
          <6>4. page[d] = (page[c] + 1) % Letters
            BY <1>1, <4>1, <4>2, <6>2, <6>3 DEF Order
          <6> QED
            BY <4>1, <6>2, <6>4
        <5> QED
          BY <5>1, <5>2
      <4>3. ~(\A e \in Cells : c < e => ~Shows(screen', e))
        BY <2>2, <2>7, <3>2
      <4> QED
        BY <4>2, <4>3
    <3> QED
      BY <1>1, <1>3, <2>8, <2>10, <3>1, <3>2
  <2>11. Order(screen', printed')
    BY <2>10 DEF Order
  <2>12. ReadsAsPrinted'
    <3>1. (ReadsAsPrinted <=> Order(screen, printed) /\ Free(screen, at))'
      BY Restated, PTL
    <3> QED
      BY <2>6, <2>11, <3>1 DEF Order, Free, Shows
  <2> QED
    BY <2>3, <2>4, <2>12 DEF Inv, TypeOK, ScreenType
<1>6. CASE UNCHANGED vars
  BY <1>6 DEF vars, Inv, TypeOK, ReadsAsPrinted, Letter, BlankBetween
<1> QED
  BY <1>4, <1>5, <1>6 DEF Next
-----------------------------------------------------------------------------
(* putchar and scroll write within video memory and leave the cursor       *)
(* there, however the characters and the newlines follow one another.      *)
THEOREM CursorOnScreen == Spec => []TypeOK
<1>1. Inv => TypeOK
  BY DEF Inv
<1> QED
  BY <1>1, InitInv, StepInv, PTL DEF Spec

(* The screen shows the latest letters in the order they were printed, on  *)
(* every screen and for every text.                                        *)
THEOREM TextInOrder == Spec => []ReadsAsPrinted
<1>1. Inv => ReadsAsPrinted
  BY DEF Inv
<1> QED
  BY <1>1, InitInv, StepInv, PTL DEF Spec

(* No scroll takes away a letter that is less than KeepLines lines above   *)
(* the cursor: it comes only when the cursor is on the last line.          *)
THEOREM ScrollsOnlyTheTop == Spec => KeepsLatestLines
<1> DEFINE Kept == \A c \in Cells :
                       /\ screen[c] >= 0
                       /\ c \div Columns > (at - 1) \div Columns - KeepLines
                       => \E d \in Cells : screen'[d] = screen[c] /\ d < at'
<1>1. Inv /\ [Next]_vars => [Kept]_vars
  <2> SUFFICES ASSUME Inv, Next, NEW c \in Cells, screen[c] >= 0,
                      c \div Columns > (at - 1) \div Columns - KeepLines
               PROVE  \E d \in Cells : screen'[d] = screen[c] /\ d < at'
    OBVIOUS
  <2>1. /\ page \in ScreenType
        /\ Order(page, printed) /\ Free(page, here)
        /\ here \in Nat /\ here <= VIDEO_MEM_SIZE - 2
    BY PageReady
  <2>2. /\ VIDEO_MEM_SIZE \in Nat /\ c \in Nat /\ c < VIDEO_MEM_SIZE
        /\ at \in Nat /\ at <= VIDEO_MEM_SIZE
    BY Measures DEF Inv, TypeOK, Cells
  <2>3. at' \in Nat /\ here < at'
    <3>1. Columns \in Nat /\ Columns >= 2
      BY Measures
    <3>2. here % Columns \in Nat /\ here % Columns < Columns
      BY <2>1, <3>1
    <3> QED
      BY <2>1, <3>1, <3>2 DEF Next, PutNewline, PutLetter
  <2>4. \A d \in Cells : d # here => screen'[d] = page[d]
    BY <2>1 DEF Next, PutNewline, PutLetter, ScreenType
  <2>5. c < at
    BY <2>2 DEF Inv, ReadsAsPrinted, Blank, Old
  <2>6. CASE ~full(at)
    <3>1. page = screen /\ here = at
      BY <2>6 DEF page, here
    <3>2. c # here /\ c < at'
      BY <2>1, <2>2, <2>3, <2>5, <3>1
    <3> QED
      BY <2>4, <3>1, <3>2
  <2>7. CASE full(at)
    <3> DEFINE pt == DropLines * Columns
               line == c \div Columns
    <3>1. page = scroll(screen) /\ here = scrolled
      BY <2>7 DEF page, here
    <3>2. /\ Columns \in Nat /\ Columns >= 2 /\ Lines \in Nat /\ DropLines \in Nat
          /\ KeepLines \in Nat /\ Lines = KeepLines + DropLines
          /\ VIDEO_MEM_SIZE = Columns * Lines
      BY Measures, ConsoleAssumption DEF VIDEO_MEM_SIZE
    <3>3. (at - 1) \div Columns >= Lines - 1
      <4> DEFINE q == (at - 1) \div Columns
      <4>1. at - 1 \in Nat /\ at - 1 >= VIDEO_MEM_SIZE - 2
        BY <2>2, <2>7, Measures DEF full
      <4>2. q \in Nat /\ at - 1 < q * Columns + Columns
        BY <3>2, <4>1
      <4> HIDE DEF q
      <4>3. ASSUME q < Lines - 1 PROVE FALSE
        <5>1. /\ Lines * Columns = (q + 2) * Columns + (Lines - (q + 2)) * Columns
              /\ (q + 2) * Columns = q * Columns + 2 * Columns
              /\ (Lines - (q + 2)) * Columns \in Nat
          BY <3>2, <4>2, <4>3
        <5>2. q * Columns \in Nat
          BY <3>2, <4>2
        <5> QED
          BY <2>2, <3>2, <4>1, <4>2, <5>1, <5>2
      <4> QED
        BY <3>2, <4>2, <4>3 DEF q
    <3>4. line \in Nat /\ line * Columns <= c
      BY <2>2, <3>2
    <3>5. (at - 1) \div Columns \in Int
      BY <2>2, <3>2
    <3>6. line >= DropLines
      BY <3>2, <3>3, <3>4, <3>5
    <3> HIDE DEF line
    <3>7. line * Columns = DropLines * Columns + (line - DropLines) * Columns
          /\ (line - DropLines) * Columns \in Nat
      BY <3>2, <3>4, <3>6
    <3>8. pt \in Nat /\ pt <= c /\ scrolled \in Nat /\ scrolled + pt = VIDEO_MEM_SIZE
      BY <2>2, <3>4, <3>7, Measures
    <3> HIDE DEF pt
    <3>9. c - pt \in Cells /\ c - pt < scrolled /\ (c - pt) + pt = c
      BY <2>2, <3>8 DEF Cells
    <3>10. scroll(screen)[c - pt] = screen[c]
      BY <3>9, ScrollMovesUp DEF pt
    <3>11. c - pt # here /\ c - pt < at'
      BY <2>1, <2>2, <2>3, <3>1, <3>8, <3>9
    <3> QED
      BY <2>4, <3>1, <3>9, <3>10, <3>11
  <2> QED
    BY <2>6, <2>7
<1> QED
  BY <1>1, InitInv, StepInv, PTL DEF Spec, KeepsLatestLines
=============================================================================
