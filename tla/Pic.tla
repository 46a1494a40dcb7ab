-------------------------------- MODULE Pic ---------------------------------
(***************************************************************************)
(* The pair of 8259A interrupt controllers, as far as the kernel's writes  *)
(* to their ports reach: the initialisation words, the masks, and requests *)
(* of devices that are latched, may be withdrawn, and are acknowledged by  *)
(* the processor.  The chips are external to the repository.               *)
(*                                                                         *)
(* Interrupts in service are left out: nobody sends an end of interrupt,   *)
(* so they could only keep further requests away from the processor.       *)
(***************************************************************************)
EXTENDS Integers

CONSTANT Devices   \* the lines, 0 to 15 without 2, that devices are on

VARIABLES master, slave

pic_vars == <<master, slave>>

Line == 0 .. 7

\* irr: latched requests; imr: masked lines; base: the first vector; expect:
\* what the next write to the data port is.
Chip == [irr : SUBSET Line, imr : SUBSET Line, base : 0 .. 255,
         expect : {"ICW2", "ICW3", "ICW4", "OCW1"}]

Bits(val) == {k \in Line : (val \div 2^k) % 2 = 1}

\* A write to port 0x20 or 0xA0: bit 4 makes it ICW1, which clears the mask.
command(chip, val) ==
    IF 4 \in Bits(val) THEN [chip EXCEPT !.irr = {}, !.imr = {}, !.expect = "ICW2"] ELSE chip

\* A write to port 0x21 or 0xA1.
data(chip, val) ==
    CASE chip.expect = "ICW2" -> [chip EXCEPT !.base = (val \div 8) * 8, !.expect = "ICW3"]
      [] chip.expect = "ICW3" -> [chip EXCEPT !.expect = "ICW4"]
      [] chip.expect = "ICW4" -> [chip EXCEPT !.expect = "OCW1"]
      [] chip.expect = "OCW1" -> [chip EXCEPT !.imr = Bits(val)]

Requesting(chip) == chip.irr \ chip.imr

Pending == Requesting(master) # {}

\* The slave's output is line 2 of the master, which latches its rising edge.
Become(m, s) ==
    /\ slave' = s
    /\ master' = IF Requesting(slave) = {} /\ Requesting(s) # {}
                 THEN [m EXCEPT !.irr = @ \union {2}] ELSE m

outb(val, port) ==
    CASE port = 32  -> Become(command(master, val), slave)
      [] port = 33  -> Become(data(master, val), slave)
      [] port = 160 -> Become(master, command(slave, val))
      [] port = 161 -> Become(master, data(slave, val))

Raise(i) ==
    IF i < 8 THEN Become([master EXCEPT !.irr = @ \union {i}], slave)
             ELSE Become(master, [slave EXCEPT !.irr = @ \union {i - 8}])

\* A line that falls before it is acknowledged may or may not be forgotten.
Withdraw(i) ==
    /\ i = 2 => Requesting(slave) = {}
    /\ IF i < 8 THEN Become([master EXCEPT !.irr = @ \ {i}], slave)
                ELSE Become(master, [slave EXCEPT !.irr = @ \ {i - 8}])

First(chip) == CHOOSE l \in Requesting(chip) : \A k \in Requesting(chip) : l <= k

\* The vectors the processor may be given.  A request that has gone shows as
\* line 7 of the chip that was asked, a stray interrupt.
Vectors ==
    {master.base + 7} \union
        IF First(master) # 2 THEN {master.base + First(master)}
        ELSE IF Requesting(slave) = {} THEN {slave.base + 7}
        ELSE {slave.base + First(slave), slave.base + 7}

Acknowledge ==
    Become([master EXCEPT !.irr = @ \ {First(master)}],
           IF First(master) = 2 /\ Requesting(slave) # {}
           THEN [slave EXCEPT !.irr = @ \ {First(slave)}] ELSE slave)

\* As the BIOS leaves them, with vectors among those of the exceptions.
PicInit ==
    \E m, s \in {{}, Line} :
        /\ master = [irr |-> {}, imr |-> m, base |-> 8, expect |-> "OCW1"]
        /\ slave = [irr |-> {}, imr |-> s, base |-> 112, expect |-> "OCW1"]

Request == \E i \in Devices : Raise(i) \/ Withdraw(i)

Forget == 2 \in master.irr /\ Withdraw(2)
=============================================================================
