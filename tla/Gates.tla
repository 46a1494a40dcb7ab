------------------------------- MODULE Gates --------------------------------
(***************************************************************************)
(* The gates of the interrupt descriptor table: the two ways the kernel    *)
(* puts one together (irq.c with the bit-fields of struct idt_desc, and    *)
(* _set_gate of include/i386.h with two words), and how the processor      *)
(* takes one apart.  A gate is its four 16-bit halves, lowest first, and   *)
(* an address is <<upper half, lower half>>.                               *)
(***************************************************************************)
EXTENDS Integers, Sequences

CONSTANTS
    Address     \* the address of each entry, by its name

INTR_GATE == 14
TRAP_GATE == 15

Half == 65536

ASSUME AddressAssumption ==
    \A e, f \in DOMAIN Address :
        /\ Address[e] \in (0 .. Half - 1) \X (0 .. Half - 1)
        /\ Address[e] = Address[f] => e = f

\* struct idt_desc: unused takes the low byte, the rest the bits above it.
idt_desc(unused, saved, D, saved_0, DPL, P) ==
    unused + 256 * (saved + 8 * D + 16 * saved_0 + 32 * DPL + 128 * P)

default_gate(entry) ==
    <<Address[entry][2], 8, idt_desc(0, 6, 1, 0, 0, 1), Address[entry][1]>>

\* 0x80000 | low half; high half | 0x8000 | (type << 8) | (dpl << 13).
_set_gate(entry, type, dpl) ==
    <<Address[entry][2], 8, 32768 + 256 * type + 8192 * dpl, Address[entry][1]>>

set_trap_gate(entry) == _set_gate(entry, TRAP_GATE, 0)

\* A gate the processor accepts: present, of 32 bits, in the code segment.
Type(gate) == (gate[3] \div 256) % 16

Usable(gate) ==
    /\ gate[3] \div 32768 = 1 /\ (gate[3] \div 4096) % 2 = 0
    /\ Type(gate) \in {INTR_GATE, TRAP_GATE}
    /\ gate[2] = 8
    /\ \E e \in DOMAIN Address : Address[e] = <<gate[4], gate[1]>>

Target(gate) == CHOOSE e \in DOMAIN Address : Address[e] = <<gate[4], gate[1]>>
=============================================================================
