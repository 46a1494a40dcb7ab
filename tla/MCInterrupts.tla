---------------------------- MODULE MCInterrupts ----------------------------
(***************************************************************************)
(* Interrupts with addresses on both sides of 0xC0108000, so that the low  *)
(* half of some looks negative as a signed word, and one at the very end   *)
(* of a 64 KB segment.                                                     *)
(***************************************************************************)
EXTENDS Interrupts

\* The entries in the order of irq_entry.S, and where each of them lies.
MCAddress ==
    [divide_error |-> <<49168, 32736>>, dev_noavailable |-> <<49168, 32767>>,
     invalid_opcode |-> <<49168, 32768>>, overflow_trap |-> <<49168, 32780>>,
     bounds_error |-> <<49168, 32790>>, double_fault |-> <<49168, 32800>>,
     gp_exception |-> <<49168, 65535>>, page_fault |-> <<49169, 0>>,
     stack_fault |-> <<49169, 10>>, seg_nopresent |-> <<49169, 20>>,
     invalid_tss |-> <<49169, 30>>, ignore_int |-> <<49168, 4096>>]
=============================================================================
