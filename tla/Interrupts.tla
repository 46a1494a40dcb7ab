----------------------------- MODULE Interrupts -----------------------------
(***************************************************************************)
(* Interrupts and exceptions from boot_main on: the kernel masks both      *)
(* interrupt controllers, later initialises them again (which opens all    *)
(* masks for a while), fills the descriptor table, and executes sti, while *)
(* devices raise and withdraw requests at any time.  What the processor    *)
(* accepts goes through a gate to the code of irq_entry.S or ignore_int.   *)
(***************************************************************************)
EXTENDS Pic, Gates, TrapEntry, FiniteSets

CONSTANTS
    GateCount,    \* 256
    Exceptions    \* the vectors of the exceptions kernel code may cause

ASSUME InterruptsAssumption ==
    /\ GateCount \in Nat /\ GateCount >= 48   \* the vectors of both controllers
    /\ DOMAIN entries \union {"ignore_int"} = DOMAIN Address
    /\ Exceptions \subseteq (0 .. 19) \ {17}   \* 17 is for user code only
    /\ Devices \subseteq (0 .. 15) \ {2}

VARIABLES
    stage,      \* what the kernel executes
    step,       \* the port writes of this stage that are done
    idt,
    cpu,        \* registers and stack, see TrapEntry
    trap,       \* the exception that is being handled
    accepted    \* the vectors of the interrupts the processor took

vars == <<pic_vars, stage, step, idt, cpu, trap, accepted>>

Flags(if) == <<"flags", if>>

\* Whether the interrupt flag is set.
IF_set(c) == c.reg["eflags"] = Flags(TRUE)

Running(if) ==
    [stack |-> << >>,
     reg   |-> [r \in Register |-> IF r = "eflags" THEN Flags(if) ELSE <<"was", r>>]]

NoGate == <<0, 0, 0, 0>>

NoTrap == [vector |-> 0, errcode |-> Const(0), before |-> Running(FALSE),
           call |-> [function |-> "none", esp |-> Const(0), errcode |-> Const(0)]]

\* The loader has executed cli and switched to protected mode.
Init ==
    /\ PicInit
    /\ stage = "boot_main" /\ step = 0
    /\ idt = [v \in 0 .. GateCount - 1 |-> NoGate]
    /\ cpu = Running(FALSE)
    /\ trap = NoTrap
    /\ accepted = {}
-----------------------------------------------------------------------------
\* Values and ports, in the order of the writes.
mask_all_ints == << <<255, 161>>, <<251, 33>> >>

\* Mutant: the masks are not set again.
init_without_masks ==
    << <<17, 32>>, <<17, 160>>, <<32, 33>>, <<40, 161>>, <<4, 33>>, <<2, 161>>,
       <<1, 33>>, <<1, 161>> >>

init_8259A ==
    << <<17, 32>>, <<17, 160>>, <<32, 33>>, <<40, 161>>, <<4, 33>>, <<2, 161>>,
       <<1, 33>>, <<1, 161>>, <<251, 33>>, <<255, 161>> >>

Writes == IF stage = "boot_main" THEN mask_all_ints
          ELSE IF stage = "init_8259A" THEN init_8259A ELSE << >>

WritePort ==
    /\ step < Len(Writes)
    /\ outb(Writes[step + 1][1], Writes[step + 1][2])
    /\ step' = step + 1
    /\ UNCHANGED <<stage, idt, cpu, trap, accepted>>

Proceed(from, to) == stage = from /\ step = Len(Writes) /\ stage' = to /\ step' = 0

\* boot_main returns, and startup clears eflags before it calls kernel_start.
EnterKernel ==
    /\ Proceed("boot_main", "irq_init")
    /\ cpu' = [cpu EXCEPT !.reg["eflags"] = Const(0)]
    /\ UNCHANGED <<pic_vars, idt, trap, accepted>>

FillTable ==
    /\ Proceed("irq_init", "init_8259A")
    /\ idt' = [v \in 0 .. GateCount - 1 |-> default_gate("ignore_int")]
    /\ UNCHANGED <<pic_vars, cpu, trap, accepted>>

\* lidt and cli end irq_init.
LoadTable ==
    /\ Proceed("init_8259A", "traps_init")
    /\ cpu' = [cpu EXCEPT !.reg["eflags"] = Flags(FALSE)]
    /\ UNCHANGED <<pic_vars, idt, trap, accepted>>

trap_gates ==
    [v \in {0, 4, 5, 6, 7, 8, 10, 11, 12, 13, 14} |->
        CASE v = 0 -> "divide_error"     [] v = 4 -> "overflow_trap"
          [] v = 5 -> "bounds_error"     [] v = 6 -> "invalid_opcode"
          [] v = 7 -> "dev_noavailable"  [] v = 8 -> "double_fault"
          [] v = 10 -> "invalid_tss"     [] v = 11 -> "seg_nopresent"
          [] v = 12 -> "stack_fault"     [] v = 13 -> "gp_exception"
          [] v = 14 -> "page_fault"]

traps_init ==
    /\ Proceed("traps_init", "mm_init")
    /\ idt' = [v \in DOMAIN idt |->
                  IF v \in DOMAIN trap_gates THEN set_trap_gate(trap_gates[v]) ELSE idt[v]]
    /\ UNCHANGED <<pic_vars, cpu, trap, accepted>>

Sti ==
    /\ Proceed("mm_init", "idle")
    /\ cpu' = [cpu EXCEPT !.reg["eflags"] = Flags(TRUE)]
    /\ UNCHANGED <<pic_vars, idt, trap, accepted>>

Kernel == WritePort \/ EnterKernel \/ FillTable \/ LoadTable \/ traps_init \/ Sti
-----------------------------------------------------------------------------
\* The processor saves eflags, cs, eip and an error code; an interrupt gate
\* clears the interrupt flag, a trap gate leaves it.
Through(gate, c, errcode) ==
    LET d == push_regs(c, <<"eflags", "cs", "eip">>)
        e == IF errcode = << >> THEN d ELSE push(d, errcode[1])
    IN  IF Type(gate) = INTR_GATE THEN [e EXCEPT !.reg["eflags"] = Flags(FALSE)] ELSE e

Loaded == stage \notin {"boot_main", "irq_init", "init_8259A"}

Accepts == IF_set(cpu) /\ Pending

\* An interrupt goes through its gate.  hlt ends when it returns, and die has
\* nothing behind it.
Accept ==
    /\ Accepts
    /\ \E v \in Vectors :
          /\ accepted' = accepted \union {v}
          /\ IF Loaded /\ Usable(idt[v]) /\ Target(idt[v]) = "ignore_int"
             THEN /\ cpu' = ignore_int(Through(idt[v], cpu, << >>))
                  /\ stage' = IF stage = "die" THEN "astray" ELSE stage
             ELSE stage' = "astray" /\ UNCHANGED cpu
    /\ Acknowledge
    /\ UNCHANGED <<step, idt, trap>>

\* The exceptions for which the processor pushes an error code.
WithErrorCode == {8, 10, 11, 12, 13, 14, 17}

\* An interrupt that is pending is accepted before an instruction can fault.
Fault(v) ==
    LET errcode == IF v \in WithErrorCode THEN <<<<"error", v>>>> ELSE << >>
        entry   == Target(idt[v])
        c       == Through(idt[v], cpu, errcode)
    IN  /\ stage \in {"mm_init", "idle"} /\ ~Accepts
        /\ Usable(idt[v])
        /\ IF entry = "ignore_int"
           THEN /\ cpu' = ignore_int(c)
                /\ UNCHANGED <<stage, trap>>
           ELSE /\ cpu' = enter(entry, c)
                /\ trap' = [vector |-> v, before |-> cpu,
                            errcode |-> IF errcode = << >> THEN Const(0) ELSE errcode[1],
                            call |-> call_of(entry, enter(entry, c))]
                /\ stage' = "handler"
        /\ UNCHANGED <<pic_vars, step, idt, accepted>>

\* Every handler prints its arguments and calls die, which executes hlt.
Die ==
    /\ stage = "handler" /\ ~Accepts
    /\ stage' = "die"
    /\ UNCHANGED <<pic_vars, step, idt, cpu, trap, accepted>>

Environment == (Request \/ Forget) /\ UNCHANGED <<stage, step, idt, cpu, trap, accepted>>

Stopped == stage \in {"die", "astray"} /\ UNCHANGED vars

Next ==
    \/ Kernel \/ Accept \/ (\E v \in Exceptions : Fault(v)) \/ Die
    \/ Environment \/ Stopped

Spec == Init /\ [][Next]_vars
-----------------------------------------------------------------------------
\* irq_init opens all masks for a while (irq.c:11) and devices may request
\* then; still the only interrupts the processor is ever given are the strays
\* of the two controllers, 0x27 and 0x2F, at vectors apart from those of the
\* exceptions.
VectorsApart == accepted \subseteq {39, 47}

\* Code that an interrupt or an exception of ignore_int breaks into goes on
\* where it was with its own stack and registers; ecx and edx are not saved,
\* and the interrupt flag is lost for good: no second interrupt is taken.
ResumesMasked ==
    stage \notin {"handler", "die", "astray"} =>
        /\ cpu.stack = << >>
        /\ \A r \in Register \ {"ecx", "edx", "eflags"} : cpu.reg[r] = <<"was", r>>
        /\ accepted # {} => ~IF_set(cpu) /\ Cardinality(accepted) = 1

\* The INT_VECTOR constants of include/i386.h and the handlers of traps.c.
INT_VECTOR ==
    {<<0, "do_divide_error">>, <<4, "do_overflow_trap">>, <<5, "do_bounds_error">>,
     <<6, "do_invalid_opcode">>, <<7, "do_dev_noavailable">>, <<8, "do_double_fault">>,
     <<10, "do_invalid_tss">>, <<11, "do_seg_nopresent">>, <<12, "do_stack_fault">>,
     <<13, "do_gp_exception">>, <<14, "do_page_fault">>}

\* A handler of traps.c is the one of its vector, gets the error code of the
\* processor (0 if there is none) and the address of the frame that begins
\* with the interrupted eip, runs in the kernel's segments, and if it returned
\* (irq_entry.S:42, 97) the interrupted code would find all as it was.
HandlerSeesFrame ==
    stage = "handler" =>
        LET k == trap.call.esp[2]
        IN  /\ <<trap.vector, trap.call.function>> \in INT_VECTOR
            /\ trap.call.errcode = trap.errcode
            /\ trap.call.esp[1] = "slot"
            /\ cpu.stack[k] = trap.before.reg["eip"]
            /\ cpu.stack[k - 1] = trap.before.reg["cs"]
            /\ cpu.stack[k - 2] = trap.before.reg["eflags"]
            /\ \A r \in {"ds", "es", "fs"} : cpu.reg[r] = Const(16)
            /\ leave(cpu) = trap.before

\* die has nothing behind its hlt but a conditional jump, and a trap gate leaves
\* interrupts on; still no interrupt ends the hlt of a machine that died.
DiesForGood == [][stage = "die" => stage' = "die" /\ UNCHANGED cpu]_vars
=============================================================================
