----------------------------- MODULE TrapEntry ------------------------------
(***************************************************************************)
(* The assembly between the processor and the C handlers: irq_entry.S, and *)
(* ignore_int of startup.S.  A processor is its registers and what has     *)
(* been pushed since the code that is interrupted; every slot is four      *)
(* bytes.  A value is tagged: <<"was", r>> is what the interrupted code    *)
(* had in register r, <<"slot", k>> the address of the k-th push.          *)
(***************************************************************************)
EXTENDS Integers, Sequences

General == {"eax", "ebx", "ecx", "edx", "edi", "esi", "ebp", "ds", "es", "fs"}

Register == General \union {"eip", "cs", "eflags"}

Const(n) == <<"const", n>>

push(c, v) == [c EXCEPT !.stack = Append(@, v)]

push_regs(c, rs) == [c EXCEPT !.stack = @ \o [k \in DOMAIN rs |-> c.reg[rs[k]]]]

\* rs[1] is popped first.
pop_regs(c, rs) ==
    LET top(k) == c.stack[Len(c.stack) + 1 - k]
    IN  [stack |-> SubSeq(c.stack, 1, Len(c.stack) - Len(rs)),
         reg   |-> [r \in Register |->
                       IF \E k \in DOMAIN rs : rs[k] = r
                       THEN top(CHOOSE k \in DOMAIN rs : rs[k] = r /\ \A j \in DOMAIN rs : rs[j] = r => j <= k)
                       ELSE c.reg[r]]]

drop(c, bytes) == [c EXCEPT !.stack = SubSeq(@, 1, Len(@) - bytes \div 4)]

\* The slot that off(%esp) addresses.
slot(c, off) == Len(c.stack) - off \div 4

xchg(c, r, off) == [c EXCEPT !.reg[r] = c.stack[slot(c, off)],
                             !.stack[slot(c, off)] = c.reg[r]]

\* A C function may change these.
called(c) == [c EXCEPT !.reg = [r \in Register |->
                 IF r \in {"eax", "ecx", "edx"} THEN <<"any", r>> ELSE c.reg[r]]]

iret(c) == pop_regs(c, <<"eip", "cs", "eflags">>)
-----------------------------------------------------------------------------
saved == <<"ecx", "edx", "edi", "esi", "ebp", "ds", "es", "fs">>

\* Mutant: the offset is not counted anew for the pushed error code.
offset_before_push == 40

frame_offset == 44

kernel_segments(c) == [c EXCEPT !.reg.ds = Const(16), !.reg.es = Const(16), !.reg.fs = Const(16)]

\* Pushes errcode and the address of the interrupted eip, through register r.
push_args(c, errcode, r) ==
    LET d == push(c, errcode)
        e == [d EXCEPT !.reg[r] = <<"slot", slot(d, frame_offset)>>]
    IN  kernel_segments([push(e, e.reg[r]) EXCEPT !.reg[r] = Const(16)])

\* Up to `call *%eax' and `call *%ebx'; `function' has just been pushed.
no_error_code(c) ==
    LET d == push_regs(xchg(c, "eax", 0), <<"ebx">> \o saved)
    IN  push_args(d, Const(0), "edx")

error_code(c) ==
    LET d == push_regs(xchg(xchg(c, "eax", 4), "ebx", 0), saved)
    IN  push_args(d, d.reg["eax"], "eax")

leave(c) ==
    iret(pop_regs(drop(c, 8),
         <<"fs", "es", "ds", "ebp", "esi", "edi", "edx", "ecx", "ebx", "eax">>))

\* Each entry, the function it pushes and where it goes from there.
entries ==
    [divide_error    |-> <<"do_divide_error", "no_error_code">>,
     dev_noavailable |-> <<"do_dev_noavailable", "no_error_code">>,
     invalid_opcode  |-> <<"do_invalid_opcode", "no_error_code">>,
     overflow_trap   |-> <<"do_overflow_trap", "no_error_code">>,
     bounds_error    |-> <<"do_bounds_error", "no_error_code">>,
     double_fault    |-> <<"do_double_fault", "error_code">>,
     gp_exception    |-> <<"do_gp_exception", "error_code">>,
     page_fault      |-> <<"do_page_fault", "error_code">>,
     stack_fault     |-> <<"do_stack_fault", "error_code">>,
     seg_nopresent   |-> <<"do_seg_nopresent", "error_code">>,
     invalid_tss     |-> <<"do_invalid_tss", "error_code">>]

\* The call of a C function: which one, and its arguments esp and errcode.
Call(function, c) ==
    [function |-> function[2], esp |-> c.stack[Len(c.stack)],
     errcode |-> c.stack[Len(c.stack) - 1]]

enter(entry, c) ==
    LET d == push(c, <<"code", entries[entry][1]>>)
    IN  IF entries[entry][2] = "error_code" THEN error_code(d) ELSE no_error_code(d)

call_of(entry, c) ==
    Call(IF entries[entry][2] = "error_code" THEN c.reg["ebx"] ELSE c.reg["eax"], c)
-----------------------------------------------------------------------------
\* Mutant: the interrupted cs is cleared.
cs_offset == 20

eflags_offset == 24

\* mem_dump is called and the saved eflags are cleared; then show_v1v2, and
\* four words are popped into eax, the last of them the one saved first.
ignore_int(c) ==
    LET d == push(push(push_regs(c, <<"eax">>), Const(8)), Const(4))
        e == called(push(d, <<"slot", Len(d.stack)>>))
        f == [e EXCEPT !.stack[slot(e, eflags_offset)] = Const(0)]
        g == called(f)
    IN  iret(pop_regs(g, <<"eax", "eax", "eax", "eax">>))
=============================================================================
