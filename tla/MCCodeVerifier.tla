--------------------------- MODULE MCCodeVerifier ---------------------------
(***************************************************************************)
(* Codes for CodeVerifier: all short codes with branches, loops in loops,   *)
(* and every instruction with few and with enough operands.                 *)
(***************************************************************************)
EXTENDS CodeVerifier

Ops(ops) == {[op |-> o, imm |-> 0] : o \in ops}
Imm(op, imms) == {[op |-> op, imm |-> n] : n \in imms}
Words(A, n) == [1 .. n -> A]
Concat(S, T) == {s \o t : s \in S, t \in T}

\* Branches, forwards, backwards and to the end of the code, and returns.
Branching ==
    Concat(Words(Ops({"push_", "add_"}) \cup Imm("brtrue_", {1, 3, 4, 5, 6}) \cup
                 Imm("br_", {1, 4, 5}), 4),
           Words(Ops({"ret_"}) \cup Imm("br_", {2}), 1)) \cup
    Concat(Words(Ops({"push_", "add_"}) \cup Imm("brtrue_", 1 .. 4) \cup Imm("br_", 1 .. 4), 3),
           Concat(Words(Ops({"push_"}), 1), Words(Ops({"return_"}), 1)))

\* A loop, alone or in another one: bodies in which a call may break or continue,
\* above a value the loop keeps on the operand stack.
Looping ==
    LET A == Ops({"push_", "force_", "pop_"}) \cup Imm("brtrue_", {5, 8}) \cup Imm("br_", {2, 4})
        Loop(b, e) == Concat(Words(Imm("beginloop_", {e}), 1),
                             Concat(Words(A, e - b - 1), Words(Ops({"endloop_"}), 1)))
        Before == Words(Ops({"push_", "nop_"}), 1)
        After == Concat(Words(A, 1), Words(Ops({"ret_"}), 1))
    IN  Concat(Before, Concat(Loop(2, 6), After)) \cup
        Concat(Before, Concat(Words(Imm("beginloop_", {8}), 1),
               Concat(Loop(3, 6), Concat(Words(A, 1), Concat(Words(Ops({"endloop_"}), 1), After)))))

\* Every instruction, above up to five values of which some may be left; those
\* whose operands insns.h does not declare have enough of them.
Everything ==
    LET Above(heights, A) ==
            Concat(UNION {Words(Ops({"push_"}), n) : n \in heights},
                   Concat(Words(A, 1),
                          Concat(Words(Imm("popn_", 0 .. 5), 1), Words(Ops({"ret_"}), 1))))
    IN  Above(0 .. 5, Ops(Opcode \ (Control \cup Addresses)) \cup Imm("popn_", 1 .. 2) \cup
                      Imm("call_", 1 .. 2) \cup Imm("call_builtin_", 1 .. 2)) \cup
        Above(2 .. 4, UNION {Imm(o, 0 .. 1) : o \in Addresses})

MCCodes == Branching \cup Looping \cup Everything

Calling == Concat(Words(Ops({"ldfun_", "push_"}) \cup Imm("call_", 0 .. 1) \cup
                        Imm("call_dots_", 0 .. 1), 3),
                  Words(Ops({"ret_"}), 1))

=============================================================================
