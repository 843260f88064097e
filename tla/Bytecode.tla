----------------------------- MODULE Bytecode ------------------------------
(***************************************************************************)
(* The instructions of RIR, once as bc/insns.h declares them and once as    *)
(* evalRirCode (interpreter/interp.cpp) executes them.  Only what happens   *)
(* to the operand stack is kept: an instruction is [op, imm], where imm is  *)
(* its number of arguments, its stack position, its jump target, its slot   *)
(* in the binding cache or its promise.                                     *)
(***************************************************************************)
EXTENDS Integers

\* Handlers of evalRirCode by what they do to the operand stack.
UpdateLoads == {"ldfun_", "ldvar_for_update_", "ldvar_for_update_cache_"}
Loads == {"ldvar_", "ldvar_noforce_", "ldvar_cached_", "ldvar_super_", "ldddvar_"}
Constants == {"push_", "mk_promise_", "missing_"}
Stores == {"stvar_", "stvar_cached_", "stvar_super_"}
Records == {"record_call_", "record_test_", "record_type_"}
Calls == {"call_", "named_call_", "call_dots_"}
Forces == {"check_function_", "mk_eager_promise_", "force_"}
Unops == {"inc_", "uplus_", "uminus_", "not_"}
Arithmetic == {"add_", "sub_", "mul_", "div_"}
Divisions == {"idiv_", "mod_", "pow_"}
Relations == {"eq_", "ne_", "lt_", "le_", "gt_", "ge_"}
Logic == {"lgl_and_", "lgl_or_", "colon_", "identical_noforce_"}
Conversions == {"aslogical_", "asbool_", "colon_cast_lhs_", "is_"}
Attributes == {"names_", "length_", "as_switch_idx_", "ensure_named_", "set_shared_"}
Extracts1 == {"extract1_1_", "extract1_2_", "extract1_3_"}
Extracts2 == {"extract2_1_", "extract2_2_"}
Subassigns1 == {"subassign1_1_", "subassign1_2_", "subassign1_3_"}
Subassigns2 == {"subassign2_1_", "set_vec_elt_"}
MatrixSubassigns == {"subassign2_2_"}
NoEffect == {"nop_", "clear_binding_cache_", "guard_fun_", "visible_", "invisible_"}

StackOps == {"dup_", "dup2_", "pop_", "popn_", "swap_"}
Addresses == {"put_", "pick_", "pull_", "for_seq_size_"}
Others == {"call_builtin_", "close_", "colon_input_effects_", "colon_cast_rhs_",
           "set_names_"}

Jumps == {"br_", "brtrue_", "brfalse_", "beginloop_"}
Control == Jumps \cup {"endloop_", "return_", "ret_"}

Opcode == UpdateLoads \cup Loads \cup Constants \cup Stores \cup Records \cup Calls \cup
          Forces \cup Unops \cup Arithmetic \cup Divisions \cup Relations \cup Logic \cup
          Conversions \cup Attributes \cup Extracts1 \cup Extracts2 \cup Subassigns1 \cup
          Subassigns2 \cup MatrixSubassigns \cup NoEffect \cup StackOps \cup Addresses \cup
          Others \cup Control

isExit(i) == i.op \in {"ret_", "return_"}
isJmp(i) == i.op \in Jumps

\* Indices of an extract or a subassign.
dims(op) == IF op \in {"extract1_1_", "extract2_1_", "subassign1_1_",
                       "subassign2_1_", "set_vec_elt_"} THEN 1
            ELSE IF op \in {"extract1_3_", "subassign1_3_"} THEN 3 ELSE 2

-----------------------------------------------------------------------------
mutantPopCount(i) ==
    IF i.op \in Calls THEN i.imm
    ELSE IF i.op \in {"call_builtin_", "popn_"} THEN i.imm
    ELSE IF i.op \in Stores \cup Records \cup Forces \cup Unops \cup Conversions \cup
            Attributes \cup {"dup_", "pop_", "brtrue_", "brfalse_", "ret_"} THEN 1
    ELSE IF i.op \in Arithmetic \cup Divisions \cup Relations \cup Logic \cup
            {"swap_", "dup2_", "colon_input_effects_", "colon_cast_rhs_",
            "set_names_"} THEN 2
    ELSE IF i.op = "close_" THEN 3
    ELSE IF i.op \in Extracts1 \cup Extracts2 THEN 1 + dims(i.op)
    ELSE IF i.op \in Subassigns1 \cup Subassigns2 \cup MatrixSubassigns THEN 2 + dims(i.op)
    ELSE 0

\* BC::popCount and BC::pushCount, from the table in insns.h.
popCount(i) ==
    IF i.op \in Calls THEN i.imm + 1
    ELSE IF i.op \in {"call_builtin_", "popn_"} THEN i.imm
    ELSE IF i.op \in Stores \cup Records \cup Forces \cup Unops \cup Conversions \cup
            Attributes \cup {"dup_", "pop_", "brtrue_", "brfalse_", "ret_"} THEN 1
    ELSE IF i.op \in Arithmetic \cup Divisions \cup Relations \cup Logic \cup
            {"swap_", "dup2_", "colon_input_effects_", "colon_cast_rhs_",
            "set_names_"} THEN 2
    ELSE IF i.op = "close_" THEN 3
    ELSE IF i.op \in Extracts1 \cup Extracts2 THEN 1 + dims(i.op)
    ELSE IF i.op \in Subassigns1 \cup Subassigns2 \cup MatrixSubassigns THEN 2 + dims(i.op)
    ELSE 0

pushCount(i) ==
    IF i.op \in Stores \cup NoEffect \cup Control \cup
            {"pop_", "popn_", "put_", "pick_"} THEN 0
    ELSE IF i.op \in {"dup_", "swap_", "colon_cast_rhs_"} THEN 2
    ELSE IF i.op = "colon_input_effects_" THEN 3
    ELSE IF i.op = "dup2_" THEN 4
    ELSE 1

-----------------------------------------------------------------------------
\* What a handler does: it needs so many values on the stack, fills at most
\* scratch cells above them while it runs and changes the height by delta.
Does(needs, scratch, delta) == [needs |-> needs, scratch |-> scratch, delta |-> delta]

\* The fallbacks of the arithmetic, extract and unary instructions push a list
\* of arguments.  A call may add arguments: missing ones its optimized callee
\* expects (supplyMissingArgs) and, when it expands `...`, the values found there
\* and a list of names (expandDotDotDotCallArgs).
handler(i, added) ==
    IF i.op \in NoEffect THEN Does(0, 0, 0)
    ELSE IF i.op \in UpdateLoads \cup Loads \cup Constants THEN Does(0, 1, 1)
    ELSE IF i.op \in Stores THEN Does(1, 0, -1)
    ELSE IF i.op \in Records \cup Forces \cup Conversions \cup Attributes THEN Does(1, 0, 0)
    ELSE IF i.op \in Unops THEN Does(1, 1, 0)
    ELSE IF i.op \in {"call_", "named_call_"} THEN Does(i.imm + 1, added, -i.imm)
    ELSE IF i.op = "call_dots_" THEN Does(i.imm + 1, added + 1, -i.imm)
    ELSE IF i.op = "call_builtin_" THEN Does(i.imm, IF i.imm = 0 THEN 1 ELSE 0, 1 - i.imm)
    ELSE IF i.op = "close_" THEN Does(3, 0, -2)
    ELSE IF i.op = "dup_" THEN Does(1, 1, 1)
    ELSE IF i.op = "dup2_" THEN Does(2, 2, 2)
    ELSE IF i.op = "pop_" THEN Does(1, 0, -1)
    ELSE IF i.op = "popn_" THEN Does(i.imm, 0, -i.imm)
    ELSE IF i.op = "swap_" THEN Does(2, 0, 0)
    ELSE IF i.op \in {"put_", "pick_"} THEN Does(i.imm + 1, 0, 0)
    ELSE IF i.op = "pull_" THEN Does(i.imm + 1, 1, 1)
    ELSE IF i.op \in Arithmetic \cup Divisions \cup Relations \cup Logic THEN Does(2, 1, -1)
    ELSE IF i.op = "colon_input_effects_" THEN Does(2, 1, 1)
    ELSE IF i.op = "colon_cast_rhs_" THEN Does(2, 0, 0)
    ELSE IF i.op = "set_names_" THEN Does(2, 0, -1)
    ELSE IF i.op = "for_seq_size_" THEN Does(1, 1, 1)
    ELSE IF i.op \in Extracts1 \cup Extracts2 THEN Does(1 + dims(i.op), 1, -dims(i.op))
    ELSE Does(2 + dims(i.op), 0, -1 - dims(i.op))

=============================================================================
