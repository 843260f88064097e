---------------------------- MODULE MCDeoptless ----------------------------
(***************************************************************************)
(* Instances of Deoptless: one pc with one stack slot and one local.        *)
(***************************************************************************)
EXTENDS Deoptless

local(t) == <<[name |-> 1, type |-> t, missing |-> FALSE]>>

key(stack, env, reason, trigger) ==
    [pc |-> 1, stack |-> stack, env |-> env, leaked |-> FALSE,
     reason |-> reason, trigger |-> trigger]

\* The bits of a type: 0 for a scalar integer, 1 for the other integer vectors.
Typechecks == {key(<<t>>, local({0}), Typecheck, {0}) : t \in {{0}, {0, 1}}}
CallTargets == {key(<<{0}>>, local({0}), CallTarget, f) : f \in 1 .. 3}

\* Two keys that are equal but for the call target, and one with a wider type.
MCKeys == {k \in CallTargets : k.trigger < 3} \cup
          {key(<<{0, 1}>>, local({0}), CallTarget, 1)}

=============================================================================
