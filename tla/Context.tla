------------------------------ MODULE Context ------------------------------
(***************************************************************************)
(* Call contexts (runtime/Context.h): the assumptions a call site offers,   *)
(* or an optimized version of a function relies on.  An EnumSet is the set  *)
(* of the enumerators it holds, and an enumerator is its bit position, so   *)
(* to_i() and toI() are numbers determined by these sets.                   *)
(***************************************************************************)
EXTENDS Integers, FiniteSets

\* enum class Assumption
NoExplicitlyMissingArgs == 0
CorrectOrderOfArguments == 1
NotTooManyArguments == 2
StaticallyArgmatched == 3
Assumption == 0 .. 3

NUM_TYPED_ARGS == 6
MAX_MISSING == 255

\* enum class TypeAssumption: five groups of NUM_TYPED_ARGS enumerators.
Eager(i) == i
NonRefl(i) == NUM_TYPED_ARGS + i
NotObj(i) == 2 * NUM_TYPED_ARGS + i
SimpleInt(i) == 3 * NUM_TYPED_ARGS + i
SimpleReal(i) == 4 * NUM_TYPED_ARGS + i
TypeAssumption == 0 .. 5 * NUM_TYPED_ARGS - 1

Context == [flags : SUBSET Assumption, typeFlags : SUBSET TypeAssumption,
            missing : 0 .. MAX_MISSING]

\* Contexts whose order operator< has to decide: those of optimized versions.
ProperContext == { c \in Context : NotTooManyArguments \in c.flags }

EmptyContext == [flags |-> {}, typeFlags |-> {}, missing |-> 0]

allEagerArgsFlags == { Eager(i) : i \in 0 .. NUM_TYPED_ARGS - 1 }
allNonObjArgsFlags == { NotObj(i) : i \in 0 .. NUM_TYPED_ARGS - 1 }

\* What PIR code always needs (compiler.h): it handles neither surplus nor
\* reordered arguments.
minimalContext == {CorrectOrderOfArguments, NotTooManyArguments}

Includes(c, fs) == fs \subseteq c.flags

\* Every call a satisfies every assumption of b.
smaller(a, b) ==
    /\ ~(b.missing > a.missing /\ NotTooManyArguments \in b.flags)
    /\ ~(b.missing < a.missing /\ NoExplicitlyMissingArgs \in b.flags)
    /\ b.flags \subseteq a.flags
    /\ b.typeFlags \subseteq a.typeFlags

\* S.to_i() > T.to_i(): S holds the most significant bit the two differ in.
IntGreater(S, T) == \E x \in S \ T : \A y \in T \ S : y < x

\* The tie-break of operator<, for contexts that smaller does not order.
LexLess(a, b) ==
    \/ Cardinality(a.flags) > Cardinality(b.flags)
    \/ /\ Cardinality(a.flags) = Cardinality(b.flags)
       /\ \/ Cardinality(a.typeFlags) > Cardinality(b.typeFlags)
          \/ /\ Cardinality(a.typeFlags) = Cardinality(b.typeFlags)
             /\ \/ a.missing > b.missing
                \/ /\ a.missing = b.missing
                   /\ \/ IntGreater(a.flags, b.flags)
                      \/ /\ a.flags = b.flags
                         /\ IntGreater(a.typeFlags, b.typeFlags)

\* operator<: more assumptions come first.
Less(a, b) ==
    /\ a # b
    /\ \/ smaller(a, b)
       \/ ~smaller(b, a) /\ LexLess(a, b)

\* operator|: its assert, and its result.
Joinable(a, b) ==
    /\ a.missing < b.missing => NoExplicitlyMissingArgs \notin a.flags
    /\ b.missing < a.missing => NoExplicitlyMissingArgs \notin b.flags

Join(a, b) ==
    [flags |-> a.flags \cup b.flags,
     typeFlags |-> a.typeFlags \cup b.typeFlags,
     missing |-> IF b.missing > a.missing THEN b.missing ELSE a.missing]

\* operator&
Meet(a, b) ==
    [flags |-> IF a.missing = b.missing
               THEN a.flags \cap b.flags
               ELSE (a.flags \cap b.flags) \ {NoExplicitlyMissingArgs},
     typeFlags |-> a.typeFlags \cap b.typeFlags,
     missing |-> IF a.missing > b.missing THEN b.missing ELSE a.missing]

\* operator-: missing is a uint8_t.
Minus(a, b) ==
    [flags |-> a.flags \ b.flags, typeFlags |-> a.typeFlags \ b.typeFlags,
     missing |-> (a.missing - b.missing) % (MAX_MISSING + 1)]

clearTypeFlags(c) == [c EXCEPT !.typeFlags = {}]

clearNargs(c) ==
    [c EXCEPT !.missing = 0, !.flags = @ \ {NoExplicitlyMissingArgs}]

clearExcept(c, filter) ==
    [flags |-> c.flags \cap filter, typeFlags |-> {}, missing |-> 0]

\* PIR_GLOBAL_SPECIALIZATION_LEVEL; 6 and above leave the context alone.
setSpecializationLevel(c, level) ==
    LET preserve == minimalContext \cup {StaticallyArgmatched}
    IN  [flags |-> IF level \in 0 .. 1 THEN c.flags \cap preserve
                   ELSE IF level \in 2 .. 5 THEN c.flags \ {NoExplicitlyMissingArgs}
                   ELSE c.flags,
         typeFlags |->
            c.typeFlags \cap
              (IF level = 0 THEN {}
               ELSE IF level \in 1 .. 2 THEN allEagerArgsFlags
               ELSE IF level = 3 THEN allEagerArgsFlags \cup allNonObjArgsFlags
               ELSE TypeAssumption),
         missing |-> IF level \in 0 .. 4 THEN 0 ELSE c.missing]

\* The fields of toI() are packed: flags in bits 0-7, typeFlags from bit 8.
\* __builtin_popcount takes an unsigned int and sees bits 0-31 only.
PopCount32(flagBits, typeBits) ==
    Cardinality(flagBits) + Cardinality({ b \in typeBits : 8 + b < 32 })

\* How much better than a version for context b one for context a would be.
isImproving(a, b, hasDotsFormals, hasDefaultArgs) ==
    LET dropped ==
            (IF hasDotsFormals THEN {} ELSE {StaticallyArgmatched}) \cup
            (IF hasDefaultArgs THEN {} ELSE {NoExplicitlyMissingArgs})
        flags == a.flags \ dropped
        typeFlags == a.typeFlags \ allNonObjArgsFlags
    IN  CASE a = b -> 0
          [] a # b /\ (hasDotsFormals \/ hasDefaultArgs)
                   /\ a.missing # b.missing -> 20
          [] OTHER -> 2 * PopCount32(flags \ b.flags, typeFlags \ b.typeFlags)

=============================================================================
