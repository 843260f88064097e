---------------------------- MODULE CallContext ----------------------------
(***************************************************************************)
(* The context a call provides (interp.cpp, inferCurrentContext), and the   *)
(* check native callers run instead (native/builtins.cpp).                  *)
(*                                                                         *)
(* An argument is [proms, val].  proms is the chain of promises between the *)
(* argument and its value: "trivial" (unevaluated, a variable lookup that   *)
(* finds the rest of the chain), "opaque" (unevaluated, anything else),     *)
(* "quiet" (opaque, flagged Code::NoReflection), "forced" (evaluated).      *)
(* val is what the chain ends in; after an unevaluated promise that is no   *)
(* lookup, or a lookup that fails, it is "unbound".                         *)
(*                                                                         *)
(* A call is [args, misnamed, suppliedvars]: misnamed if some argument has  *)
(* a name other than the formal at its position.                            *)
(***************************************************************************)
EXTENDS Context, Sequences

Value == {"real", "int", "string", "closure", "object", "missing", "unbound"}

Promise == {"trivial", "opaque", "quiet", "forced"}
Argument == [proms : Seq(Promise), val : Value]
AnyCall == [args : Seq(Argument), misnamed : BOOLEAN, suppliedvars : BOOLEAN]

\* The argument is no promise, or an evaluated one.
Evaluated(a) == a.proms = <<>> \/ a.proms[1] = "forced"

ExplicitlyMissing(a) == a.proms = <<>> /\ a.val = "missing"

\* testArg of inferCurrentContext: the type assumptions argument a provides.
argFlags(a, i) ==
    IF i >= NUM_TYPED_ARGS THEN {}
    ELSE { f \in {Eager(i), NonRefl(i), NotObj(i), SimpleInt(i), SimpleReal(i)} :
             /\ f = Eager(i) => Evaluated(a)
             /\ f = NonRefl(i) =>
                  \/ Evaluated(a) \/ a.val # "unbound"
                  \/ \E k \in DOMAIN a.proms : a.proms[k] = "quiet"
             /\ f = NotObj(i) => a.val \notin {"object", "missing", "unbound"}
             /\ f = SimpleInt(i) => a.val = "int"
             /\ f = SimpleReal(i) => a.val = "real" }

\* given is what the call site knows statically; dotsPosition is that of the
\* formal `...`, MAX_MISSING without one.
inferCurrentContext(given, call, formalNargs, dotsPosition) ==
    LET supplied == Len(call.args)
        fits == supplied <= formalNargs
        notTooMany == /\ NotTooManyArguments \in given.flags \/ fits
                      /\ ~call.suppliedvars
        argmatched ==
            \/ StaticallyArgmatched \in given.flags
            \/ notTooMany /\ supplied <= dotsPosition /\ ~call.misnamed
        lostNotObj == { NotObj(i - 1) : i \in { j \in 1 .. supplied :
                          /\ call.args[j].val = "missing"
                          /\ ~ExplicitlyMissing(call.args[j]) } }
    IN  [flags |-> { f \in Assumption :
                       /\ f = NotTooManyArguments => notTooMany
                       /\ f = StaticallyArgmatched => argmatched
                       /\ f = CorrectOrderOfArguments => ~call.misnamed
                       /\ f = NoExplicitlyMissingArgs =>
                            \A i \in 1 .. supplied :
                                ~ExplicitlyMissing(call.args[i]) },
         typeFlags |-> (given.typeFlags \ lostNotObj) \cup
                       UNION { argFlags(call.args[i], i - 1) :
                                 i \in 1 .. supplied },
         missing |-> IF fits THEN formalNargs - supplied ELSE given.missing]

\* loadArg of nativeCallTrampolineImpl follows one promise only.
loadArg(a) ==
    IF ~Evaluated(a) /\ Len(a.proms) > 1 THEN "promise" ELSE a.val

mutantArgProvides(a, i, f) ==
    /\ f \in {Eager(i), NonRefl(i)} => Evaluated(a)
    /\ f = NotObj(i) => loadArg(a) \notin {"unbound", "missing", "closure"}
    /\ f = SimpleInt(i) => loadArg(a) = "int"
    /\ f = SimpleReal(i) => loadArg(a) = "real"

\* The CHECK_* macros: argument i passes the check of type assumption f.
argProvides(a, i, f) ==
    /\ f \in {Eager(i), NonRefl(i)} => Evaluated(a)
    /\ f = NotObj(i) =>
         loadArg(a) \notin {"unbound", "missing", "object", "closure"}
    /\ f = SimpleInt(i) => loadArg(a) = "int"
    /\ f = SimpleReal(i) => loadArg(a) = "real"

\* Only missing type assumptions are checked without inferring the context.
onlyTypesMissing(m) == m.flags = {} /\ m.missing = 0

missingProvided(m, call) ==
    \A f \in m.typeFlags :
        LET i == f % NUM_TYPED_ARGS IN argProvides(call.args[i + 1], i, f)

=============================================================================
