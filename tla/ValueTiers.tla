------------------------------ MODULE ValueTiers ------------------------------
(***************************************************************************)
(* One computation in every tier of the VM: up to MaxSteps operators and   *)
(* calls of builtins, the first argument of each the result of the one     *)
(* before.  Each is typed by the compiler, interpreted, folded and run as  *)
(* native code, and compared with what GNU R does.  The native value and   *)
(* the inferred type of a result are the argument of the next.             *)
(***************************************************************************)
EXTENDS SafeBuiltin

CONSTANTS Unary,           \* operators on one value
          Single,          \* operators and builtins with arguments, to run once
          Chained,         \* and to start a computation with
          Ops, More,       \* what is run on a result, with these second arguments
          MaxSteps

VARIABLES pc,              \* the tier at work
          left,            \* instructions left
          f, xs,           \* operator or builtin, and its arguments
          ks, hs,          \* the arguments as the compiler knows and holds them
          ref,             \* what GNU R does
          ty, eff,         \* what the compiler infers
          ran, fld, nat    \* what the tiers do
vars == <<pc, left, f, xs, ks, hs, ref, ty, eff, ran, fld, nat>>

Binary == Arithmetic \union Relational \union {"LAnd", "LOr", "Colon"}
operator == f \in Binary \union Unary

(* The operands of an operator: the second of a unary one is nothing. *)
lhs == xs[1]
rhs == IF Len(xs) = 2 THEN xs[2] ELSE R_UnboundValue
klhs == ks[1]
krhs == IF Len(ks) = 2 THEN ks[2] ELSE operand(bottom)
hrhs == IF Len(hs) = 2 THEN hs[2] ELSE sexp(R_UnboundValue)

(* GNU R on the operands. *)
threeValued(and, p, q) ==
    LET short == IF and THEN 0 ELSE 1
    IN IF p = short \/ q = short THEN short
       ELSE IF NA_INTEGER \in {p, q} THEN NA_INTEGER ELSE 1 - short
reference(o, p, q) ==
    CASE o \in Arithmetic -> R_binary(o, p, q)
      [] o \in Relational -> R_relop(o, p, q)
      [] o \in {"Plus", "Minus"} -> R_unary(o, p)
      [] o = "Not" -> R_not(p)
      [] o = "AsLogical" -> IF Rf_isNumber(p) THEN Result(lgl(Rf_asLogical(p))) ELSE Failed
      [] o = "CheckTrueFalse" ->
           LET c == Rf_asLogical(p)
               w == IF Len(p.v) > 1 THEN {"Warn"} ELSE {}
           IN IF c = NA_INTEGER THEN [res |-> Error, eff |-> w \union {"Error"}]
              ELSE [res |-> lgl(c), eff |-> w]
      [] o \in {"LAnd", "LOr"} -> Result(lgl(threeValued(o = "LAnd", p.v[1], q.v[1])))
      [] o = "Colon" -> R_colon(p, q)

(* What may be known of the arguments.  Of the operands of an operator,    *)
(* each by itself: nothing but that it is a value, its exact type, or the  *)
(* value.  Of the arguments of a builtin: nothing, the types, the types up *)
(* to a union, and of one or all of them the value.                        *)
unionOf(x) == IF numeric(x)
              THEN [typeOf(x) EXCEPT !.r = @ \union {"logical", "integer", "real"},
                                     !.f = @ \union {"maybeNAOrNaN"}]
              ELSE typeOf(x)
logicalOperand(x) == {operand(simpleScalarLogical), Const(x)}
anyOperand(x) == {operand(val), operand(typeOf(x)), Const(x)}
operandsKnownAs(o, as) ==
    LET K(x) == IF o \in {"LAnd", "LOr"} THEN logicalOperand(x) ELSE anyOperand(x)
    IN IF o \in Unary THEN {<<k>> : k \in K(as[1])} ELSE K(as[1]) \X K(as[2])
argumentsKnownAs(as) ==
    LET each(K(_)) == [i \in DOMAIN as |-> K(as[i])]
    IN {each(LAMBDA v : operand(val)), each(LAMBDA v : operand(typeOf(v))),
        each(LAMBDA v : operand(unionOf(v))), each(Const)}
         \union {[i \in DOMAIN as |-> IF i = n THEN Const(as[i]) ELSE operand(typeOf(as[i]))] :
                   n \in DOMAIN as}
knownAs == IF operator THEN operandsKnownAs(f, xs) ELSE argumentsKnownAs(xs)

(* How native code holds it: unboxed where the type allows. *)
held(o, v) == IF o.const THEN constant(o.c, Rep(o.ty)) ELSE load(sexp(v), o.ty, Rep(o.ty))

Blank == answer(Result(R_UnboundValue), "none")
NotRun == done(sexp(R_UnboundValue), {})

Init ==
    /\ pc = "reference" /\ ref = Blank /\ ty = bottom /\ eff = {}
    /\ ran = Blank /\ fld = Blank /\ nat = NotRun
    /\ \/ left = 1 /\ \E c \in Single : f = c.f /\ xs = c.xs /\ ks \in knownAs
       \/ /\ left = MaxSteps /\ \E c \in Chained : f = c.f /\ xs = c.xs
          /\ IF operator THEN ks = [i \in DOMAIN xs |-> operand(typeOf(xs[i]))]
             ELSE ks \in knownAs
    /\ hs = [i \in DOMAIN xs |-> held(ks[i], xs[i])]

Reference ==
    /\ pc = "reference" /\ pc' = "infer"
    /\ ref' = answer(IF operator THEN reference(f, lhs, rhs) ELSE R_builtin(f, xs), "caller")
    /\ UNCHANGED <<left, f, xs, ks, hs, ty, eff, ran, fld, nat>>

(* TypeInference, and the effects that updateTypeAndEffects leaves. *)
Infer ==
    /\ pc = "infer" /\ pc' = "interpret"
    /\ ty' = IF operator THEN updatedType(f, klhs, krhs) ELSE builtinType(f, ks)
    /\ eff' = IF operator THEN inferEffects(f, klhs, krhs) ELSE builtinEffects(f, ks)
    /\ UNCHANGED <<left, f, xs, ks, hs, ref, ran, fld, nat>>

Interpret ==
    /\ pc = "interpret" /\ pc' = "fold"
    /\ ran' = IF operator THEN answer(interpret(f, lhs, rhs), "caller") ELSE callBuiltin(f, xs)
    /\ UNCHANGED <<left, f, xs, ks, hs, ref, ty, eff, fld, nat>>

(* Running what folding leaves; Colon folds its ends. *)
foldedTo(r) ==
    LET end(o, v) == IF foldColonEnd(o) = o THEN v ELSE foldColonEnd(o).c
    IN CASE r.kind = "constant" -> Result(r.c)
         [] r.kind = "unreachable" -> Failed
         [] r.kind = "argument" -> Result(xs[r.n])
         [] r.kind = "instruction" -> IF operator THEN reference(r.op, xs[r.n], xs[r.n])
                                      ELSE aslogical_(xs[r.n])
         [] f = "Colon" -> reference(f, end(klhs, lhs), end(krhs, rhs))
         [] OTHER -> [res |-> ref.res, eff |-> ref.eff]
foldedRun == foldedTo(IF operator THEN folded(f, klhs, krhs) ELSE foldedCall(f, ks))
Fold ==
    /\ pc = "fold" /\ pc' = "native"
    /\ fld' = answer(foldedRun, ref.env)
    /\ UNCHANGED <<left, f, xs, ks, hs, ref, ty, eff, ran, nat>>

RunNative ==
    /\ pc = "native" /\ pc' = "done"
    /\ nat' = IF operator THEN execute(f, hs[1], hrhs, klhs, krhs, ty)
              ELSE lowerCall([f |-> f, ks |-> ks, hs |-> hs, t |-> ty])
    /\ UNCHANGED <<left, f, xs, ks, hs, ref, ty, eff, ran, fld>>

(* A type that excludes NA is right of a vector that contains none. *)
containsNA(x) == numeric(x) /\ \E i \in DOMAIN x.v : x.v[i] = naOf(x.t)
includes(t, x) == /\ isInstance(orNAOrNaN(t), x)
                  /\ maybeNAOrNaN(t) \/ ~containsNA(x)

(* The next instruction takes the result, if the tiers agree on it. *)
agreed == /\ ref.eff = {} /\ numeric(ref.res) /\ Len(ref.res.v) <= 2
          /\ valueOf(nat.v, ty) = ref.res /\ includes(ty, ref.res)
NextInstruction ==
    /\ pc = "done" /\ left > 1 /\ agreed
    /\ left' = left - 1 /\ pc' = "reference"
    /\ \E o \in Ops : \E m \in IF o.n = 1 THEN {<<>>} ELSE {<<v>> : v \in More} :
         /\ f' = o.f /\ xs' = <<ref.res>> \o m
         /\ ks' = <<operand(ty)>> \o [i \in DOMAIN m |-> operand(typeOf(m[i]))]
         /\ hs' = <<nat.v>> \o [i \in DOMAIN m |-> held(operand(typeOf(m[i])), m[i])]
    /\ ref' = Blank /\ ty' = bottom /\ eff' = {} /\ ran' = Blank /\ fld' = Blank
    /\ nat' = NotRun

Done == pc = "done" /\ (left = 1 \/ ~agreed) /\ UNCHANGED vars

Next == Reference \/ Infer \/ Interpret \/ Fold \/ RunNative \/ NextInstruction \/ Done
Spec == Init /\ [][Next]_vars
-----------------------------------------------------------------------------
(* Where a tier differs from GNU R.  The interpreter compares with NA_REAL *)
(* by ==, so a NaN compares as false and its negation is FALSE.            *)
comparesNaN ==
    /\ f \in Relational \union {"Not"}
    /\ simpleNumber(lhs) /\ (f # "Not" => simpleNumber(rhs))
    /\ NaN \in {lhs.v[1], rhs.v[1]}

(* An end of from:to that is the real number INT_MIN: the sequence is made *)
(* of integers, and so contains NA.                                        *)
endsAtIntMin == f = "Colon" /\ \E e \in {lhs, rhs} : e.t = "REALSXP" /\ e.v = <<dbl(INT_MIN)>>

(* Native integers wrap around where GNU R answers NA and warns, and their *)
(* quotient is cut where GNU R's is rounded down.                          *)
unboxedInts == Rep(klhs.ty) = "i32" /\ Rep(krhs.ty) = "i32"
wrapsAround == f \in Arithmetic /\ unboxedInts /\ overflows(f, lhs.v[1], rhs.v[1])
cutsQuotient == f = "IDiv" /\ unboxedInts /\ lhs.v[1] * rhs.v[1] < 0 /\ lhs.v[1] % abs(rhs.v[1]) # 0

(* C's pow of a negative number to an infinite power, or of -Inf. *)
infinitePower ==
    LET p == Rf_asReal(lhs)
        q == Rf_asReal(rhs)
    IN f = "Pow" /\ p < 0 /\ (p = NegInf \/ ~R_FINITE(q))

(* The native modulus warns of an infinite quotient too. *)
warnsOfInfinity == f = "Mod" /\ ~R_FINITE(fdiv(Rf_asReal(lhs), Rf_asReal(rhs)))

(* Arithmetic on numbers whose result is none: the types only expect that *)
(* of division and modulus, and of integers.                              *)
becomesNaN ==
    /\ f \in Arithmetic \ {"Div", "Mod"}
    /\ \/ ref.res.t = "REALSXP" /\ \E i \in DOMAIN ref.res.v : ref.res.v[i] = NaN
       \/ f = "IDiv" /\ {lhs.t, rhs.t} = {"LGLSXP"} /\ ref.res = int(NA_INTEGER)

(* Scalars are declared to neither warn nor fail: an overflow, a modulus *)
(* without accuracy, an end of from:to that is no number, a string.      *)
scalarWarns == ref.eff = {"Warn"} /\ f \in Arithmetic /\ isScalar(klhs.ty) /\ isScalar(krhs.ty)
endsNowhere == f = "Colon" /\ \E e \in {lhs, rhs} : ~R_FINITE(Rf_asReal(e))
notOfString == f \in {"Not", "AsLogical"} /\ lhs.t = "STRSXP"

(* Folding cuts the operand of ! to an int, takes an empty condition or *)
(* one that starts with NA for FALSE, and a string for NA.              *)
cutsOperand == /\ f = "Not" /\ lhs.t = "REALSXP"
               /\ \/ toInt(lhs.v[1]) = INT_MIN
                  \/ toInt(lhs.v[1]) = 0 /\ lhs.v[1] # 0
vectorCondition == f = "CheckTrueFalse" /\ Len(lhs.v) # 1

(* Where the fast paths of the interpreter are known to part from GNU R:   *)
(* all and any look at the first argument only, min and max of two reals   *)
(* keep the first if one is NaN, the mode double admits integers, shift    *)
(* counts are taken modulo the width and negative numbers shifted with     *)
(* their sign, a length of INT_MAX is real, an empty vector is repeated a  *)
(* negative number of times, and row and col take dimensions that are      *)
(* real.  Out of range, a real is NA in a bitwise operation unwarned.      *)
outOfRange(x) == x.t = "REALSXP" /\ \E i \in DOMAIN x.v : ~isnan(x.v[i]) /\ toInt(x.v[i]) = INT_MIN
counts(x) == {IF x.t = "REALSXP" THEN toInt(x.v[i]) ELSE x.v[i] : i \in DOMAIN x.v}
oddShift == \/ \E n \in counts(xs[2]) : shiftOverflows(n)
            \/ f = "bitwiseShiftR" /\ \E n \in counts(xs[1]) : n < 0
interpretedOtherwise ==
    CASE f \in {"all", "any"} -> Len(xs) = 2 /\ xs[1].t = "LGLSXP"
      [] f \in {"min", "max"} ->
           Len(xs) = 2 /\ \A i \in 1 .. 2 : xs[i].t = "REALSXP" /\ Len(xs[i].v) = 1
             /\ \E j \in 1 .. 2 : containsNA(xs[j])
      [] f = "is.vector" -> xs[2] = str("double") /\ xs[1].t \in {"INTSXP", "LGLSXP"}
      [] f \in {"bitwiseShiftL", "bitwiseShiftR"} -> ref.res # Error /\ oddShift
      [] f = "length" -> Len(xs[1].v) = INT_MAX
      [] f = "rep.int" -> xs[1].v = <<>> /\ \E n \in counts(xs[2]) : n < 0
      [] f \in {"row", "col"} -> xs[1].t = "REALSXP"
      [] OTHER -> FALSE
unwarned == f \in Bitwise_ /\ \E i \in DOMAIN xs : outOfRange(xs[i])

(* Of folding: as.logical of a string or list becomes an instruction that  *)
(* fails on them, a type without the NA flag decides anyNA of lists, of    *)
(* functions and of objects too, a constant that is an object is converted *)
(* once, when compiling, and a constant out of range unwarned.             *)
foldedOtherwise ==
    CASE f = "as.logical" -> xs[1].t \in {"STRSXP", "VECSXP"}
      [] f = "anyNA" -> ~numeric(xs[1]) \/ isObject(xs[1])
      [] f = "as.character" -> isObject(xs[1]) /\ fld.res = ref.res
      [] f = "as.integer" -> outOfRange(xs[1]) /\ fld.res = ref.res
      [] OTHER -> FALSE

(* Of native code: min and max compare NA_integer_ and NaN like numbers,   *)
(* sums take NA as INT_MIN, the bitwise operations take logicals, and      *)
(* reals out of range as INT_MIN, and an unboxed length of a vector is     *)
(* unsigned.  Conversions out of range, roots of negative numbers and      *)
(* overflowing sums do not warn.                                           *)
someNA == \E i \in DOMAIN xs : containsNA(xs[i])
emptyInts == f \in {"min", "max"} /\ Len(xs) = 1 /\ xs[1].t = "INTSXP" /\ xs[1].v = <<>>
compiledOtherwise ==
    CASE f \in {"min", "max"} -> (Len(xs) = 2 /\ someNA) \/ emptyInts
      [] f \in {"sum", "prod"} ->
           Len(xs) = 1 /\ xs[1].t = "INTSXP" /\ Len(xs[1].v) > 1
             /\ (someNA \/ (ref.eff = {"Warn"} /\ valueOf(nat.v, ty) = ref.res))
      [] f \in Bitwise_ -> \E i \in DOMAIN xs : xs[i].t = "LGLSXP"
      [] f = "vector" -> xs[2].t = "LGLSXP" \/ (xs[2].t = "INTSXP" /\ xs[2].v[1] < 0)
      [] f \in {"as.integer", "sqrt"} -> ref.eff = {"Warn"} /\ valueOf(nat.v, ty) = ref.res
      [] OTHER -> FALSE

(* Of the types: ( may return an object, min and max of no integers are    *)
(* infinite reals, and NA arises from numbers: NaN of roots, sums and      *)
(* products, and the overflow of an integer sum.                           *)
typedOtherwise ==
    \/ f = "(" /\ isObject(xs[1])
    \/ emptyInts
    \/ f \in {"sqrt", "sum", "prod"} /\ ~someNA /\ includes(orNAOrNaN(ty), ref.res)

trusted == \A i \in DOMAIN xs : includes(ks[i].ty, xs[i])
same(a) == a.res = ref.res /\ a.eff = ref.eff

(* Every bytecode instruction on values and every builtin called by the    *)
(* interpreter, the fast paths included, gives the value, warnings and     *)
(* errors GNU R gives.                                                     *)
InterpreterMatchesR ==
    pc = "done" =>
      \/ same(ran)
      \/ IF operator THEN comparesNaN \/ endsAtIntMin
         ELSE interpretedOtherwise \/ (unwarned /\ ran.res = ref.res /\ ref.eff = {"Warn"})

(* Constant folding keeps the result of an instruction, in whatever tier   *)
(* it would have run; a call it removes had no more effects than in GNU R. *)
FoldingMatchesR ==
    pc = "done" =>
      \/ fld.res = ref.res /\ (operator \/ fld.eff = ref.eff)
      \/ IF operator THEN endsAtIntMin \/ cutsOperand \/ vectorCondition \/ notOfString
         ELSE foldedOtherwise

(* Native code on unboxed and boxed operands, for operands of the types    *)
(* they were compiled for, does what GNU R does.  NA tests left out because *)
(* of a type, conversions and boxing change nothing, also along a chain of *)
(* instructions that keep their results unboxed.                           *)
NativeMatchesR ==
    pc = "done" /\ trusted =>
      \/ /\ nat.eff = ref.eff
         /\ "any" # ref.res.t =>
              IF "Error" \in ref.eff THEN nat.v.s = Error ELSE valueOf(nat.v, ty) = ref.res
      \/ IF operator
         THEN wrapsAround \/ cutsQuotient \/ infinitePower \/ warnsOfInfinity \/ endsAtIntMin
         ELSE compiledOtherwise \/ interpretedOtherwise \/ unwarned

(* What the compiler infers of an instruction is right, whatever the       *)
(* operands are within their types.  The type includes the result, so that *)
(* code specialized on it stays right; but for a NaN out of numbers.  The  *)
(* instruction has no effect that is not expected: it may be dropped or    *)
(* moved for having none, and a call listed as safe is left without an     *)
(* environment.                                                            *)
InferenceMatchesR ==
    pc = "done" /\ trusted =>
      /\ \/ ref.res.t \in {"any", "error"} \/ includes(ty, ref.res)
         \/ IF operator THEN becomesNaN \/ endsAtIntMin ELSE typedOtherwise
      /\ \/ ref.eff \subseteq eff
         \/ operator /\ (scalarWarns \/ endsNowhere \/ notOfString)
      /\ ran.env = "base" => "ExecuteCode" \notin ref.eff
=============================================================================
