------------------------------- MODULE Lowering -------------------------------
(***************************************************************************)
(* The native code of the instructions on values.  A value whose type is a *)
(* simple logical, integer or real scalar is kept unboxed (i32 or f64);    *)
(* everything else is a SEXP.  The type also decides whether NA is tested: *)
(* no test where the type excludes NA and NaN.  Undefined behaviour is     *)
(* taken as x86-64 has it: integer overflow wraps and a conversion of a    *)
(* double that does not fit an int gives INT_MIN.                          *)
(***************************************************************************)
EXTENDS PirInstruction, Interp

(* Rep::Of: an union of number types is not unboxed, nor what may be *)
(* missing or a promise.                                             *)
Rep(t) ==
    IF maybeMissing(t) \/ maybePromiseWrapped(t) THEN "SEXP"
    ELSE IF isA(t, simpleScalarLogical) \/ isA(t, simpleScalarInt) THEN "i32"
    ELSE IF isA(t, simpleScalarReal) THEN "f64" ELSE "SEXP"

i32(n) == [rep |-> "i32", n |-> n, s |-> R_UnboundValue]
f64(n) == [rep |-> "f64", n |-> n, s |-> R_UnboundValue]
sexp(x) == [rep |-> "SEXP", n |-> 0, s |-> x]

sitofp(n) == dbl(n)
fptosi(x) == toInt(x)
normalized(n) == IF n = 0 \/ n = NA_INTEGER THEN n ELSE 1

(* NA as far as the type lets the test be emitted. *)
isNa(v, t) == /\ maybeNAOrNaN(t)
              /\ IF v.rep = "i32" THEN v.n = NA_INTEGER ELSE isnan(v.n)

(* Boxing and unboxing. *)
boxInt(v) == sexp(int(IF v.rep = "i32" THEN v.n
                      ELSE IF isnan(v.n) THEN NA_INTEGER ELSE fptosi(v.n)))
boxReal(v) == sexp(real(IF v.rep = "f64" THEN v.n
                        ELSE IF v.n = NA_INTEGER THEN NaN ELSE sitofp(v.n)))
boxLgl(v) == sexp(IF v.rep = "i32" THEN lgl(normalized(v.n))
                  ELSE IF v.n = 0 \/ isnan(v.n) THEN R_FalseValue ELSE R_TrueValue)
box(v, t) == IF isA(t, of("real")) THEN boxReal(v)
             ELSE IF isA(t, of("integer")) THEN boxInt(v) ELSE boxLgl(v)

unboxRealIntLgl(x, t) ==
    f64(IF x.t = "REALSXP" THEN x.v[1]
        ELSE IF maybeNAOrNaN(t) /\ x.v[1] = NA_INTEGER THEN NaN ELSE sitofp(x.v[1]))
unbox(x, t) ==
    IF isA(t, simpleScalarInt) THEN i32(x.v[1])
    ELSE IF isA(t, simpleScalarLogical) THEN i32(normalized(x.v[1]))
    ELSE IF isA(t, simpleScalarReal) THEN f64(x.v[1])
    ELSE unboxRealIntLgl(x, t)

(* load: a value of type t in the representation needed; between numbers *)
(* it converts without a test.                                           *)
inRep(w, t, needed) ==
    IF w.rep = "i32" /\ needed = "f64" THEN f64(sitofp(w.n))
    ELSE IF w.rep = "f64" /\ needed = "i32" THEN i32(fptosi(w.n))
    ELSE IF w.rep # "SEXP" /\ needed = "SEXP"
      THEN IF isA(t, PirType({"integer"}, topRTypeFlags)) THEN boxInt(w)
           ELSE IF isA(t, PirType({"logical"}, topRTypeFlags)) THEN boxLgl(w)
           ELSE boxReal(w)
    ELSE w
load(v, t, needed) ==
    inRep(IF v.rep = "SEXP" /\ needed # "SEXP" THEN unbox(v.s, t) ELSE v, t, needed)
unboxed(v, t) == load(v, t, Rep(t))

(* constant: a constant operand in the representation needed. *)
constant(x, needed) ==
    IF needed = "i32" THEN i32(IF x.t # "REALSXP" THEN x.v[1]
                               ELSE IF isnan(x.v[1]) THEN NA_INTEGER ELSE toInt(x.v[1]))
    ELSE IF needed = "f64" THEN f64(asDouble(x.t, x.v[1]))
    ELSE sexp(IF IS_SIMPLE_SCALAR(x, "LGLSXP") THEN lgl(normalized(x.v[1])) ELSE x)

(* setVal converts the result to the representation of its type. *)
convert(v, t) ==
    LET to == Rep(t)
    IN IF v.rep = to THEN v
       ELSE IF v.rep = "SEXP"
         THEN IF to = "i32" THEN i32(v.s.v[1]) ELSE unboxRealIntLgl(v.s, t)
       ELSE IF to = "SEXP" THEN box(v, t)
       ELSE IF to = "f64" THEN f64(IF v.n = NA_INTEGER THEN NaN ELSE sitofp(v.n))
       ELSE i32(IF isnan(v.n) THEN NA_INTEGER ELSE fptosi(v.n))

asf64(v) == IF v.rep = "i32" THEN sitofp(v.n) ELSE v.n

(* The outcome of an instruction: a native value, and effects. *)
done(v, eff) == [v |-> v, eff |-> eff]
boxed(r) == done(sexp(r.res), r.eff)
raised == done(sexp(Error), {"Error"})

(* The builtins native code calls for boxed operands are GNU R's; without *)
(* an environment from:to has the interpreter's fast paths.               *)
builtin2(tag, a, b) == IF tag \in Arithmetic THEN R_binary(tag, a, b)
                       ELSE IF tag \in Relational THEN R_relop(tag, a, b)
                       ELSE R_colon(a, b)
binopEnvImpl(tag, a, b) == boxed(builtin2(tag, a, b))
binopImpl(tag, a, b) == boxed(IF tag = "Colon" THEN colon_(a, b) ELSE builtin2(tag, a, b))
binop(tag, a, b, env) == IF env THEN binopEnvImpl(tag, a, b) ELSE binopImpl(tag, a, b)
unopImpl(tag, a) == boxed(R_unary(tag, a))
notImpl(a) == boxed(R_not(a))

(* Unboxed integers: overflow is not tested, and the quotient truncates. *)
(* A comparison of b with zero that is unordered takes NaN for zero.     *)
intIDiv(a, b) == IF b = 0 THEN NA_INTEGER ELSE fptosi(fdiv(sitofp(a), sitofp(b)))
fpIDiv(a, b) == IF b = 0 \/ isnan(b) THEN fdiv(a, b) ELSE myfloor(a, b)
fpMod(a, b) == IF isnan(b) THEN NaN ELSE myfmod(a, b)
myimod(a, b) == IF a >= 0 /\ b = 0 THEN NA_INTEGER
                ELSE IF a >= 0 /\ b > 0 THEN a % b
                ELSE fptosi(fpMod(sitofp(a), sitofp(b)))

intInsert(tag, a, b) ==
    CASE tag = "Add" -> wrap(a + b)
      [] tag = "Sub" -> wrap(a - b)
      [] tag = "Mul" -> wrap(a * b)
      [] tag = "IDiv" -> intIDiv(a, b)
      [] tag = "Mod" -> myimod(a, b)
fpInsert(tag, a, b) ==
    CASE tag \in {"Add", "Sub", "Mul", "Div"} -> cOp(tag, a, b)
      [] tag = "IDiv" -> fpIDiv(a, b)
      [] tag = "Mod" -> fpMod(a, b)
      [] tag = "Pow" -> cpow(a, b)

(* The modulus warns of any quotient above the limit, infinite or not a *)
(* number included; the integer fast path does not compute one.          *)
modWarns(tag, a, b) ==
    /\ tag = "Mod"
    /\ ~(a.rep = "i32" /\ b.rep = "i32" /\ a.n >= 0 /\ b.n >= 0)
    /\ LET y == asf64(b)
           q == fdiv(asf64(a), y)
       IN y # 0 /\ ~isnan(y) /\ (isnan(q) \/ abs(q) > LossOfAccuracy)

(* Which operand being NA makes the result NA: not the first of NA %% 0, *)
(* not 1 ^ NA, NA ^ 0.                                                   *)
isZero(v) == IF v.rep = "i32" THEN v.n = 0 ELSE v.n = 0 \/ isnan(v.n)
isOne(v) == IF v.rep = "i32" THEN v.n = 1 ELSE v.n = One \/ isnan(v.n)
modIsNa(a, b, ta, tb) ==
    \/ isNa(a, ta) /\ (("f64" \in {a.rep, b.rep}) => ~isZero(b))
    \/ isNa(b, tb)
powIsNa(a, b, ta, tb) ==
    \/ ~isZero(b) /\ isNa(a, ta)
    \/ ~isOne(a) /\ isNa(b, tb)
mutantNaBranch(tag, a, b, ta, tb) == isNa(a, ta) \/ isNa(b, tb)
naBranch(tag, a, b, ta, tb) ==
    CASE tag = "Mod" -> modIsNa(a, b, ta, tb)
      [] tag = "Pow" -> powIsNa(a, b, ta, tb)
      [] OTHER -> isNa(a, ta) \/ isNa(b, tb)

unboxedBinop(tag, a, b, ta, tb) ==
    LET toReal == "f64" \in {a.rep, b.rep} \/ tag \in {"Div", "Pow"}
    IN IF naBranch(tag, a, b, ta, tb)
         THEN done(IF toReal THEN f64(NaN) ELSE i32(NA_INTEGER), {})
       ELSE done(IF toReal THEN f64(fpInsert(tag, asf64(a), asf64(b)))
                 ELSE i32(intInsert(tag, a.n, b.n)),
                 IF modWarns(tag, a, b) THEN {"Warn"} ELSE {})
compileBinop(tag, va, vb, ta, tb, env) ==
    IF Rep(ta) = "SEXP" \/ Rep(tb) = "SEXP"
      THEN binop(tag, load(va, ta, "SEXP").s, load(vb, tb, "SEXP").s, env)
    ELSE unboxedBinop(tag, unboxed(va, ta), unboxed(vb, tb), ta, tb)

relInsert(tag, a, b) == IF a.rep = "i32" /\ b.rep = "i32" THEN compare(tag, a.n, b.n)
                        ELSE ieee(tag, asf64(a), asf64(b))
unboxedRelop(tag, a, b, ta, tb) ==
    done(i32(IF isNa(a, ta) \/ isNa(b, tb) THEN NA_INTEGER
             ELSE truth(relInsert(tag, a, b))), {})
compileRelop(tag, va, vb, ta, tb, env) ==
    IF Rep(ta) = "SEXP" \/ Rep(tb) = "SEXP"
      THEN binop(tag, load(va, ta, "SEXP").s, load(vb, tb, "SEXP").s, env)
    ELSE unboxedRelop(tag, unboxed(va, ta), unboxed(vb, tb), ta, tb)

(* && and || on the unboxed results of AsLogical. *)
LAnd(a, b) == done(i32(IF a.n = 0 \/ b.n = 0 THEN 0
                       ELSE IF NA_INTEGER \in {a.n, b.n} THEN NA_INTEGER ELSE 1), {})
LOr(a, b) == done(i32(IF {a.n, b.n} \ {0, NA_INTEGER} # {} THEN 1
                      ELSE IF NA_INTEGER \in {a.n, b.n} THEN NA_INTEGER ELSE 0), {})

(* Only integers are tested for NA: the sign of a NaN does not matter. *)
unboxedUnop(tag, a, ta) ==
    done(IF a.rep = "f64" THEN f64(IF tag = "Plus" THEN a.n ELSE fneg(a.n))
         ELSE IF isNa(a, ta) THEN i32(NA_INTEGER)
         ELSE i32(IF tag = "Plus" THEN a.n ELSE wrap(-a.n)), {})
compileUnop(tag, va, ta) ==
    IF Rep(ta) = "SEXP" THEN unopImpl(tag, va.s) ELSE unboxedUnop(tag, unboxed(va, ta), ta)

unboxedNot(a, ta) ==
    done(i32(IF isNa(a, ta) THEN NA_INTEGER
             ELSE truth(a.n = 0 \/ (a.rep = "f64" /\ isnan(a.n)))), {})
Not(va, ta) == IF Rep(ta) = "SEXP" THEN notImpl(va.s) ELSE unboxedNot(unboxed(va, ta), ta)

asLogicalImpl(x) == IF ~Rf_isNumber(x) THEN raised ELSE done(i32(Rf_asLogical(x)), {})
unboxedAsLogical(a, ta) ==
    done(i32(IF isNa(a, ta) \/ (a.rep = "i32" /\ a.n = NA_INTEGER) THEN NA_INTEGER
             ELSE IF a.rep = "i32" /\ isA(ta, of("logical")) THEN a.n
             ELSE truth(a.n # 0)), {})
AsLogical(va, ta) ==
    IF Rep(ta) = "SEXP" THEN asLogicalImpl(va.s) ELSE unboxedAsLogical(unboxed(va, ta), ta)

checkTrueFalseImpl(x) ==
    LET r == asbool_(x)
    IN done(IF r.res = Error THEN sexp(Error) ELSE i32(r.res.v[1]), r.eff)
unboxedCheck(a, ta) == IF isNa(a, ta) THEN raised ELSE done(i32(truth(a.n # 0)), {})
CheckTrueFalse(va, ta) ==
    IF Rep(ta) = "SEXP" THEN checkTrueFalseImpl(va.s) ELSE unboxedCheck(unboxed(va, ta), ta)

intColon(m, n) == IF NA_INTEGER \in {m, n} THEN raised
                  ELSE done(sexp(seq_int(dbl(m), dbl(n))), {})
Colon(va, vb, ta, tb, env) ==
    IF ~env /\ Rep(ta) = "i32" /\ Rep(tb) = "i32"
      THEN intColon(load(va, ta, "i32").n, load(vb, tb, "i32").n)
    ELSE binop("Colon", load(va, ta, "SEXP").s, load(vb, tb, "SEXP").s, env)

(* The pieces of a counting loop over from:to, unboxed.  An integral start *)
(* needs an end that leaves room for one past it; the test converts a real *)
(* end to 64 bits.                                                         *)
checkDoubleToInt(v, t) ==
    \/ isA(t, of("integer"))
    \/ v.n > dbl(INT_MIN) /\ v.n < dbl(INT_MAX + 1) /\ whole(v.n)

unboxedInputEffects(a, b, ta, tb) ==
    LET sequenceIsReal == a.rep = "f64" /\ ~checkDoubleToInt(a, ta)
        sequenceIsAmbiguous == a.rep = "f64" /\ ~checkDoubleToInt(b, tb)
        checkRhs == IF b.rep = "i32" THEN b.n # INT_MAX
                    ELSE R_FINITE(b.n) => trunc(b.n) # INT_MAX
    IN done(i32(truth(sequenceIsReal \/ (~sequenceIsAmbiguous /\ checkRhs))), {})
ColonInputEffects(va, vb, ta, tb) ==
    IF Rep(ta) = "SEXP" \/ Rep(tb) = "SEXP"
      THEN boxed(colonInputEffects(load(va, ta, "SEXP").s, load(vb, tb, "SEXP").s))
    ELSE unboxedInputEffects(unboxed(va, ta), unboxed(vb, tb), ta, tb)

orRaised(a, ta) == IF isNa(a, ta) THEN raised ELSE done(a, {})
ColonCastLhs(va, ta, t) ==
    IF Rep(ta) = "SEXP" \/ Rep(t) = "SEXP"
      THEN boxed(colonCastLhs(load(va, ta, "SEXP").s))
    ELSE orRaised(unboxed(va, ta), ta)

unboxedCastRhs(a, b, tb) ==
    IF isNa(b, tb) THEN raised ELSE done(f64(pastEnd(asf64(a), asf64(b))), {})
ColonCastRhs(va, vb, ta, tb, t) ==
    IF "SEXP" \in {Rep(ta), Rep(tb), Rep(t)}
      THEN boxed(colonCastRhs(load(va, ta, "SEXP").s, load(vb, tb, "SEXP").s))
    ELSE unboxedCastRhs(unboxed(va, ta), unboxed(vb, tb), tb)

(* An instruction without object arguments has its environment elided. *)
lowered(op, va, vb, a, b, t) ==
    LET env == maybeObj(a.ty) \/ maybeObj(b.ty)
    IN CASE op \in Arithmetic -> compileBinop(op, va, vb, a.ty, b.ty, env)
         [] op \in Relational -> compileRelop(op, va, vb, a.ty, b.ty, env)
         [] op \in {"Plus", "Minus"} -> compileUnop(op, va, a.ty)
         [] op = "Not" -> Not(va, a.ty)
         [] op = "AsLogical" -> AsLogical(va, a.ty)
         [] op = "CheckTrueFalse" -> CheckTrueFalse(va, a.ty)
         [] op = "LAnd" -> LAnd(load(va, a.ty, "i32"), load(vb, b.ty, "i32"))
         [] op = "LOr" -> LOr(load(va, a.ty, "i32"), load(vb, b.ty, "i32"))
         [] op = "Colon" -> Colon(va, vb, a.ty, b.ty, env)
         [] op = "ColonInputEffects" -> ColonInputEffects(va, vb, a.ty, b.ty)
         [] op = "ColonCastLhs" -> ColonCastLhs(va, a.ty, t)
         [] op = "ColonCastRhs" -> ColonCastRhs(va, vb, a.ty, b.ty, t)

(* The whole instruction: compute, then setVal. *)
setResult(r, t) == IF "Error" \in r.eff THEN r ELSE done(convert(r.v, t), r.eff)
execute(op, va, vb, a, b, t) == setResult(lowered(op, va, vb, a, b, t), t)

(* The value behind a native one of type t. *)
valueOf(v, t) == load(v, t, "SEXP").s
=============================================================================
