----------------------------- MODULE SafeBuiltin -----------------------------
(***************************************************************************)
(* Calls of builtins in the optimizing compiler.  A builtin known to run   *)
(* no R code is called without an environment and gets a type of its own;  *)
(* calls with constant arguments, or arguments whose type decides the      *)
(* answer, are folded; and the native code of the frequent ones is         *)
(* written out where the representation of the operands allows.            *)
(***************************************************************************)
EXTENDS Lowering, ConstantFold, FastBuiltin

typesOf(ks) == [i \in DOMAIN ks |-> ks[i].ty]

mutantIsSafe(f, ks) == f \in always \/ f \in nonObject

(* BuiltinCallFactory::New: which of the two call instructions. *)
isSafe(f, ks) ==
    f \in always \/ (f \in nonObject /\ \A i \in DOMAIN ks : ~maybeObj(ks[i].ty))

(* CallBuiltin may do anything. *)
callType(f) == IF f \in returnsObj THEN notMissing(val) ELSE notObject(notMissing(val))
builtinEffects(f, ks) == IF isSafe(f, ks) THEN {"Warn", "Error"} ELSE AnyCode
-----------------------------------------------------------------------------
(* inferType, by the builtin. *)
converted(ts) == LET m[i \in 0 .. Len(ts)] == IF i = 0 THEN bottom
                                              ELSE mergeWithConversion(m[i - 1], ts[i])
                 IN m[Len(ts)]
top(rs) == PirType(rs, topRTypeFlags)
bitwiseType(ts) ==
    IF isSimpleScalar(ts[1]) /\ isSimpleScalar(ts[2]) THEN simpleScalarInt ELSE of("integer")
lengthType == orNAOrNaN(simpleScalar(top({"integer", "real"})))

(* abs, and the summaries min, max, sum and prod. *)
countLogical(t) ==
    IF maybe(t, of("logical")) THEN notT(orT(t, "integer"), "logical") ELSE t
modulusType(t) == IF maybe(t, of("cplx")) THEN notT(orT(t, "real"), "cplx") ELSE t
summaryType(f, ts) ==
    LET m == converted(ts)
        lub == IF f \in {"min", "max"} THEN union(orAttribsOrObj(num), of("str"))
               ELSE orAttribsOrObj(num)
    IN IF ts = <<>> \/ maybeObj(m) THEN bottom
       ELSE LET t == countLogical(inter(m, lub))
            IN IF f = "abs" THEN modulusType(t)
               ELSE IF f = "prod" THEN notT(orT(simpleScalar(t), "real"), "integer")
               ELSE simpleScalar(t)
sqrtType(ts) ==
    LET m == converted(ts)
    IN IF ts = <<>> \/ maybeObj(m) THEN bottom
       ELSE notT(orT(inter(m, orAttribsOrObj(num)), "real"), "integer")
asIntegerType(t) ==
    IF maybeObj(t) THEN bottom
    ELSE IF isSimpleScalar(t) THEN simpleScalarInt ELSE of("integer")
vecTestType(t) ==
    LET t0 == of("logical")
        t1 == IF maybeHasAttrs(t) THEN notObject(orAttribsOrObj(t0)) ELSE t0
        t2 == IF ~maybeNotFastVecelt(t) THEN fastVecelt(t1) ELSE t1
    IN IF maybeObj(t) THEN bottom
       ELSE IF isSimpleScalar(t) THEN simpleScalar(t2) ELSE t2
tests == {"is.vector", "is.integer", "is.double", "is.complex", "is.character",
          "is.symbol", "is.expression", "is.object", "is.numeric", "is.matrix",
          "is.array", "is.atomic", "is.call", "is.function", "all", "any"}
testType(f, t) == IF f \in {"all", "any"} /\ maybeObj(t) THEN bottom ELSE test
cType(ts) ==
    LET t == collectionType(mergedInputType(ts), Len(ts))
    IN IF maybe(t, of("nil")) /\ \E i \in DOMAIN ts : ~maybe(ts[i], of("nil"))
       THEN notT(t, "nil") ELSE t
vectorType(m) ==
    IF \/ ~m.const \/ m.c.t # "STRSXP" \/ Len(m.c.v) # 1
       \/ str2type(m.c.v[1]) \notin vectorTypes
      THEN bottom
    ELSE of(SexpToRType[str2type(m.c.v[1])])

inferredCall(f, ks) ==
    LET ts == typesOf(ks)
    IN CASE f \in Bitwise_ \ {"bitwiseShiftR"} -> bitwiseType(ts)
         [] f = "length" -> lengthType
         [] f \in {"abs", "min", "max", "prod", "sum"} -> summaryType(f, ts)
         [] f = "sqrt" -> sqrtType(ts)
         [] f = "as.integer" -> asIntegerType(ts[1])
         [] f = "is.na" -> vecTestType(ts[1])
         [] f \in tests -> testType(f, ts[1])
         [] f = "c" -> cType(ts)
         [] f = "vector" -> vectorType(ks[1])
         [] OTHER -> bottom
ofCall(t, f) == IF t = bottom THEN callType(f) ELSE inter(t, callType(f))
builtinType(f, ks) ==
    IF isSafe(f, ks) THEN orVal(ofCall(inferredCall(f, ks), f)) ELSE val
-----------------------------------------------------------------------------
(* Folding.  TRUE, FALSE, NA and NULL are values of their own, no Const. *)
isConstInstr(k) ==
    k.const /\ k.c \notin {R_TrueValue, R_FalseValue, R_LogicalNAValue, R_NilValue}
foldList(ks) == IF \A i \in DOMAIN ks : isConstInstr(ks[i])
                THEN Constant(plain("VECSXP", [i \in DOMAIN ks |-> elt(ks[i].c)])) ELSE Kept
foldAsLogicalCall(k) ==
    IF ~maybeObj(k.ty) /\ isScalar(k.ty) THEN Fresh("AsLogical", 1) ELSE Kept
foldAsCharacter(k) ==
    IF isA(k.ty, notObject(notPromiseWrapped(of("str")))) THEN Argument(1)
    ELSE IF k.const /\ k.c.t \in {"REALSXP", "INTSXP", "LGLSXP"}
      THEN Constant(R_builtin("as.character", <<k.c>>).res)
    ELSE Kept
foldAsInteger(k) ==
    IF isA(k.ty, notObject(notPromiseWrapped(of("integer")))) THEN Argument(1)
    ELSE IF k.const /\ IS_SIMPLE_SCALAR(k.c, "REALSXP")
      THEN Constant(int(IF isnan(k.c.v[1]) THEN NA_INTEGER ELSE toInt(k.c.v[1])))
    ELSE IF k.const /\ IS_SIMPLE_SCALAR(k.c, "INTSXP") THEN Constant(k.c) ELSE Kept
foldIsVector(k, m) ==
    IF /\ ~maybeHasAttrs(k.ty) /\ isA(k.ty, vecs)
       /\ isA(m.ty, simpleScalarString) /\ m.const /\ m.c.v[1] = mode.any
    THEN Constant(R_TrueValue) ELSE Kept

(* The type decides the answer if it is wholly inside or outside of t. *)
decided(k, t) == IF isA(k.ty, t) THEN Constant(R_TrueValue)
                 ELSE IF ~maybe(k.ty, t) THEN Constant(R_FalseValue) ELSE Kept
foldIsFunction(k) == decided(k, anyOf({"closure", "special", "builtin"}))
foldIsCharacter(k) == decided(k, of("str"))
foldIsLogical(k) == decided(k, of("logical"))
foldIsDouble(k) == decided(k, of("real"))
foldIsInteger(k) == decided(k, of("integer"))
foldIsComplex(k) == decided(k, of("cplx"))
foldIsAtomic(k) ==
    decided(k, top({"nil", "chr", "logical", "integer", "real", "cplx", "str", "raw"}))
foldAnyNA(k) == IF ~maybeNAOrNaN(k.ty) THEN Constant(R_FalseValue) ELSE Kept
foldIsObject(k) == IF ~maybeObj(k.ty) THEN Constant(R_FalseValue) ELSE Kept
foldIsNa(k) ==
    IF isA(orAttribsOrObj(anyOf(num.r \union {"chr", "str", "vec"})), k.ty)
         /\ ~maybeNAOrNaN(k.ty)
    THEN Constant(R_FalseValue) ELSE Kept

foldedCall(f, ks) ==
    LET k == ks[1]
    IN CASE f = "length" -> foldLength(k)
         [] f = "list" -> foldList(ks)
         [] f = "as.logical" -> foldAsLogicalCall(k)
         [] f = "as.character" -> foldAsCharacter(k)
         [] f = "as.integer" -> foldAsInteger(k)
         [] f = "is.vector" -> foldIsVector(k, ks[2])
         [] f = "is.function" -> foldIsFunction(k)
         [] f = "is.character" -> foldIsCharacter(k)
         [] f = "is.logical" -> foldIsLogical(k)
         [] f = "is.double" -> foldIsDouble(k)
         [] f = "is.integer" -> foldIsInteger(k)
         [] f = "is.complex" -> foldIsComplex(k)
         [] f = "is.atomic" -> foldIsAtomic(k)
         [] f = "anyNA" -> foldAnyNA(k)
         [] f = "is.object" -> foldIsObject(k)
         [] f = "is.na" -> foldIsNa(k)
         [] OTHER -> Kept
-----------------------------------------------------------------------------
(* Native code.  A call has its builtin f, the operands ks as the compiler *)
(* knows them and hs as they are held, and the type t of its result.       *)
sexpOf(c, i) == load(c.hs[i], c.ks[i].ty, "SEXP").s
returned(r, t) == done(convert(sexp(r.res), IF r.res = Error THEN val ELSE t), r.eff)
callRBuiltin(c) ==
    LET xs == [i \in DOMAIN c.hs |-> sexpOf(c, i)]
    IN returned(IF supportsFastBuiltinCall(c.f) THEN callBuiltin(c.f, xs)
                ELSE R_builtin(c.f, xs), c.t)
NotDone == done(sexp(nullptr), {})

(* setVal of a native value, and of a constant. *)
setVal(c, v) == done(convert(v, c.t), {})
answered(c, b) == done(constant(bool(b), Rep(c.t)), {})
isSexp(c, i) == Rep(c.ks[i].ty) = "SEXP"
simpleNum(t) == isA(t, simpleScalar(top({"integer", "logical", "real"})))

(* Bitwise operations on numbers. *)
bitOperand(c, i) == LET k == c.ks[i]
                    IN IF isSexp(c, i) /\ simpleNum(k.ty) THEN "f64" ELSE Rep(k.ty)
bitIsNa(c, i) == isNa(load(c.hs[i], c.ks[i].ty, bitOperand(c, i)), c.ks[i].ty)
shiftOverflows(n) == n < 0 \/ n > Width - 1
bitInsert(f, x, y) ==
    CASE f = "bitwiseShiftL" -> IF shiftOverflows(y) THEN NA_INTEGER ELSE shl(x, y)
      [] f = "bitwiseShiftR" -> IF shiftOverflows(y) THEN NA_INTEGER ELSE lshr(x, y)
      [] f = "bitwiseAnd" -> bitAnd(x, y)
      [] f = "bitwiseOr" -> bitOr(x, y)
      [] f = "bitwiseXor" -> bitXor(x, y)
lowerBitwise(c) ==
    IF Rep(c.t) # "i32" \/ bitOperand(c, 1) = "SEXP" \/ bitOperand(c, 2) = "SEXP" THEN NotDone
    ELSE done(i32(IF bitIsNa(c, 1) \/ bitIsNa(c, 2) THEN NA_INTEGER
                  ELSE bitInsert(c.f, load(c.hs[1], c.ks[1].ty, "i32").n,
                                 load(c.hs[2], c.ks[2].ty, "i32").n)), {})

doTypetest(c, t) == answered(c, isSexp(c, 1) /\ c.hs[1].s.t = t)

lowerDim(c) ==
    IF maybeObj(c.ks[1].ty) THEN NotDone
    ELSE setVal(c, sexp(IF isSexp(c, 1) THEN R_dim(c.hs[1].s).res ELSE R_NilValue))

(* Of a vector of more than INT_MAX elements the length is real. *)
lowerLength(c) ==
    LET n == Len(c.hs[1].s.v)
    IN IF ~isSexp(c, 1) \/ isA(c.ks[1].ty, anySimpleScalar) THEN setVal(c, sexp(int(1)))
       ELSE setVal(c, sexp(IF n > INT_MAX THEN real(dbl(n)) ELSE int(n)))

lowerNames(c) ==
    LET t == c.ks[1].ty
    IN IF ~isSexp(c, 1) THEN setVal(c, sexp(R_NilValue))
       ELSE IF ~isA(t, orAttribsOrObj(vecs)) THEN NotDone
       ELSE IF \/ ~maybeNotFastVecelt(t) \/ ~maybeHasAttrs(t)
               \/ ~hasAttrib(c.hs[1].s) /\ ~(maybeObj(t) /\ isObject(c.hs[1].s))
         THEN setVal(c, sexp(R_NilValue))
       ELSE callRBuiltin(c)

lowerAbs(c) ==
    LET a == c.hs[1]
    IN IF Rep(c.t) # a.rep \/ a.rep = "SEXP" THEN NotDone
       ELSE IF a.rep = "i32" THEN done(i32(IF a.n >= 0 THEN a.n ELSE wrap(-a.n)), {})
       ELSE done(f64(IF isnan(a.n) \/ a.n >= 0 THEN a.n ELSE fneg(a.n)), {})

(* A loop over a vector of reals. *)
sqrtVector(x) == plain("REALSXP", [i \in DOMAIN x.v |-> fsqrt(x.v[i])])
lowerSqrt(c) ==
    LET a == c.hs[1]
    IN IF Rep(c.t) = "f64" /\ a.rep # "SEXP" THEN done(f64(fsqrt(convert(a, c.t).n)), {})
       ELSE IF a.rep = "SEXP" /\ isA(c.ks[1].ty, of("real")) THEN setVal(c, sexp(sqrtVector(a.s)))
       ELSE NotDone

(* sumrImpl and prodrImpl add and multiply as doubles, NA being INT_MIN. *)
asDoubles(x) == [i \in DOMAIN x.v |-> IF x.t = "REALSXP" THEN x.v[i] ELSE sitofp(x.v[i])]
sumrImpl(x) == total(asDoubles(x), 0, fadd)
prodrImpl(x) == total(asDoubles(x), One, fmul)
lowerSummary(c) ==
    LET a == c.hs[1]
    IN IF a.rep # "SEXP" THEN setVal(c, box(a, c.ks[1].ty))
       ELSE IF Rep(c.t) = "SEXP" \/ ~isA(c.ks[1].ty, anyOf({"integer", "real"})) THEN NotDone
       ELSE setVal(c, f64(IF c.f = "sum" THEN sumrImpl(a.s) ELSE prodrImpl(a.s)))

lowerAsLogical(c) ==
    LET a == c.hs[1]
    IN IF a.rep = "SEXP" \/ Rep(c.t) = "SEXP" \/ (a.rep = "i32" /\ Rep(c.t) = "f64") THEN NotDone
       ELSE done(constant(IF (IF a.rep = "i32" THEN a.n = NA_INTEGER ELSE isnan(a.n))
                          THEN R_LogicalNAValue ELSE bool(a.n # 0), Rep(c.t)), {})

lowerAsInteger(c) ==
    LET a == c.hs[1]
    IN IF a.rep = "SEXP"
         THEN IF a.s.t = "INTSXP" /\ ~hasAttrib(a.s) THEN setVal(c, a) ELSE callRBuiltin(c)
       ELSE IF Rep(c.t) = "SEXP" THEN NotDone
       ELSE IF a.rep = "i32" THEN done(a, {})
       ELSE IF Rep(c.t) = "i32" THEN done(i32(IF isnan(a.n) THEN NA_INTEGER ELSE fptosi(a.n)), {})
       ELSE done(f64(floor(a.n)), {})

lowerAsCharacter(c) ==
    IF ~isSexp(c, 1) THEN NotDone
    ELSE IF c.hs[1].s.t = "STRSXP" /\ ~hasAttrib(c.hs[1].s) THEN setVal(c, c.hs[1])
    ELSE callRBuiltin(c)

(* Logicals held as integers are told by their type. *)
lowerIsLogical(c) ==
    IF isA(c.ks[1].ty, of("logical")) THEN answered(c, TRUE) ELSE doTypetest(c, "LGLSXP")
lowerTypetest(c) ==
    doTypetest(c, CASE c.f = "is.complex" -> "CPLXSXP"
                    [] c.f = "is.character" -> "STRSXP"
                    [] c.f = "is.symbol" -> "SYMSXP"
                    [] c.f = "is.expression" -> "EXPRSXP"
                    [] c.f = "is.call" -> "LANGSXP")
lowerIsFunction(c) == answered(c, isSexp(c, 1) /\ isFunction(c.hs[1].s))
lowerIsNa(c) ==
    LET a == c.hs[1]
    IN IF a.rep = "SEXP" THEN NotDone
       ELSE answered(c, IF a.rep = "i32" THEN a.n = NA_INTEGER ELSE isnan(a.n))
lowerIsObject(c) == answered(c, isSexp(c, 1) /\ isObject(c.hs[1].s))
lowerIsArray(c) == answered(c, isSexp(c, 1) /\ isVector(c.hs[1].s) /\ isMatrix(c.hs[1].s))
lowerIsAtomic(c) == answered(c, isSexp(c, 1) => isAtomic(c.hs[1].s))

(* An unboxed length is taken as unsigned. *)
makeVectorImpl(t, n) == zeroed(t, n)
unsignedSize(c, i) ==
    LET t == c.ks[i].ty
        size == IF Rep(t) = "f64" THEN c.hs[i].n ELSE load(c.hs[i], t, "i32").n
    IN IF Rep(t) # "f64" THEN size % (2 ^ Width)
       ELSE IF ~R_FINITE(size) \/ size < 0 THEN -1 ELSE trunc(size)
makeVector(c, t, n) ==
    IF n < 0 THEN raised ELSE setVal(c, sexp(makeVectorImpl(t, n)))
lowerVector(c) ==
    LET m == c.ks[1]
        t == str2type(m.c.v[1])
    IN IF \/ ~isA(c.ks[2].ty, anySimpleScalar) \/ ~m.const
          \/ m.c.t # "STRSXP" \/ Len(m.c.v) # 1 \/ t \notin vectorTypes
         THEN NotDone
       ELSE makeVector(c, t, unsignedSize(c, 2))

(* The comparison of doubles is unordered: true of a NaN. *)
lowerMinMax(c) ==
    LET a == c.hs[1]
        b == c.hs[2]
        isMin == c.f = "min"
        ugt(p, q) == isnan(p) \/ isnan(q) \/ p > q
    IN IF a.rep = "i32" /\ b.rep = "i32" /\ Rep(c.t) # "f64"
         THEN LET r == i32(IF (IF isMin THEN b.n < a.n ELSE a.n < b.n) THEN b.n ELSE a.n)
              IN done(IF Rep(c.t) = "i32" THEN r ELSE boxInt(r), {})
       ELSE IF a.rep = "f64" /\ b.rep = "f64" /\ Rep(c.t) # "i32"
         THEN LET r == f64(IF (IF isMin THEN ugt(b.n, a.n) ELSE ugt(a.n, b.n)) THEN a.n ELSE b.n)
              IN done(IF Rep(c.t) = "f64" THEN r ELSE boxReal(r), {})
       ELSE NotDone

(* Attributes other than names make no vector. *)
lowerIsVector(c) ==
    LET m == c.ks[2]
        x == c.hs[1].s
    IN IF ~m.const \/ m.c.t # "STRSXP" \/ Len(m.c.v) # 1 \/ m.c.v[1] # mode.any THEN NotDone
       ELSE IF ~isSexp(c, 1) THEN answered(c, TRUE)
       ELSE answered(c, /\ isVector(x)
                        /\ ~maybeHasAttrs(c.ks[1].ty) \/ ~hasAttrib(x) \/ x.attr = "names")

(* c of scalars makes a vector of the type of the result. *)
cVectorType(t) == CASE isA(t, of("real")) -> "REALSXP"
                    [] isA(t, of("integer")) -> "INTSXP"
                    [] isA(t, of("logical")) -> "LGLSXP"
                    [] OTHER -> "none"
lowerC(c) ==
    LET typ == cVectorType(c.t)
        e(i) == convert(c.hs[i], scalar(c.t))
    IN IF \/ maybeNotFastVecelt(c.t) /\ maybeHasAttrs(c.t)
          \/ typ = "none"
          \/ \E i \in DOMAIN c.ks : ~isA(c.ks[i].ty, anySimpleScalar)
         THEN NotDone
       ELSE setVal(c, sexp(plain(typ, [i \in DOMAIN c.hs |-> e(i).n])))
lowerList(c) == setVal(c, sexp(plain("VECSXP", [i \in DOMAIN c.hs |-> elt(sexpOf(c, i))])))

inlined(c) ==
    CASE c.f \in Bitwise_ -> lowerBitwise(c)
      [] c.f = "dim" -> lowerDim(c)
      [] c.f = "length" -> lowerLength(c)
      [] c.f = "names" -> lowerNames(c)
      [] c.f = "abs" -> lowerAbs(c)
      [] c.f = "sqrt" -> lowerSqrt(c)
      [] c.f \in {"sum", "prod"} /\ Len(c.hs) = 1 -> lowerSummary(c)
      [] c.f = "as.logical" -> lowerAsLogical(c)
      [] c.f = "as.integer" -> lowerAsInteger(c)
      [] c.f = "as.character" -> lowerAsCharacter(c)
      [] c.f = "is.logical" -> lowerIsLogical(c)
      [] c.f \in {"is.complex", "is.character", "is.symbol", "is.expression", "is.call"} ->
           lowerTypetest(c)
      [] c.f = "is.function" -> lowerIsFunction(c)
      [] c.f \in {"anyNA", "is.na"} -> lowerIsNa(c)
      [] c.f = "is.object" -> lowerIsObject(c)
      [] c.f = "is.array" -> lowerIsArray(c)
      [] c.f = "is.atomic" -> lowerIsAtomic(c)
      [] c.f = "vector" -> lowerVector(c)
      [] c.f \in {"min", "max"} /\ Len(c.hs) = 2 -> lowerMinMax(c)
      [] c.f = "is.vector" -> lowerIsVector(c)
      [] c.f = "c" -> lowerC(c)
      [] c.f = "list" -> lowerList(c)
      [] OTHER -> NotDone
orCalled(r, c) == IF r = NotDone THEN callRBuiltin(c) ELSE r
lowerCall(c) == orCalled(IF isSafe(c.f, c.ks) THEN inlined(c) ELSE NotDone, c)
=============================================================================
