----------------------------- MODULE FastBuiltin -----------------------------
(***************************************************************************)
(* The interpreter's calls of builtins: fast paths for the frequent ones   *)
(* and, where none applies, the builtin of GNU R, called directly if it    *)
(* leaves its argument list alone.  A fast path that returns nullptr gives *)
(* up.  The arguments are evaluated and have no names.                     *)
(***************************************************************************)
EXTENDS RBuiltin

(* What the optimizing compiler takes for granted of the builtins of GNU   *)
(* R: which never run R code, which run none on arguments that are no      *)
(* objects, and which may return an object.                                *)
randomN ==
    {"rchisq", "rexp", "rgeom", "rpois", "rt", "rsignrank", "rbeta", "rbinom",
     "rcauchy", "rf", "rgamma", "rlnorm", "rlogis", "rnbinom", "rnbinom_mu",
     "rnchisq", "rnorm", "runif", "rweibull", "rwilcox", "rhyper"}

always ==
    randomN \union
    {"diag", "backsolve", "max.col", "row", "col", "all.names", "list",
     "formals", "body", "bodyCode", "matrix", "bitwiseAnd", "bitwiseNot",
     "bitwiseOr", "bitwiseXor", "bitwiseShiftL", "bitwiseShiftR",
     "as.function.default", "typeof", "is.vector", "is.null", "is.logical",
     "is.integer", "is.double", "is.complex", "is.character", "is.symbol",
     "is.name", "is.environment", "is.list", "is.pairlist", "is.expression",
     "is.raw", "is.object", "isS4", "which", "cat", "stdout", "stderr", "(",
     "Sys.time", "strsplit", "seq_len"}

returnsObj == {"stdout", "stderr", "as.vector"}

(* Safe on arguments that are no objects: data structures and operators, *)
(* functions of mathematics and statistics, and the rest.                *)
nonObjectOperators ==
    {"is.atomic", "vector", "complex", "array", "new.env", "match", "dim",
     "names", "$", "c", "[", "[[", "+", "-", "*", "/", "^", "%%", "%/%", "%*%",
     "==", "!=", "<", "<=", ">=", ">", "&", "|", "!", "&&", "||", ":", "~",
     "crossprod", "tcrossprod"}
nonObjectMath ==
    {"length", "round", "signif", "log", "log10", "log2", "abs", "floor",
     "ceiling", "sqrt", "sign", "trunc", "exp", "expm1", "log1p", "cos", "sin",
     "tan", "acos", "asin", "atan", "cosh", "sinh", "tanh", "acosh", "asinh",
     "atanh", "lgamma", "gamma", "digamma", "trigamma", "cospi", "sinpi",
     "tanpi", "atan2", "lbeta", "beta", "lchoose", "choose", "dchisq", "pchisq",
     "qchisq", "dexp", "pexp", "qexp", "dgeom", "pgeom", "qgeom", "dpois",
     "ppois", "qpois", "dt", "pt", "qt", "dsignrank", "psignrank", "qsignrank",
     "besselJ", "besselY", "psigamma", "Re", "Im", "Mod", "Arg", "Conj",
     "dbeta", "pbeta", "qbeta", "dbinom", "pbinom", "qbinom", "dcauchy",
     "pcauchy", "qcauchy", "df", "pf", "qf", "dgamma", "pgamma", "qgamma",
     "dlnorm", "plnorm", "qlnorm", "dlogis", "plogis", "qlogis", "dnbinom",
     "pnbinom", "qnbinom", "dnorm", "pnorm", "qnorm", "dunif", "punif", "qunif",
     "dweibull", "pweibull", "qweibull", "dnchisq", "pnchisq", "qnchisq", "dnt",
     "pnt", "qnt", "dwilcox", "pwilcox", "qwilcox", "besselI", "besselK",
     "dnbinom_mu", "pnbinom_mu", "qnbinom_mu", "dhyper", "phyper", "qhyper",
     "dnbeta", "pnbeta", "qnbeta", "dnf", "pnf", "qnf", "dtukey", "ptukey",
     "qtukey"}
nonObjectSummaries ==
    {"sum", "min", "max", "prod", "mean", "range", "as.character", "as.integer",
     "as.double", "as.numeric", "as.complex", "as.logical", "as.raw",
     "as.vector", "is.numeric", "is.matrix", "is.array", "is.recursive",
     "is.call", "is.language", "is.function", "is.na", "is.nan", "is.finite",
     "is.infinite", "cumsum", "colSums", "paste", "nchar", "pmatch", "seq.int",
     "rep.int", "rep_len", "inherits", "anyNA"}
nonObject == always \union nonObjectOperators \union nonObjectMath
                    \union nonObjectSummaries
-----------------------------------------------------------------------------

nullptr == R_UnboundValue
MAXARGS == 8

(* An out of range shift count wraps around, as the hardware has it. *)
bitShiftL(lhs, rhs) == shl(lhs, rhs % Width)
bitShiftR(lhs, rhs) == lhs \div (2 ^ (rhs % Width))
element(x, i) == IF x.t = "INTSXP" THEN at(x, i) ELSE toInt(at(x, i))
operation(f, lhs, rhs) ==
    CASE f = "bitwiseAnd" -> bitAnd(lhs, rhs)
      [] f = "bitwiseOr" -> bitOr(lhs, rhs)
      [] f = "bitwiseXor" -> bitXor(lhs, rhs)
      [] f = "bitwiseShiftL" -> bitShiftL(lhs, rhs)
      [] f = "bitwiseShiftR" -> bitShiftR(lhs, rhs)
bitwiseOp(f, lhs, rhs, testLimits) ==
    LET r(l, n) == IF \/ NA_INTEGER \in {l, n}
                      \/ testLimits /\ (l < 0 \/ n > Width - 1)
                   THEN NA_INTEGER ELSE operation(f, l, n)
    IN IF ~isNumeric(lhs) \/ ~isNumeric(rhs) THEN nullptr
       ELSE plain("INTSXP", [i \in 1 .. common(lhs, rhs) |-> r(element(lhs, i), element(rhs, i))])

asVecSize(x) ==
    IF ~isAtomic(x) \/ x.v = <<>> THEN -999
    ELSE IF x.t = "INTSXP" /\ x.v[1] # NA_INTEGER THEN x.v[1]
    ELSE IF x.t = "REALSXP" /\ R_FINITE(x.v[1]) THEN trunc(x.v[1])
    ELSE -999

whichIsVectorCheck(s) ==
    IF s.t # "STRSXP" \/ Len(s.v) # 1 THEN "unsupported"
    ELSE CASE s.v[1] = mode.any -> "any"
           [] s.v[1] \in {mode.numeric, mode.double} -> "numeric"
           [] s.v[1] = mode.integer -> "integer"
           [] s.v[1] = mode.logical -> "logical"
           [] s.v[1] = mode.character -> "character"
           [] OTHER -> "unsupported"

fastLength(x) == IF Len(x.v) >= INT_MAX THEN real(dbl(Len(x.v))) ELSE int(Len(x.v))

fastC(xs) ==
    LET t == widest(xs)
    IN IF xs = <<>> THEN R_NilValue
       ELSE IF \/ \E i \in DOMAIN xs : ~numeric(xs[i])
               \/ \A i \in DOMAIN xs : xs[i].v = <<>>
         THEN nullptr
       ELSE plain(t, concat(xs, t))

fastVector(m, n) ==
    LET t == str2type(m.v[1])
    IN IF \/ m.t # "STRSXP" \/ Len(m.v) # 1 \/ Len(n.v) # 1
          \/ asVecSize(n) < 0 \/ t \notin vectorTypes
       THEN nullptr ELSE zeroed(t, asVecSize(n))

fastWhich(x) ==
    IF x.t # "LGLSXP" THEN nullptr
    ELSE plain("INTSXP", SelectSeq([i \in DOMAIN x.v |-> i], LAMBDA i : x.v[i] = 1))

fastAbs(x) ==
    IF x.t \in {"INTSXP", "LGLSXP"} THEN plain("INTSXP", [i \in DOMAIN x.v |-> iabs(x.v[i])])
    ELSE IF x.t = "REALSXP" THEN plain("REALSXP", [i \in DOMAIN x.v |-> fabs(x.v[i])])
    ELSE nullptr

(* The smaller or larger of two numbers; of two reals the first, if either *)
(* is no number.                                                           *)
fastMinMax(a, b, isMin) ==
    LET CMP(p, q) == IF isMin THEN p < q ELSE q < p
    IN IF Len(a.v) # 1 \/ Len(b.v) # 1 \/ ~isNumeric(a) \/ ~isNumeric(b) THEN nullptr
       ELSE LET p == asDouble(a.t, a.v[1])
                q == asDouble(b.t, b.v[1])
            IN IF a.t = "INTSXP" /\ b.t = "INTSXP"
                 THEN IF isnan(p) \/ isnan(q) THEN nullptr ELSE IF CMP(p, q) THEN a ELSE b
               ELSE IF isnan(p) \/ isnan(q)
                 THEN IF a.t = b.t THEN a ELSE real(NaN)
               ELSE real(IF CMP(p, q) THEN p ELSE q)

(* all and any look at the first argument each time around. *)
fastAll(xs) ==
    IF xs = <<>> THEN R_TrueValue
    ELSE IF ~IS_SIMPLE_SCALAR(xs[1], "LGLSXP") \/ xs[1].v[1] = NA_INTEGER THEN nullptr
    ELSE bool(xs[1].v[1] = 1)
fastAny(xs) ==
    IF xs = <<>> THEN R_FalseValue
    ELSE IF ~IS_SIMPLE_SCALAR(xs[1], "LGLSXP") \/ xs[1].v[1] = NA_INTEGER THEN nullptr
    ELSE bool(xs[1].v[1] = 1)

(* Strings of small numbers are made, and kept, here. *)
smallNumbers == (INT_MIN \div 2) .. INT_MAX
fastAsCharacter(x) ==
    IF x.t \in {"STRSXP", "SYMSXP"} THEN plain("STRSXP", x.v)
    ELSE IF IS_SIMPLE_SCALAR(x, "INTSXP") /\ x.v[1] \in smallNumbers
      THEN plain("STRSXP", <<strOfInt(x.v[1])>>)
    ELSE nullptr
fastAsInteger(x) == IF x.t = "INTSXP" THEN x ELSE nullptr
fastAsLogical(x) == IF x.t = "LGLSXP" THEN plain("LGLSXP", x.v) ELSE nullptr

fastIsNumeric(x) == bool(isNumeric(x))
fastIsMatrix(x) == bool(isMatrix(x))
fastIsArray(x) == bool(isMatrix(x))
fastIsAtomic(x) == bool(isAtomic(x))
fastIsCall(x) == bool(x.t = "LANGSXP")
fastIsFunction(x) == bool(isFunction(x))
fastIsNa(x) == IF Len(x.v) # 1 \/ ~numeric(x) THEN nullptr
               ELSE bool(isnan(asDouble(x.t, x.v[1])))
fastIsVector(x, m) ==
    LET which == whichIsVectorCheck(m)
        res == CASE which = "any" -> isVector(x)
                 [] which = "numeric" -> isNumeric(x)
                 [] which = "integer" -> x.t = "INTSXP"
                 [] which = "logical" -> x.t = "LGLSXP"
                 [] which = "character" -> x.t = "STRSXP"
                 [] OTHER -> FALSE
    IN IF which = "unsupported" THEN nullptr ELSE bool(res /\ x.attr \in {"none", "names"})
fastList(xs) == plain("VECSXP", [i \in DOMAIN xs |-> elt(xs[i])])

(* A negative number of repetitions fails in the allocation. *)
fastRepInt(x, times) ==
    IF \/ times.t # "INTSXP" \/ Len(times.v) # 1 \/ ~isNumeric(x) THEN nullptr
    ELSE IF times.v[1] < 0 /\ x.v # <<>> THEN Error
    ELSE plain(x.t, repeated(x, IF times.v[1] < 0 THEN 0 ELSE times.v[1]))

fastBitwise(f, x, y) == bitwiseOp(f, x, y, FALSE)

(* Dimensions that are no integers are converted. *)
dimensions(x) == IF x.t = "INTSXP" THEN x ELSE plain("INTSXP", [i \in DOMAIN x.v |-> element(x, i)])
matrixOf(d, Elt(_, _)) ==
    IF Len(d.v) # 2 \/ \E i \in DOMAIN d.v : d.v[i] < 0 THEN Error
    ELSE Sexp("INTSXP", [k \in 1 .. d.v[1] * d.v[2] |->
                           Elt((k - 1) % d.v[1], (k - 1) \div d.v[1])], "dim")
fastRow(x) == matrixOf(dimensions(x), LAMBDA i, j : i + 1)
fastCol(x) == matrixOf(dimensions(x), LAMBDA i, j : j + 1)

(* The attribute asked for is dimnames, of a value without attributes. *)
fastDim(x) == R_NilValue

(* The tests that hold for values with attributes too. *)
onAnyValue(f, x) ==
    CASE f = "is.logical" -> bool(x.t = "LGLSXP")
      [] f = "is.symbol" -> bool(x.t = "SYMSXP")
      [] f = "is.expression" -> bool(x.t = "EXPRSXP")
      [] f = "is.object" -> bool(isObject(x))
      [] OTHER -> nullptr

withoutAttributes(f, xs) ==
    LET x == xs[1]
        nargs == Len(xs)
    IN CASE f = "length" /\ nargs = 1 -> fastLength(x)
         [] f = "c" -> fastC(xs)
         [] f = "vector" /\ nargs = 2 -> fastVector(x, xs[2])
         [] f = "which" /\ nargs = 1 -> fastWhich(x)
         [] f = "abs" /\ nargs = 1 -> fastAbs(x)
         [] f \in {"min", "max"} /\ nargs = 2 -> fastMinMax(x, xs[2], f = "min")
         [] f = "all" -> fastAll(xs)
         [] f = "any" -> fastAny(xs)
         [] f = "as.character" /\ nargs = 1 -> fastAsCharacter(x)
         [] f = "as.integer" /\ nargs = 1 -> fastAsInteger(x)
         [] f = "is.numeric" /\ nargs = 1 -> fastIsNumeric(x)
         [] f = "is.matrix" /\ nargs = 1 -> fastIsMatrix(x)
         [] f = "is.array" /\ nargs = 1 -> fastIsArray(x)
         [] f = "is.atomic" /\ nargs = 1 -> fastIsAtomic(x)
         [] f = "is.call" /\ nargs = 1 -> fastIsCall(x)
         [] f = "is.function" /\ nargs = 1 -> fastIsFunction(x)
         [] f = "is.na" /\ nargs = 1 -> fastIsNa(x)
         [] f = "is.vector" /\ nargs = 2 -> fastIsVector(x, xs[2])
         [] f = "as.logical" /\ nargs = 1 -> fastAsLogical(x)
         [] f = "list" -> fastList(xs)
         [] f = "rep.int" /\ nargs = 2 -> fastRepInt(x, xs[2])
         [] f \in Bitwise_ /\ nargs = 2 -> fastBitwise(f, x, xs[2])
         [] f = "row" /\ nargs = 1 -> fastRow(x)
         [] f = "col" /\ nargs = 1 -> fastCol(x)
         [] f = "dim" /\ nargs = 1 -> fastDim(x)
         [] OTHER -> nullptr

tryFastBuiltinCall1(f, xs, attribs) ==
    IF Len(xs) = 1 /\ onAnyValue(f, xs[1]) # nullptr THEN onAnyValue(f, xs[1])
    ELSE IF attribs THEN nullptr ELSE withoutAttributes(f, xs)

(* The builtins that change the list of their arguments. *)
tampering ==
    {"registerNamespace", "...length", "...elt", "strsplit", "eval", "standardGeneric",
     "range", "sum", "min", "max", "prod", "mean", "any", "all", "match.call", ".subset",
     ".subset2", "$<-", "NextMethod", "options", "&", "|", "attach", "psort", "warning",
     "stop", ".dfltStop", ".signalCondition", "%*%", "match", "crossprod", "tcrossprod",
     "comment<-", "oldClass<-", "names<-", "dimnames<-", "dim<-", "levels<-", "makeLazy",
     "args", "as.function.default", "as.call", "do.call", "call", "class<-", "debug",
     "undebug", "isdebugged", "debugonce", "dump", "browser", "unclass", "save",
     "saveToConn", "[<-", "[[<-", "cbind", "rbind", "c"}
supportsFastBuiltinCall2(f, nargs) == nargs <= 5 /\ f \notin tampering
doesNotAccessEnv(f) == f \in nonObject

(* The result, and which environment the builtin got: none if a fast path *)
(* answered, the base environment, or the caller's.                       *)
answer(r, env) == [res |-> r.res, eff |-> r.eff, env |-> env]
slowCall(f, xs) == answer(R_builtin(f, xs), "caller")
tryFastBuiltinCall2(f, xs) ==
    answer(R_builtin(f, xs), IF doesNotAccessEnv(f) THEN "base" ELSE "caller")
fastAnswer(x) == answer(IF x = Error THEN Failed ELSE Result(x), "none")
callBuiltin(f, xs) ==
    LET attribs == \E i \in DOMAIN xs : hasAttrib(xs[i])
        res == IF Len(xs) > MAXARGS THEN nullptr ELSE tryFastBuiltinCall1(f, xs, attribs)
    IN IF res # nullptr THEN fastAnswer(res)
       ELSE IF attribs \/ ~supportsFastBuiltinCall2(f, Len(xs)) THEN slowCall(f, xs)
       ELSE tryFastBuiltinCall2(f, xs)

(* The builtins with fast paths. *)
supportsFastBuiltinCall(f) ==
    f \in {"nargs", "length", "c", "vector", "which", "abs", "min", "max", "as.character",
           "as.integer", "stdin", "stdout", "stderr", "all", "any", "is.logical",
           "is.symbol", "is.expression", "is.object", "is.numeric", "is.matrix",
           "is.array", "is.atomic", "is.call", "is.function", "is.na", "is.vector",
           "as.logical", "list", "rep.int", "islistfactor", "bitwiseAnd", "bitwiseOr",
           "bitwiseXor", "bitwiseShiftL", "bitwiseShiftR", "baseenv", "col", "row",
           "dim", "$"}
=============================================================================
