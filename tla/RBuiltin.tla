------------------------------- MODULE RBuiltin -------------------------------
(***************************************************************************)
(* The builtins of GNU R that the tiers of the VM have code of their own   *)
(* for.  External to this repository: they are the reference.  A string is *)
(* its code; the names of modes and types have the codes of mode.          *)
(***************************************************************************)
EXTENDS GnuR

mode == [any |-> 1, numeric |-> 2, integer |-> 3, logical |-> 4, double |-> 5,
         character |-> 6, list |-> 7, name |-> 8]
str(m) == scalarOf("STRSXP", mode[m])
NA_STRING == 0
strOfInt(i) == IF i = NA_INTEGER THEN NA_STRING ELSE 100 + i

isVector(x) == x.t \in {"LGLSXP", "INTSXP", "REALSXP", "STRSXP", "VECSXP", "EXPRSXP"}
isAtomic(x) == x.t \in {"NILSXP", "LGLSXP", "INTSXP", "REALSXP", "STRSXP"}
isFunction(x) == x.t \in {"CLOSXP", "BUILTINSXP", "SPECIALSXP"}
isNumeric(x) == x.t \in {"INTSXP", "REALSXP"}
plain(t, v) == Sexp(t, v, "none")
kept(x) == IF x.attr = "names" THEN "names" ELSE "none"

isNAElt(e) == e \in {elt(int(NA_INTEGER)), elt(real(NaN)), elt(lgl(NA_INTEGER))}
isNAAt(x, i) == IF x.t = "STRSXP" THEN x.v[i] = NA_STRING
                ELSE IF x.t = "VECSXP" THEN isNAElt(x.v[i])
                ELSE numeric(x) /\ x.v[i] = naOf(x.t)

(* The arguments one after the other, in a type that holds them all. *)
concat(xs, t) ==
    LET c[i \in 0 .. Len(xs)] == IF i = 0 THEN <<>> ELSE c[i - 1] \o coerced(xs[i], t).v
    IN c[Len(xs)]
widest(xs) == LET c[i \in 0 .. Len(xs)] == IF i = 0 THEN "NILSXP" ELSE wider(c[i - 1], xs[i].t)
              IN c[Len(xs)]

R_length(x) == Result(IF Len(x.v) > INT_MAX THEN real(dbl(Len(x.v))) ELSE int(Len(x.v)))
R_dim(x) == Result(IF isMatrix(x) THEN plain("INTSXP", <<nrows(x), ncols(x)>>)
                   ELSE R_NilValue)
R_names(x) == Result(IF x.attr = "names" THEN plain("STRSXP", x.v) ELSE R_NilValue)

fabs(d) == IF isnan(d) THEN NaN ELSE abs(d)
iabs(i) == IF i = NA_INTEGER THEN i ELSE abs(i)
R_abs(x) ==
    IF ~numeric(x) THEN Failed
    ELSE Result(Sexp(IF x.t = "REALSXP" THEN x.t ELSE "INTSXP",
                     [i \in DOMAIN x.v |-> IF x.t = "REALSXP" THEN fabs(x.v[i])
                                           ELSE iabs(x.v[i])], x.attr))

(* The square root, rounded down to the unit of the doubles. *)
fsqrt(d) == IF isnan(d) \/ d < 0 THEN NaN ELSE IF d = Inf THEN Inf
            ELSE CHOOSE s \in 0 .. 350 : s * s <= d * One /\ (s + 1) * (s + 1) > d * One
R_sqrt(x) ==
    IF ~numeric(x) THEN Failed
    ELSE LET d(i) == asDouble(x.t, x.v[i])
         IN [res |-> Sexp("REALSXP", [i \in DOMAIN x.v |-> fsqrt(d(i))], x.attr),
             eff |-> IF \E i \in DOMAIN x.v : d(i) < 0 THEN {"Warn"} ELSE {}]

(* sum, prod, min and max of all elements of all arguments. *)
summable(xs) == \A i \in DOMAIN xs : numeric(xs[i]) \/ xs[i].t = "NILSXP"
total(v, zero, Op(_, _)) ==
    LET s[i \in 0 .. Len(v)] == IF i = 0 THEN zero ELSE Op(s[i - 1], v[i]) IN s[Len(v)]
R_sum(xs) ==
    LET isReal == widest(xs) = "REALSXP"
        v == concat(xs, IF isReal THEN "REALSXP" ELSE "INTSXP")
        exact == total(v, 0, LAMBDA p, q : p + q)
    IN IF ~summable(xs) THEN Failed
       ELSE IF isReal THEN Result(real(total(v, 0, fadd)))
       ELSE IF \E i \in DOMAIN v : v[i] = NA_INTEGER THEN Result(int(NA_INTEGER))
       ELSE IF exact \notin (INT_MIN + 1) .. INT_MAX THEN Warned(int(NA_INTEGER))
       ELSE Result(int(exact))
R_prod(xs) == IF ~summable(xs) THEN Failed
              ELSE Result(real(total(concat(xs, "REALSXP"), One, fmul)))
R_minmax(xs, min) ==
    LET less(p, q) == IF min THEN p < q ELSE q < p
        isReal == widest(xs) = "REALSXP"
        t == IF isReal THEN "REALSXP" ELSE "INTSXP"
        v == concat(xs, t)
        best(p, q) == IF naOf(t) \in {p, q} THEN naOf(t) ELSE IF less(q, p) THEN q ELSE p
    IN IF ~summable(xs) THEN Failed
       ELSE IF v = <<>> THEN Warned(real(IF min THEN Inf ELSE NegInf))
       ELSE Result(scalarOf(t, total(v, v[1], best)))

(* any and all of logical and integer arguments. *)
R_quantified(xs, conclusive) ==
    LET v == concat(xs, "INTSXP")
        is(i) == v[i] # NA_INTEGER /\ (v[i] # 0) = (conclusive = 1)
    IN IF \E i \in DOMAIN v : is(i) THEN Result(lgl(conclusive))
       ELSE IF \E i \in DOMAIN v : v[i] = NA_INTEGER THEN Result(lgl(NA_INTEGER))
       ELSE Result(lgl(1 - conclusive))

(* Conversions; the elements of a list are converted one by one. *)
elements(x) == [i \in DOMAIN x.v |-> IF x.t = "VECSXP" THEN eltValue(x.v[i])
                                     ELSE scalarOf(x.t, x.v[i])]
convertible(x) == isVector(x) /\ (x.t = "VECSXP" => OtherElt \notin {x.v[i] : i \in DOMAIN x.v}
                                                  /\ NilElt \notin {x.v[i] : i \in DOMAIN x.v})
R_asLogical(x) ==
    IF x.t = "NILSXP" THEN Result(plain("LGLSXP", <<>>))
    ELSE IF ~convertible(x) THEN Failed
    ELSE Result(plain("LGLSXP", [i \in DOMAIN x.v |-> Rf_asLogical(elements(x)[i])]))
R_asInteger(x) ==
    LET lost(e) == \/ e.t = "REALSXP" /\ ~isnan(e.v[1]) /\ toInt(e.v[1]) = NA_INTEGER
                   \/ e.t = "STRSXP" /\ e.v[1] # NA_STRING
    IN IF x.t = "NILSXP" THEN Result(plain("INTSXP", <<>>))
       ELSE IF ~convertible(x) THEN Failed
       ELSE [res |-> plain("INTSXP", [i \in DOMAIN x.v |-> Rf_asInteger(elements(x)[i])]),
             eff |-> IF \E i \in DOMAIN x.v : lost(elements(x)[i]) THEN {"Warn"} ELSE {}]
R_asCharacter(x) ==
    Result(plain("STRSXP", IF x.t = "INTSXP" THEN [i \in DOMAIN x.v |-> strOfInt(x.v[i])]
                           ELSE x.v))

(* Tests. *)
R_isNa(x) ==
    IF x.t \in {"CLOSXP", "SYMSXP"} THEN Warned(lgl(0))
    ELSE Result(Sexp("LGLSXP", [i \in DOMAIN x.v |-> truth(isNAAt(x, i))],
                     IF x.attr = "class" THEN "none" ELSE x.attr))
R_anyNA(x) ==
    IF ~isVector(x) /\ x.t # "NILSXP" THEN Failed
    ELSE Result(bool(\E i \in DOMAIN x.v : isNAAt(x, i)))
hasMode(x, m) ==
    CASE m = mode.any -> isVector(x)
      [] m = mode.numeric -> isNumeric(x) /\ ~isObject(x)
      [] m = mode.integer -> x.t = "INTSXP"
      [] m = mode.logical -> x.t = "LGLSXP"
      [] m = mode.double -> x.t = "REALSXP"
      [] m = mode.character -> x.t = "STRSXP"
      [] m = mode.list -> x.t = "VECSXP"
      [] m = mode.name -> x.t = "SYMSXP"
      [] OTHER -> FALSE
R_isVector(x, m) == Result(bool(hasMode(x, m.v[1]) /\ x.attr \in {"none", "names"}))

is(f, x) ==
    CASE f = "is.logical" -> x.t = "LGLSXP"
      [] f = "is.integer" -> x.t = "INTSXP" /\ ~isObject(x)
      [] f = "is.double" -> x.t = "REALSXP"
      [] f = "is.complex" -> FALSE
      [] f = "is.character" -> x.t = "STRSXP"
      [] f = "is.symbol" -> x.t = "SYMSXP"
      [] f = "is.expression" -> x.t = "EXPRSXP"
      [] f = "is.call" -> x.t = "LANGSXP"
      [] f = "is.function" -> isFunction(x)
      [] f = "is.object" -> isObject(x)
      [] f = "is.numeric" -> isNumeric(x)
      [] f \in {"is.matrix", "is.array"} -> isMatrix(x)
      [] f = "is.atomic" -> isAtomic(x)
Tests == {"is.logical", "is.integer", "is.double", "is.complex", "is.character",
          "is.symbol", "is.expression", "is.call", "is.function", "is.object",
          "is.numeric", "is.matrix", "is.array", "is.atomic"}

(* Constructors. *)
str2type(m) == CASE m = mode.logical -> "LGLSXP"
                 [] m = mode.integer -> "INTSXP"
                 [] m \in {mode.numeric, mode.double} -> "REALSXP"
                 [] m = mode.character -> "STRSXP"
                 [] m = mode.list -> "VECSXP"
                 [] m = mode.name -> "SYMSXP"
                 [] OTHER -> "other"
vectorTypes == {"LGLSXP", "INTSXP", "REALSXP", "STRSXP", "VECSXP"}
zeroed(t, n) == plain(t, [i \in 1 .. n |-> IF t = "VECSXP" THEN NilElt
                                           ELSE IF t = "STRSXP" THEN 1000 ELSE 0])
R_vector(m, n) ==
    LET d == IF n.t \in {"INTSXP", "REALSXP"} /\ Len(n.v) = 1 THEN Rf_asReal(n) ELSE NaN
    IN IF ~R_FINITE(d) \/ d <= -One \/ str2type(m.v[1]) \notin vectorTypes THEN Failed
       ELSE Result(zeroed(str2type(m.v[1]), trunc(d)))
R_which(x) ==
    IF x.t # "LGLSXP" THEN Failed
    ELSE Result(Sexp("INTSXP", SelectSeq([i \in DOMAIN x.v |-> i], LAMBDA i : x.v[i] = 1),
                     kept(x)))
R_c(xs) ==
    LET t == widest(xs)
    IN Result(Sexp(t, concat(xs, t),
                   IF \E i \in DOMAIN xs : xs[i].attr = "names" /\ xs[i].v # <<>>
                   THEN "names" ELSE "none"))
R_list(xs) == Result(plain("VECSXP", [i \in DOMAIN xs |-> elt(xs[i])]))

repeated(x, n) == [i \in 1 .. n * Len(x.v) |-> at(x, i)]
R_repInt(x, times) ==
    LET n(i) == Rf_asInteger(scalarOf(times.t, times.v[i]))
        each[i \in 0 .. Len(times.v)] ==
            IF i = 0 THEN <<>> ELSE each[i - 1] \o [k \in 1 .. n(i) |-> x.v[i]]
    IN IF \/ ~(isVector(x) \/ x.t = "NILSXP") \/ ~numeric(times)
          \/ Len(times.v) \notin {1, Len(x.v)}
          \/ \E i \in DOMAIN times.v : n(i) < 0
         THEN Failed
       ELSE IF x.t = "NILSXP" THEN Result(R_NilValue)
       ELSE Result(plain(x.t, IF Len(times.v) = 1 THEN repeated(x, n(1)) ELSE each[Len(x.v)]))

(* Bits of integers in two's complement; a shift by less than zero or by *)
(* the width or more is NA.                                              *)
bit(n, k) == ((n % (2 ^ Width)) \div (2 ^ k)) % 2
byBits(x, y, Op(_, _)) ==
    LET s[k \in 0 .. Width] ==
            IF k = 0 THEN 0 ELSE s[k - 1] + Op(bit(x, k - 1), bit(y, k - 1)) * 2 ^ (k - 1)
    IN wrap(s[Width])
bitAnd(x, y) == byBits(x, y, LAMBDA p, q : p * q)
bitOr(x, y) == byBits(x, y, LAMBDA p, q : p + q - p * q)
bitXor(x, y) == byBits(x, y, LAMBDA p, q : (p + q) % 2)
shl(x, n) == wrap(x * 2 ^ n)
lshr(x, n) == wrap((x % (2 ^ Width)) \div (2 ^ n))
Bitwise_ == {"bitwiseAnd", "bitwiseOr", "bitwiseXor", "bitwiseShiftL", "bitwiseShiftR"}
bitwise(f, x, y) ==
    CASE f = "bitwiseAnd" -> bitAnd(x, y)
      [] f = "bitwiseOr" -> bitOr(x, y)
      [] f = "bitwiseXor" -> bitXor(x, y)
      [] f = "bitwiseShiftL" -> IF y \notin 0 .. Width - 1 THEN NA_INTEGER ELSE shl(x, y)
      [] f = "bitwiseShiftR" -> IF y \notin 0 .. Width - 1 THEN NA_INTEGER ELSE lshr(x, y)
R_bitwise(f, a, b) ==
    LET i(x) == R_asInteger(x).res
    IN IF ~isNumeric(a) \/ ~isNumeric(b) THEN Failed
       ELSE [res |-> plain("INTSXP",
                [k \in 1 .. common(a, b) |->
                   IF NA_INTEGER \in {at(i(a), k), at(i(b), k)} THEN NA_INTEGER
                   ELSE bitwise(f, at(i(a), k), at(i(b), k))]),
             eff |-> R_asInteger(a).eff \union R_asInteger(b).eff]

(* row and col of a matrix with the dimensions d. *)
R_rowcol(d, isRow) ==
    IF d.t # "INTSXP" \/ Len(d.v) # 2 \/ \E i \in DOMAIN d.v : d.v[i] < 0 THEN Failed
    ELSE Result(Sexp("INTSXP", [k \in 1 .. d.v[1] * d.v[2] |->
                                  IF isRow THEN ((k - 1) % d.v[1]) + 1
                                  ELSE ((k - 1) \div d.v[1]) + 1], "dim"))

(* Those that call a method if the first argument is an object. *)
dispatching == {"length", "dim", "names", "abs", "sqrt", "sum", "prod", "min", "max", "any",
                "all", "c", "as.logical", "as.integer", "as.character", "is.numeric",
                "is.matrix", "is.array", "is.na", "anyNA", "rep.int"}
R_default(f, xs) ==
    CASE f = "length" -> R_length(xs[1])
      [] f = "dim" -> R_dim(xs[1])
      [] f = "names" -> R_names(xs[1])
      [] f = "abs" -> R_abs(xs[1])
      [] f = "sqrt" -> R_sqrt(xs[1])
      [] f = "sum" -> R_sum(xs)
      [] f = "prod" -> R_prod(xs)
      [] f = "min" -> R_minmax(xs, TRUE)
      [] f = "max" -> R_minmax(xs, FALSE)
      [] f = "any" -> R_quantified(xs, 1)
      [] f = "all" -> R_quantified(xs, 0)
      [] f = "as.logical" -> R_asLogical(xs[1])
      [] f = "as.integer" -> R_asInteger(xs[1])
      [] f = "as.character" -> R_asCharacter(xs[1])
      [] f = "is.na" -> R_isNa(xs[1])
      [] f = "anyNA" -> R_anyNA(xs[1])
      [] f = "is.vector" -> R_isVector(xs[1], xs[2])
      [] f = "vector" -> R_vector(xs[1], xs[2])
      [] f = "which" -> R_which(xs[1])
      [] f = "c" -> R_c(xs)
      [] f = "list" -> R_list(xs)
      [] f = "rep.int" -> R_repInt(xs[1], xs[2])
      [] f = "(" -> Result(xs[1])
      [] f = "row" -> R_rowcol(xs[1], TRUE)
      [] f = "col" -> R_rowcol(xs[1], FALSE)
      [] f \in Bitwise_ -> R_bitwise(f, xs[1], xs[2])
      [] f \in Tests -> Result(bool(is(f, xs[1])))
R_builtin(f, xs) ==
    IF f \in dispatching /\ xs # <<>> /\ isObject(xs[1]) THEN Method ELSE R_default(f, xs)
=============================================================================
