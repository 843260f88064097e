-------------------------------- MODULE GnuR --------------------------------
(***************************************************************************)
(* The builtins of GNU R the VM falls back to, as far as the code relies   *)
(* on them: arithmetic, comparison, negation, the colon operator and the   *)
(* conversions.  External to this repository: they are the reference every *)
(* tier is compared with.                                                  *)
(***************************************************************************)
EXTENDS RValue

Arithmetic == {"Add", "Sub", "Mul", "Div", "IDiv", "Mod", "Pow"}
Relational == {"Eq", "Neq", "Lt", "Lte", "Gt", "Gte"}

numeric(x) == x.t \in {"LGLSXP", "INTSXP", "REALSXP"}

(* An object argument: a method of the user's may be called. *)
AnyCode == {"Warn", "Error", "ExecuteCode"}
Method == [res |-> Sexp("any", <<>>, "none"), eff |-> AnyCode]

(* The element of a value as a double, NA becoming NaN. *)
asDouble(t, x) ==
    IF t = "REALSXP" THEN x ELSE IF x = NA_INTEGER THEN NaN ELSE dbl(x)

(* The floored quotient and the modulus of doubles. *)
myfloor(x1, x2) ==
    LET q == fdiv(x1, x2)
        tmp == fsub(x1, fmul(floor(q), x2))
    IN IF x2 = 0 THEN q ELSE fadd(floor(q), floor(fdiv(tmp, x2)))

myfmod(x1, x2) ==
    LET tmp == fsub(x1, fmul(floor(fdiv(x1, x2)), x2))
    IN IF x2 = 0 THEN NaN ELSE fsub(tmp, fmul(floor(fdiv(tmp, x2)), x2))

CONSTANT LossOfAccuracy

(* A quotient so large that the modulus warns. *)
inaccurate(x1, x2) ==
    x2 # 0 /\ LET q == fdiv(x1, x2) IN R_FINITE(q) /\ abs(q) > LossOfAccuracy

R_pow(x, y) ==
    IF x = One \/ y = 0 THEN One
    ELSE IF (~R_FINITE(y) /\ ~isnan(y) /\ x < 0) THEN NaN
    ELSE IF x = NegInf /\ ~whole(y) THEN NaN
    ELSE cpow(x, y)

realOp(op, x, y) ==
    CASE op = "Add" -> fadd(x, y)
      [] op = "Sub" -> fsub(x, y)
      [] op = "Mul" -> fmul(x, y)
      [] op = "Div" -> fdiv(x, y)
      [] op = "IDiv" -> myfloor(x, y)
      [] op = "Mod" -> myfmod(x, y)
      [] op = "Pow" -> R_pow(x, y)

exactInt(op, x, y) ==
    CASE op = "Add" -> x + y
      [] op = "Sub" -> x - y
      [] op = "Mul" -> x * y
      [] op = "IDiv" -> floor(fdiv(dbl(x), dbl(y))) \div One
      [] op = "Mod" -> myfmod(dbl(x), dbl(y)) \div One

(* Integers: NA for NA, for division by zero, and on overflow. *)
overflows(op, x, y) ==
    /\ x # NA_INTEGER /\ y # NA_INTEGER
    /\ op \in {"Add", "Sub", "Mul"}
    /\ exactInt(op, x, y) \notin (INT_MIN + 1) .. INT_MAX

intOp(op, x, y) ==
    IF \/ x = NA_INTEGER \/ y = NA_INTEGER
       \/ op \in {"IDiv", "Mod"} /\ y = 0
       \/ overflows(op, x, y)
      THEN NA_INTEGER ELSE exactInt(op, x, y)

(* Elementwise application, recycling the shorter argument. *)
common(a, b) == IF a.v = <<>> \/ b.v = <<>> THEN 0
                ELSE IF Len(a.v) > Len(b.v) THEN Len(a.v) ELSE Len(b.v)
at(x, i) == x.v[((i - 1) % Len(x.v)) + 1]
attrsOf(a, b) == IF a.attr # "none" THEN a.attr ELSE b.attr

R_binary(op, a, b) ==
    IF isObject(a) \/ isObject(b) THEN Method
    ELSE IF ~numeric(a) \/ ~numeric(b) THEN Failed
    ELSE IF "REALSXP" \in {a.t, b.t} \/ op \in {"Div", "Pow"}
      THEN LET x(i) == asDouble(a.t, at(a, i))
               y(i) == asDouble(b.t, at(b, i))
               n == common(a, b)
           IN [res |-> Sexp("REALSXP", [i \in 1 .. n |-> realOp(op, x(i), y(i))],
                            attrsOf(a, b)),
               eff |-> IF op = "Mod" /\ \E i \in 1 .. n : inaccurate(x(i), y(i))
                       THEN {"Warn"} ELSE {}]
    ELSE [res |-> Sexp("INTSXP",
                       [i \in 1 .. common(a, b) |-> intOp(op, at(a, i), at(b, i))],
                       attrsOf(a, b)),
          eff |-> IF \E i \in 1 .. common(a, b) : overflows(op, at(a, i), at(b, i))
                  THEN {"Warn"} ELSE {}]

R_unary(op, a) ==
    IF isObject(a) THEN Method
    ELSE IF ~numeric(a) THEN Failed
    ELSE Result(Sexp(IF a.t = "REALSXP" THEN "REALSXP" ELSE "INTSXP",
                     [i \in DOMAIN a.v |->
                        IF op = "Plus" THEN a.v[i]
                        ELSE IF a.t = "REALSXP" THEN fneg(a.v[i])
                        ELSE IF a.v[i] = NA_INTEGER THEN NA_INTEGER ELSE -a.v[i]],
                     a.attr))

(* Comparison of two doubles that are numbers. *)
compare(op, x, y) ==
    CASE op = "Eq" -> x = y
      [] op = "Neq" -> x # y
      [] op = "Lt" -> x < y
      [] op = "Lte" -> x <= y
      [] op = "Gt" -> x > y
      [] op = "Gte" -> x >= y

truth(b) == IF b THEN 1 ELSE 0

R_relop(op, a, b) ==
    IF isObject(a) \/ isObject(b) THEN Method
    ELSE IF ~numeric(a) \/ ~numeric(b) THEN Result(lgl(1))
    ELSE LET r(i) == LET x == asDouble(a.t, at(a, i))
                         y == asDouble(b.t, at(b, i))
                     IN IF isnan(x) \/ isnan(y) THEN NA_INTEGER
                        ELSE truth(compare(op, x, y))
         IN Result(Sexp("LGLSXP", [i \in 1 .. common(a, b) |-> r(i)], attrsOf(a, b)))

R_not(a) ==
    IF isObject(a) THEN Method
    ELSE IF ~numeric(a) THEN Failed
    ELSE LET r(i) == LET x == asDouble(a.t, a.v[i])
                     IN IF isnan(x) THEN NA_INTEGER ELSE truth(x = 0)
         IN Result(Sexp("LGLSXP", [i \in DOMAIN a.v |-> r(i)], a.attr))

(* from:to counts in steps of one, in integers when both ends are. *)
steps(x, y) == floor(abs(y - x)) \div One
sequence(t, x, y) ==
    Sexp(t, [i \in 1 .. steps(x, y) + 1 |->
               LET e == IF x <= y THEN x + dbl(i - 1) ELSE x - dbl(i - 1)
               IN IF t = "INTSXP" THEN e \div One ELSE e], "none")

R_colon(a, b) ==
    IF isObject(a) /\ isObject(b) THEN Method
    ELSE IF a.v = <<>> \/ b.v = <<>> THEN Failed
    ELSE IF ~numeric(a) \/ ~numeric(b) THEN Failed
    ELSE LET x == asDouble(a.t, a.v[1])
             y == asDouble(b.t, b.v[1])
             last == IF x <= y THEN x + dbl(steps(x, y)) ELSE x - dbl(steps(x, y))
             fits(z) == z > dbl(INT_MIN) /\ z <= dbl(INT_MAX)
         IN IF ~R_FINITE(x) \/ ~R_FINITE(y) THEN Failed
            ELSE [res |-> sequence(IF whole(x) /\ fits(x) /\ fits(last)
                                   THEN "INTSXP" ELSE "REALSXP", x, y),
                  eff |-> IF Len(a.v) > 1 \/ Len(b.v) > 1 THEN {"Warn"} ELSE {}]

(* Rf_asLogical and Rf_asReal of the first element. *)
Rf_asLogical(a) ==
    IF a.v = <<>> \/ ~numeric(a) THEN NA_INTEGER
    ELSE LET x == asDouble(a.t, a.v[1])
         IN IF isnan(x) THEN NA_INTEGER ELSE truth(x # 0)

Rf_asReal(a) == IF a.v = <<>> \/ ~numeric(a) THEN NaN ELSE asDouble(a.t, a.v[1])

(* Rf_asInteger: a double out of range is NA, with a warning. *)
Rf_asInteger(a) ==
    IF a.v = <<>> \/ ~numeric(a) THEN NA_INTEGER
    ELSE IF a.t # "REALSXP" THEN a.v[1] ELSE toInt(a.v[1])

Rf_isNumber(a) == numeric(a) /\ ~(a.t = "INTSXP" /\ isObject(a))

----------------------------------------------------------------------------
(* Element access: x[i], x[[i]], x[i, j], x[[i, j]] and the assignments to *)
(* them, as far as the tiers rely on their default methods.  A matrix is a *)
(* vector with a dim attribute and Rows rows.  The elements of a list are  *)
(* themselves values: a scalar is told from every other by its code,       *)
(* anything else is one code.                                              *)

Rows == 2
nrows(x) == Rows
ncols(x) == Len(x.v) \div Rows
isMatrix(x) == x.attr = "dim"
R_NilValue == Sexp("NILSXP", <<>>, "none")

(* The elements of lists. *)
NilElt == 4000000
OtherElt == 5000000
elt(x) == IF x.t = "NILSXP" THEN NilElt
          ELSE IF Len(x.v) # 1 \/ x.attr # "none" \/ ~numeric(x) THEN OtherElt
          ELSE x.v[1] + (IF x.t = "REALSXP" THEN 1000000
                         ELSE IF x.t = "LGLSXP" THEN 3000000 ELSE 0)
eltValue(e) == IF e = NilElt THEN R_NilValue
               ELSE IF e > 2000000 THEN lgl(e - 3000000)
               ELSE IF e > 500000 THEN real(e - 1000000) ELSE int(e)
pick(x, p) == IF x.t = "VECSXP" THEN eltValue(x.v[p]) ELSE scalarOf(x.t, x.v[p])

naOf(t) == IF t = "REALSXP" THEN NaN ELSE IF t = "VECSXP" THEN NilElt ELSE NA_INTEGER

(* Conversion to the type that holds both vector and value. *)
typeRank == [NILSXP |-> 0, LGLSXP |-> 1, INTSXP |-> 2, REALSXP |-> 3, VECSXP |-> 4]
wider(s, t) == IF typeRank[s] >= typeRank[t] THEN s ELSE t
coerced(x, t) ==
    [x EXCEPT !.t = t,
              !.v = [i \in DOMAIN x.v |->
                       IF t = "VECSXP" /\ x.t # "VECSXP" THEN elt(scalarOf(x.t, x.v[i]))
                       ELSE IF t = "REALSXP" THEN asDouble(x.t, x.v[i]) ELSE x.v[i]]]

(* The positions x[idx] stands for, of n elements: 0 is dropped, negative  *)
(* numbers exclude, a logical is repeated, a string is a name that no      *)
(* element has.                                                            *)
NoPosition == 1000000
indexOf(idx, i) == IF asDouble(idx.t, idx.v[i]) = NaN THEN NoPosition
                   ELSE IF idx.t = "REALSXP" THEN trunc(idx.v[i]) ELSE idx.v[i]
positions(n, idx) ==
    LET all == [i \in 1 .. n |-> i]
        js == [i \in DOMAIN idx.v |-> indexOf(idx, i)]
        excluded == {-js[i] : i \in {k \in DOMAIN js : js[k] < 0}}
    IN IF idx.t = "STRSXP" THEN <<n + 1>>
       ELSE IF idx.t = "LGLSXP"
         THEN IF idx.v[1] = 0 THEN <<>>
              ELSE IF idx.v[1] = NA_INTEGER THEN [i \in 1 .. n |-> NoPosition] ELSE all
       ELSE IF excluded # {} THEN SelectSeq(all, LAMBDA i : i \notin excluded)
       ELSE SelectSeq(js, LAMBDA j : j # 0)

(* The one position x[[idx]] stands for: Bad is an error, NoPosition an NA *)
(* or a name that is not there.                                            *)
Bad == 0
onePosition(n, d) ==
    IF d > 0 THEN (IF R_FINITE(d) THEN trunc(d - One) + 1 ELSE NoPosition - 1)
    ELSE IF d = 0 \/ n # 2 \/ d <= -3 * One THEN Bad ELSE trunc(2 * One + d) + 1
get1index(n, idx) ==
    IF Len(idx.v) # 1 THEN Bad
    ELSE IF idx.t = "STRSXP" THEN NoPosition
    ELSE LET d == asDouble(idx.t, idx.v[1])
         IN IF isnan(d) THEN NoPosition ELSE onePosition(n, d)
(* For an assignment the index is an int, and NA is none of the elements. *)
OneIndex(n, idx) ==
    IF Len(idx.v) # 1 THEN Bad
    ELSE IF idx.t = "STRSXP" THEN n + 1
    ELSE LET i == IF idx.t = "REALSXP" THEN toInt(idx.v[1]) ELSE idx.v[1]
         IN onePosition(n, dbl(i))

(* Subsets. *)
do_subset_dflt(x, idx) ==
    LET p == positions(Len(x.v), idx)
    IN IF x.t = "NILSXP" THEN Result(R_NilValue)
       ELSE Result(Sexp(x.t, [k \in DOMAIN p |-> IF p[k] \in DOMAIN x.v THEN x.v[p[k]]
                                                 ELSE naOf(x.t)],
                        IF x.attr = "names" THEN "names" ELSE "none"))
do_subset2_dflt(x, idx) ==
    LET p == get1index(Len(x.v), idx)
    IN IF x.t = "NILSXP" THEN Result(R_NilValue)
       ELSE IF p \in DOMAIN x.v THEN Result(pick(x, p))
       ELSE IF p = NoPosition /\ x.t = "VECSXP" THEN Result(R_NilValue)
       ELSE Failed

(* Of matrices; an index of one dimension must be within its extent. *)
cell(x, p1, p2) == Rows * (p2 - 1) + p1
within(p, n) == \A k \in DOMAIN p : p[k] \in (1 .. n) \union {NoPosition}
cells(x, p1, p2) ==
    [k \in 1 .. Len(p1) * Len(p2) |->
       LET i == p1[((k - 1) % Len(p1)) + 1]
           j == p2[((k - 1) \div Len(p1)) + 1]
       IN IF NoPosition \in {i, j} THEN NoPosition ELSE cell(x, i, j)]
do_subset_dflt2(x, i, j) ==
    LET p1 == positions(nrows(x), i)
        p2 == positions(ncols(x), j)
        c == cells(x, p1, p2)
    IN IF x.t = "NILSXP" THEN Result(R_NilValue)
       ELSE IF ~isMatrix(x) \/ ~within(p1, nrows(x)) \/ ~within(p2, ncols(x)) THEN Failed
       ELSE Result(Sexp(x.t, [k \in DOMAIN c |-> IF c[k] = NoPosition THEN naOf(x.t)
                                                 ELSE x.v[c[k]]],
                        IF Len(p1) # 1 /\ Len(p2) # 1 THEN "dim" ELSE "none"))
do_subset2_dflt2(x, i, j) ==
    LET p1 == get1index(nrows(x), i)
        p2 == get1index(ncols(x), j)
    IN IF x.t = "NILSXP" THEN Result(R_NilValue)
       ELSE IF isMatrix(x) /\ p1 \in 1 .. nrows(x) /\ p2 \in 1 .. ncols(x)
         THEN Result(pick(x, cell(x, p1, p2))) ELSE Failed

(* Assignments.  A vector grows with NA, and is no matrix then. *)
grown(x, n) ==
    IF n <= Len(x.v) THEN x
    ELSE [x EXCEPT !.v = [i \in 1 .. n |-> IF i <= Len(x.v) THEN x.v[i] ELSE naOf(x.t)],
                   !.attr = IF @ = "dim" THEN "none" ELSE @]
stored(x, c, y) ==
    LET v[k \in 0 .. Len(c)] ==
          IF k = 0 THEN x.v
          ELSE IF c[k] = NoPosition THEN v[k - 1]
          ELSE [v[k - 1] EXCEPT ![c[k]] = y.v[((k - 1) % Len(y.v)) + 1]]
    IN [x EXCEPT !.v = v[Len(c)]]
named(x, idx) == IF idx.t = "STRSXP" THEN [x EXCEPT !.attr = "names"] ELSE x
deleted(x, gone) ==
    LET keep == SelectSeq([i \in DOMAIN x.v |-> i], LAMBDA i : i \notin gone)
    IN [x EXCEPT !.v = [k \in DOMAIN keep |-> x.v[keep[k]]]]
lastPosition(p) ==
    LET ps == {p[k] : k \in DOMAIN p} \ {NoPosition}
    IN IF ps = {} THEN 0 ELSE CHOOSE m \in ps : \A q \in ps : q <= m

do_subassign_dflt(x, idx, y) ==
    LET p == positions(Len(x.v), idx)
        t == wider(x.t, y.t)
        x1 == named(grown(coerced(x, t), lastPosition(p)), idx)
    IN IF x.t = "NILSXP" /\ y.v = <<>> THEN Result(R_NilValue)
       ELSE IF Len(y.v) > 1 /\ \E k \in DOMAIN p : p[k] = NoPosition THEN Failed
       ELSE IF p = <<>> THEN Result(IF x.t = "NILSXP" THEN Sexp(t, <<>>, "none") ELSE coerced(x, t))
       ELSE IF x.t = "VECSXP" /\ y.t = "NILSXP"
         THEN Result(deleted(x, {p[k] : k \in DOMAIN p}))
       ELSE IF y.v = <<>> THEN Failed
       ELSE [res |-> stored(x1, p, coerced(y, t)),
             eff |-> IF Len(p) % Len(y.v) # 0 THEN {"Warn"} ELSE {}]

(* An element is replaced by one value, in a list by any. *)
fitsOne(x, y) == x.t = "VECSXP" \/ Len(y.v) = 1
replaced(x, p, y) ==
    LET t == wider(x.t, y.t)
    IN stored(coerced(x, t), <<p>>, [y EXCEPT !.v = <<IF t = "VECSXP" THEN elt(y)
                                                     ELSE coerced(y, t).v[1]>>])
do_subassign2_dflt(x, idx, y) ==
    LET p == OneIndex(Len(x.v), idx)
        x1 == IF x.t = "NILSXP" /\ Len(y.v) # 1 THEN Sexp("VECSXP", <<>>, "none") ELSE x
    IN IF x.t = "NILSXP" /\ y.t = "NILSXP" THEN Result(R_NilValue)
       ELSE IF p = Bad \/ ~fitsOne(x1, y) THEN Failed
       ELSE IF y.t = "NILSXP" THEN Result(deleted(x, {p}))
       ELSE LET t == wider(x1.t, y.t)
            IN Result(named(replaced(grown(coerced(x1, t), p), p, y), idx))

do_subassign_dflt2(x, i, j, y) ==
    LET p1 == positions(nrows(x), i)
        p2 == positions(ncols(x), j)
        c == cells(x, p1, p2)
        t == wider(x.t, y.t)
    IN IF ~isMatrix(x) \/ ~within(p1, nrows(x)) \/ ~within(p2, ncols(x)) THEN Failed
       ELSE IF Len(y.v) > 1 /\ \E k \in DOMAIN c : c[k] = NoPosition THEN Failed
       ELSE IF c = <<>> THEN Result(coerced(x, t))
       ELSE IF y.v = <<>> \/ Len(c) % Len(y.v) # 0 THEN Failed
       ELSE Result(stored(coerced(x, t), c, coerced(y, t)))
do_subassign2_dflt2(x, i, j, y) ==
    LET p1 == get1index(nrows(x), i)
        p2 == get1index(ncols(x), j)
    IN IF /\ isMatrix(x) /\ fitsOne(x, y)
          /\ p1 \in 1 .. nrows(x) /\ p2 \in 1 .. ncols(x)
         THEN Result(replaced(x, cell(x, p1, p2), y)) ELSE Failed

=============================================================================
