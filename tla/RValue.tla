------------------------------- MODULE RValue -------------------------------
(***************************************************************************)
(* The R values the tiers of the VM compute on, and the operations of GNU  *)
(* R they call.  A value keeps what the code distinguishes: its SEXP type, *)
(* its elements, the class of its attributes, and whether it is wrapped in *)
(* a promise.  The integers are those of a machine of Width bits, whose    *)
(* smallest number is NA.  The doubles are multiples of 1/12 up to Huge,   *)
(* infinities and one NaN (NA_real_ is a NaN: the code cannot tell them    *)
(* apart with ==); quotients round down, larger numbers are infinite.      *)
(***************************************************************************)
EXTENDS Integers, Sequences, FiniteSets

CONSTANT Width

\* What is used of the powers of two; Huge below is beyond the integers of 8
\* bits and less.
ASSUME WidthAssumption ==
    Width \in Nat /\ 2 ^ (Width - 1) >= 4 /\ 2 ^ Width = 2 * 2 ^ (Width - 1)

INT_MIN == -(2 ^ (Width - 1))
INT_MAX == 2 ^ (Width - 1) - 1
NA_INTEGER == INT_MIN

(* One in the unit of the doubles, and the doubles that are no numbers. *)
One == 12
Huge == 10000
Inf == 100000
NegInf == -100000
NaN == 200000

(* (double)i, and whether a double is a finite number: R_FINITE. *)
dbl(i) == i * One
isnan(x) == x = NaN
R_FINITE(x) == x > NegInf /\ x < Inf

(* Truncation and floor of a finite double. *)
floor(x) == IF R_FINITE(x) THEN (x \div One) * One ELSE x
trunc(x) == IF x >= 0 THEN x \div One ELSE -((-x) \div One)

(* (int)x: outside of the range the hardware answers with INT_MIN. *)
toInt(x) ==
    IF R_FINITE(x) /\ trunc(x) \in INT_MIN .. INT_MAX THEN trunc(x) ELSE INT_MIN

(* Integer arithmetic that wraps around at Width bits. *)
wrap(i) == ((i - INT_MIN) % (2 ^ Width)) + INT_MIN

(* IEEE operations of the small doubles. *)
bounded(x) == IF x > Huge THEN Inf ELSE IF x < -Huge THEN NegInf ELSE x
sign(x) == IF x > 0 THEN 1 ELSE IF x < 0 THEN -1 ELSE 0
infinite(s) == IF s > 0 THEN Inf ELSE NegInf

fneg(x) == IF isnan(x) THEN NaN ELSE -x

fadd(x, y) ==
    IF isnan(x) \/ isnan(y) THEN NaN
    ELSE IF R_FINITE(x) /\ R_FINITE(y) THEN bounded(x + y)
    ELSE IF ~R_FINITE(x) /\ ~R_FINITE(y) /\ x # y THEN NaN
    ELSE IF R_FINITE(x) THEN y ELSE x

fsub(x, y) == fadd(x, fneg(y))

fmul(x, y) ==
    IF isnan(x) \/ isnan(y) THEN NaN
    ELSE IF R_FINITE(x) /\ R_FINITE(y) THEN bounded((x * y) \div One)
    ELSE IF x = 0 \/ y = 0 THEN NaN
    ELSE infinite(sign(x) * sign(y))

fdiv(x, y) ==
    IF isnan(x) \/ isnan(y) THEN NaN
    ELSE IF y = 0 THEN (IF x = 0 THEN NaN ELSE infinite(x))
    ELSE IF ~R_FINITE(y) THEN (IF R_FINITE(x) THEN 0 ELSE NaN)
    ELSE IF ~R_FINITE(x) THEN infinite(sign(x) * sign(y))
    ELSE bounded(IF y > 0 THEN (x * One) \div y ELSE ((-x) * One) \div (-y))

(* x to the n for a natural n, and the pow of the C library: a fraction *)
(* power is only told from zero, one, infinity and no number.           *)
ipow(x, n) ==
    LET p[k \in 0 .. n] == IF k = 0 THEN One ELSE fmul(x, p[k - 1]) IN p[n]

abs(x) == IF x < 0 THEN -x ELSE x
whole(y) == R_FINITE(y) /\ y % One = 0

cpow(x, y) ==
    IF x = One \/ y = 0 THEN One
    ELSE IF isnan(x) \/ isnan(y) THEN NaN
    ELSE IF whole(y) THEN (IF y > 0 THEN ipow(x, y \div One)
                           ELSE fdiv(One, ipow(x, (-y) \div One)))
    ELSE IF x < 0 /\ R_FINITE(x) /\ R_FINITE(y) THEN NaN
    ELSE IF abs(x) = One THEN One
    ELSE IF (abs(x) > One) = (y > 0) THEN Inf ELSE 0

(* A value: its SEXP type, elements (integers, or doubles in twelfths),    *)
(* attributes (dim keeps element access fast, class makes it an object),   *)
(* and how it is wrapped: bare, in an evaluated promise, or in a promise   *)
(* that was not evaluated yet and will have this value.                    *)
Sexp(t, v, a) == [t |-> t, v |-> v, attr |-> a, prom |-> "no"]
scalarOf(t, x) == Sexp(t, <<x>>, "none")
lgl(x) == scalarOf("LGLSXP", x)
int(x) == scalarOf("INTSXP", x)
real(x) == scalarOf("REALSXP", x)

R_MissingArg == Sexp("missing", <<0>>, "none")
R_UnboundValue == Sexp("unbound", <<0>>, "none")
R_TrueValue == lgl(1)
R_FalseValue == lgl(0)
R_LogicalNAValue == lgl(NA_INTEGER)
bool(b) == IF b THEN R_TrueValue ELSE R_FalseValue

isObject(x) == x.attr \in {"class", "objectBit"}
hasAttrib(x) == x.attr \in {"dim", "names", "class"}
IS_SIMPLE_SCALAR(x, t) ==
    x.prom = "no" /\ x.t = t /\ Len(x.v) = 1 /\ x.attr = "none"

(* No value: the instruction raised an R error. *)
Error == Sexp("error", <<>>, "none")

(* What executing an instruction does: its value and its effects. *)
Result(x) == [res |-> x, eff |-> {}]
Warned(x) == [res |-> x, eff |-> {"Warn"}]
Failed == [res |-> Error, eff |-> {"Error"}]
=============================================================================
