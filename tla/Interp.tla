-------------------------------- MODULE Interp --------------------------------
(***************************************************************************)
(* The bytecode interpreter's instructions on values: arithmetic,          *)
(* comparison, logic, type tests and the pieces of a loop over from:to.    *)
(* Each has fast paths for simple scalars and falls back on GNU R's        *)
(* builtin.  The fast paths compare doubles with NA_REAL by ==, which is   *)
(* never true of a NaN.  Reusing the cell of an unreferenced argument for  *)
(* the result, and R_Visible, are left out.                                *)
(***************************************************************************)
EXTENDS GnuR

simpleNumber(x) == IS_SIMPLE_SCALAR(x, "REALSXP") \/ IS_SIMPLE_SCALAR(x, "INTSXP")
isNaInt(x) == x.t # "REALSXP" /\ x.v[1] = NA_INTEGER
num_(x) == IF x.t = "REALSXP" THEN x.v[1] ELSE dbl(x.v[1])

(* The C operators on doubles. *)
cOp(op, x, y) ==
    CASE op = "Add" -> fadd(x, y)
      [] op = "Sub" -> fsub(x, y)
      [] op = "Mul" -> fmul(x, y)
      [] op = "Div" -> fdiv(x, y)
ieee(op, x, y) == IF isnan(x) \/ isnan(y) THEN op = "Neq" ELSE compare(op, x, y)

mutantPlus(x, y) ==
    IF x = NA_INTEGER \/ y = NA_INTEGER THEN Result(int(NA_INTEGER))
    ELSE IF y > 0 /\ x > INT_MAX - y THEN Warned(int(NA_INTEGER))
    ELSE Result(int(x + y))

(* Checked integer arithmetic: NA for overflow, which R_INT_MIN makes *)
(* symmetric.  The flag asks for the warning.                         *)
R_integer_plus(x, y) ==
    IF x = NA_INTEGER \/ y = NA_INTEGER THEN Result(int(NA_INTEGER))
    ELSE IF \/ y > 0 /\ x > INT_MAX - y
            \/ y < 0 /\ x < -INT_MAX - y
      THEN Warned(int(NA_INTEGER))
    ELSE Result(int(x + y))

R_integer_minus(x, y) ==
    IF x = NA_INTEGER \/ y = NA_INTEGER THEN Result(int(NA_INTEGER))
    ELSE IF \/ y < 0 /\ x > INT_MAX + y
            \/ y > 0 /\ x < -INT_MAX + y
      THEN Warned(int(NA_INTEGER))
    ELSE Result(int(x - y))

(* The product is taken modulo the width and compared with the exact one. *)
R_integer_times(x, y) ==
    LET z == wrap(x * y)
    IN IF x = NA_INTEGER \/ y = NA_INTEGER THEN Result(int(NA_INTEGER))
       ELSE IF z = x * y /\ z # NA_INTEGER THEN Result(int(z))
       ELSE Warned(int(NA_INTEGER))

(* add_, sub_ and mul_ on two simple scalars; otherwise GNU R's builtin. *)
DO_BINOP(op, lhs, rhs) ==
    IF ~simpleNumber(lhs) \/ ~simpleNumber(rhs) THEN R_binary(op, lhs, rhs)
    ELSE IF lhs.t = "INTSXP" /\ rhs.t = "INTSXP"
      THEN CASE op = "Add" -> R_integer_plus(lhs.v[1], rhs.v[1])
             [] op = "Sub" -> R_integer_minus(lhs.v[1], rhs.v[1])
             [] op = "Mul" -> R_integer_times(lhs.v[1], rhs.v[1])
    ELSE IF isNaInt(lhs) \/ isNaInt(rhs) THEN Result(real(NaN))
    ELSE Result(real(cOp(op, num_(lhs), num_(rhs))))

add_(lhs, rhs) == DO_BINOP("Add", lhs, rhs)
sub_(lhs, rhs) == DO_BINOP("Sub", lhs, rhs)
mul_(lhs, rhs) == DO_BINOP("Mul", lhs, rhs)

div_(lhs, rhs) ==
    IF ~simpleNumber(lhs) \/ ~simpleNumber(rhs) THEN R_binary("Div", lhs, rhs)
    ELSE IF isNaInt(lhs) \/ isNaInt(rhs) THEN Result(real(NaN))
    ELSE Result(real(fdiv(num_(lhs), num_(rhs))))

idiv_(lhs, rhs) ==
    IF ~simpleNumber(lhs) \/ ~simpleNumber(rhs) THEN R_binary("IDiv", lhs, rhs)
    ELSE IF lhs.t = "INTSXP" /\ rhs.t = "INTSXP"
      THEN IF isNaInt(lhs) \/ isNaInt(rhs) \/ rhs.v[1] = 0 THEN Result(int(NA_INTEGER))
           ELSE Result(int(toInt(floor(fdiv(num_(lhs), num_(rhs))))))
    ELSE IF isNaInt(lhs) \/ isNaInt(rhs) THEN Result(real(NaN))
    ELSE Result(real(myfloor(num_(lhs), num_(rhs))))

(* myfmod warns of a finite quotient too large to be accurate. *)
modulus(t, x, y, r) ==
    [res |-> scalarOf(t, r), eff |-> IF inaccurate(x, y) THEN {"Warn"} ELSE {}]

mod_(lhs, rhs) ==
    LET x == num_(lhs)
        y == num_(rhs)
    IN IF ~simpleNumber(lhs) \/ ~simpleNumber(rhs) THEN R_binary("Mod", lhs, rhs)
       ELSE IF lhs.t = "INTSXP" /\ rhs.t = "INTSXP"
         THEN IF isNaInt(lhs) \/ isNaInt(rhs) \/ y = 0 THEN Result(int(NA_INTEGER))
              ELSE IF x >= 0 /\ y > 0 THEN Result(int(lhs.v[1] % rhs.v[1]))
              ELSE modulus("INTSXP", x, y, toInt(myfmod(x, y)))
       ELSE IF isNaInt(rhs) \/ (isNaInt(lhs) /\ y # 0) THEN Result(real(NaN))
       ELSE modulus("REALSXP", x, y, myfmod(x, y))

pow_(lhs, rhs) == R_binary("Pow", lhs, rhs)

DO_UNOP(op, x) ==
    IF ~simpleNumber(x) THEN R_unary(op, x)
    ELSE IF x.t = "REALSXP" THEN Result(real(IF op = "Plus" THEN x.v[1] ELSE fneg(x.v[1])))
    ELSE IF isNaInt(x) THEN Result(int(NA_INTEGER))
    ELSE Result(int(IF op = "Plus" THEN x.v[1] ELSE -x.v[1]))

uplus_(x) == DO_UNOP("Plus", x)
uminus_(x) == DO_UNOP("Minus", x)

DO_RELOP(op, lhs, rhs) ==
    LET bothLgl == IS_SIMPLE_SCALAR(lhs, "LGLSXP") /\ IS_SIMPLE_SCALAR(rhs, "LGLSXP")
    IN IF ~bothLgl /\ ~(simpleNumber(lhs) /\ simpleNumber(rhs)) THEN R_relop(op, lhs, rhs)
       ELSE IF isNaInt(lhs) \/ isNaInt(rhs) THEN Result(R_LogicalNAValue)
       ELSE Result(bool(ieee(op, num_(lhs), num_(rhs))))

eq_(lhs, rhs) == DO_RELOP("Eq", lhs, rhs)
ne_(lhs, rhs) == DO_RELOP("Neq", lhs, rhs)
lt_(lhs, rhs) == DO_RELOP("Lt", lhs, rhs)
le_(lhs, rhs) == DO_RELOP("Lte", lhs, rhs)
ge_(lhs, rhs) == DO_RELOP("Gte", lhs, rhs)
gt_(lhs, rhs) == DO_RELOP("Gt", lhs, rhs)

not_(x) ==
    IF ~simpleNumber(x) /\ ~IS_SIMPLE_SCALAR(x, "LGLSXP") THEN R_not(x)
    ELSE IF isNaInt(x) THEN Result(R_LogicalNAValue)
    ELSE Result(bool(x.v[1] = 0))

(* && and || on what aslogical_ left: a vector of length zero is NA. *)
firstLgl(x) == IF x.v = <<>> THEN NA_INTEGER ELSE x.v[1]
lgl_and_(s1, s2) ==
    LET x1 == firstLgl(s1)
        x2 == firstLgl(s2)
    IN Result(IF x1 = 1 /\ x2 = 1 THEN R_TrueValue
              ELSE IF x1 = 0 \/ x2 = 0 THEN R_FalseValue ELSE R_LogicalNAValue)
lgl_or_(s1, s2) ==
    LET x1 == firstLgl(s1)
        x2 == firstLgl(s2)
    IN Result(IF x1 = 1 \/ x2 = 1 THEN R_TrueValue
              ELSE IF x1 = 0 /\ x2 = 0 THEN R_FalseValue ELSE R_LogicalNAValue)

aslogical_(x) == IF ~Rf_isNumber(x) THEN Failed ELSE Result(lgl(Rf_asLogical(x)))

asbool_(x) ==
    LET cond == IF x.v = <<>> THEN NA_INTEGER
                ELSE IF x.t \in {"LGLSXP", "INTSXP"} THEN x.v[1] ELSE Rf_asLogical(x)
        warn == IF Len(x.v) > 1 THEN {"Warn"} ELSE {}
    IN IF cond = NA_INTEGER THEN [res |-> Error, eff |-> warn \union {"Error"}]
       ELSE [res |-> bool(cond # 0), eff |-> warn]

(* from:to: seq_int when both ends are integral, INT_MIN and INT_MAX included. *)
doubleCanBeCastedToInteger(n) ==
    n > dbl(INT_MIN - 1) /\ n < dbl(INT_MAX + 1) /\ n % One = 0
integralEnd(x) ==
    IF x.t = "INTSXP" THEN x.v[1] # NA_INTEGER
    ELSE R_FINITE(x.v[1]) /\ dbl(INT_MIN) <= x.v[1] /\ dbl(INT_MAX) >= x.v[1]
           /\ whole(x.v[1])
seq_int(x, y) == sequence("INTSXP", x, y)
colon_(lhs, rhs) ==
    IF /\ simpleNumber(lhs) /\ simpleNumber(rhs)
       /\ integralEnd(lhs) /\ integralEnd(rhs)
    THEN Result(seq_int(num_(lhs), num_(rhs)))
    ELSE R_colon(lhs, rhs)

(* colon_input_effects_: whether a loop over lhs:rhs can count instead of *)
(* building the vector, with the errors and warnings of building it.      *)
isColonFastcase(lhs, rhs) ==
    /\ ~(isObject(lhs) /\ isObject(rhs))
    /\ \/ lhs.v = <<>> \/ rhs.v = <<>>
       \/ lhs.t = "REALSXP" /\ ~doubleCanBeCastedToInteger(lhs.v[1])
       \/ CASE rhs.t \in {"INTSXP", "LGLSXP"} -> rhs.v[1] # INT_MAX
            [] rhs.t = "REALSXP" -> /\ doubleCanBeCastedToInteger(rhs.v[1])
                                    /\ toInt(rhs.v[1]) # INT_MAX
            [] OTHER -> TRUE

mutantInputEffects(lhs, rhs) ==
    IF ~isColonFastcase(lhs, rhs) THEN Result(R_FalseValue)
    ELSE IF lhs.v = <<>> \/ rhs.v = <<>> THEN Failed
    ELSE Result(R_TrueValue)
colonInputEffects(lhs, rhs) ==
    IF ~isColonFastcase(lhs, rhs) THEN Result(R_FalseValue)
    ELSE IF lhs.v = <<>> \/ rhs.v = <<>> THEN Failed
    ELSE IF Len(lhs.v) > 1 \/ Len(rhs.v) > 1 THEN Warned(R_TrueValue)
    ELSE Result(R_TrueValue)

colonCastLhs(lhs) ==
    LET n == Rf_asReal(lhs)
    IN IF isnan(n) THEN Failed
       ELSE Result(IF doubleCanBeCastedToInteger(n) THEN int(toInt(n)) ELSE real(n))

(* The end of the loop: one past the last element.  The assertion says it *)
(* is an int if the start is one.                                        *)
pastEnd(x, y) == IF x <= y THEN fadd(fadd(x, floor(fsub(y, x))), One)
                 ELSE fsub(fsub(x, floor(fsub(x, y))), One)
colonCastRhs(newLhs, rhs) ==
    LET x == Rf_asReal(newLhs)
        y == Rf_asReal(rhs)
    IN IF isnan(y) THEN Failed
       ELSE Result(IF newLhs.t = "INTSXP" THEN int(toInt(pastEnd(x, y)))
                   ELSE real(pastEnd(x, y)))

(* is_: the type tests; a generic vector may be a pairlist. *)
is_(x, type) ==
    bool(CASE type = "isVECSXP" -> x.t \in {"VECSXP", "LISTSXP"}
           [] type = "isLISTSXP" -> x.t \in {"LISTSXP", "NILSXP"}
           [] type = "isNonObject" -> ~isObject(x)
           [] type = "isFactor" -> x.t = "INTSXP" /\ x.attr = "class"
           [] type = "isVector" -> x.t \in {"LGLSXP", "INTSXP", "REALSXP", "STRSXP", "VECSXP",
                                            "CPLXSXP", "EXPRSXP"}
           [] OTHER -> type = x.t)

(* One bytecode instruction on its operands (b is unused by unary ones). *)
interpret(op, a, b) ==
    CASE op = "Add" -> add_(a, b)
      [] op = "Sub" -> sub_(a, b)
      [] op = "Mul" -> mul_(a, b)
      [] op = "Div" -> div_(a, b)
      [] op = "IDiv" -> idiv_(a, b)
      [] op = "Mod" -> mod_(a, b)
      [] op = "Pow" -> pow_(a, b)
      [] op = "Eq" -> eq_(a, b)
      [] op = "Neq" -> ne_(a, b)
      [] op = "Lt" -> lt_(a, b)
      [] op = "Lte" -> le_(a, b)
      [] op = "Gte" -> ge_(a, b)
      [] op = "Gt" -> gt_(a, b)
      [] op = "Plus" -> uplus_(a)
      [] op = "Minus" -> uminus_(a)
      [] op = "Not" -> not_(a)
      [] op = "LAnd" -> lgl_and_(a, b)
      [] op = "LOr" -> lgl_or_(a, b)
      [] op = "AsLogical" -> aslogical_(a)
      [] op = "CheckTrueFalse" -> asbool_(a)
      [] op = "Colon" -> colon_(a, b)
      [] op = "ColonInputEffects" -> colonInputEffects(a, b)
      [] op = "ColonCastLhs" -> colonCastLhs(a)
      [] op = "ColonCastRhs" -> colonCastRhs(a, b)
=============================================================================
