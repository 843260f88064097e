----------------------------- MODULE ConstantFold -----------------------------
(***************************************************************************)
(* Constant folding of the instructions on values: what the pass puts in   *)
(* the place of an instruction, from the constants among its operands and  *)
(* from their types.  An operation on constants is evaluated by GNU R when *)
(* the code is compiled.                                                   *)
(***************************************************************************)
EXTENDS PirInstruction, Interp

(* The replacement: nothing, a constant, the first or second operand, a new *)
(* instruction on the first or second operand, or code that never goes on.  *)
fold(kind, c, n, op) == [kind |-> kind, c |-> c, n |-> n, op |-> op]
Kept == fold("kept", R_UnboundValue, 0, "")
Constant(x) == fold("constant", x, 0, "")
Argument(n) == fold("argument", R_UnboundValue, n, "")
Fresh(op, n) == fold("instruction", R_UnboundValue, n, op)
Unreachable == fold("unreachable", Error, 0, "")

convertsToRealWithoutWarning(x) == numeric(x) /\ Len(x.v) = 1
convertsToLogicalWithoutWarning(x) ==
    x.t \in {"LGLSXP", "INTSXP", "REALSXP", "CPLXSXP", "STRSXP"} /\ ~isObject(x)

isStatically(a, l) ==
    a.const /\ convertsToLogicalWithoutWarning(a.c) /\ Len(a.c.v) = 1 /\ Rf_asLogical(a.c) = l
isStaticallyTrue(a) == isStatically(a, 1)
isStaticallyFalse(a) == isStatically(a, 0)
isStaticallyNA(a) == isStatically(a, NA_INTEGER)

mutantLglCmp(c, x, n, isEq) ==
    IF ~(IS_SIMPLE_SCALAR(c, "LGLSXP") /\ isA(x.ty, simpleScalarLogical)) THEN Kept
    ELSE IF (c.v[1] = 1) = isEq THEN Argument(n) ELSE Fresh("Not", n)

(* A constant logical compared with a logical: x == TRUE is x. *)
foldLglCmp(c, x, n, isEq) ==
    IF ~(IS_SIMPLE_SCALAR(c, "LGLSXP") /\ isA(x.ty, simpleScalarLogical)) THEN Kept
    ELSE IF c.v[1] = NA_INTEGER THEN Constant(R_LogicalNAValue)
    ELSE IF (c.v[1] = 1) = isEq THEN Argument(n) ELSE Fresh("Not", n)

foldBinary(op, a, b) ==
    IF a.const /\ b.const
      THEN Constant((IF op \in Arithmetic THEN R_binary(op, a.c, b.c)
                     ELSE R_relop(op, a.c, b.c)).res)
    ELSE IF op \notin {"Eq", "Neq"} THEN Kept
    ELSE IF a.const THEN foldLglCmp(a.c, b, 2, op = "Eq")
    ELSE IF b.const THEN foldLglCmp(b.c, a, 1, op = "Eq")
    ELSE Kept

foldCheckTrueFalse(a) ==
    IF isStaticallyNA(a) THEN Unreachable
    ELSE IF a.const /\ convertsToLogicalWithoutWarning(a.c)
      THEN Constant(bool(Rf_asLogical(a.c) = 1))
    ELSE Kept

(* The operands of LAnd and LOr are results of AsLogical. *)
foldLAnd(a, b) ==
    IF isStaticallyTrue(a) THEN Fresh("AsLogical", 2)
    ELSE IF isStaticallyFalse(a) THEN Constant(R_FalseValue)
    ELSE IF isStaticallyTrue(b) THEN Fresh("AsLogical", 1)
    ELSE IF isStaticallyFalse(b) THEN Constant(R_FalseValue) ELSE Kept
foldLOr(a, b) ==
    IF isStaticallyTrue(a) THEN Constant(R_TrueValue)
    ELSE IF isStaticallyFalse(a) THEN Fresh("AsLogical", 2)
    ELSE IF isStaticallyTrue(b) THEN Constant(R_TrueValue)
    ELSE IF isStaticallyFalse(b) THEN Fresh("AsLogical", 1) ELSE Kept

foldMinus(a) ==
    IF a.const /\ ~isObject(a.c) /\ numeric(a.c)
    THEN Constant(R_unary("Minus", a.c).res) ELSE Kept
foldAsLogical(a) ==
    IF a.const /\ convertsToLogicalWithoutWarning(a.c)
    THEN Constant(lgl(Rf_asLogical(a.c))) ELSE Kept

(* Not: a real constant is cut to an int first. *)
foldNot(a) ==
    LET larg == IF a.c.t = "REALSXP" THEN toInt(a.c.v[1]) ELSE a.c.v[1]
    IN IF ~(a.const /\ \E t \in {"LGLSXP", "INTSXP", "REALSXP"} : IS_SIMPLE_SCALAR(a.c, t))
         THEN Kept
       ELSE Constant(lgl(IF larg = 0 THEN 1 ELSE IF larg = NA_INTEGER THEN NA_INTEGER ELSE 0))

(* Colon only makes integers of its integral real ends. *)
foldColonEnd(a) ==
    IF a.const /\ a.c.t = "REALSXP" /\ Len(a.c.v) = 1 /\ dbl(toInt(a.c.v[1])) = a.c.v[1]
    THEN Const(int(toInt(a.c.v[1]))) ELSE a

foldLength(a) == IF isA(a.ty, anySimpleScalar) THEN Constant(int(1)) ELSE Kept

(* The pieces of the counting loop.  The check of a pair that is not both *)
(* numbers stays for its effects, answering TRUE.                         *)
foldColonInputEffects(a, b) ==
    IF \/ a.const /\ b.const /\ isColonFastcase(a.c, b.c)
       \/ /\ ~maybeHasAttrs(a.ty) \/ ~maybeHasAttrs(b.ty)
          /\ ~maybe(a.ty, num) \/ ~maybe(b.ty, num)
    THEN Constant(R_TrueValue) ELSE Kept
foldColonCastLhs(a) ==
    IF a.const /\ convertsToRealWithoutWarning(a.c) /\ ~isnan(Rf_asReal(a.c))
      THEN Constant(colonCastLhs(a.c).res)
    ELSE IF isA(a.ty, notNAOrNaN(of("integer"))) THEN Argument(1)
    ELSE Kept
foldColonCastRhs(a, b) ==
    IF /\ a.const /\ b.const
       /\ convertsToRealWithoutWarning(a.c) /\ convertsToRealWithoutWarning(b.c)
       /\ ~isnan(Rf_asReal(b.c))
    THEN Constant(colonCastRhs(a.c, b.c).res) ELSE Kept

(* The pass on one instruction. *)
folded(op, a, b) ==
    CASE op \in Arithmetic \union Relational -> foldBinary(op, a, b)
      [] op = "CheckTrueFalse" -> foldCheckTrueFalse(a)
      [] op = "LAnd" -> foldLAnd(a, b)
      [] op = "LOr" -> foldLOr(a, b)
      [] op = "Minus" -> foldMinus(a)
      [] op = "AsLogical" -> foldAsLogical(a)
      [] op = "Not" -> foldNot(a)
      [] op = "Length" -> foldLength(a)
      [] op = "ColonInputEffects" -> foldColonInputEffects(a, b)
      [] op = "ColonCastLhs" -> foldColonCastLhs(a)
      [] op = "ColonCastRhs" -> foldColonCastRhs(a, b)
      [] OTHER -> Kept
=============================================================================
