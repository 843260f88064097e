---------------------------- MODULE PirInstruction ----------------------------
(***************************************************************************)
(* The types the optimizing compiler gives to R values, and what it        *)
(* concludes of an instruction on values from the types of its arguments:  *)
(* the type of the result and the effects.                                 *)
(*                                                                         *)
(* A type is a union of R types and a set of flags, each of which allows   *)
(* something more.  The native types (checkpoint, frame state ...) are     *)
(* singletons and left out.                                                *)
(***************************************************************************)
EXTENDS GnuR, FiniteSets

RType == {"nil", "list", "sym", "chr", "logical", "integer", "real", "str", "vec",
          "cplx", "raw", "closure", "special", "builtin", "prom", "missing", "unbound",
          "code", "env", "ast", "expressions", "dots", "expandedDots", "other"}

TypeFlags == {"lazy", "promiseWrapped", "maybeNotScalar", "maybeObject",
              "maybeNotFastVecelt", "maybeAttrib", "maybeNAOrNaN", "maybeMissing"}

defaultRTypeFlags == {"maybeNotScalar", "maybeNAOrNaN"}
topRTypeFlags == TypeFlags \ {"maybeMissing"}
objectFlags == {"maybeObject", "maybeNotFastVecelt", "maybeAttrib"}
wrappers == {"lazy", "promiseWrapped"}

(* Without a wrapper, "may be missing" and the type missing go together. *)
PirType(r, f) ==
    IF f \cap wrappers = {} /\ ("missing" \in r \/ "maybeMissing" \in f)
    THEN [r |-> r \union {"missing"}, f |-> f \union {"maybeMissing"}]
    ELSE [r |-> r, f |-> f]

of(r) == PirType({r}, defaultRTypeFlags)
bottom == [r |-> {}, f |-> {}]

maybeLazy(t) == "lazy" \in t.f
maybePromiseWrapped(t) == t.f \cap wrappers # {}
maybeMissing(t) == "maybeMissing" \in t.f
maybeNAOrNaN(t) == "maybeNAOrNaN" \in t.f
isScalar(t) == "maybeNotScalar" \notin t.f
maybeObj(t) == "maybeObject" \in t.f
maybeNotFastVecelt(t) == "maybeNotFastVecelt" \in t.f
maybeHasAttrs(t) == "maybeAttrib" \in t.f
isSimpleScalar(t) == isScalar(t) /\ ~maybeHasAttrs(t)
isVoid(t) == t.r = {} /\ ~maybeMissing(t)

(* What the assertions of maybeObj, maybeNotFastVecelt and maybeHasAttrs *)
(* demand of the flags of every type.                                    *)
flagsConsistent(t) ==
    /\ maybeObj(t) => maybeNotFastVecelt(t)
    /\ maybeNotFastVecelt(t) => maybeHasAttrs(t)

with(t, flags) == PirType(t.r, t.f \union flags)
without(t, flags) == PirType(t.r, t.f \ flags)

notObject(t) == without(t, {"maybeObject"})
noAttribsOrObject(t) == without(t, objectFlags)
notNAOrNaN(t) == without(t, {"maybeNAOrNaN"})
scalar(t) == without(t, {"maybeNotScalar"})
simpleScalar(t) == noAttribsOrObject(scalar(t))
notT(t, rtype) == PirType(t.r \ {rtype}, t.f)
orT(t, rtype) == PirType(t.r \union {rtype}, t.f)
orNAOrNaN(t) == with(t, {"maybeNAOrNaN"})
orNotScalar(t) == with(t, {"maybeNotScalar"})
orPromiseWrapped(t) ==
    IF maybePromiseWrapped(t) THEN t ELSE with(t, {"promiseWrapped"})
orFullyPromiseWrapped(t) ==
    IF maybePromiseWrapped(t) THEN t
    ELSE PirType(t.r, (t.f \union {"promiseWrapped"}) \ {"maybeMissing"})
orLazy(t) == with(t, wrappers)
orAttribsOrObj(t) == with(t, objectFlags)
orNameAttrs(t) == with(t, {"maybeAttrib", "maybeNotFastVecelt"})
orMaybeMissing(t) == with(t, {"maybeMissing"})
fastVecelt(t) == without(t, {"maybeObject", "maybeNotFastVecelt"})
orFastVecelt(t) == fastVecelt(orAttribsOrObj(t))
notPromiseWrapped(t) == without(t, wrappers)
notLazy(t) == without(t, {"lazy"})
forced(t) == IF ~maybePromiseWrapped(t) THEN t ELSE without(t, wrappers)

notMissing(t) ==
    PirType(IF maybePromiseWrapped(t) THEN t.r ELSE t.r \ {"missing"},
            t.f \ {"maybeMissing"})

(* The operators | and & of types. *)
union(s, t) == PirType(notMissing(s).r \union notMissing(t).r, s.f \union t.f)
inter(s, t) == PirType(notMissing(s).r \cap notMissing(t).r, s.f \cap t.f)

maybe(t, s) == ~isVoid(inter(t, s))

(* isSuper with the arguments swapped: s is a subtype of t. *)
isA(s, t) ==
    /\ maybePromiseWrapped(s) => maybePromiseWrapped(t)
    /\ s.f \ {"promiseWrapped"} \subseteq t.f
    /\ notMissing(s).r \subseteq notMissing(t).r

(* Named types. *)
anyOf(rs) == PirType(rs, defaultRTypeFlags)
num == anyOf({"integer", "real", "logical", "cplx"})
vecs == anyOf(num.r \union {"str", "raw", "vec", "expressions"})
list == anyOf({"list", "nil"})
val == orAttribsOrObj(orMaybeMissing(
         anyOf(vecs.r \union list.r \union
               {"sym", "chr", "raw", "closure", "special", "builtin", "prom", "code",
                "env", "unbound", "ast", "dots", "other"})))
any == orLazy(val)
theMissingValue == orMaybeMissing(of("missing"))
simpleScalarInt == simpleScalar(of("integer"))
simpleScalarReal == simpleScalar(of("real"))
simpleScalarLogical == simpleScalar(of("logical"))
simpleScalarString == simpleScalar(of("str"))
anySimpleScalar == simpleScalar(anyOf({"integer", "real", "logical"}))
test == notNAOrNaN(simpleScalarLogical)
unboxable(t) ==
    \E s \in {simpleScalarLogical, simpleScalarInt, simpleScalarReal} : isA(t, s)

(* The type of the result of an operation that converts its arguments. *)
mergeWithConversion(s, t) ==
    LET top(rs) == PirType(rs, topRTypeFlags)
        toInt_(a, b) == isA(a, top({"integer", "logical"})) /\ isA(b, top({"integer"}))
        toReal(a, b) == isA(a, top({"real", "integer", "logical"})) /\ isA(b, top({"real"}))
        fixup(a, b) == IF toInt_(a, b) THEN {top({"integer"})}
                       ELSE IF toReal(a, b) THEN {top({"real"})} ELSE {}
        found == IF isVoid(s) \/ isVoid(t) THEN {}
                 ELSE IF fixup(s, t) # {} THEN fixup(s, t) ELSE fixup(t, s)
    IN IF found = {} THEN union(s, t)
       ELSE inter(union(s, t), CHOOSE x \in found : TRUE)

(* The types of t[idx], t[[idx]] and c(t, ...). *)
subsetType(t, idx) ==
    LET vec == of("vec")
        simple == anyOf(num.r \union {"str", "list", "code"})
    IN IF isA(t, orAttribsOrObj(of("nil"))) THEN of("nil")
       ELSE IF isA(t, orAttribsOrObj(simple))
         THEN IF isA(idx, scalar(of("str"))) THEN orNAOrNaN(orAttribsOrObj(scalar(t)))
              ELSE orNAOrNaN(orNotScalar(t))
       ELSE IF isA(t, vec) THEN vec
       ELSE IF isA(t, orAttribsOrObj(vec)) THEN orAttribsOrObj(vec)
       ELSE IF ~maybeNotFastVecelt(t) /\ ~isA(of("prom"), t) THEN notMissing(val)
       ELSE val

extractType(t, idx) ==
    IF isA(t, orAttribsOrObj(of("nil"))) THEN of("nil")
    ELSE IF isA(t, orAttribsOrObj(anyOf(num.r \union {"str", "list"}))) THEN simpleScalar(t)
    ELSE IF isA(t, of("vec")) THEN notMissing(val)
    ELSE IF ~maybeNotFastVecelt(t) /\ ~isA(of("prom"), t) THEN notMissing(val)
    ELSE val

collectionType(t, numArgs) ==
    IF isA(t, of("nil")) THEN of("nil")
    ELSE IF isA(t, anyOf(num.r \union {"str", "nil"}))
      THEN IF numArgs > 1 THEN orNAOrNaN(orNotScalar(t)) ELSE t
    ELSE IF t.r \cap {"prom", "expandedDots"} # {} THEN val
    ELSE union(orNAOrNaN(orNotScalar(notObject(forced(t)))), of("vec"))

(* merge(SEXPTYPE): the R types a SEXP type stands for; a promise may hold *)
(* anything.                                                              *)
SexpToRType ==
    [NILSXP |-> "nil", SYMSXP |-> "sym", LISTSXP |-> "list", CLOSXP |-> "closure",
     ENVSXP |-> "env", EXPRSXP |-> "ast", LANGSXP |-> "code", LGLSXP |-> "logical",
     INTSXP |-> "integer", REALSXP |-> "real", STRSXP |-> "str", VECSXP |-> "vec",
     CPLXSXP |-> "cplx", DOTSXP |-> "dots", missing |-> "sym", unbound |-> "sym"]

mergeSexpType(t, sexptype) ==
    IF sexptype = "PROMSXP" THEN [r |-> any.r, f |-> t.f \union wrappers]
    ELSE [t EXCEPT !.r = @ \union {SexpToRType[sexptype]}]

fastVeceltOk(x) == x.attr \in {"none", "dim"}

(* Vectors are not searched: more than one element may contain an NA. *)
maybeContainsNAOrNaN(x) ==
    /\ x.t \in {"INTSXP", "REALSXP", "LGLSXP"}
    /\ \/ Len(x.v) > 1
       \/ \E i \in DOMAIN x.v : IF x.t = "REALSXP" THEN isnan(x.v[i])
                                ELSE x.v[i] = NA_INTEGER

flagsOf(x) ==
    (IF isObject(x) THEN {"maybeObject"} ELSE {})
      \union (IF fastVeceltOk(x) THEN {} ELSE {"maybeNotFastVecelt"})
      \union (IF hasAttrib(x) THEN {"maybeAttrib"} ELSE {})
      \union (IF Len(x.v) = 1 /\ x.t \notin {"LISTSXP", "LANGSXP"}
              THEN {} ELSE {"maybeNotScalar"})
      \union (IF maybeContainsNAOrNaN(x) THEN {"maybeNAOrNaN"} ELSE {})

(* PirType(SEXP): the type of one value.  The type set of an evaluated *)
(* promise is that of its value; an unevaluated one may hold anything.  *)
typeOf(x) ==
    IF x = R_MissingArg THEN theMissingValue
    ELSE IF x.prom = "promise"
      THEN [r |-> any.r, f |-> topRTypeFlags]
    ELSE LET bare == [x EXCEPT !.prom = "no"]
             r == IF bare = R_UnboundValue THEN {"unbound"}
                  ELSE IF bare = R_MissingArg THEN {"missing"}
                  ELSE {SexpToRType[x.t]}
         IN [r |-> r,
             f |-> flagsOf(bare) \union
                   (IF x.prom = "evaluated" THEN {"promiseWrapped"} ELSE {})]

(* A value that is not wrapped in a promise, and any value. *)
isInstanceBare(t, x) ==
    IF t = test THEN IS_SIMPLE_SCALAR(x, "LGLSXP") /\ x.v[1] # NA_INTEGER
    ELSE isA(typeOf(x), t)

isInstance(t, x) ==
    IF x.prom = "no" THEN isInstanceBare(t, x)
    ELSE IF maybePromiseWrapped(t) /\ ~maybeLazy(t)
      THEN x.prom = "evaluated"
             /\ isInstanceBare(forced(notMissing(t)), [x EXCEPT !.prom = "no"])
    ELSE "prom" \in t.r \/ maybeLazy(t)

-------------------------------------------------------------------------------
(* Instructions with an environment argument are declared with type val    *)
(* and any effect; of the effects, warning, error and execution of R code  *)
(* are kept.  An operand is its type and, for a constant, the value.       *)

Unops == {"Plus", "Minus", "Not", "AsLogical", "CheckTrueFalse", "Length"}
AnyI == AnyCode
errorWarnVisible == {"Warn", "Error"}

(* An operand known only by its type, and a constant. *)
operand(t) == [ty |-> t, const |-> FALSE, c |-> R_UnboundValue]
Const(x) == [ty |-> typeOf(x), const |-> TRUE, c |-> x]

mergedInputType(ts) ==
    LET m[i \in 0 .. Len(ts)] == IF i = 0 THEN bottom ELSE union(m[i - 1], ts[i])
    IN m[Len(ts)]

(* The adjustments made in turn: logicals count as integers, complex and *)
(* real operands win, a quotient is no integer, integers may overflow.  *)
hasType(ts, s) == \E i \in DOMAIN ts : isA(ts[i], of(s))
convertedInputs(ts) ==
    LET conv[i \in 0 .. Len(ts)] ==
            IF i = 0 THEN bottom ELSE mergeWithConversion(conv[i - 1], ts[i])
    IN conv[Len(ts)]
logicalAsInteger(t, m) ==
    IF "logical" \in m.r THEN notT(orT(t, "integer"), "logical") ELSE t
noReal(t, ts) == PirType(t.r \ (IF hasType(ts, "cplx") THEN {"real", "integer"} ELSE {}), t.f)
noInteger(t, ts) == PirType(t.r \ (IF hasType(ts, "real") THEN {"integer"} ELSE {}), t.f)
quotient(t, tag) ==
    IF tag \in {"Div", "Pow"} /\ "cplx" \notin t.r
    THEN notT(orT(t, "real"), "integer") ELSE t
overflow(t, tag, m) ==
    IF tag \in {"Div", "Mod"} \/ {"integer"} \subseteq m.r \cap t.r THEN orNAOrNaN(t) ELSE t
inferredTypeForArithmeticInstruction(tag, ts) ==
    LET m == mergedInputType(ts)
        t == inter(convertedInputs(ts), orAttribsOrObj(notMissing(num)))
    IN IF maybeObj(m) THEN val
       ELSE inter(val, overflow(quotient(noInteger(noReal(logicalAsInteger(t, m), ts), ts),
                                         tag), tag, m))

scalarIf(t, c) == IF c THEN scalar(t) ELSE t
noAttribsIf(t, c) == IF c THEN noAttribsOrObject(t) ELSE t
simpleIf(t, c) == IF c THEN simpleScalar(t) ELSE t
notNaIf(t, c) == IF c THEN notNAOrNaN(t) ELSE t
inferredTypeForLogicalInstruction(ts) ==
    LET t == mergedInputType(ts)
        r == noAttribsIf(scalarIf(orAttribsOrObj(of("logical")), isScalar(t)),
                         ~maybeHasAttrs(t))
    IN IF maybeObj(t) THEN val
       ELSE inter(val, notNaIf(simpleIf(r, isSimpleScalar(t)), ~maybeNAOrNaN(t)))

atomOrSimpleVec == anyOf(num.r \union {"sym", "chr", "str", "code"})
(* Scalars that are numbers (or symbols, strings ... for comparisons) *)
(* neither fail nor warn.                                             *)
inferredEffects(ts, harmless) ==
    LET t == mergedInputType(ts)
    IN IF maybeObj(t) THEN AnyI
       ELSE IF isA(t, notObject(harmless)) /\ isScalar(t) THEN {} ELSE errorWarnVisible

(* Colon: integers if both ends are known to be. *)
convertsToInt(a) ==
    \/ isA(a.ty, of("integer"))
    \/ /\ isA(a.ty, of("real")) /\ a.const
       /\ IS_SIMPLE_SCALAR(a.c, "REALSXP") /\ dbl(toInt(a.c.v[1])) = a.c.v[1]
orInteger(t) == IF maybe(t, num) THEN union(t, of("integer")) ELSE t
colonType(lhs, rhs) ==
    orNotScalar(IF convertsToInt(lhs) /\ convertsToInt(rhs) THEN of("integer")
                ELSE orInteger(inferredTypeForArithmeticInstruction("Colon",
                                                                    <<lhs.ty, rhs.ty>>)))

asLogicalNone ==
    noAttribsOrObject(PirType({"logical", "integer", "real", "str", "cplx"}, topRTypeFlags))
colonScalar == notNAOrNaN(scalar(anyOf({"integer", "real"})))

(* inferType and inferEffects of the instructions on values. *)
inferType(op, a, b) ==
    LET ts == IF op \in Unops THEN <<a.ty>> ELSE <<a.ty, b.ty>>
    IN CASE op \in Arithmetic \union {"Plus", "Minus"} ->
                 inferredTypeForArithmeticInstruction(op, ts)
         [] op \in Relational \union {"Not"} -> inferredTypeForLogicalInstruction(ts)
         [] op \in {"LAnd", "LOr", "AsLogical"} -> simpleScalarLogical
         [] op \in {"CheckTrueFalse", "ColonInputEffects"} -> test
         [] op = "Colon" -> colonType(a, b)
         [] op \in {"ColonCastLhs", "ColonCastRhs"} ->
                 IF isA(a.ty, of("integer")) THEN notNAOrNaN(scalar(of("integer")))
                 ELSE colonScalar
         [] op = "Length" -> simpleScalarInt

inferEffects(op, a, b) ==
    LET ts == IF op \in Unops THEN <<a.ty>> ELSE <<a.ty, b.ty>>
    IN CASE op \in Arithmetic \union {"Plus", "Minus", "Colon"} -> inferredEffects(ts, num)
         [] op \in Relational \union {"Not"} -> inferredEffects(ts, atomOrSimpleVec)
         [] op \in {"LAnd", "LOr", "Length"} -> {}
         [] op = "AsLogical" -> IF isA(a.ty, asLogicalNone) THEN {} ELSE {"Error"}
         [] op = "CheckTrueFalse" -> IF isScalar(a.ty) THEN {"Error"} ELSE {"Error", "Warn"}
         [] op = "ColonInputEffects" ->
                 IF isA(a.ty, scalar(num)) /\ isA(b.ty, scalar(num)) THEN {}
                 ELSE {"Error", "Warn"}
         [] op \in {"ColonCastLhs", "ColonCastRhs"} -> {"Error"}

orVal(t) == IF isVoid(t) THEN val ELSE t

(* updateTypeAndEffects: conflicting speculation leaves any value. *)
updatedType(op, a, b) ==
    orVal(inferType(op, a, b))
=============================================================================
