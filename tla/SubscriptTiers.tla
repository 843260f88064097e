---------------------------- MODULE SubscriptTiers ----------------------------
(***************************************************************************)
(* One element access or assignment in every tier: it is typed, run by the *)
(* interpreter and as native code, and compared with GNU R; then up to     *)
(* MaxSteps - 1 more on the vector it leaves, known by its inferred type.  *)
(* The vector may be shared, an ALTREP object, or have room to grow.       *)
(***************************************************************************)
EXTENDS Subscript

CONSTANTS Ops1, Ops2,              \* accesses by one and by two indices
          Vectors, Matrices,       \* the vectors
          Indices, Indices2,       \* indices of vectors, and of matrices
          Stored, Stored2,         \* values to store
          NextIndices, NextStored, \* and those of the following accesses
          MaxSteps

VARIABLES pc, left, op,
          a,             \* the operands
          kv, ki, kj, ky, \* vector, indices and value as the compiler knows them
          ref,           \* what GNU R does
          ty, eff,       \* what the compiler infers
          ran, nat       \* what interpreter and native code do
vars == <<pc, left, op, a, kv, ki, kj, ky, ref, ty, eff, ran, nat>>

reads(o) == o \in Extracts
valueAt(o) == IF o \in {"Subassign1_1D", "Subassign2_1D"} THEN 3
              ELSE IF o = "Subassign1_3D" THEN 5 ELSE 4
reference(o, b) ==
    CASE o = "Extract1_1D" -> method(b.x, do_subset_dflt(b.x, b.i))
      [] o = "Extract2_1D" -> method(b.x, do_subset2_dflt(b.x, b.i))
      [] o = "Extract1_2D" -> method(b.x, do_subset_dflt2(b.x, b.i, b.j))
      [] o = "Extract2_2D" -> method(b.x, do_subset2_dflt2(b.x, b.i, b.j))
      [] o = "Extract1_3D" -> method(b.x, Failed)
      [] o = "Subassign1_1D" ->
           methodOf(b.x, valueAt(o), do_subassign_dflt(b.x, b.i, b.val))
      [] o = "Subassign2_1D" ->
           methodOf(b.x, valueAt(o), do_subassign2_dflt(b.x, b.i, b.val))
      [] o = "Subassign1_2D" ->
           methodOf(b.x, valueAt(o), do_subassign_dflt2(b.x, b.i, b.j, b.val))
      [] o = "Subassign2_2D" ->
           methodOf(b.x, valueAt(o), do_subassign2_dflt2(b.x, b.i, b.j, b.val))
      [] o = "Subassign1_3D" -> methodOf(b.x, valueAt(o), Failed)
      [] o = "SetVecElt" -> Result(replaced(b.x, b.i.v[1], b.val))

args(x, i, j, y, shared, alt, room, junk) ==
    [x |-> x, i |-> i, j |-> j, val |-> y,
     shared |-> shared, alt |-> alt, room |-> room, junk |-> junk]
None == R_UnboundValue

(* What is known of the operands: nothing, the types, the type of the      *)
(* vector only up to a union, or the index itself.                         *)
unionOf(x) == IF x.t \in DOMAIN typeRank \ {"NILSXP"}
              THEN [typeOf(x) EXCEPT !.r = @ \union {"logical", "integer", "real"}
                                             \union (IF x.t = "VECSXP" THEN {"vec"} ELSE {}),
                                     !.f = @ \union {"maybeNotScalar", "maybeNAOrNaN"}]
              ELSE typeOf(x)
known(v, i, j, y) ==
    \/ kv = operand(val) /\ ki = operand(val) /\ kj = operand(val) /\ ky = operand(val)
    \/ kv = operand(typeOf(v)) /\ ki \in {operand(typeOf(i)), Const(i), operand(val)}
         /\ kj = operand(typeOf(j)) /\ ky = operand(typeOf(y))
    \/ kv = operand(unionOf(v)) /\ ki = operand(typeOf(i))
         /\ kj = operand(typeOf(j)) /\ ky = operand(typeOf(y))

held(o, v) == IF o.const THEN constant(o.c, Rep(o.ty)) ELSE load(sexp(v), o.ty, Rep(o.ty))
Blank == outcome(Result(R_UnboundValue), FALSE)
NotRun == native(sexp(R_UnboundValue), {}, FALSE)

(* Only plain vectors are ALTREP objects or have room. *)
situations(x) ==
    {<<FALSE, FALSE, FALSE>>, <<TRUE, FALSE, FALSE>>}
      \union (IF x.attr = "none" /\ x.t \in {"INTSXP", "REALSXP", "VECSXP"}
              THEN {<<FALSE, FALSE, TRUE>>, <<TRUE, FALSE, TRUE>>} \union
                   (IF x.t = "VECSXP" THEN {} ELSE {<<FALSE, TRUE, FALSE>>})
              ELSE {})
(* x[[c(i, j)]] <- y looks into elements that are lists, and a subset     *)
(* assigned by an infinite index does not fit in memory.                  *)
modelled(o, x, i) ==
    /\ x.t = "VECSXP" /\ o = "Subassign2_1D" => Len(i.v) < 2
    /\ o = "Subassign1_1D" => ~(i.t = "REALSXP" /\ Len(i.v) = 1 /\ i.v[1] = Inf)
    /\ o = "SetVecElt" => x.t = "VECSXP" /\ i.t = "INTSXP" /\ Len(i.v) = 1
                            /\ i.attr = "none" /\ i.v[1] \in DOMAIN x.v

Init ==
    /\ pc = "reference" /\ ref = Result(R_UnboundValue) /\ ty = bottom /\ eff = {}
    /\ ran = Blank /\ nat = NotRun /\ left = MaxSteps
    /\ \/ \E o \in Ops1, x \in Vectors, i \in Indices :
          \E y \in IF reads(o) THEN {None} ELSE Stored, s \in situations(x) :
             /\ modelled(o, x, i) /\ op = o
             /\ a = args(x, i, None, y, s[1], s[2], s[3], 0)
             /\ known(x, i, None, y)
       \/ \E o \in Ops2, x \in Matrices, i \in Indices2, j \in Indices2 :
          \E y \in IF reads(o) THEN {None} ELSE Stored2, shared \in BOOLEAN,
             junk \in IF o = "Subassign2_2D" /\ i.t = "INTSXP" /\ j.t = "REALSXP"
                      THEN -1 .. 1 ELSE {0} :
             /\ op = o /\ a = args(x, i, j, y, shared, FALSE, FALSE, junk)
             /\ known(x, i, j, y)

Reference ==
    /\ pc = "reference" /\ pc' = "interpret"
    /\ ref' = reference(op, a)
    /\ ty' = subscriptType(op, kv.ty, ki, kj.ty, ky.ty)
    /\ eff' = subscriptEffects(op, kv.ty, ky.ty)
    /\ UNCHANGED <<left, op, a, kv, ki, kj, ky, ran, nat>>

Interpret ==
    /\ pc = "interpret" /\ pc' = "native"
    /\ ran' = interpretSubscript(op, a)
    /\ UNCHANGED <<left, op, a, kv, ki, kj, ky, ref, ty, eff, nat>>

RunNative ==
    /\ pc = "native" /\ pc' = "done"
    /\ nat' = executeSubscript(op,
                [vec |-> held(kv, a.x), i |-> held(ki, a.i), j |-> held(kj, a.j),
                 val |-> held(ky, a.val), tv |-> kv.ty, ti |-> ki.ty, tj |-> kj.ty,
                 tval |-> ky.ty, t |-> ty], a)
    /\ UNCHANGED <<left, op, a, kv, ki, kj, ky, ref, ty, eff, ran>>

(* A type that excludes NA is right of a vector that contains none. *)
containsNA(x) == \E i \in DOMAIN x.v : x.v[i] = naOf(x.t)
includes(t, x) == /\ isInstance(orNAOrNaN(t), x)
                  /\ maybeNAOrNaN(t) \/ ~numeric(x) \/ ~containsNA(x)

(* The vector an assignment leaves is accessed next. *)
agreed == /\ ref.eff = {} /\ ref.res.t \in DOMAIN typeRank
          /\ ran.res = ref.res /\ valueOf(nat.v, ty) = ref.res
          /\ includes(ty, ref.res)
NextAccess ==
    /\ pc = "done" /\ left > 1 /\ agreed /\ op \in Ops1 \ Extracts
    /\ left' = left - 1 /\ pc' = "reference"
    /\ \E o \in Ops1, i \in NextIndices, shared \in BOOLEAN :
       \E y \in IF reads(o) THEN {None} ELSE NextStored :
         /\ modelled(o, ref.res, i) /\ op' = o
         /\ a' = args(ref.res, i, None, y, shared, FALSE, FALSE, 0)
         /\ kv' = operand(ty) /\ ki' = operand(typeOf(i)) /\ kj' = operand(typeOf(None))
         /\ ky' = operand(typeOf(y))
    /\ ref' = Result(R_UnboundValue) /\ ran' = Blank /\ nat' = NotRun
    /\ ty' = bottom /\ eff' = {}

Done == /\ pc = "done" /\ (left = 1 \/ ~agreed \/ op \notin Ops1 \ Extracts)
        /\ UNCHANGED vars

Next == Reference \/ Interpret \/ RunNative \/ NextAccess \/ Done
Spec == Init /\ [][Next]_vars
-----------------------------------------------------------------------------
trusted == /\ includes(kv.ty, a.x) /\ isInstance(ki.ty, a.i)
           /\ (a.val # None => isInstance(ky.ty, a.val))

(* Where a tier differs from GNU R.  The interpreter's assignment to an    *)
(* element of a matrix takes the first index for a real second one, turns  *)
(* NA into a number, and takes a vector for a matrix of one column; with   *)
(* three indices dispatch gets the last for the value.                     *)
readsFirstIndex == op = "Subassign2_2D" /\ a.j.t = "REALSXP"
storesNAAsNumber == op = "Subassign2_2D" /\ a.x.t = "REALSXP" /\ a.val = int(NA_INTEGER)
vectorAsColumn == op = "Subassign2_2D" /\ ~isMatrix(a.x)
tagsLastIndex == op = "Subassign1_3D" /\ isObject(a.x)

(* Native assignment by an unboxed index does not test that it is 1 or     *)
(* more, and a real one is not tested for infinity; nor is it by the       *)
(* builtins that read by a boxed one.                                      *)
belowFirst == /\ op = "Subassign2_1D" /\ Rep(ki.ty) # "SEXP"
              /\ asDouble(a.i.t, a.i.v[1]) < One
infiniteIndex == \E i \in {a.i, a.j} : i = real(Inf)
(* A list known to have one element is taken for the element, an unboxed   *)
(* number stored into a list for an object, and an integer stored into a   *)
(* logical vector leaves it logical.                                       *)
listAsElement == op \in {"Extract2_1D", "Extract2_2D"} /\ a.x.t = "VECSXP" /\ isScalar(kv.ty)
numberIntoList == op = "Subassign1_1D" /\ a.x.t = "VECSXP" /\ Rep(ky.ty) # "SEXP"
intIntoLogical == op = "Subassign2_1D" /\ a.x.t = "LGLSXP" /\ a.val.t = "INTSXP"

(* The type and the effects of an assignment are those of plain vectors if *)
(* the value, not the vector, is no object.                                *)
dispatchUndeclared == ~reads(op) /\ isObject(a.x)
(* NULL becomes a list when a vector is stored into it by [[ ]]. *)
nullBecomesList == op = "Subassign2_1D" /\ a.x.t = "NILSXP" /\ ref.res.t = "VECSXP"
(* The gap in a vector that grows is filled with NA. *)
growsWithNA == ~reads(op) /\ Len(ref.res.v) > Len(a.x.v) + 1

(* Every bytecode instruction that accesses elements, its fast paths       *)
(* included, gives what GNU R gives.                                       *)
AccessInterpreted ==
    pc = "done" =>
      \/ ran.res = ref.res /\ ran.eff = ref.eff
      \/ ~a.shared /\ (readsFirstIndex \/ storesNAAsNumber \/ vectorAsColumn)
      \/ tagsLastIndex

(* Native element access, by unboxed and boxed indices and values of the   *)
(* types it was compiled for, gives what GNU R gives, and touches no       *)
(* memory outside of the vector.                                           *)
AccessCompiled ==
    pc = "done" /\ trusted =>
      \/ /\ nat.eff = ref.eff
         /\ IF ref.res.t = "any" THEN nat.v.s = ref.res
            ELSE IF "Error" \in ref.eff THEN nat.v.s = Error
            ELSE valueOf(nat.v, ty) = ref.res
      \/ belowFirst \/ infiniteIndex \/ listAsElement \/ numberIntoList
      \/ intIntoLogical \/ tagsLastIndex

(* The inferred type of an access includes its result, and no access runs *)
(* R code, fails or warns where the compiler assumes it does not.          *)
AccessInferred ==
    pc = "done" /\ trusted =>
      /\ \/ ref.res.t \in {"any", "error"} \/ includes(ty, ref.res)
         \/ nullBecomesList \/ growsWithNA
      /\ ref.eff \subseteq eff \/ dispatchUndeclared

(* A vector that something else refers to is never written: both tiers     *)
(* copy it first, in their fast paths too.                                 *)
SharedNeverWritten ==
    pc = "done" /\ a.shared /\ op # "SetVecElt" =>
      ~ran.wrote /\ (Rep(kv.ty) = "SEXP" => ~nat.wrote)
=============================================================================
