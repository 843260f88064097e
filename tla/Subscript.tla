------------------------------ MODULE Subscript ------------------------------
(***************************************************************************)
(* Element access and assignment in the tiers of the VM: the bytecode      *)
(* instructions with their fast paths, the native builtins, the native     *)
(* code that reads and writes elements itself, and the types and effects   *)
(* the compiler expects.  The operands are a record a: the vector, one or  *)
(* two indices and the value to store; whether the vector is shared, an    *)
(* ALTREP object, or has room to grow in place.  An outcome says besides   *)
(* the result whether the vector itself may have been written.             *)
(***************************************************************************)
EXTENDS Lowering

(* Memory that is not the vector's was read or written. *)
Clobbered == Sexp("clobbered", <<0>>, "none")
nullptr == R_UnboundValue

outcome(r, wrote) == [res |-> r.res, eff |-> r.eff, wrote |-> wrote]
read(r) == outcome(r, FALSE)

(* Dispatch on an object; an assignment tags one argument as the value. *)
dispatched(tag) == [res |-> Sexp("any", <<tag>>, "none"), eff |-> AnyCode]
method(x, r) == IF isObject(x) THEN Method ELSE r
methodOf(x, tag, r) == IF isObject(x) THEN dispatched(tag) ELSE r

(* (R_xlen_t)d. *)
LongMin == -900000
long(d) == IF R_FINITE(d) THEN trunc(d) ELSE LongMin
-----------------------------------------------------------------------------
(* The interpreter. *)
extract1_1_(a) == read(method(a.x, do_subset_dflt(a.x, a.i)))
extract1_2_(a) == read(method(a.x, do_subset_dflt2(a.x, a.i, a.j)))
(* No array of three dimensions is modelled, and of no other has three *)
(* indices.                                                            *)
extract1_3_(a) == read(method(a.x, Failed))

(* (int)*idx - 1 of a scalar; *REAL(idx) == NA_REAL never holds. *)
scalarIndex(i) == IF i.t = "REALSXP" THEN wrap(toInt(i.v[1]) - 1) ELSE wrap(i.v[1] - 1)
extract2_1_(a) ==
    IF /\ ~hasAttrib(a.x) /\ ~hasAttrib(a.i)
       /\ numeric(a.i) /\ Len(a.i.v) = 1 /\ (a.i.t # "REALSXP" => a.i.v[1] # NA_INTEGER)
       /\ scalarIndex(a.i) \in 0 .. Len(a.x.v) - 1
       /\ a.x.t \in {"REALSXP", "INTSXP", "LGLSXP", "VECSXP"}
      THEN read(Result(pick(a.x, scalarIndex(a.i) + 1)))
    ELSE read(method(a.x, do_subset2_dflt(a.x, a.i)))
extract2_2_(a) == read(method(a.x, do_subset2_dflt2(a.x, a.i, a.j)))

subassign1_1_(a) == outcome(methodOf(a.x, 3, do_subassign_dflt(a.x, a.i, a.val)), ~a.shared)
subassign1_2_(a) ==
    outcome(methodOf(a.x, 4, do_subassign_dflt2(a.x, a.i, a.j, a.val)), ~a.shared)
(* The tag is put on the last index. *)
subassign1_3_(a) == outcome(methodOf(a.x, 4, Failed), ~a.shared)

set_vec_elt_(a) ==
    outcome(Result([a.x EXCEPT !.v = [@ EXCEPT ![a.i.v[1]] = elt(a.val)]]), TRUE)

mutantFitsElement(x, y) ==
    /\ \/ x.t = "REALSXP" /\ y.t \in {"REALSXP", "INTSXP"}
       \/ x.t = "INTSXP" /\ y.t = "INTSXP"
       \/ x.t = "VECSXP"
    /\ Len(y.v) >= 1 \/ x.t = "VECSXP"
fitsElement(x, y) ==
    /\ \/ x.t = "REALSXP" /\ y.t \in {"REALSXP", "INTSXP"}
       \/ x.t = "INTSXP" /\ y.t = "INTSXP"
       \/ x.t = "VECSXP"
    /\ Len(y.v) = 1 \/ x.t = "VECSXP"
numberIndex(i) == i.t \in {"INTSXP", "REALSXP"} /\ Len(i.v) = 1
checkedIndex(i) == IF i.t = "INTSXP" /\ i.v[1] = NA_INTEGER THEN -1 ELSE scalarIndex(i)

mutantSubassign2_1_(a) ==
    IF /\ ~isObject(a.x)
       /\ numberIndex(a.i) /\ fitsElement(a.x, a.val) /\ a.val.t # "NILSXP"
       /\ checkedIndex(a.i) \in 0 .. Len(a.x.v) - 1
      THEN outcome(Result(replaced(a.x, checkedIndex(a.i) + 1, a.val)), TRUE)
    ELSE outcome(methodOf(a.x, 3, do_subassign2_dflt(a.x, a.i, a.val)), ~a.shared)

subassign2_1_(a) ==
    IF /\ ~a.shared /\ ~isObject(a.x)
       /\ numberIndex(a.i) /\ fitsElement(a.x, a.val) /\ a.val.t # "NILSXP"
       /\ checkedIndex(a.i) \in 0 .. Len(a.x.v) - 1
      THEN outcome(Result(replaced(a.x, checkedIndex(a.i) + 1, a.val)), TRUE)
    ELSE outcome(methodOf(a.x, 3, do_subassign2_dflt(a.x, a.i, a.val)), ~a.shared)

(* Of a matrix.  A real second index is not looked at: the first is taken  *)
(* for it, as a double, and if it is an int the memory after it belongs to *)
(* that double (a.junk is what comes out).  NA is converted to a number.   *)
(* A vector has one column.                                                *)
secondIndex(a) ==
    IF a.j.t = "INTSXP" THEN checkedIndex(a.j)
    ELSE IF a.i.t = "REALSXP" THEN checkedIndex(a.i) ELSE a.junk
uncheckedStore(x, p, y) ==
    IF x.t = "REALSXP" /\ y.t = "INTSXP"
    THEN [x EXCEPT !.v = [@ EXCEPT ![p] = dbl(y.v[1])]] ELSE replaced(x, p, y)
Rf_nrows(x) == IF isMatrix(x) THEN nrows(x) ELSE Len(x.v)
Rf_ncols(x) == IF isMatrix(x) THEN ncols(x) ELSE 1
subassign2_2_(a) ==
    LET p1 == checkedIndex(a.i)
        p2 == secondIndex(a)
    IN IF /\ ~a.shared /\ ~isObject(a.x)
          /\ numberIndex(a.i) /\ numberIndex(a.j) /\ fitsElement(a.x, a.val)
          /\ p1 \in 0 .. Rf_nrows(a.x) - 1 /\ p2 \in 0 .. Rf_ncols(a.x) - 1
         THEN outcome(Result(uncheckedStore(a.x, p1 + p2 * Rf_nrows(a.x) + 1, a.val)), TRUE)
       ELSE outcome(methodOf(a.x, 4, do_subassign2_dflt2(a.x, a.i, a.j, a.val)), ~a.shared)

interpretSubscript(op, a) ==
    CASE op = "Extract1_1D" -> extract1_1_(a)
      [] op = "Extract1_2D" -> extract1_2_(a)
      [] op = "Extract1_3D" -> extract1_3_(a)
      [] op = "Extract2_1D" -> extract2_1_(a)
      [] op = "Extract2_2D" -> extract2_2_(a)
      [] op = "Subassign1_1D" -> subassign1_1_(a)
      [] op = "Subassign1_2D" -> subassign1_2_(a)
      [] op = "Subassign1_3D" -> subassign1_3_(a)
      [] op = "Subassign2_1D" -> subassign2_1_(a)
      [] op = "Subassign2_2D" -> subassign2_2_(a)
      [] op = "SetVecElt" -> set_vec_elt_(a)
-----------------------------------------------------------------------------
(* The builtins native code calls to read. *)
tryFastVeceltInt(x, i, subset2) ==
    IF /\ i # NA_INTEGER /\ fastVeceltOk(x)
       /\ x.t \in {"REALSXP", "INTSXP", "LGLSXP", "VECSXP"} /\ i < Len(x.v)
      THEN IF i < 0 THEN Clobbered
           ELSE IF x.t = "VECSXP" /\ ~subset2 THEN Sexp("VECSXP", <<x.v[i + 1]>>, "none")
           ELSE pick(x, i + 1)
    ELSE nullptr
mutantTryFastVeceltSexp(x, i, subset2) ==
    IF IS_SIMPLE_SCALAR(i, "INTSXP") /\ i.v[1] > 0
      THEN tryFastVeceltInt(x, i.v[1] - 1, subset2)
    ELSE IF IS_SIMPLE_SCALAR(i, "REALSXP") /\ ~isnan(i.v[1])
      THEN tryFastVeceltInt(x, long(fsub(i.v[1], One)), subset2)
    ELSE nullptr
tryFastVeceltSexp(x, i, subset2) ==
    IF IS_SIMPLE_SCALAR(i, "INTSXP") /\ i.v[1] > 0
      THEN tryFastVeceltInt(x, i.v[1] - 1, subset2)
    ELSE IF IS_SIMPLE_SCALAR(i, "REALSXP") /\ ~isnan(i.v[1]) /\ i.v[1] >= One
      THEN tryFastVeceltInt(x, long(fsub(i.v[1], One)), subset2)
    ELSE nullptr
orElse(found, r) == IF found # nullptr THEN Result(found) ELSE r

extract11Impl(x, i) ==
    orElse(tryFastVeceltSexp(x, i, FALSE), method(x, do_subset_dflt(x, i)))
extract21Impl(x, i) ==
    orElse(tryFastVeceltSexp(x, i, TRUE), method(x, do_subset2_dflt(x, i)))
extract21iImpl(x, n) ==
    orElse(IF n > 0 THEN tryFastVeceltInt(x, n - 1, TRUE) ELSE nullptr,
           method(x, do_subset2_dflt(x, int(n))))
extract21rImpl(x, d) ==
    orElse(IF d < Inf /\ d >= One THEN tryFastVeceltInt(x, long(fsub(d, One)), TRUE)
           ELSE nullptr,
           method(x, do_subset2_dflt(x, real(d))))
extract12Impl(x, i, j) == method(x, do_subset_dflt2(x, i, j))
extract13Impl(x) == method(x, Failed)
extract22Impl(x, i, j) == method(x, do_subset2_dflt2(x, i, j))

(* Of a matrix the position is computed when both indices are in range. *)
getMatrixDim(x) == IF isMatrix(x) THEN [row |-> nrows(x), col |-> ncols(x)]
                   ELSE [row |-> 0, col |-> 0]
inMatrix(x, p1, p2) == p1 < getMatrixDim(x).row /\ p2 < getMatrixDim(x).col
position(x, p1, p2) == getMatrixDim(x).row * p2 + p1
extract22iiImpl(x, n1, n2) ==
    orElse(IF ~isObject(x) /\ isMatrix(x) /\ n1 >= 1 /\ n2 >= 1 /\ inMatrix(x, n1 - 1, n2 - 1)
           THEN tryFastVeceltInt(x, position(x, n1 - 1, n2 - 1), TRUE) ELSE nullptr,
           method(x, do_subset2_dflt2(x, int(n1), int(n2))))
extract22rrImpl(x, d1, d2) ==
    LET p1 == long(fsub(d1, One))
        p2 == long(fsub(d2, One))
    IN orElse(IF /\ ~isObject(x) /\ isMatrix(x) /\ ~isnan(d1) /\ ~isnan(d2)
                 /\ d1 >= One /\ d2 >= One /\ inMatrix(x, p1, p2)
              THEN tryFastVeceltInt(x, position(x, p1, p2), TRUE) ELSE nullptr,
              method(x, do_subset2_dflt2(x, real(d1), real(d2))))
-----------------------------------------------------------------------------
(* The builtins native code calls to write.  A shared vector is copied     *)
(* first, and a copy has no room to grow.                                  *)
element(x, e) == IF x.t = "VECSXP" THEN elt(e) ELSE IF x.t = "REALSXP"
                 THEN asDouble(e.t, e.v[1]) ELSE e.v[1]
put(x, p, e) == IF p < 0 THEN Clobbered
                ELSE [x EXCEPT !.v = [i \in 1 .. (IF p = Len(@) THEN p + 1 ELSE Len(@)) |->
                                        IF i = p + 1 THEN e ELSE @[i]]]
fitsOrGrows(a, p) ==
    Len(a.x.v) > p \/ (Len(a.x.v) >= p /\ a.room /\ ~a.shared)
assigned(a, p, y) == outcome(Result(put(a.x, p, element(a.x, y))), ~a.shared)

subassign11Impl(a, i, y) ==
    outcome(methodOf(a.x, 3, do_subassign_dflt(a.x, i, y)), ~a.shared)
setVecEltImpl(a, i, y) ==
    outcome(Result([a.x EXCEPT !.v = [@ EXCEPT ![i.v[1]] = elt(y)]]), TRUE)

(* The 0-based position of a simple scalar index from 1 on, or -1. *)
boxedPosition(i) ==
    IF IS_SIMPLE_SCALAR(i, "INTSXP") /\ i.v[1] >= 1 THEN i.v[1] - 1
    ELSE IF IS_SIMPLE_SCALAR(i, "REALSXP") /\ i.v[1] >= One /\ ~isnan(i.v[1])
      THEN long(fsub(i.v[1], One))
    ELSE -1
sameType(x, y) == \/ \E t \in {"INTSXP", "REALSXP"} : IS_SIMPLE_SCALAR(y, t) /\ x.t = t
                  \/ x.t = "VECSXP"
subassign21Impl(a, i, y) ==
    LET p == boxedPosition(i)
    IN IF /\ ~isObject(a.x) /\ ~a.alt /\ p # -1
          /\ sameType(a.x, y) /\ y.t # "NILSXP" /\ fitsOrGrows(a, p)
         THEN assigned(a, p, y)
       ELSE outcome(methodOf(a.x, 3, do_subassign2_dflt(a.x, i, y)), ~a.shared)

(* The unboxed variants; that of an integer and a real tests for the first *)
(* element, the others do not.                                             *)
subassign21rrImpl(a, d, r) ==
    LET p == long(fsub(d, One))
    IN IF /\ ~isObject(a.x) /\ ~isnan(d) /\ ~a.alt
          /\ a.x.t \in {"REALSXP", "VECSXP"} /\ fitsOrGrows(a, p)
         THEN assigned(a, p, real(r)) ELSE subassign21Impl(a, real(d), real(r))
subassign21irImpl(a, n, r) ==
    IF /\ ~isObject(a.x) /\ n >= 1 /\ ~a.alt
       /\ a.x.t \in {"REALSXP", "VECSXP"} /\ fitsOrGrows(a, n - 1)
      THEN assigned(a, n - 1, real(r)) ELSE subassign21Impl(a, int(n), real(r))
intHolders == {"INTSXP", "LGLSXP", "REALSXP", "VECSXP"}
subassign21riImpl(a, d, n) ==
    LET p == long(fsub(d, One))
    IN IF ~isObject(a.x) /\ ~isnan(d) /\ ~a.alt /\ a.x.t \in intHolders /\ fitsOrGrows(a, p)
         THEN assigned(a, p, int(n)) ELSE subassign21Impl(a, real(d), int(n))
subassign21iiImpl(a, m, n) ==
    IF /\ ~isObject(a.x) /\ m # NA_INTEGER /\ ~a.alt
       /\ a.x.t \in intHolders /\ fitsOrGrows(a, m - 1)
      THEN assigned(a, m - 1, int(n)) ELSE subassign21Impl(a, int(m), int(n))

subassign12Impl(a, i, j, y) ==
    outcome(methodOf(a.x, 4, do_subassign_dflt2(a.x, i, j, y)), ~a.shared)
subassign13Impl(a) == outcome(methodOf(a.x, 4, Failed), ~a.shared)

assignMatrix(a, i, j, y) ==
    outcome(methodOf(a.x, 4, do_subassign2_dflt2(a.x, i, j, y)), ~a.shared)
subassign22Impl(a, i, j, y) ==
    LET p1 == boxedPosition(i)
        p2 == boxedPosition(j)
    IN IF /\ ~isObject(a.x) /\ isMatrix(a.x) /\ p1 # -1 /\ p2 # -1
          /\ sameType(a.x, y) /\ inMatrix(a.x, p1, p2)
         THEN assigned(a, position(a.x, p1, p2), y)
       ELSE assignMatrix(a, i, j, y)
(* The unboxed variants, for holders of the value's type. *)
plainMatrix(x) == ~isObject(x) /\ isMatrix(x)
subassign22rrrImpl(a, d1, d2, r) ==
    LET p1 == long(fsub(d1, One))
        p2 == long(fsub(d2, One))
    IN IF /\ plainMatrix(a.x) /\ ~isnan(d1) /\ ~isnan(d2) /\ d1 >= One /\ d2 >= One
          /\ a.x.t \in {"REALSXP", "VECSXP"} /\ inMatrix(a.x, p1, p2)
         THEN assigned(a, position(a.x, p1, p2), real(r))
       ELSE assignMatrix(a, real(d1), real(d2), real(r))
subassign22iirImpl(a, n1, n2, r) ==
    IF /\ plainMatrix(a.x) /\ n1 >= 1 /\ n2 >= 1
       /\ a.x.t \in {"REALSXP", "VECSXP"} /\ inMatrix(a.x, n1 - 1, n2 - 1)
      THEN assigned(a, position(a.x, n1 - 1, n2 - 1), real(r))
    ELSE assignMatrix(a, int(n1), int(n2), real(r))
subassign22iiiImpl(a, n1, n2, n) ==
    IF /\ plainMatrix(a.x) /\ n1 >= 1 /\ n2 >= 1
       /\ a.x.t \in intHolders \ {"LGLSXP"} /\ inMatrix(a.x, n1 - 1, n2 - 1)
      THEN assigned(a, position(a.x, n1 - 1, n2 - 1), int(n))
    ELSE assignMatrix(a, int(n1), int(n2), int(n))
subassign22rriImpl(a, d1, d2, n) ==
    LET p1 == long(fsub(d1, One))
        p2 == long(fsub(d2, One))
    IN IF /\ plainMatrix(a.x) /\ ~isnan(d1) /\ ~isnan(d2) /\ d1 >= One /\ d2 >= One
          /\ a.x.t \in intHolders \ {"LGLSXP"} /\ inMatrix(a.x, p1, p2)
         THEN assigned(a, position(a.x, p1, p2), int(n))
       ELSE assignMatrix(a, real(d1), real(d2), int(n))
-----------------------------------------------------------------------------
(* Native code.  Its operands n are native values vec, i, j, val of types  *)
(* tv, ti, tj, tval; the result has type t.                                *)
native(v, eff, wrote) == [v |-> v, eff |-> eff, wrote |-> wrote]
returned(o, t) ==
    native(IF "Error" \in o.eff \/ o.res.t = "clobbered" THEN sexp(o.res)
           ELSE convert(sexp(o.res), t), o.eff, o.wrote)

loadSxp(v, t) == load(v, t, "SEXP").s
indexScalar == scalar(notObject(anyOf({"integer", "real"})))
indexScalarLgl == scalar(notObject(anyOf({"integer", "real", "logical"})))
vectorTypeSupport(t) ==
    \E r \in {"vec", "integer", "logical", "real"} : isA(t, orFastVecelt(of(r)))
vectorLength(v) == IF v.rep = "SEXP" THEN Len(v.s.v) ELSE 1

(* The 0-based index, or -1 where the code jumps to the fallback: below 1, *)
(* NA, or not below max.                                                   *)
computeAndCheckIndex(v, t, max) ==
    LET w == IF v.rep = "SEXP" THEN unboxRealIntLgl(v.s, t) ELSE v
        fail == IF w.rep = "f64" THEN w.n < One \/ ~R_FINITE(w.n) ELSE w.n < 1
        k == (IF w.rep = "f64" THEN trunc(w.n) ELSE w.n) - 1
    IN IF fail \/ k >= max THEN -1 ELSE k

accessVector(x, k, t) ==
    LET is(r) == isA(t, orFastVecelt(of(r)))
    IN IF is("integer") \/ is("logical") THEN i32(x.v[k + 1])
       ELSE IF is("real") THEN f64(x.v[k + 1]) ELSE sexp(eltValue(x.v[k + 1]))
(* An unboxed number stored into a list is no element. *)
assignVector(x, k, v) ==
    IF x.t = "VECSXP"
    THEN IF v.rep = "SEXP" THEN put(x, k, elt(v.s)) ELSE Clobbered
    ELSE put(x, k, v.n)

(* What both reading cases do with an index that is in range. *)
fastElement(n, k) == IF isScalar(n.tv) THEN n.vec ELSE accessVector(n.vec.s, k, n.tv)
unlessAltrep(n, a) == n.vec.rep = "SEXP" => ~a.alt

Extract1_1D(n, a) ==
    LET k == computeAndCheckIndex(n.i, n.ti, vectorLength(n.vec))
    IN IF /\ "vec" \notin n.tv.r /\ vectorTypeSupport(n.tv) /\ unboxable(n.t)
          /\ isA(n.ti, indexScalar) /\ unlessAltrep(n, a) /\ k >= 0
         THEN native(convert(fastElement(n, k), n.t), {}, FALSE)
       ELSE returned(read(extract11Impl(loadSxp(n.vec, n.tv), loadSxp(n.i, n.ti))), n.t)

Extract2_1D(n, a) ==
    LET k == computeAndCheckIndex(n.i, n.ti, vectorLength(n.vec))
        x == loadSxp(n.vec, n.tv)
    IN IF vectorTypeSupport(n.tv) /\ isA(n.ti, indexScalar) /\ unlessAltrep(n, a) /\ k >= 0
         THEN native(convert(fastElement(n, k), n.t), {}, FALSE)
       ELSE returned(read(IF n.i.rep = "i32" THEN extract21iImpl(x, n.i.n)
                          ELSE IF n.i.rep = "f64" THEN extract21rImpl(x, n.i.n)
                          ELSE extract21Impl(x, n.i.s)), n.t)

(* Of matrices; a vector that is none has no rows. *)
matrixNrows(v) == getMatrixDim(v.s).row
matrixNcols(v) == getMatrixDim(v.s).col
Extract1_2D(n, a) ==
    LET k1 == computeAndCheckIndex(n.i, n.ti, matrixNrows(n.vec))
        k2 == computeAndCheckIndex(n.j, n.tj, matrixNcols(n.vec))
    IN IF /\ "vec" \notin n.tv.r /\ unboxable(n.t) /\ vectorTypeSupport(n.tv)
          /\ isA(n.ti, indexScalar) /\ isA(n.tj, indexScalar)
          /\ unlessAltrep(n, a) /\ k1 >= 0 /\ k2 >= 0
         THEN native(convert(fastElement(n, position(n.vec.s, k1, k2)), n.t), {}, FALSE)
       ELSE returned(read(extract12Impl(loadSxp(n.vec, n.tv), loadSxp(n.i, n.ti),
                                        loadSxp(n.j, n.tj))), n.t)

Extract1_3D(n, a) == returned(read(extract13Impl(loadSxp(n.vec, n.tv))), n.t)

Extract2_2D(n, a) ==
    LET k1 == computeAndCheckIndex(n.i, n.ti, matrixNrows(n.vec))
        k2 == computeAndCheckIndex(n.j, n.tj, matrixNcols(n.vec))
        x == loadSxp(n.vec, n.tv)
    IN IF /\ vectorTypeSupport(n.tv) /\ isA(n.ti, indexScalar) /\ isA(n.tj, indexScalar)
          /\ unlessAltrep(n, a) /\ k1 >= 0 /\ k2 >= 0
         THEN native(convert(fastElement(n, position(n.vec.s, k1, k2)), n.t), {}, FALSE)
       ELSE returned(read(IF n.i.rep = "i32" /\ n.j.rep = "i32"
                            THEN extract22iiImpl(x, n.i.n, n.j.n)
                          ELSE IF n.i.rep = "f64" /\ n.j.rep = "f64"
                            THEN extract22rrImpl(x, n.i.n, n.j.n)
                          ELSE extract22Impl(x, loadSxp(n.i, n.ti), loadSxp(n.j, n.tj))), n.t)

(* Assignments.  An unboxed vector is boxed first, which gives a new one.  *)
boxedArgs(n, a) ==
    IF n.vec.rep = "SEXP" THEN a
    ELSE [a EXCEPT !.x = loadSxp(n.vec, n.tv), !.shared = FALSE, !.room = FALSE]
(* Integers into integers, reals into reals. *)
storesUnconverted(n) ==
    \E r \in {"integer", "real"} : isA(n.tv, orFastVecelt(of(r))) /\ isA(n.tval, of(r))
(* A scalar that becomes a vector is left to the builtin. *)
staysBoxed(n) == ~(n.vec.rep # "SEXP" /\ Rep(n.t) = "SEXP")
(* The clone of a shared vector is written. *)
written(n, a, k) ==
    IF Rep(n.t) = "SEXP" THEN native(sexp(assignVector(n.vec.s, k, n.val)), {}, ~a.shared)
    ELSE native(convert(n.val, n.t), {}, FALSE)

Subassign1_1D(n, a) ==
    LET k == computeAndCheckIndex(n.i, n.ti, vectorLength(n.vec))
    IN IF /\ isA(n.ti, indexScalar) /\ isScalar(n.tval) /\ ~maybeObj(n.tv)
          /\ isA(n.tv, orFastVecelt(of("vec"))) \/ storesUnconverted(n)
          /\ staysBoxed(n) /\ unlessAltrep(n, a) /\ k >= 0
         THEN written(n, a, k)
       ELSE returned(subassign11Impl(boxedArgs(n, a), loadSxp(n.i, n.ti),
                                     loadSxp(n.val, n.tval)), n.t)
Subassign1_2D(n, a) ==
    returned(subassign12Impl(boxedArgs(n, a), loadSxp(n.i, n.ti), loadSxp(n.j, n.tj),
                             loadSxp(n.val, n.tval)), n.t)
Subassign1_3D(n, a) == returned(subassign13Impl(boxedArgs(n, a)), n.t)
SetVecElt(n, a) ==
    returned(setVecEltImpl(boxedArgs(n, a), loadSxp(n.i, n.ti), loadSxp(n.val, n.tval)), n.t)

(* An unboxed logical is not told from an integer. *)
noConfusion(n) == n.val.rep # "i32" \/ isA(n.tval, of("integer"))
unboxedSetter(n) == noConfusion(n) /\ n.i.rep # "SEXP" /\ n.val.rep # "SEXP"
                      /\ isA(n.tval, n.tv)
Subassign2_1D(n, a) ==
    LET k == computeAndCheckIndex(n.i, n.ti, vectorLength(n.vec))
        b == boxedArgs(n, a)
        setter == IF n.i.rep = "i32"
                  THEN IF n.val.rep = "i32" THEN subassign21iiImpl(b, n.i.n, n.val.n)
                       ELSE subassign21irImpl(b, n.i.n, n.val.n)
                  ELSE IF n.val.rep = "i32" THEN subassign21riImpl(b, n.i.n, n.val.n)
                       ELSE subassign21rrImpl(b, n.i.n, n.val.n)
    IN IF /\ isA(n.ti, indexScalarLgl) /\ isScalar(n.tval) /\ ~maybeObj(n.tv)
          /\ storesUnconverted(n) /\ staysBoxed(n) /\ unlessAltrep(n, a) /\ k >= 0
         THEN written(n, a, k)
       ELSE returned(IF unboxedSetter(n) THEN setter
                     ELSE subassign21Impl(b, loadSxp(n.i, n.ti), loadSxp(n.val, n.tval)), n.t)

Subassign2_2D(n, a) ==
    LET k1 == computeAndCheckIndex(n.i, n.ti, matrixNrows(n.vec))
        k2 == computeAndCheckIndex(n.j, n.tj, matrixNcols(n.vec))
        b == boxedArgs(n, a)
        setter == IF n.i.rep = "i32"
                  THEN IF n.val.rep = "i32" THEN subassign22iiiImpl(b, n.i.n, n.j.n, n.val.n)
                       ELSE subassign22iirImpl(b, n.i.n, n.j.n, n.val.n)
                  ELSE IF n.val.rep = "i32" THEN subassign22rriImpl(b, n.i.n, n.j.n, n.val.n)
                       ELSE subassign22rrrImpl(b, n.i.n, n.j.n, n.val.n)
    IN IF /\ isA(n.ti, indexScalar) /\ isA(n.tj, indexScalar)
          /\ isScalar(n.tval) /\ ~maybeObj(n.tv)
          /\ storesUnconverted(n) /\ staysBoxed(n) /\ k1 >= 0 /\ k2 >= 0
         THEN written(n, a, position(n.vec.s, k1, k2))
       ELSE returned(IF unboxedSetter(n) /\ n.j.rep = n.i.rep THEN setter
                     ELSE subassign22Impl(b, loadSxp(n.i, n.ti), loadSxp(n.j, n.tj),
                                          loadSxp(n.val, n.tval)), n.t)

executeSubscript(op, n, a) ==
    CASE op = "Extract1_1D" -> Extract1_1D(n, a)
      [] op = "Extract1_2D" -> Extract1_2D(n, a)
      [] op = "Extract1_3D" -> Extract1_3D(n, a)
      [] op = "Extract2_1D" -> Extract2_1D(n, a)
      [] op = "Extract2_2D" -> Extract2_2D(n, a)
      [] op = "Subassign1_1D" -> Subassign1_1D(n, a)
      [] op = "Subassign1_2D" -> Subassign1_2D(n, a)
      [] op = "Subassign1_3D" -> Subassign1_3D(n, a)
      [] op = "Subassign2_1D" -> Subassign2_1D(n, a)
      [] op = "Subassign2_2D" -> Subassign2_2D(n, a)
      [] op = "SetVecElt" -> SetVecElt(n, a)
-----------------------------------------------------------------------------
(* The types of the results: tv, ti, tj, tval are those of the operands,   *)
(* ci the operand ti belongs to.  ifNonObjectArgs looks at the first       *)
(* operand, which is the vector of a subset but the value of an assignment. *)
ifNonObjectArgs(arg0, then, otherwise) == IF ~maybeObj(arg0) THEN then ELSE otherwise

extract1_1DType(tv, ci) ==
    LET res == ifNonObjectArgs(tv, inter(val, subsetType(tv, ci.ty)), val)
        positive == /\ ci.const
                    /\ \/ IS_SIMPLE_SCALAR(ci.c, "INTSXP") /\ ci.c.v[1] >= 1
                       \/ IS_SIMPLE_SCALAR(ci.c, "REALSXP") /\ ci.c.v[1] >= One /\ ~isnan(ci.c.v[1])
    IN IF isA(res, num) /\ positive THEN simpleScalar(res) ELSE res
extract2_1DType(tv, ti) == ifNonObjectArgs(tv, inter(val, extractType(tv, ti)), val)
extract1_2DType(tv, ti, tj) ==
    ifNonObjectArgs(tv, inter(val, subsetType(tv, union(ti, tj))), val)
extract2_2DType(tv, ti, tj) ==
    ifNonObjectArgs(tv, inter(val, extractType(tv, union(ti, tj))), val)
extract1_3DType(tv, ti, tj) ==
    ifNonObjectArgs(tv, inter(val, subsetType(tv, union(ti, tj))), val)

mayBeString(t) == maybe(t, of("str"))
storedType(tv, tval) == inter(val, orNotScalar(mergeWithConversion(tv, tval)))
mutantSubassign1_1DType(tv, ti, tval) == ifNonObjectArgs(tval, storedType(tv, tval), val)
subassign1_1DType(tv, ti, tval) ==
    LET r == storedType(tv, tval)
    IN ifNonObjectArgs(tval, IF mayBeString(ti) THEN orNameAttrs(r) ELSE r, val)
setVecEltType(tv, tval) == storedType(tv, tval)
subassign2_1DType(tv, ti, tval) ==
    LET r == storedType(tv, tval)
    IN ifNonObjectArgs(tval, IF mayBeString(ti) THEN orNameAttrs(r) ELSE r, val)
subassign1_2DType(tv, ti, tj, tval) ==
    LET r == storedType(tv, tval)
        names == mayBeString(ti) \/ mayBeString(tj)
    IN ifNonObjectArgs(tval, IF names THEN orNameAttrs(r) ELSE r, val)
subassign2_2DType(tv, ti, tj, tval) ==
    LET r == storedType(tv, tval)
        names == mayBeString(ti) \/ mayBeString(tj)
    IN ifNonObjectArgs(tval, IF names THEN orNameAttrs(r) ELSE r, val)
subassign1_3DType(tv, ti, tj, tval) ==
    LET r == storedType(tv, tval)
        names == mayBeString(ti) \/ mayBeString(tj)
    IN ifNonObjectArgs(tval, IF names THEN orNameAttrs(r) ELSE r, val)

subscriptType(op, tv, ci, tj, tval) ==
    LET t == CASE op = "Extract1_1D" -> extract1_1DType(tv, ci)
               [] op = "Extract2_1D" -> extract2_1DType(tv, ci.ty)
               [] op = "Extract1_2D" -> extract1_2DType(tv, ci.ty, tj)
               [] op = "Extract2_2D" -> extract2_2DType(tv, ci.ty, tj)
               [] op = "Extract1_3D" -> extract1_3DType(tv, ci.ty, tj)
               [] op = "Subassign1_1D" -> subassign1_1DType(tv, ci.ty, tval)
               [] op = "Subassign2_1D" -> subassign2_1DType(tv, ci.ty, tval)
               [] op = "Subassign1_2D" -> subassign1_2DType(tv, ci.ty, tj, tval)
               [] op = "Subassign2_2D" -> subassign2_2DType(tv, ci.ty, tj, tval)
               [] op = "Subassign1_3D" -> subassign1_3DType(tv, ci.ty, tj, tval)
               [] op = "SetVecElt" -> setVecEltType(tv, tval)
    IN IF isVoid(t) THEN val ELSE t

Extracts == {"Extract1_1D", "Extract2_1D", "Extract1_2D", "Extract2_2D", "Extract1_3D"}
subscriptEffects(op, tv, tval) ==
    IF op = "SetVecElt" THEN {"Error"}
    ELSE ifNonObjectArgs(IF op \in Extracts THEN tv ELSE tval, errorWarnVisible, AnyI)
=============================================================================
