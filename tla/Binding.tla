------------------------------- MODULE Binding -------------------------------
(***************************************************************************)
(* Variables of a function's environment and of the ones around it: cells  *)
(* that hold objects, the objects with their NAMED count, and the cache of *)
(* cells.  A machine m is the environments, the heap, the cache, what the  *)
(* code holds (reg), and whether an R error was raised.  The heap keeps    *)
(* NAMED up to 2, all the code tells apart; the object R_MissingArg is 1,  *)
(* and 0 stands for R_UnboundValue.                                        *)
(***************************************************************************)
EXTENDS Integers, FiniteSets

CONSTANTS Symbols, Objects

Value(t, v) == [t |-> t, v |-> v]
ScalarInteger(v) == Value("INTSXP", v)
ScalarReal(v) == Value("REALSXP", v)
ScalarLogical(v) == Value("LGLSXP", v)
Prom(v) == Value("PROMSXP", v)
Closure == Value("CLOSXP", 0)
NaN == 99
R_MissingArg == Value("missing", 0)
Raised == Value("error", 0)
scalarTypes == {"INTSXP", "REALSXP", "LGLSXP"}

missingArg == 1
unbound == 0

Envs == {"local", "parent", "global"}
ENCLOS == [e \in Envs |-> IF e = "local" THEN "parent"
                          ELSE IF e = "parent" THEN "global" ELSE "none"]

(* A frame without the symbol, and a cell; x is what R_MissingArg is there. *)
noCell(x) == [bound |-> FALSE, val |-> x, miss |-> 0, locked |-> FALSE, active |-> FALSE]
cell(x, miss) == [noCell(x) EXCEPT !.bound = TRUE, !.miss = miss]

(* What the functions of GNU R do with variables, on environments of objects *)
(* as on those of values: find the frame of a binding, define in a frame     *)
(* that may be sealed, assign where it is bound or else globally.            *)
R_findVarLoc(st, s, from) ==
    LET at[e \in Envs \union {"none"}] ==
            IF e = "none" \/ st[e][s].bound THEN e ELSE at[ENCLOS[e]]
    IN at[from]

R_defineVar(st, sealed, s, x, e) ==
    LET c == st[e][s]
    IN IF (c.bound /\ c.locked) \/ (~c.bound /\ sealed /\ e = "local")
         THEN [st |-> st, err |-> TRUE]
       ELSE [st |-> IF c.active THEN st ELSE [st EXCEPT ![e][s] = cell(x, 0)],
             err |-> FALSE]

R_setVar(st, s, x, from) ==
    LET e == R_findVarLoc(st, s, from)
    IN R_defineVar(st, FALSE, s, x, IF e = "none" THEN "global" ELSE e)

(* The function of every active binding returns this. *)
ActiveValue == ScalarInteger(2)
-----------------------------------------------------------------------------
(* Objects: the ones in use, a new one, and what NAMED says. *)
used(m) == {missingArg, m.reg} \union {m.env[e][s].val : e \in Envs, s \in Symbols}
free(m) == LET u == Objects \ used(m) IN CHOOSE o \in u : \A p \in u : o <= p
noObject == [w |-> R_MissingArg, named |-> 2]
new(m, w, n) ==
    LET o == free(m) IN [m |-> [m EXCEPT !.heap[o] = [w |-> w, named |-> n]], o |-> o]
collect(m) ==
    LET u == used(m)
    IN [m EXCEPT !.heap = [o \in Objects |-> IF o \in u THEN @[o] ELSE noObject]]

MAYBE_SHARED(m, o) == m.heap[o].named > 1
ENSURE_NAMED(m, o) == IF m.heap[o].named = 0 THEN [m EXCEPT !.heap[o].named = 1] ELSE m
INCREMENT_NAMED(m, o) ==
    IF m.heap[o].named = 2 THEN m ELSE [m EXCEPT !.heap[o].named = @ + 1]
IS_SIMPLE_SCALAR(m, o, t) == t \in scalarTypes /\ m.heap[o].w.t = t

failed(m) == [m EXCEPT !.err = TRUE]
define(m, s, o, e) ==
    LET r == R_defineVar(m.env, m.sealed, s, o, e)
    IN [m EXCEPT !.env = r.st, !.err = r.err]

(* Rf_findVar: the function of an active binding is called. *)
Rf_findVar(m, s, from) ==
    LET e == R_findVarLoc(m.env, s, from)
    IN IF e = "none" THEN [m |-> m, o |-> unbound]
       ELSE IF m.env[e][s].active THEN new(m, ActiveValue, 0)
       ELSE [m |-> m, o |-> m.env[e][s].val]

(* Rf_findFun: values that are no functions are passed over. *)
functionIn(m, c) == c.bound /\ ~c.active /\ m.heap[c.val].w.t = "CLOSXP"
Rf_findFun(m, s, from) ==
    LET at[e \in Envs \union {"none"}] ==
            IF e = "none" THEN unbound
            ELSE IF functionIn(m, m.env[e][s]) THEN m.env[e][s].val
            ELSE IF m.env[e][s].bound /\ m.env[e][s].val = missingArg THEN missingArg
            ELSE at[ENCLOS[e]]
    IN at[from]
-----------------------------------------------------------------------------
(* The value to store: an object, or a native integer or double. *)
boxed(m, o) == [unboxed |-> FALSE, o |-> o, w |-> m.heap[o].w]
native(w) == [unboxed |-> TRUE, o |-> missingArg, w |-> w]
staticBox(m, x) == IF x.unboxed THEN new(m, x.w, 0) ELSE [m |-> m, o |-> x.o]
sexptypeOf(x) == x.w.t
updateScalar(m, o, x) == [m EXCEPT !.heap[o].w.v = x.w.v]
SETCAR(m, s, e, o) == [m EXCEPT !.env[e][s].val = o]
SET_MISSING(m, s, e, n) == [m EXCEPT !.env[e][s].miss = n]

mutantDefineVar(m, s, x, rho) ==
    LET c == m.env[rho][s]
        b == staticBox(m, x)
        inc == INCREMENT_NAMED(b.m, b.o)
    IN IF x.unboxed /\ c.bound /\ IS_SIMPLE_SCALAR(m, c.val, sexptypeOf(x)) /\ m.kind # "hashed"
         THEN updateScalar(ENSURE_NAMED(m, c.val), c.val, x)
       ELSE define(inc, s, b.o, rho)

(* x <- value in the frame rho.  A scalar that nothing else refers to is   *)
(* overwritten; storing what the variable holds already only restores the  *)
(* count.  GNU R does the rest, but for plain cells.                       *)
rirDefineVarWrapper(m, s, x, rho) ==
    LET c == m.env[rho][s]
        b == staticBox(m, x)
        inc == INCREMENT_NAMED(b.m, b.o)
    IN IF m.kind = "hashed" THEN define(inc, s, b.o, rho)
       ELSE IF /\ x.unboxed /\ c.bound
               /\ IS_SIMPLE_SCALAR(m, c.val, sexptypeOf(x)) /\ ~MAYBE_SHARED(m, c.val)
         THEN updateScalar(ENSURE_NAMED(m, c.val), c.val, x)
       ELSE IF ~x.unboxed /\ c.bound /\ c.val = x.o THEN ENSURE_NAMED(m, x.o)
       ELSE IF m.kind = "base" THEN define(inc, s, b.o, rho)
       ELSE IF c.bound
         THEN IF c.locked \/ c.active THEN define(inc, s, b.o, rho)
              ELSE SET_MISSING(SETCAR(inc, s, rho, b.o), s, rho, 0)
       ELSE IF m.sealed THEN failed(m)
       ELSE [inc EXCEPT !.env[rho][s] = cell(b.o, 0)]

(* x <<- value, from the frame env outwards. *)
rirSetVarWrapper(m, s, o, env) ==
    LET c == m.env[env][s]
    IN IF c.bound /\ ~c.locked /\ ~c.active
         THEN IF c.val = o THEN ENSURE_NAMED(m, o)
              ELSE SET_MISSING(SETCAR(INCREMENT_NAMED(m, o), s, env, o), s, env, 0)
       ELSE LET r == R_setVar(m.env, s, o, ENCLOS[env])
            IN [INCREMENT_NAMED(m, o) EXCEPT !.env = r.st, !.err = r.err]
-----------------------------------------------------------------------------
(* The cache has one entry for each variable of the local environment: no  *)
(* cell (and how often the search for it failed), its cell, a cell that    *)
(* was removed from the frame (its value is R_UnboundValue), or what is    *)
(* left of the address of one that was counted up like a failed search.    *)
bindingsCacheFails == 2
theCell == 3
removedCell == 4
noAddress == 5
Entries == 0 .. 5

cachedGetBindingCell(m, s) ==
    IF \/ m.cache[s] = removedCell
       \/ m.cache[s] = theCell /\ m.env["local"][s].active
    THEN [m EXCEPT !.cache[s] = 0] ELSE m

mutantGetCellFromCache(m, s) ==
    IF m.cache[s] # 0 THEN [m |-> m, found |-> TRUE]
    ELSE IF m.kind # "base" /\ m.env["local"][s].bound
      THEN [m |-> [m EXCEPT !.cache[s] = theCell], found |-> TRUE]
    ELSE [m |-> m, found |-> FALSE]

getCellFromCache(m, s) ==
    LET n == cachedGetBindingCell(m, s)
    IN IF m.kind = "base" THEN [m |-> m, found |-> FALSE]
       ELSE IF n.cache[s] = theCell THEN [m |-> n, found |-> TRUE]
       ELSE IF m.env["local"][s].bound
         THEN [m |-> [n EXCEPT !.cache[s] = theCell], found |-> TRUE]
       ELSE [m |-> n, found |-> FALSE]

(* The cached cell; a removed one is locked. *)
cached(m, s) ==
    IF m.cache[s] = theCell THEN m.env["local"][s]
    ELSE [noCell(unbound) EXCEPT !.locked = TRUE]
CAR(m, s) == cached(m, s).val

cachedGetVar(m, s) ==
    LET c == getCellFromCache(m, s)
    IN IF c.found /\ CAR(c.m, s) # unbound THEN [m |-> c.m, o |-> CAR(c.m, s)]
       ELSE Rf_findVar(c.m, s, "local")

cachedSetVar(m, s, x) ==
    LET c == getCellFromCache(m, s)
        loc == cached(c.m, s)
    IN IF c.found /\ ~loc.locked /\ ~loc.active
         THEN IF loc.val = x.o THEN ENSURE_NAMED(c.m, x.o)
              ELSE SET_MISSING(SETCAR(INCREMENT_NAMED(c.m, x.o), s, "local", x.o),
                               s, "local", 0)
       ELSE rirDefineVarWrapper(c.m, s, x, "local")

(* rm(s) by other code: the cell is emptied and leaves the frame. *)
remove(m, s) ==
    [m EXCEPT !.env["local"][s] = noCell(missingArg),
              !.cache[s] = IF @ = theCell THEN removedCell ELSE @]
=============================================================================
