------------------------------ MODULE Variables ------------------------------
(***************************************************************************)
(* The instructions on variables in each tier: the bytecode interpreter    *)
(* without and with its cache of cells, native code that calls the         *)
(* runtime, native code with the cache of the environment it made, and     *)
(* native code on an environment stub, which is not an environment yet.    *)
(* Between them other code removes, assigns, locks and redefines the same  *)
(* variables.  Next to it runs what GNU R does: environments of values.    *)
(***************************************************************************)
EXTENDS Binding

CONSTANTS Arg,        \* the symbol that is the function's argument
          MaxSteps    \* the steps taken, of this code and of other code; without
                      \* a cache there is less to go stale, and they are one fewer

VARIABLES tier, kind, sealed,
          env, heap, cache, reg,  \* the machine
          ref,                    \* the environments as in GNU R
          pc,                     \* what reg holds: nothing, a value, a vector to update
          regWant,                \* the value reg should hold
          last,                   \* the last step: operation, variable, result and GNU R's
                                  \* if they differ, whether that is known
          steps
vars == <<tier, kind, sealed, env, heap, cache, reg, ref, pc, regWant, last, steps>>

M == [env |-> env, heap |-> heap, cache |-> cache, reg |-> reg, err |-> FALSE,
      sealed |-> sealed, kind |-> kind]
compiled == tier \in {"native", "cached", "stub"}

(* Native code counts by itself. *)
isNamed(m, o) == m.heap[o].named # 0
shared(m, o) == m.heap[o].named > 1
ensureNamed(m, o) == IF isNamed(m, o) THEN m ELSE [m EXCEPT !.heap[o].named = 1]
incrementNamed(m, o) ==
    IF m.heap[o].named = 2 THEN m ELSE [m EXCEPT !.heap[o].named = @ + 1]
shallowDuplicate(m, o) ==
    IF m.heap[o].w.t \in {"missing", "PROMSXP"} THEN [m |-> m, o |-> o]
    ELSE new(m, m.heap[o].w, 0)
cloneIfShared(r) ==
    IF r.o # unbound /\ shared(r.m, r.o) THEN shallowDuplicate(r.m, r.o) ELSE r
-----------------------------------------------------------------------------
(* What a load does with what it found: errors, promises, the count. *)
checkMissing(r) == IF r.o = missingArg THEN [r EXCEPT !.m = failed(@)] ELSE r
checkUnbound(r) ==
    IF r.o = unbound THEN [m |-> failed(r.m), o |-> missingArg] ELSE r

(* A promise's value is shared: the promise keeps it. *)
evaluatePromise(r) == new(r.m, ScalarInteger(r.m.heap[r.o].w.v), 2)
force(r) ==
    IF ~r.m.err /\ r.m.heap[r.o].w.t = "PROMSXP" THEN evaluatePromise(r) ELSE r
named(r) == IF r.m.err \/ r.o = unbound THEN r ELSE [r EXCEPT !.m = ENSURE_NAMED(@, r.o)]
pushed(r) == named(force(checkMissing(checkUnbound(r))))

ldvar_(m, s) == pushed(Rf_findVar(m, s, "local"))
ldvar_cached_(m, s) == pushed(cachedGetVar(m, s))
ldvar_super_(m, s) == pushed(Rf_findVar(m, s, "parent"))

ldvar_noforce_(m, s) == checkMissing(checkUnbound(Rf_findVar(m, s, "local")))

(* A vector to be updated must be the function's own. *)
own(r, isLocal) ==
    IF r.m.err THEN r ELSE IF isLocal THEN named(r) ELSE shallowDuplicate(r.m, r.o)
ldvar_for_update_(m, s) ==
    LET loc == m.env["local"][s]
        r == IF loc.bound THEN [m |-> m, o |-> loc.val] ELSE Rf_findVar(m, s, "parent")
    IN own(force(checkMissing(checkUnbound(r))), loc.bound)

ldvar_for_update_cache_(m, s) ==
    LET c == getCellFromCache(m, s)
        r == IF c.found /\ CAR(c.m, s) # unbound THEN [m |-> c.m, o |-> CAR(c.m, s)]
             ELSE Rf_findVar(c.m, s, "parent")
    IN own(force(checkMissing(checkUnbound(r))), c.found)

ldfun_(m, s) ==
    LET f == Rf_findFun(m, s, "local")
    IN IF f \in {unbound, missingArg} THEN [m |-> failed(m), o |-> missingArg]
       ELSE [m |-> m, o |-> f]

isMissing(m, s) ==
    LET val == m.env["local"][s]
    IN IF ~val.bound THEN Raised
       ELSE ScalarLogical(IF val.miss # 0 \/ val.val = missingArg THEN 1 ELSE 0)

stvar_(m, s, x) == rirDefineVarWrapper(m, s, x, "local")
stvar_cached_(m, s, x) == cachedSetVar(m, s, x)
stvar_super_(m, s, o) == rirSetVarWrapper(m, s, o, "parent")
-----------------------------------------------------------------------------
(* The runtime of native code. *)
ldvarImpl(m, s, e) == named(Rf_findVar(m, s, e))
ldvarGlobalImpl(m, s, e) == Rf_findVar(m, s, e)
ldvarForUpdateImpl(m, s, e) ==
    LET loc == m.env[e][s]
        r == IF loc.bound THEN [m |-> m, o |-> loc.val] ELSE Rf_findVar(m, s, e)
    IN IF r.o = unbound THEN r ELSE own(r, loc.bound)

(* The search fills the cache, or counts up what is in it. *)
ldvarCachedImpl(m, s) ==
    LET c == m.env["local"][s]
        n == [m EXCEPT !.cache[s] = IF c.bound THEN theCell
                                    ELSE IF @ < bindingsCacheFails THEN @ + 1
                                    ELSE noAddress]
    IN IF m.cache[s] = bindingsCacheFails THEN named(Rf_findVar(m, s, "local"))
       ELSE IF c.bound THEN [m |-> n, o |-> c.val]
       ELSE named(Rf_findVar(n, s, "local"))

stvarImpl(m, s, x) == rirDefineVarWrapper(m, s, x, "local")
stargImpl(m, s, x) ==
    LET loc == m.env["local"][s]
        n == IF loc.val # x.o THEN SETCAR(INCREMENT_NAMED(m, x.o), s, "local", x.o)
             ELSE ENSURE_NAMED(m, x.o)
    IN IF m.kind # "base" /\ loc.bound /\ ~loc.locked /\ ~loc.active
         THEN IF loc.miss # 0 THEN SET_MISSING(n, s, "local", 2) ELSE n
       ELSE rirDefineVarWrapper(m, s, x, "local")
stvarSuperImpl(m, s, o) == rirSetVarWrapper(m, s, o, "parent")
defvarImpl(m, s, o) == rirSetVarWrapper(m, s, o, "parent")
chkfunImpl(m, f) ==
    IF f \in {unbound, missingArg} THEN [m |-> failed(m), o |-> missingArg]
    ELSE [m |-> m, o |-> f]
getArg(m, s) == IF m.env["local"][s].bound THEN m.env["local"][s].val ELSE unbound
isMissingArg(m, s) == m.env["local"][s].miss # 0 \/ getArg(m, s) = missingArg
ldfunImpl(m, s) ==
    LET a == getArg(m, s)
    IN chkfunImpl(m, IF tier # "stub" THEN Rf_findFun(m, s, "local")
                     ELSE IF a # unbound /\ m.heap[a].w.t = "CLOSXP" THEN a
                     ELSE Rf_findFun(m, s, "parent"))
isMissingImpl(m, s) ==
    IF tier = "stub" THEN ScalarLogical(IF isMissingArg(m, s) THEN 1 ELSE 0)
    ELSE isMissing(m, s)
-----------------------------------------------------------------------------
(* Native loads.  A stub has a slot for every variable of the function. *)
envStubGet(m, s) == IF m.env["local"][s].bound THEN m.env["local"][s].val ELSE unbound

ldVarStub(m, s) ==
    IF envStubGet(m, s) = unbound THEN ldvarImpl(m, s, "parent")
    ELSE [m |-> m, o |-> envStubGet(m, s)]

ldVarCached(m, s, update) ==
    IF m.cache[s] <= bindingsCacheFails \/ CAR(m, s) = unbound
    THEN IF update THEN cloneIfShared(ldvarCachedImpl(m, s)) ELSE ldvarCachedImpl(m, s)
    ELSE [m |-> ensureNamed(m, CAR(m, s)), o |-> CAR(m, s)]

ldVarBase(m, s) ==
    IF m.env["local"][s].bound THEN [m |-> m, o |-> m.env["local"][s].val]
    ELSE ldvarGlobalImpl(m, s, "parent")

ldVarUncached(m, s, update) ==
    IF m.kind = "hashed" THEN ldvarGlobalImpl(m, s, "local")
    ELSE IF update THEN ldvarForUpdateImpl(m, s, "local")
    ELSE IF m.kind = "base" THEN ldVarBase(m, s)
    ELSE ldvarImpl(m, s, "local")

(* LdVar of the local environment, with the Force that follows it. *)
LdVar(m, s, update) ==
    force(checkMissing(checkUnbound(
        CASE tier = "stub" -> ldVarStub(m, s)
          [] tier = "cached" -> ldVarCached(m, s, update)
          [] OTHER -> ldVarUncached(m, s, update))))

LdVarSuper(m, s) == force(checkMissing(checkUnbound(ldvarImpl(m, s, "parent"))))
LdFun(m, s) == ldfunImpl(m, s)
Missing(m, s) == isMissingImpl(m, s)
-----------------------------------------------------------------------------
(* Native stores.  An integer and a logical are both 32 bits wide. *)
envStubSetNotMissing(m, s) == [m EXCEPT !.env["local"][s].miss = 0]
envStubSetMissing(slot) == [slot EXCEPT !.miss = 1]
envStubSet(m, s, o, setNotMissing) ==
    LET n == [m EXCEPT !.env["local"][s].bound = TRUE, !.env["local"][s].val = o]
    IN IF setNotMissing THEN envStubSetNotMissing(n, s) ELSE n

stVarStub(m, s, x, isStArg) ==
    LET cur == envStubGet(m, s)
        expected == IF x.w.t = "REALSXP" THEN "REALSXP" ELSE "INTSXP"
        b == staticBox(m, x)
    IN IF /\ x.unboxed /\ cur # unbound
          /\ IS_SIMPLE_SCALAR(m, cur, expected) /\ ~shared(m, cur)
         THEN updateScalar(m, cur, x)
       ELSE IF x.unboxed THEN envStubSet(ensureNamed(b.m, b.o), s, b.o, ~isStArg)
       ELSE IF ~isStArg /\ x.o = cur THEN envStubSetNotMissing(ensureNamed(m, x.o), s)
       ELSE envStubSet(incrementNamed(m, x.o), s, x.o, ~isStArg)

(* Only native integers and doubles have a setter of their own. *)
unboxedCase(x) == x.unboxed /\ x.w.t # "LGLSXP"
setter(m, s, x, isStArg) ==
    LET b == staticBox(m, x)
    IN IF isStArg THEN stargImpl(b.m, s, boxed(b.m, b.o))
       ELSE IF unboxedCase(x) THEN stvarImpl(m, s, x)
       ELSE stvarImpl(b.m, s, boxed(b.m, b.o))

(* The comparison of doubles holds, too, if one of them is no number. *)
FCmpUEQ(v, w) == v = w \/ NaN \in {v, w}
sameScalar(x, w) == IF x.w.t = "REALSXP" THEN FCmpUEQ(x.w.v, w.v) ELSE x.w.v = w.v

stVarCached(m, s, x, isStArg) ==
    LET val == CAR(m, s)
        b == staticBox(m, x)
    IN IF m.cache[s] <= bindingsCacheFails \/ val = unbound THEN setter(m, s, x, isStArg)
       ELSE IF unboxedCase(x) /\ IS_SIMPLE_SCALAR(m, val, x.w.t) /\ ~shared(m, val)
         THEN IF sameScalar(x, m.heap[val].w) THEN ensureNamed(m, val)
              ELSE updateScalar(m, val, x)
       ELSE IF b.o = val THEN ensureNamed(m, val)
       ELSE SETCAR(incrementNamed(b.m, b.o), s, "local", b.o)

StVar(m, s, x, isStArg) ==
    CASE tier = "stub" -> stVarStub(m, s, x, isStArg)
      [] tier = "cached" -> stVarCached(m, s, x, isStArg)
      [] OTHER -> setter(m, s, x, isStArg)

StVarSuper(m, s, o) ==
    IF tier = "stub" THEN stvarSuperImpl(m, s, o) ELSE defvarImpl(m, s, o)

(* Whether a load is compiled as one for update: the load and the store of *)
(* x[i] <- v are of the same environment, unless x was found to be one of  *)
(* the parent's, and the load may have other uses.                         *)
approximateNeedsLdVarForUpdate(ldEnv, singleUse) == ldEnv # "local" \/ ~singleUse

LdVarForUpdate(m, s, ldEnv, singleUse) ==
    LET update == approximateNeedsLdVarForUpdate(ldEnv, singleUse)
    IN IF ldEnv = "local" THEN LdVar(m, s, update)
       ELSE force(checkMissing(checkUnbound(ldvarForUpdateImpl(m, s, ldEnv))))
-----------------------------------------------------------------------------
(* The environment of a call: a cell for an argument, and one for an         *)
(* argument that has its default; a stub has a flag for what is missing.     *)
Unbound == Value("unbound", 0)
createBindingCellImpl(o, w) ==
    IF w = Unbound THEN noCell(missingArg)
    ELSE cell(o, IF w = R_MissingArg THEN 1 ELSE 0)
createMissingBindingCellImpl(o, w) ==
    IF w = Unbound THEN noCell(missingArg)
    ELSE cell(o, IF w = R_MissingArg THEN 1 ELSE 2)
mkStub(o, w, miss) ==
    IF w = Unbound THEN noCell(missingArg)
    ELSE LET slot == cell(o, 0)
         IN IF miss \/ w = R_MissingArg THEN envStubSetMissing(slot) ELSE slot
MkEnv(o, w, miss) ==
    IF tier = "stub" THEN mkStub(o, w, miss)
    ELSE IF miss THEN createMissingBindingCellImpl(o, w)
    ELSE createBindingCellImpl(o, w)

mutantMaterialize(m) ==
    [m EXCEPT !.env["local"] =
        [s \in Symbols |-> [@[s] EXCEPT !.miss = IF m.env["local"][s].val = missingArg THEN @ ELSE 0]]]

(* materialize: the bindings of the stub become those of an environment. *)
materialize(m) ==
    [m EXCEPT !.env["local"] =
        [s \in Symbols |->
            LET c == @[s]
            IN IF ~c.bound THEN c
               ELSE [c EXCEPT !.miss = IF c.val = missingArg THEN 1
                                       ELSE IF c.miss # 0 THEN 2 ELSE 0]]]

(* The same in GNU R. *)
refCell(w, miss) ==
    IF w = Unbound THEN noCell(R_MissingArg)
    ELSE cell(w, IF w = R_MissingArg THEN 1 ELSE IF miss THEN 2 ELSE 0)

objectOf(w, o) == IF w \in {Unbound, R_MissingArg} THEN missingArg ELSE o
stays(c, none) == [s \in Symbols |-> IF s = Arg THEN c ELSE noCell(none)]
Done == Value("done", 0)
nothing == [op |-> "none", s |-> Arg, got |-> Done, want |-> Done, known |-> FALSE]

\* The values stored in the argument, and those stored in other variables or by
\* other code.
Stored == {ScalarInteger(1), ScalarReal(NaN)}
Assigned == {ScalarInteger(5)}

\* What the argument is bound to, and whether that is a default: unbound, missing,
\* a promise or a number; and what it is in the parent environment.
Arguments ==
    {[w |-> Unbound, miss |-> FALSE], [w |-> R_MissingArg, miss |-> FALSE],
     [w |-> Prom(3), miss |-> TRUE], [w |-> ScalarReal(3), miss |-> FALSE]}
Outer == {ScalarInteger(4), Closure}

Init ==
    /\ tier \in {"interpreter", "interpreterCached", "native", "cached", "stub"}
    /\ kind \in {"frame", "hashed", "base"}
    /\ tier \in {"cached", "stub"} => kind = "frame"
    /\ sealed = FALSE
    /\ \E a \in Arguments, w \in Outer :
         /\ kind # "frame" => a.w.t \in scalarTypes \union {"unbound"} /\ ~a.miss
         /\ ref = [e \in Envs |->
                     CASE e = "local" -> stays(refCell(a.w, a.miss), R_MissingArg)
                       [] e = "parent" -> stays(refCell(w, FALSE), R_MissingArg)
                       [] OTHER -> stays(noCell(R_MissingArg), R_MissingArg)]
         /\ env = [e \in Envs |->
                     CASE e = "local" ->
                            stays(MkEnv(objectOf(a.w, 2), a.w, a.miss), missingArg)
                       [] e = "parent" ->
                            stays(createBindingCellImpl(objectOf(w, 3), w), missingArg)
                       [] OTHER -> stays(noCell(missingArg), missingArg)]
         /\ heap = [o \in Objects |->
                      IF o = objectOf(a.w, 2) /\ o # missingArg THEN [w |-> a.w, named |-> 1]
                      ELSE IF o = objectOf(w, 3) /\ o # missingArg THEN [w |-> w, named |-> 1]
                      ELSE noObject]
    /\ cache = [s \in Symbols |-> 0]
    /\ reg = missingArg /\ regWant = Done /\ pc = "idle" /\ last = nothing /\ steps = 0
-----------------------------------------------------------------------------
(* GNU R: the value of a variable, of a function, and missing(s). *)
R_load(s, from) ==
    LET e == R_findVarLoc(ref, s, from)
    IN IF e = "none" THEN Raised
       ELSE IF ref[e][s].active THEN ActiveValue
       ELSE IF ref[e][s].val = R_MissingArg THEN Raised
       ELSE ref[e][s].val
R_force(w) == IF w.t = "PROMSXP" THEN ScalarInteger(w.v) ELSE w
R_fun(s) ==
    LET at[e \in Envs \union {"none"}] ==
            IF e = "none" THEN Raised
            ELSE LET c == ref[e][s]
                 IN IF c.bound /\ ~c.active /\ c.val = Closure THEN Closure
                    ELSE IF c.bound /\ c.val = R_MissingArg THEN Raised
                    ELSE at[ENCLOS[e]]
    IN at["local"]
R_missing(s) == ScalarLogical(IF ref["local"][s].miss # 0 THEN 1 ELSE 0)

(* Every binding has the value it has in GNU R, and every argument is *)
(* missing if it is there.                                            *)
bindingsAgree ==
    \A e \in Envs, s \in Symbols :
        LET c == env[e][s]
            r == ref[e][s]
        IN /\ c.bound = r.bound /\ c.active = r.active
           /\ c.bound => heap[c.val].w = r.val
missingAgrees ==
    \A s \in Symbols : (env["local"][s].miss # 0) = (ref["local"][s].miss # 0)
updating == pc \in {"update", "updated"}
agree == (updating \/ (bindingsAgree /\ missingAgrees)) /\ last.got = last.want

(* What the code is known to do differently.  Caches answer for an active    *)
(* binding with its function, and an update of one starts from that; a store *)
(* through the cache, in place, or of the same object asks neither for locks *)
(* nor for missingness; a double is not stored over NaN, nor NaN over one; a *)
(* stub stores a logical as an integer; an entry of the cache that was an    *)
(* address is counted up; x <<- v passes over a binding it cannot change; a  *)
(* stub passes over a missing argument when it looks for a function; and an  *)
(* update may be of the vector of another environment.                       *)
lost(s) == tier = "cached" /\ cache[s] = noAddress
activeLoaded(op, c) ==
    /\ c.active
    /\ \/ op = "update"
       \/ op = "load" /\ (tier \in {"interpreterCached", "cached"} \/ <<tier, kind>> = <<"native", "base">>)
bypassed(op, s, x, c) ==
    /\ op \in {"store", "starg"} /\ c.bound /\ (c.locked \/ c.active \/ c.miss # 0)
    /\ \/ tier = "cached" /\ cache[s] = theCell
       \/ x.unboxed /\ heap[c.val].w.t \in scalarTypes /\ ~shared(M, c.val)
       \/ ~x.unboxed /\ x.o = c.val
nanKept(op, x, c) ==
    /\ tier = "cached" /\ op \in {"store", "starg"} /\ x.unboxed /\ x.w.t = "REALSXP"
    /\ c.bound /\ heap[c.val].w.t = "REALSXP" /\ NaN \in {x.w.v, heap[c.val].w.v}
logicalStored(op, x, c) ==
    /\ tier = "stub" /\ op \in {"store", "starg"} /\ x.unboxed /\ x.w.t = "LGLSXP"
    /\ c.bound /\ heap[c.val].w.t = "INTSXP"
passedOver(op, s, c) ==
    \/ op = "superStore" /\ (env["parent"][s].locked \/ env["parent"][s].active)
    \/ op = "fun" /\ tier = "stub" /\ c.bound /\ c.val = missingArg
borrowed(op, s, c) == op = "update" /\ compiled /\ ~c.bound
known(op, s, x) ==
    LET c == env["local"][s]
    IN \/ lost(s) \/ activeLoaded(op, c) \/ bypassed(op, s, x, c) \/ nanKept(op, x, c)
       \/ logicalStored(op, x, c) \/ passedOver(op, s, c) \/ borrowed(op, s, c)
       \/ updating /\ last.known

(* The code takes a step if nothing went wrong before it: the machine after *)
(* it, what it holds, its result and GNU R's.                               *)
idle == pc \in {"idle", "loaded"}
start == [M EXCEPT !.reg = missingArg]
Undefined == Value("undefined", 0)
becomes(m) ==
    LET n == collect(m)
    IN env' = n.env /\ heap' = n.heap /\ cache' = n.cache /\ reg' = n.reg
recorded(op, s, x, got, want) ==
    last' = [op |-> IF got = want THEN "none" ELSE op,
             s |-> IF op = "update" THEN s ELSE Arg,
             got |-> IF got = want THEN Done ELSE got,
             want |-> IF got = want THEN Done ELSE want,
             known |-> known(op, s, x)
                       /\ (op = "update" \/ got # want \/ ~bindingsAgree' \/ ~missingAgrees')]
stepBound == IF tier \in {"interpreterCached", "cached"} /\ kind = "frame"
         THEN MaxSteps ELSE MaxSteps - 1
ready == (steps < stepBound \/ updating) /\ agree
counted == steps' = steps + 1
unmoved == UNCHANGED <<tier, kind, sealed>>

(* Native code follows an entry that is no address. *)
result(r, s) ==
    IF lost(s) THEN Undefined ELSE IF r.m.err THEN Raised ELSE r.m.heap[r.o].w
loads(op, s, r, want, next) ==
    /\ ready
    /\ becomes([r.m EXCEPT !.reg = r.o]) /\ UNCHANGED ref
    /\ recorded(op, s, native(Done), result(r, s), want)
    /\ pc' = (IF r.m.err \/ lost(s) THEN "idle" ELSE next)
    /\ regWant' = (IF pc' = "idle" THEN Done ELSE want)
    /\ counted /\ unmoved

Load(s) ==
    /\ idle
    /\ loads("load", s,
             CASE tier = "interpreter" -> ldvar_(start, s)
               [] tier = "interpreterCached" -> ldvar_cached_(start, s)
               [] OTHER -> LdVar(start, s, FALSE),
             R_force(R_load(s, "local")), "loaded")
LoadNoForce(s) ==
    /\ idle /\ ~compiled
    /\ loads("load", s, ldvar_noforce_(start, s), R_load(s, "local"), "loaded")
LoadSuper(s) ==
    /\ idle
    /\ loads("super", s, IF compiled THEN LdVarSuper(start, s) ELSE ldvar_super_(start, s),
             R_force(R_load(s, "parent")), "loaded")
LoadFun(s) ==
    /\ idle
    /\ loads("fun", s, IF compiled THEN LdFun(start, s) ELSE ldfun_(start, s), R_fun(s), "idle")

(* missing(s) of an argument. *)
AskMissing(s) ==
    /\ idle /\ ref["local"][s].bound /\ ready
    /\ becomes(start) /\ UNCHANGED ref
    /\ recorded("missing", s, native(Done),
                IF compiled THEN Missing(M, s) ELSE isMissing(M, s), R_missing(s))
    /\ pc' = "idle" /\ regWant' = Done
    /\ counted /\ unmoved

(* A store: what GNU R does is the environments after it and the error. *)
stores(op, s, x, m, r) ==
    /\ ready
    /\ becomes([m EXCEPT !.reg = missingArg])
    /\ ref' = r.st
    /\ recorded(op, s, x, IF lost(s) THEN Undefined ELSE IF m.err THEN Raised ELSE Done,
                IF r.err THEN Raised ELSE Done)
    /\ pc' = "idle" /\ regWant' = Done /\ unmoved
    /\ IF updating THEN UNCHANGED steps ELSE counted
storeLocal(op, s, x, m) ==
    stores(op, s, x,
           CASE tier = "interpreter" -> stvar_(m, s, x)
             [] tier = "interpreterCached" -> stvar_cached_(m, s, x)
             [] OTHER -> StVar(m, s, x, FALSE),
           R_defineVar(ref, sealed, s, IF updating THEN regWant ELSE x.w, "local"))

(* A value just computed, or a constant, is stored; native code may hold *)
(* an unboxed one.                                                       *)
Store(s, w, n) ==
    /\ idle
    /\ LET b == new(start, w, n) IN storeLocal("store", s, boxed(b.m, b.o), b.m)
StoreUnboxed(s, w) ==
    /\ idle /\ compiled /\ w.t \in scalarTypes
    /\ storeLocal("store", s, native(w), start)
StoreLoaded(s) == pc = "loaded" /\ storeLocal("store", s, boxed(M, reg), M)

(* The value of an argument replaces its promise; it stays missing. *)
StoreArg(w, unboxed) ==
    LET b == new(start, w, 0)
        x == IF unboxed THEN native(w) ELSE boxed(b.m, b.o)
        c == ref["local"][Arg]
    IN /\ idle /\ compiled /\ kind = "frame" /\ w.t \in scalarTypes
       /\ c.bound /\ ~c.locked /\ ~c.active
       /\ stores("starg", Arg, x, StVar(IF unboxed THEN start ELSE b.m, Arg, x, TRUE),
                 [st |-> [ref EXCEPT !["local"][Arg].val = w], err |-> FALSE])

StoreSuper(s, w) ==
    /\ idle
    /\ LET b == new(start, w, 0)
       IN stores("superStore", s, boxed(b.m, b.o),
                 IF compiled THEN StVarSuper(b.m, s, b.o) ELSE stvar_super_(b.m, s, b.o),
                 R_setVar(ref, s, w, "parent"))

(* x[i] <- v: load the vector, write the element, store the vector. *)
LoadForUpdate(s, ldEnv, singleUse) ==
    /\ idle /\ kind # "base" /\ ~ref["local"][s].locked
    /\ ldEnv = "parent" => compiled /\ ~ref["local"][s].bound
    /\ ~singleUse => compiled
    /\ loads("update", s,
             CASE tier = "interpreter" -> ldvar_for_update_(start, s)
               [] tier = "interpreterCached" -> ldvar_for_update_cache_(start, s)
               [] OTHER -> LdVarForUpdate(start, s, ldEnv, singleUse),
             R_force(R_load(s, "local")), "update")

Element == 7
written(m, o) == [m EXCEPT !.heap[o].w.v = Element]
subassign11Impl(m, o) ==
    LET d == IF MAYBE_SHARED(m, o) THEN shallowDuplicate(m, o) ELSE [m |-> m, o |-> o]
    IN [written(d.m, d.o) EXCEPT !.heap[d.o].named = 0, !.reg = d.o]
Subassign1_1D(m, o) ==
    LET d == cloneIfShared([m |-> m, o |-> o])
    IN [written(d.m, d.o) EXCEPT !.reg = d.o]
Update(fast) ==
    /\ pc = "update" /\ ready /\ heap[reg].w.t \in scalarTypes /\ regWant.t \in scalarTypes
    /\ fast => compiled
    /\ becomes(IF fast THEN Subassign1_1D(M, reg) ELSE subassign11Impl(M, reg))
    /\ regWant' = [regWant EXCEPT !.v = Element]
    /\ pc' = "updated"
    /\ unmoved /\ UNCHANGED <<ref, last, steps>>
NoVector ==
    /\ pc = "update" /\ ready /\ heap[reg].w.t \notin scalarTypes
    /\ becomes(start) /\ pc' = "idle" /\ regWant' = Done
    /\ unmoved /\ UNCHANGED <<ref, last, steps>>
StoreUpdated == pc = "updated" /\ storeLocal("store", last.s, boxed(M, reg), M)
-----------------------------------------------------------------------------
(* Other code (promises, callees, finalizers) has its own way to the same     *)
(* environments, but not to a stub: it assigns, gives a value a second name,  *)
(* removes, locks, makes a binding active, and seals the environment.         *)
otherCode == pc # "updated" /\ steps < stepBound /\ agree
elsewhere(m, st) ==
    /\ becomes(m) /\ ref' = st
    /\ counted /\ UNCHANGED <<tier, kind, pc, regWant, last>>
reaches(e) == e = "local" => tier # "stub"

Assign(e, s, w) ==
    LET b == new(M, w, 1)
        r == R_defineVar(ref, sealed, s, w, e)
    IN /\ otherCode /\ reaches(e) /\ ~r.err
       /\ elsewhere(define(b.m, s, b.o, e), r.st) /\ UNCHANGED sealed
Alias(s, t) ==
    LET c == env["local"][s]
        r == R_defineVar(ref, sealed, t, ref["local"][s].val, "local")
    IN /\ otherCode /\ tier # "stub" /\ s # t /\ ~r.err
       /\ c.bound /\ ~c.active /\ c.val # missingArg
       /\ elsewhere(define(INCREMENT_NAMED(M, c.val), t, c.val, "local"), r.st)
       /\ UNCHANGED sealed
Remove(s) ==
    /\ otherCode /\ tier # "stub" /\ ref["local"][s].bound /\ ~sealed
    /\ elsewhere(remove(M, s), [ref EXCEPT !["local"][s] = noCell(R_MissingArg)])
    /\ UNCHANGED sealed
Lock(e, s) ==
    /\ otherCode /\ ~updating /\ reaches(e) /\ ref[e][s].bound
    /\ elsewhere([M EXCEPT !.env[e][s].locked = TRUE], [ref EXCEPT ![e][s].locked = TRUE])
    /\ UNCHANGED sealed
MakeActive(e, s) ==
    LET b == new(M, Closure, 2)
    IN /\ otherCode /\ ~updating /\ reaches(e) /\ ~ref[e][s].bound /\ ~sealed
       /\ elsewhere([b.m EXCEPT !.env[e][s] = [cell(b.o, 0) EXCEPT !.active = TRUE]],
                    [ref EXCEPT ![e][s] = [cell(Closure, 0) EXCEPT !.active = TRUE]])
       /\ UNCHANGED sealed
Seal ==
    /\ otherCode /\ ~updating /\ tier # "stub" /\ kind = "frame" /\ ~sealed
    /\ sealed' = TRUE /\ elsewhere(M, ref)

(* The interpreter clears the cache of a loop, native code all caches when   *)
(* a context is restarted, and the caches of the environment before it calls *)
(* remove itself.                                                            *)
cleared == [s \in Symbols |-> 0]
clear_binding_cache_ ==
    /\ otherCode /\ tier \in {"interpreterCached", "cached"}
    /\ elsewhere([M EXCEPT !.cache = cleared], ref) /\ UNCHANGED sealed
CallRemove(s) ==
    /\ otherCode /\ tier = "cached" /\ ref["local"][s].bound /\ ~sealed
    /\ elsewhere(remove([M EXCEPT !.cache = cleared], s),
                 [ref EXCEPT !["local"][s] = noCell(R_MissingArg)])
    /\ UNCHANGED sealed

(* Deoptimization of code with a stub continues in the interpreter. *)
Materialize ==
    /\ ready /\ idle /\ tier = "stub"
    /\ becomes(materialize(start)) /\ tier' \in {"interpreter", "interpreterCached"}
    /\ pc' = "idle" /\ regWant' = Done /\ counted
    /\ UNCHANGED <<kind, sealed, ref, last>>

Stop == (~agree \/ (steps = stepBound /\ ~updating)) /\ UNCHANGED vars

Loads(s) == Load(s) \/ LoadNoForce(s) \/ LoadSuper(s) \/ LoadFun(s) \/ AskMissing(s)
Stores(s, w) == Store(s, w, 0) \/ StoreUnboxed(s, w)
Updates(s) ==
    \E ldEnv \in {"local", "parent"}, singleUse \in BOOLEAN : LoadForUpdate(s, ldEnv, singleUse)
Others(s) ==
    \/ \E e \in {"local", "parent"} :
          \/ \E w \in Assigned : Assign(e, s, w)
          \/ Lock(e, s)
          \/ MakeActive(e, s)
    \/ Remove(s) \/ CallRemove(s)
Next ==
    \/ Loads(Arg) \/ Updates(Arg) \/ Others(Arg)
    \/ \E w \in Stored : Stores(Arg, w) \/ StoreSuper(Arg, w)
    \/ \E w \in Stored, unboxed \in BOOLEAN : StoreArg(w, unboxed)
    \/ \E s \in Symbols \ {Arg} :
          \/ Load(s) \/ Alias(s, Arg) \/ Alias(Arg, s) \/ Updates(s)
          \/ \E w \in Assigned : Stores(s, w)
    \/ \E s \in Symbols, w \in Assigned : Store(s, w, 2)
    \/ \E s \in Symbols : StoreLoaded(s)
    \/ \E fast \in BOOLEAN : Update(fast)
    \/ NoVector \/ StoreUpdated
    \/ Seal \/ clear_binding_cache_ \/ Materialize \/ Stop
Spec == Init /\ [][Next]_vars
-----------------------------------------------------------------------------
(* Every object is one of the heap, cached entries are ones of the code, and *)
(* the local variables are those of an environment of the tier.              *)
TypeOK ==
    /\ \A e \in Envs, s \in Symbols :
         env[e][s].val \in Objects /\ env[e][s].miss \in 0 .. 2
    /\ \A o \in Objects : heap[o].named \in 0 .. 2
    /\ cache \in [Symbols -> Entries]
    /\ reg \in Objects
    /\ pc \in {"idle", "loaded", "update", "updated"}
    /\ (\E s \in Symbols : cache[s] # 0) => tier \in {"interpreterCached", "cached"}

(* Whatever other code did to the bindings, a load in any tier gives the      *)
(* value (or the error) GNU R gives: the cache of cells never answers for a   *)
(* binding that was removed, a stub answers as the environment would, and so  *)
(* do missing() and the search for a function.                                *)
LoadsAgree == last.op \in {"load", "super", "fun", "missing", "update"} => last.known

holders(o) == {b \in Envs \X Symbols : env[b[1]][b[2]].bound /\ env[b[1]][b[2]].val = o}
namedCounts ==
    \A o \in Objects \ {missingArg} :
        /\ Cardinality(holders(o)) > 1 => heap[o].named = 2
        /\ o = reg /\ pc = "loaded" /\ holders(o) # {} => heap[o].named > 0

(* After every store, and after x[i] <- v, each variable of each environment *)
(* has its value of GNU R, with an error exactly where GNU R raises one: a   *)
(* scalar overwritten in place was referred to by this variable only, for    *)
(* NAMED is never too small.  An object two variables hold, or one and the   *)
(* code, is marked so that no update writes into it (or, held by the code,   *)
(* is at least named).                                                       *)
StoresAgree ==
    /\ last.op \in {"store", "starg", "superStore"} => last.known
    /\ updating \/ last.known \/ bindingsAgree
    /\ last.known \/ namedCounts

(* An argument counts as missing exactly as long as it does in GNU R: from   *)
(* the cell or stub made for the call, through the evaluation of its default *)
(* and the materialization of the stub, to the first assignment.             *)
MissingAgrees == updating \/ last.known \/ missingAgrees

=============================================================================
