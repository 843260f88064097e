----------------------------- MODULE Deoptless -----------------------------
(***************************************************************************)
(* Deoptless deoptimization (osr.cpp, deoptImpl of native/builtins.cpp):    *)
(* instead of falling back to the interpreter, deoptimizing code goes on in *)
(* a continuation compiled for the context of the deopt, which is kept in a *)
(* GenericDispatchTable keyed by DeoptContext.                              *)
(*                                                                         *)
(* A DeoptContext is [pc, stack, env, leaked, reason, trigger]: stack is a  *)
(* sequence of types and env one of [name, type, missing].  Pointers (pc,   *)
(* names, triggers) are numbers, 0 for null.  A PirType is the set of the   *)
(* bits it holds.                                                           *)
(***************************************************************************)
EXTENDS Lists

CONSTANTS Keys,       \* deopt contexts that can arise
          Closures,   \* number of closures with an optimized version
          CAPACITY,   \* of a DeoptlessDispatchTable
          MaxCodes,   \* bound: continuations compiled per behaviour
          MaxDepth    \* bound: nested activations

\* Of code that was not compiled for a deopt.
NoContext == [pc |-> 0]

ASSUME DeoptlessAssumption ==
    /\ Closures \in Nat /\ CAPACITY \in Nat \ {0, 1}
    /\ MaxCodes \in Nat /\ MaxDepth \in Nat
ASSUME KeysAssumption ==
    \A k \in Keys : /\ k # NoContext
                    /\ k.stack \in Seq(SUBSET Nat)
                    /\ k.env \in Seq([name : Nat, type : SUBSET Nat, missing : BOOLEAN])

\* enum DeoptReason::Reason
Typecheck == 1
CallTarget == 3
DeadBranchReached == 6

isA(s, t) == s \subseteq t
hash(t) == FoldSet(LAMBDA b, n : n + 2 ^ b, 0, t)

\* DeoptContext::operator==.  It compares reason_ with itself and leaves the
\* call target out.
Equal(a, b) ==
    /\ <<a.pc, a.stack, a.env, a.leaked>> = <<b.pc, b.stack, b.env, b.leaked>>
    /\ LET trigger(k, r, none) == IF k.reason = r THEN k.trigger ELSE none
       IN  /\ trigger(a, DeadBranchReached, 0) = trigger(b, DeadBranchReached, 0)
           /\ trigger(a, Typecheck, {}) = trigger(b, Typecheck, {})

mutantSmaller(a, b) ==
    /\ a.pc = b.pc /\ a.leaked = b.leaked /\ a.reason = b.reason
    /\ Len(a.stack) = Len(b.stack) /\ Len(a.env) = Len(b.env)
    /\ \A i \in DOMAIN a.env :
         /\ a.env[i].name = b.env[i].name /\ a.env[i].missing = b.env[i].missing
         /\ isA(a.env[i].type, b.env[i].type)

\* "b can be called when a is the current context"
smaller(a, b) ==
    /\ a.pc = b.pc /\ a.leaked = b.leaked /\ a.reason = b.reason
    /\ Len(a.stack) = Len(b.stack) /\ Len(a.env) = Len(b.env)
    /\ a.reason = Typecheck => isA(a.trigger, b.trigger)
    /\ a.reason = DeadBranchReached => a.trigger # 0 \/ b.trigger = 0
    /\ a.reason = CallTarget => a.trigger = b.trigger
    /\ \A i \in DOMAIN a.env :
         /\ a.env[i].name = b.env[i].name /\ a.env[i].missing = b.env[i].missing
         /\ isA(a.env[i].type, b.env[i].type)
    /\ \A i \in DOMAIN a.stack : isA(a.stack[i], b.stack[i])

\* One comparison of the linearization: less, greater, or go on.
cmp(lt, gt) == IF lt THEN "less" ELSE IF gt THEN "greater" ELSE "next"

linearization(a, b) ==
    LET bool(x) == IF x THEN 1 ELSE 0
        before(x, y) == \/ x.pc < y.pc \/ Len(x.stack) < Len(y.stack)
                        \/ Len(x.env) < Len(y.env)
                        \/ bool(x.leaked) < bool(y.leaked)
        value(k) == IF k.reason = Typecheck THEN hash(k.trigger) ELSE k.trigger
        bound(x, y) == \/ x.name < y.name \/ bool(x.missing) < bool(y.missing)
                       \/ hash(x.type) < hash(y.type)
        layout == cmp(before(a, b), before(b, a))
    IN  IF layout # "next" THEN <<layout>>
        ELSE <<cmp(a.reason < b.reason, a.reason > b.reason)>> \o
             (IF a.reason = b.reason
              THEN <<cmp(value(a) < value(b), value(a) > value(b))>> ELSE <<>>) \o
             [i \in DOMAIN a.env |->
                 cmp(bound(a.env[i], b.env[i]), bound(b.env[i], a.env[i]))] \o
             [i \in DOMAIN a.stack |->
                 cmp(hash(a.stack[i]) < hash(b.stack[i]),
                     hash(a.stack[i]) > hash(b.stack[i]))]

\* DeoptContext::operator<
Less(a, b) ==
    LET steps == linearization(a, b)
        i == SelectInSeq(steps, LAMBDA s : s # "next")
    IN  /\ ~Equal(a, b)
        /\ \/ smaller(a, b)
           \/ ~smaller(b, a) /\ i # 0 /\ steps[i] = "less"

-----------------------------------------------------------------------------
VARIABLES codes,               \* code objects, one per closure first
          frames,              \* activations, the last one is running
          deoptlessRecursion   \* a closure, or 0

vars == <<codes, frames, deoptlessRecursion>>

\* The loop of GenericDispatchTable::insert leaves out the first entry.
scanStop(t, k) == SelectLastInSeq(t, LAMBDA e : Equal(e.key, k) \/ ~Less(k, e.key))
place(t, k, code) ==
    IF scanStop(t, k) > 1 /\ Equal(t[scanStop(t, k)].key, k)
    THEN [t EXCEPT ![scanStop(t, k)].code = code]
    ELSE InsertAt(t, IF scanStop(t, k) > 1 THEN scanStop(t, k) + 1 ELSE 1,
                  [key |-> k, code |-> code])

\* GenericDispatchTable::insert.  A full table loses a random entry, but not its
\* last one, and the search starts over.  The set of possible results.
insert(t, k, code) ==
    IF Len(t) = CAPACITY /\ Len(place(t, k, code)) > CAPACITY
    THEN {place(RemoveAt(t, pos), k, code) : pos \in 1 .. CAPACITY - 1}
    ELSE {place(t, k, code)}

mutantDispatch(t, k) == SelectInSeq(t, LAMBDA e : smaller(k, e.key))

\* GenericDispatchTable::dispatch: index of the entry, or 0.
dispatch(t, k) ==
    SelectInSeq(t, LAMBDA e : smaller(k, e.key) /\ ~codes[e.code].disabled)

NewCode(cls, k) == [cls |-> cls, compiledFor |-> k, disabled |-> FALSE, table |-> <<>>]

\* env and stack of a deopt, which its continuation is compiled for.
Frame(c, k) == [code |-> c, native |-> TRUE, deoptContext |-> k]

Top == Last(frames)

Init ==
    /\ codes = [c \in 1 .. Closures |-> NewCode(c, NoContext)]
    /\ frames = <<>>
    /\ deoptlessRecursion = 0

Call(cls) ==
    /\ Len(frames) < MaxDepth
    /\ ~codes[cls].disabled
    /\ frames' = Append(frames, Frame(cls, NoContext))
    /\ UNCHANGED <<codes, deoptlessRecursion>>

mayGoDeoptless == codes[Top.code].cls # deoptlessRecursion

\* The guard of deoptlessDispatch for a continuation that is not exact.
reuses(t, k) ==
    LET i == dispatch(t, k)
    IN  i # 0 /\ (Equal(t[i].key, k) \/ Len(t) >= CAPACITY \div 2)

\* Run continuation c, on top of the activation that deoptimizes.
Continue(c, k) ==
    /\ frames' = Append(frames, Frame(c, k))
    /\ deoptlessRecursion' = codes[Top.code].cls

DeoptReuse(k) ==
    /\ frames # <<>> /\ Top.native /\ mayGoDeoptless
    /\ reuses(codes[Top.code].table, k)
    /\ LET t == codes[Top.code].table IN Continue(t[dispatch(t, k)].code, k)
    /\ UNCHANGED codes

\* Compile a continuation for k and run it.
Compile(k) ==
    LET t == codes[Top.code].table
        c == Len(codes) + 1
    IN  /\ c <= Closures + MaxCodes
        /\ \E u \in insert(t, k, c) :
             codes' = Append([codes EXCEPT ![Top.code].table = u],
                             NewCode(codes[Top.code].cls, k))
        /\ Continue(c, k)

mutantDeoptCompile(k) ==
    /\ frames # <<>> /\ Top.native /\ mayGoDeoptless
    /\ ~reuses(codes[Top.code].table, k)
    /\ Compile(k)

DeoptCompile(k) ==
    /\ frames # <<>> /\ Top.native /\ mayGoDeoptless
    /\ ~reuses(codes[Top.code].table, k)
    /\ Len(codes[Top.code].table) < CAPACITY
    /\ Compile(k)

\* No continuation: deoptless does not apply (off, several frames, a
\* materialized environment, this closure is in a continuation already), the
\* table is full or compilation fails.  The code is disabled and the activation
\* goes on in the interpreter.
DeoptFull ==
    /\ frames # <<>> /\ Top.native
    /\ codes' = [codes EXCEPT ![Top.code].disabled = TRUE]
    /\ frames' = [frames EXCEPT ![Len(frames)].native = FALSE]
    /\ UNCHANGED deoptlessRecursion

isContinuation(frame) == frame.deoptContext # NoContext

\* How many activations a return ends: a continuation returns for the code
\* that deoptimized into it.
Returned == 1 + CHOOSE n \in 0 .. Len(frames) :
    /\ ~isContinuation(frames[Len(frames) - n])
    /\ \A m \in 0 .. n - 1 : isContinuation(frames[Len(frames) - m])

\* A continuation that ran natively to its end resets deoptlessRecursion; one
\* that deoptimized leaves by a longjmp that skips the reset.
Return ==
    /\ frames # <<>>
    /\ frames' = SubSeq(frames, 1, Len(frames) - Returned)
    /\ deoptlessRecursion' =
         IF isContinuation(Top) /\ Top.native THEN 0 ELSE deoptlessRecursion
    /\ UNCHANGED codes

\* An R error unwinds everything.
Error ==
    /\ frames # <<>> /\ frames' = <<>>
    /\ UNCHANGED <<codes, deoptlessRecursion>>

Next ==
    \/ \E cls \in 1 .. Closures : Call(cls)
    \/ \E k \in Keys : DeoptReuse(k) \/ DeoptCompile(k)
    \/ DeoptFull \/ Return \/ Error

Spec == Init /\ [][Next]_vars

-----------------------------------------------------------------------------
TypeOK ==
    /\ codes \in Seq([cls : 1 .. Closures, compiledFor : Keys \cup {NoContext},
                      disabled : BOOLEAN,
                      table : Seq([key : Keys, code : DOMAIN codes])])
    /\ frames \in Seq([code : DOMAIN codes, native : BOOLEAN,
                       deoptContext : Keys \cup {NoContext}])
    /\ deoptlessRecursion \in 0 .. Closures

\* What a continuation compiled for q takes for granted holds in context k: its
\* code starts at the same pc, over an environment and a stack of these types.
assumes(k, q) ==
    /\ k.pc = q.pc /\ k.leaked = q.leaked
    /\ Len(k.stack) = Len(q.stack) /\ Len(k.env) = Len(q.env)
    /\ \A i \in DOMAIN k.stack : k.stack[i] \subseteq q.stack[i]
    /\ \A i \in DOMAIN k.env :
         /\ k.env[i].name = q.env[i].name /\ k.env[i].missing = q.env[i].missing
         /\ k.env[i].type \subseteq q.env[i].type

\* Code deoptimizing in some context only ever goes on in a continuation of the
\* same closure whose compile-time assumptions on pc, environment and stack the
\* context meets, although insert replaces values under keys that are equal
\* only in part.
ContinuationSound ==
    \A i \in 2 .. Len(frames) : isContinuation(frames[i]) =>
        LET c == codes[frames[i].code] IN
        /\ c.cls = codes[frames[i - 1].code].cls
        /\ assumes(frames[i].deoptContext, c.compiledFor)

\* A deopt never enters a continuation that deoptimized for good before.
NeverContinuesDisabled ==
    [][Len(frames') > Len(frames) /\ isContinuation(Last(frames')) =>
         ~codes'[Last(frames').code].disabled]_vars

\* A table keeps a continuation's key for ever: deoptlessDispatch stops compiling
\* before insert would have to evict.
NeverEvicts ==
    [][\A c \in DOMAIN codes :
         {e.key : e \in Range(codes[c].table)} \subseteq
             {e.key : e \in Range(codes'[c].table)}]_vars

=============================================================================
