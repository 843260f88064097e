-------------------------------- MODULE Jit --------------------------------
(***************************************************************************)
(* Calls of one closure: dispatch, recompilation, native call sites and     *)
(* their target cache, deoptimization (interpreter/interp.{h,cpp}, api.cpp, *)
(* compiler/native/builtins.cpp).                                           *)
(*                                                                         *)
(* A Function is an object of its own, since activations and the target     *)
(* cache keep a version alive that has left the dispatch table: heap holds  *)
(* the baseline and every version compiled so far, and table the numbers of *)
(* the optimized versions in the order of the dispatch table.               *)
(***************************************************************************)
EXTENDS CallContext, Versions

CONSTANTS
    Calls,               \* calls made by the interpreter
    NativeCalls,         \* calls made by the native call site
    available,           \* the context that site provides statically
    formalNargs,         \* the closure: number of formals,
    dotsPosition,        \*   position of its `...` (MAX_MISSING: has none),
    hasDefaultArgs,      \*   whether some formal has a default
    PIR_WARMUP, DEOPT_ABANDON, SpecializationLevel,
    RECHECK,             \* native calls before a look at the heuristic (97)
    MIN_INVOCATIONS,     \* invocations before the timer counts (3)
    UserFlags,           \* flags that rirMarkFunction, OSR, profiler change
    BackendEvaluates,    \* whether the backend may run R code (printing)
    MaxVersions,         \* bound: compilations per behaviour
    MaxDepth             \* bound: nested activations

ASSUME JitAssumption ==
    /\ available \in Context /\ Includes(available, minimalContext)
    /\ {PIR_WARMUP, DEOPT_ABANDON, MaxVersions, MaxDepth, RECHECK,
        MIN_INVOCATIONS} \subseteq Nat
    /\ BackendEvaluates \in BOOLEAN /\ hasDefaultArgs \in BOOLEAN
    /\ UserFlags \subseteq Flag \ {"Deopt"}
    /\ Calls \cup NativeCalls \subseteq AnyCall
    /\ formalNargs \in 0 .. MAX_MISSING /\ dotsPosition \in 0 .. MAX_MISSING

VARIABLES
    heap, table,
    frames,                   \* activations, the last one is running
    cache,                    \* target and missing assumptions of the site
    recheck,
    deoptimizationStartedAt   \* position of the deoptimizing frame, 0 is null

vars == <<heap, table, frames, cache, recheck, deoptimizationStartedAt>>

BASELINE == 1
SENTINEL == 0                 \* the deoptSentinel of invalidated caches

Function == [context : Context, flags : SUBSET Flag,
             pendingCompilation : BOOLEAN, deoptCount : 0 .. UINT_MAX,
             invocationCount : 0 .. UINT_MAX, invoked : BOOLEAN]

NewFunction(c, fs, pending) ==
    [context |-> c, flags |-> fs, pendingCompilation |-> pending,
     deoptCount |-> 0, invocationCount |-> 0, invoked |-> FALSE]

Entry(f) == [context |-> f.context, flags |-> f.flags \cap {"Deopt"},
             pendingCompilation |-> f.pendingCompilation,
             deoptCount |-> f.deoptCount]
Entries(h, t) == [i \in DOMAIN t |-> Entry(h[t[i]])]

infer(given, call) ==
    inferCurrentContext(given, call, formalNargs, dotsPosition)

\* What inferAvailableAssumptions (compiler/pir/instruction.cpp) establishes of
\* a static call site: it matched the arguments with the formals, and knows of
\* its calls nothing that is not so.
ASSUME SiteAssumption ==
    \A c \in NativeCalls :
        /\ Len(c.args) + available.missing = formalNargs
        /\ smaller(infer(available, c), available)

mutantDispatch(h, t, given) ==
    LET i == SelectInSeq(Entries(h, t), LAMBDA e : smaller(given, e.context))
    IN  IF i = 0 THEN BASELINE ELSE t[i]

\* DispatchTable::dispatch, and the disabledFunc it reports.
dispatch(h, t, given) ==
    LET i == dispatchIndex(Entries(h, t), given, TRUE)
    IN  IF i = 0 THEN BASELINE ELSE t[i]

disabledFun(given) ==
    LET i == disabledFuncIndex(Entries(heap, table), given, TRUE)
    IN  IF i = 0 THEN BASELINE ELSE table[i]

-----------------------------------------------------------------------------

\* Invocation counters of a Function; invoked says that its timer runs.
registerInvocation(f) ==
    [f EXCEPT !.invoked = TRUE,
              !.invocationCount = IF @ < UINT_MAX THEN @ + 1 ELSE @]
unregisterInvocation(f) ==
    [f EXCEPT !.invoked = FALSE,
              !.invocationCount = IF @ > 0 THEN @ - 1 ELSE @]
registerEndInvocation(f) == [f EXCEPT !.invoked = FALSE]

\* timeUp: invocationTime() exceeds the limit.
RecompileHeuristic(f, isOptimized, deoptCount, timeUp) ==
    \/ "MarkOpt" \in f.flags
    \/ /\ "NotOptimizable" \notin f.flags
       /\ deoptCount < DEOPT_ABANDON
       /\ \/ f.invocationCount >= MIN_INVOCATIONS /\ timeUp
          \/ ~isOptimized /\ PIR_WARMUP \in {0, f.invocationCount}

RecompileCondition(f, isOptimized, given) ==
    \/ f.flags \cap {"MarkOpt", "Reoptimize"} # {}
    \/ ~isOptimized
    \/ /\ smaller(given, f.context)
       /\ isImproving(given, f.context, dotsPosition < MAX_MISSING,
                      hasDefaultArgs) > Len(table) + 1

isDeoptimizing == deoptimizationStartedAt \in 1 .. Len(frames)

\* A call may start: the running activation is not the compiler, unless the
\* compiler evaluates, and the bound on the depth is not reached.
MayCall ==
    /\ Len(frames) < MaxDepth
    /\ frames # <<>> /\ Last(frames).kind = "compile" => BackendEvaluates

Frame(kind, n, given, patch) ==
    [kind |-> kind, fun |-> n, native |-> kind = "run" /\ n # BASELINE,
     given |-> given, patch |-> patch, deoptimizing |-> FALSE]

Push(frame) == frames' = Append(frames, frame)

mutantCompile(h, c) ==
    LET new == NewFunction(c, inheritFlags(h[BASELINE].flags), TRUE)
        old == SelectInSeq(Entries(h, table), LAMBDA e : e.context = c)
    IN  /\ heap' = Append(h, new)
        /\ table' = IF old # 0 THEN [table EXCEPT ![old] = Len(heap')]
                    ELSE <<Len(heap')>> \o table

\* pirCompile: number Len(h) + 1 becomes a version for c and is inserted in
\* the dispatch table; the entries are told apart by their contexts.
Compile(h, c) ==
    LET n == Len(h) + 1
        new == NewFunction(c, inheritFlags(h[BASELINE].flags), TRUE)
    IN  \E es \in insert(Entries(h, table), Entry(new)) :
          LET at == CHOOSE i \in DOMAIN es : es[i].context = c
          IN  /\ heap' = Append(h, [new EXCEPT !.deoptCount = es[at].deoptCount])
              /\ table' = [i \in DOMAIN es |->
                             IF i = at THEN n
                             ELSE CHOOSE m \in Range(table) :
                                     h[m].context = es[i].context]

\* The CLOSXP case of doCall, from a heap h.
DoCall(h, given, patch) ==
    LET n == dispatch(h, table, given)
        h1 == [h EXCEPT ![n] = registerInvocation(@)]
        unmarked == [h1 EXCEPT ![n].flags = @ \ {"MarkOpt"}]
        f == h1[n]
        wanted == clearDisabledAssumptions(f.flags, SpecializationLevel, given)
        context == clearDisabledAssumptions(h[BASELINE].flags,
                                            SpecializationLevel, wanted)
        recompile(timeUp) ==
            /\ ~isDeoptimizing
            /\ RecompileHeuristic(f, n # BASELINE,
                                  h[disabledFun(given)].deoptCount, timeUp)
            /\ RecompileCondition(f, n # BASELINE, wanted)
            /\ Includes(wanted, minimalContext)
    IN  /\ deoptimizationStartedAt' =
             IF isDeoptimizing THEN deoptimizationStartedAt ELSE 0
        /\ \E recompiles \in {recompile(TRUE), recompile(FALSE)} :
             \/ /\ ~recompiles
                /\ heap' = h1
                /\ Push(Frame("run", n, given, patch))
                /\ UNCHANGED table
             \/ \* compilation fails, for good if the body is huge
                /\ recompiles
                /\ \E fs \in {{}, {"NotOptimizable"}} :
                     heap' = [unmarked EXCEPT ![BASELINE].flags = @ \cup fs]
                /\ Push(Frame("run", n, given, patch))
                /\ UNCHANGED table
             \/ /\ recompiles
                /\ Len(heap) <= MaxVersions
                /\ Includes(context, minimalContext)
                /\ StaticallyArgmatched \in context.flags
                     \/ dotsPosition = MAX_MISSING
                /\ Compile(unmarked, context)
                /\ Push(Frame("compile", Len(heap) + 1, given, patch))

-----------------------------------------------------------------------------
Init ==
    /\ heap = <<NewFunction(EmptyContext, {}, FALSE)>>
    /\ table = <<>> /\ frames = <<>>
    /\ cache = [target |-> BASELINE, missing |-> Minus(EmptyContext, available)]
    /\ recheck = 0
    /\ deoptimizationStartedAt = 0

\* A call from the interpreter.
Call(c) ==
    /\ MayCall
    /\ DoCall(heap, infer(EmptyContext, c), FALSE)
    /\ UNCHANGED <<cache, recheck>>

\* nativeCallTrampolineImpl: does the cached target accept call c?
accepts(c) ==
    LET m == cache.missing
        nargs == IF cache.target = SENTINEL THEN 0 ELSE formalNargs
        context == IF cache.target = SENTINEL THEN EmptyContext
                   ELSE heap[cache.target].context
    IN  \/ m = EmptyContext
        \/ onlyTypesMissing(m) /\ missingProvided(m, c)
        \/ smaller(inferCurrentContext(available, c, nargs, dotsPosition), context)

hasNativeCode(n) ==
    /\ n \notin {SENTINEL, BASELINE}
    /\ ~heap[n].pendingCompilation

\* The call cannot enter the cached target.
fails(c) ==
    accepts(c) /\ hasNativeCode(cache.target) => disabled(heap[cache.target])

\* Every RECHECK-th call looks at the heuristic, and the count restarts only
\* once that, or a failing call, asks for doCall.
recompileTarget(c) ==
    LET f == registerInvocation(heap[cache.target])
    IN  \E timeUp \in BOOLEAN :
          /\ recheck + 1 = RECHECK
          /\ RecompileHeuristic(f, TRUE, f.deoptCount, timeUp)
          /\ RecompileCondition(f, TRUE, infer(available, c))

\* recheck is not bounded in the code; past RECHECK its value is irrelevant.
nextRecheck == IF recheck > RECHECK THEN recheck ELSE recheck + 1

NativeCall(c) ==
    /\ MayCall
    /\ ~fails(c)
    /\ heap' = [heap EXCEPT ![cache.target] = registerInvocation(@)]
    /\ recheck' \in {nextRecheck} \cup (IF recheck + 1 = RECHECK THEN {0} ELSE {})
    /\ Push(Frame("run", cache.target, infer(available, c), FALSE))
    /\ UNCHANGED <<table, cache, deoptimizationStartedAt>>

\* The target is unsuitable: doCall, and patch the cache when it returns.
NativeCallSlow(c) ==
    /\ MayCall
    /\ ~fails(c) => recompileTarget(c)
    /\ LET n == cache.target
           h == IF n = SENTINEL THEN heap
                ELSE [heap EXCEPT ![n] =
                        unregisterInvocation(registerInvocation(@))]
       IN  DoCall(h, infer(available, c), TRUE)
    /\ recheck' = 0
    /\ UNCHANGED cache

Top == Last(frames)
SetTop(frame) == frames' = [frames EXCEPT ![Len(frames)] = frame]

mutantFinishCompile ==
    /\ frames # <<>> /\ Top.kind = "compile"
    /\ heap' = [heap EXCEPT ![Top.fun].pendingCompilation = FALSE]
    /\ SetTop(Frame("run", BASELINE, Top.given, Top.patch))
    /\ UNCHANGED <<table, cache, recheck, deoptimizationStartedAt>>

\* The backend is done: its finalizer fills the code handle, doCall
\* dispatches again and runs what it finds.
FinishCompile ==
    /\ frames # <<>> /\ Top.kind = "compile"
    /\ heap' = [heap EXCEPT ![Top.fun].pendingCompilation = FALSE]
    /\ SetTop(Frame("run", dispatch(heap', table, Top.given), Top.given, Top.patch))
    /\ UNCHANGED <<table, cache, recheck, deoptimizationStartedAt>>

mutantDeopt ==
    /\ frames # <<>> /\ Top.native
    /\ heap' = [heap EXCEPT ![Top.fun] = registerDeopt(@)]
    /\ SetTop([Top EXCEPT !.native = FALSE, !.deoptimizing = TRUE])
    /\ deoptimizationStartedAt' = Len(frames)
    /\ UNCHANGED <<table, cache, recheck>>

\* The running version deoptimizes: it is disabled, target caches forget it,
\* and the activation goes on in the interpreter.
Deopt ==
    /\ frames # <<>> /\ Top.native
    /\ heap' = [heap EXCEPT ![Top.fun] = registerDeopt(@)]
    /\ cache' = IF cache.target = Top.fun
                THEN [cache EXCEPT !.target = SENTINEL] ELSE cache
    /\ SetTop([Top EXCEPT !.native = FALSE, !.deoptimizing = TRUE])
    /\ deoptimizationStartedAt' = Len(frames)
    /\ UNCHANGED <<table, recheck>>

Return ==
    /\ frames # <<>> /\ Top.kind = "run"
    /\ heap' = [heap EXCEPT ![Top.fun] = registerEndInvocation(@)]
    /\ frames' = Front(frames)
    /\ cache' = IF ~Top.patch THEN cache
                ELSE LET n == dispatch(heap, table, Top.given)
                     IN  [target |-> n,
                          missing |-> Minus(heap[n].context, available)]
    /\ deoptimizationStartedAt' =
         IF Top.deoptimizing THEN 0 ELSE deoptimizationStartedAt
    /\ UNCHANGED <<table, recheck>>

\* An R error unwinds to top level with a longjmp.
Error ==
    /\ frames # <<>> /\ Top.kind = "run"
    /\ frames' = <<>>
    /\ UNCHANGED <<heap, table, cache, recheck, deoptimizationStartedAt>>

\* rirMarkFunction sets and resets flags of any version; osr marks the
\* baseline, the profiler asks for reoptimization of a version.
MarkFunction(n, f) ==
    /\ frames = <<>>
    /\ \E fs \in {heap[n].flags \cup {f}, heap[n].flags \ {f}} :
         heap' = [heap EXCEPT ![n].flags =
                    IF f = "MarkOpt" /\ f \in fs THEN fs \ {"NotOptimizable"}
                    ELSE fs]
    /\ UNCHANGED <<table, frames, cache, recheck, deoptimizationStartedAt>>

Next ==
    \/ \E c \in Calls : Call(c)
    \/ \E c \in NativeCalls : NativeCall(c) \/ NativeCallSlow(c)
    \/ FinishCompile \/ Deopt \/ Return \/ Error
    \/ \E n \in {BASELINE} \cup Range(table), f \in UserFlags : MarkFunction(n, f)

Spec == Init /\ [][Next]_vars

-----------------------------------------------------------------------------
TypeOK ==
    /\ heap \in Seq(Function)
    /\ Len(heap) \in 1 .. MaxVersions + 1
    /\ table \in Seq(2 .. Len(heap))
    /\ cache \in [target : 0 .. Len(heap), missing : Context]
    /\ recheck \in 0 .. RECHECK + 1
    /\ deoptimizationStartedAt \in 0 .. MaxDepth
    /\ frames \in Seq([kind : {"run", "compile"}, fun : DOMAIN heap,
                       native : BOOLEAN, given : Context, patch : BOOLEAN,
                       deoptimizing : BOOLEAN])

\* Optimized code runs only for calls that satisfy every assumption it was
\* compiled under, whether dispatch or the target cache of a native call site
\* led to it (the assert of lower_function_llvm.cpp:3434 for the first target).
AssumptionsHold ==
    \A k \in DOMAIN frames :
        frames[k].native => smaller(frames[k].given, heap[frames[k].fun].context)

\* Once a version is deoptimized no call site still targets it
\* (builtins.cpp:944), recompilation and re-dispatch notwithstanding.
CachesInvalidated ==
    cache.target # SENTINEL => ~disabled(heap[cache.target])

\* No call enters a version that has been deoptimized, even one that stays
\* in the dispatch table and is the best match.
NeverEntersDisabled ==
    [][\A k \in DOMAIN frames' :
          frames'[k].native /\ ~(k \in DOMAIN frames /\ frames[k].native) =>
              ~disabled(heap'[frames'[k].fun])]_vars

\* A call that had a version compiled runs code at least as specialized.
RecompilationUsed ==
    [][FinishCompile =>
          smaller(heap'[frames'[Len(frames)].fun].context,
                  heap[Top.fun].context)]_vars

\* While specialization to argument types is off for the closure, no version
\* that assumes any is compiled, whichever version the call was dispatched to.
SpecializationDisabled ==
    [][Len(heap') > Len(heap) /\
       "DisableArgumentTypeSpecialization" \in heap[BASELINE].flags =>
           Last(heap').context.typeFlags = {}]_vars

=============================================================================
