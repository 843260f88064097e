---------------------------- MODULE JitInvariant ----------------------------
(***************************************************************************)
(* What holds of the versions of a function, its dispatch table, the call   *)
(* site's cache and the activations in every state: the table stays sorted, *)
(* caches are never stale, no call enters a disabled version, and calls     *)
(* only enter versions whose assumptions they satisfy.                      *)
(***************************************************************************)
EXTENDS JitCalls

\* The provers of a leaf that names none, in the order they are tried.
USE SMTT(10), ZenonT(20), SMTT(90)

-----------------------------------------------------------------------------
\* The heap FinishCompile leaves.
LEMMA FinishHeap ==
    ASSUME JInv, FinishCompile
    PROVE  /\ HeapOK(heap', table) /\ Len(heap') = Len(heap) /\ Len(heap) \in Nat
           /\ \A n \in 1 .. Len(heap) :
                 /\ heap'[n].context = heap[n].context
                 /\ heap'[n].flags = heap[n].flags
                 /\ n # Top.fun => heap'[n] = heap[n]
           /\ Top.fun \in 1 .. Len(heap) /\ ~heap'[Top.fun].pendingCompilation
           /\ heap'[Top.fun] = [heap[Top.fun] EXCEPT !.pendingCompilation = FALSE]
<1> DEFINE n == Top.fun
           f == [heap[n] EXCEPT !.pendingCompilation = FALSE]
<1>1. /\ n \in 1 .. Len(heap) /\ heap[n] \in Function /\ Len(heap) \in Nat
      /\ HeapOK(heap, table) /\ DOMAIN heap = 1 .. Len(heap)
  BY TopActivation, HeapFunctions DEF JInv, FinishCompile, Top
<1>2. f \in Function /\ f.context = heap[n].context /\ f.flags = heap[n].flags
      /\ f.pendingCompilation = FALSE
  BY <1>1, FunctionUpdates
<1>3. heap' = [heap EXCEPT ![n] = f]
  BY DEF FinishCompile
<1> HIDE DEF f, n
<1>4. f.flags \cap inherited \subseteq UserFlags /\ (n = BASELINE => ~disabled(f))
  BY <1>1, <1>2 DEF HeapOK, disabled
<1>5. /\ HeapOK(heap', table) /\ Len(heap') = Len(heap)
      /\ \A m \in 1 .. Len(heap) : heap'[m] = IF m = n THEN f ELSE heap[m]
  BY <1>1, <1>2, <1>3, <1>4, OneFunction
<1>6. QED
  BY <1>1, <1>2, <1>5, Zenon DEF n, f

LEMMA FinishInv ==
    ASSUME JInv, FinishCompile
    PROVE  JInv'
<1> DEFINE n == dispatch(heap', table, Top.given)
           fr == Frame("run", n, Top.given, Top.patch)
<1>1. /\ HeapOK(heap', table) /\ Len(heap') = Len(heap) /\ Len(heap) \in Nat
      /\ \A m \in 1 .. Len(heap) : /\ heap'[m].context = heap[m].context
                                   /\ heap'[m].flags = heap[m].flags
  BY FinishHeap
<1>2. n \in 1 .. Len(heap')
  BY <1>1, DispatchSound
<1>3. /\ frames \in Seq(Activation(heap')) /\ frames # <<>>
      /\ frames' = [frames EXCEPT ![Len(frames)] = fr] /\ table' = table
      /\ cache' = cache /\ recheck' = recheck
      /\ deoptimizationStartedAt' = deoptimizationStartedAt
  <2>1. frames \in Seq(Activation(heap)) /\ Len(heap) <= Len(heap')
    BY <1>1 DEF JInv
  <2>2. frames \in Seq(Activation(heap'))
    BY <1>1, <2>1, ActivationsGrow
  <2>3. QED
    BY <2>2, Zenon DEF FinishCompile, SetTop
<1>4. Top.given \in Context /\ Top.patch \in BOOLEAN
  BY <1>3, TopActivation DEF Top
<1> HIDE DEF n
<1>5. fr \in Activation(heap')
  BY <1>2, <1>4, NewActivation
<1> HIDE DEF fr
<1>6. frames' \in Seq(Activation(heap')) /\ Len(frames') = Len(frames)
  BY <1>3, <1>5, TopReplaced
<1>7. CacheOK(heap', cache')
  <2>1. /\ cache \in [target : 0 .. Len(heap), missing : Context]
        /\ cache.target \in 0 .. Len(heap)
    BY DEF JInv, CacheOK
  <2>2. CASE cache.target = SENTINEL
    BY <1>1, <1>3, <2>1, <2>2 DEF CacheOK
  <2>3. CASE cache.target # SENTINEL
    <3>1. cache.target \in 1 .. Len(heap)
      BY <1>1, <2>1, <2>3 DEF SENTINEL
    <3>2. /\ ~disabled(heap[cache.target])
          /\ cache.missing = Minus(heap[cache.target].context, available)
      BY <2>3 DEF JInv, CacheOK
    <3>3. ~disabled(heap'[cache.target])
      BY <1>1, <3>1, <3>2 DEF disabled
    <3>4. QED
      BY <1>1, <1>3, <2>1, <3>1, <3>2, <3>3 DEF CacheOK
  <2>4. QED
    BY <2>2, <2>3
<1>8. QED
  BY <1>1, <1>3, <1>6, <1>7 DEF JInv

\* The heap and the cache Deopt leaves.
LEMMA DeoptHeap ==
    ASSUME JInv, Deopt
    PROVE  /\ HeapOK(heap', table) /\ Len(heap') = Len(heap) /\ Len(heap) \in Nat
           /\ Top.fun \in 2 .. Len(heap)
           /\ heap'[Top.fun] = registerDeopt(heap[Top.fun])
           /\ \A n \in 1 .. Len(heap) :
                 /\ n # Top.fun => heap'[n] = heap[n]
                 /\ heap'[n].context = heap[n].context
                 /\ heap'[n].pendingCompilation = heap[n].pendingCompilation
<1> DEFINE n == Top.fun
           f == registerDeopt(heap[n])
<1>1. /\ n \in 1 .. Len(heap) /\ heap[n] \in Function /\ Len(heap) \in Nat
      /\ HeapOK(heap, table) /\ n # BASELINE
  BY TopActivation, HeapFunctions DEF JInv, Deopt, Top
<1>2. f \in Function /\ f.context = heap[n].context
      /\ f.pendingCompilation = heap[n].pendingCompilation
      /\ f.flags \cap inherited = heap[n].flags \cap inherited
  BY <1>1, FunctionUpdates
<1>3. heap' = [heap EXCEPT ![n] = f]
  BY DEF Deopt
<1> HIDE DEF f, n
<1>4. f.flags \cap inherited \subseteq UserFlags
  BY <1>1, <1>2 DEF HeapOK
<1>5. /\ HeapOK(heap', table) /\ Len(heap') = Len(heap)
      /\ \A m \in 1 .. Len(heap) : heap'[m] = IF m = n THEN f ELSE heap[m]
  <2>1. /\ HeapOK([heap EXCEPT ![n] = f], table)
        /\ Len([heap EXCEPT ![n] = f]) = Len(heap)
        /\ \A m \in 1 .. Len(heap) :
              [heap EXCEPT ![n] = f][m] = IF m = n THEN f ELSE heap[m]
    BY <1>1, <1>2, <1>4, OneFunction
  <2>2. QED
    BY <1>3, <2>1
<1>6. n \in 2 .. Len(heap)
  BY <1>1 DEF BASELINE
<1>7. QED
  BY <1>1, <1>2, <1>5, <1>6, Zenon DEF n, f

LEMMA DeoptActivation ==
    ASSUME NEW h, NEW a \in Activation(h)
    PROVE  LET b == [a EXCEPT !.native = FALSE, !.deoptimizing = TRUE]
           IN  /\ b \in Activation(h) /\ b.native = FALSE /\ b.kind = a.kind
               /\ b.fun = a.fun /\ b.given = a.given
<1> DEFINE b == [a EXCEPT !.native = FALSE, !.deoptimizing = TRUE]
           R == [kind : {"run", "compile"}, fun : 1 .. Len(h), native : BOOLEAN,
                 given : Context, patch : BOOLEAN, deoptimizing : BOOLEAN]
<1>1. a \in R
  BY DEF Activation
<1>2. /\ b \in R /\ b.native = FALSE /\ b.kind = a.kind /\ b.fun = a.fun
      /\ b.given = a.given
  BY <1>1, Zenon
<1> HIDE DEF b
<1>3. b \in Activation(h)
  BY <1>2, Zenon DEF Activation
<1>4. QED
  BY <1>2, <1>3, Zenon DEF b

LEMMA DeoptInv ==
    ASSUME JInv, Deopt
    PROVE  JInv'
<1> DEFINE n == Top.fun
           fr == [Top EXCEPT !.native = FALSE, !.deoptimizing = TRUE]
<1>1. /\ HeapOK(heap', table) /\ Len(heap') = Len(heap) /\ Len(heap) \in Nat
      /\ \A m \in 1 .. Len(heap) : m # n => heap'[m] = heap[m]
  BY DeoptHeap
<1>2. /\ frames \in Seq(Activation(heap')) /\ frames # <<>>
      /\ frames' = [frames EXCEPT ![Len(frames)] = fr] /\ table' = table
      /\ cache' = IF cache.target = n THEN [cache EXCEPT !.target = SENTINEL]
                  ELSE cache
      /\ recheck' = recheck /\ deoptimizationStartedAt' = Len(frames)
  <2>1. frames \in Seq(Activation(heap)) /\ Len(heap) <= Len(heap')
    BY <1>1 DEF JInv
  <2>2. frames \in Seq(Activation(heap'))
    BY <1>1, <2>1, ActivationsGrow
  <2>3. QED
    BY <2>2, Zenon DEF Deopt, SetTop
<1>3. Top \in Activation(heap')
  BY <1>2, TopActivation DEF Top
<1>4. fr \in Activation(heap')
  BY <1>3, DeoptActivation, Zenon
<1> HIDE DEF fr, n
<1>5. frames' \in Seq(Activation(heap')) /\ Len(frames') = Len(frames)
  BY <1>2, <1>4, TopReplaced
<1>6. CacheOK(heap', cache')
  <2>1. /\ cache \in [target : 0 .. Len(heap), missing : Context]
        /\ cache.target \in 0 .. Len(heap)
    BY DEF JInv, CacheOK
  <2>2. CASE cache.target = n
    <3>1. 0 \in 0 .. Len(heap)
      BY <1>1
    <3>2. /\ cache' \in [target : 0 .. Len(heap), missing : Context]
          /\ cache'.target = SENTINEL
      BY <1>2, <2>1, <2>2, <3>1, Zenon DEF SENTINEL
    <3>3. QED
      BY <1>1, <3>2 DEF CacheOK
  <2>3. CASE cache.target # n /\ cache.target = SENTINEL
    BY <1>1, <1>2, <2>1, <2>3 DEF CacheOK
  <2>4. CASE cache.target # n /\ cache.target # SENTINEL
    <3>1. cache.target \in 1 .. Len(heap)
      BY <1>1, <2>1, <2>4 DEF SENTINEL
    <3>2. heap'[cache.target] = heap[cache.target]
      BY <1>1, <2>4, <3>1
    <3>3. QED
      BY <1>1, <1>2, <2>1, <2>4, <3>2 DEF JInv, CacheOK
  <2>5. QED
    BY <2>2, <2>3, <2>4
<1>7. deoptimizationStartedAt' \in 0 .. MaxDepth
  BY <1>2, LenProperties, JitAssumption DEF JInv
<1>8. QED
  BY <1>1, <1>2, <1>5, <1>6, <1>7 DEF JInv

LEMMA ReturnHeap ==
    ASSUME JInv, Return
    PROVE  /\ Kept(heap, heap') /\ HeapOK(heap', table) /\ Grown(heap, heap')
           /\ Len(heap') = Len(heap) /\ Len(heap) \in Nat
<1> DEFINE n == Top.fun
           f == registerEndInvocation(heap[n])
<1>1. /\ n \in 1 .. Len(heap) /\ heap[n] \in Function /\ Len(heap) \in Nat
      /\ HeapOK(heap, table) /\ heap \in Seq(Function)
  BY TopActivation, HeapFunctions DEF JInv, Return, Top, HeapOK
<1>2. heap' = [heap EXCEPT ![n] = f]
  BY DEF Return
<1>3. KeptFunction(heap[n], f)
  BY <1>1, Invocations
<1> HIDE DEF f, n
<1>4. Kept(heap, heap')
  BY <1>1, <1>2, <1>3, KeptUpdate
<1>5. QED
  BY <1>1, <1>4, KeptHeap, KeptGrown DEF Kept

LEMMA ReturnInv ==
    ASSUME JInv, Return
    PROVE  JInv'
<1> DEFINE n == dispatch(heap, table, Top.given)
<1>1. /\ HeapOK(heap', table) /\ Grown(heap, heap') /\ Len(heap') = Len(heap)
      /\ Len(heap) \in Nat /\ HeapOK(heap, table)
  BY ReturnHeap DEF JInv
<1>2. /\ frames \in Seq(Activation(heap')) /\ frames # <<>>
      /\ frames' = Front(frames) /\ table' = table /\ recheck' = recheck
      /\ deoptimizationStartedAt' \in {deoptimizationStartedAt, 0}
  <2>1. frames \in Seq(Activation(heap)) /\ Len(heap) <= Len(heap')
    BY <1>1 DEF JInv
  <2>2. frames \in Seq(Activation(heap'))
    BY <1>1, <2>1, ActivationsGrow
  <2>3. QED
    BY <2>2, Zenon DEF Return
<1>3. frames' \in Seq(Activation(heap')) /\ Len(frames') = Len(frames) - 1
      /\ Len(frames) \in Nat
  BY <1>2, TopActivation
<1>4. CacheOK(heap', cache')
  <2>1. CASE ~Top.patch
    <3>1. cache' = cache
      BY <2>1 DEF Return
    <3>2. QED
      BY <1>1, <3>1, CacheGrown DEF JInv
  <2>2. CASE Top.patch
    <3>1. /\ n \in 1 .. Len(heap) /\ ~disabled(heap[n])
          /\ heap[n].context \in Context
      BY <1>1, DispatchSound, HeapFunctions
    <3>2. cache' = [target |-> n, missing |-> Minus(heap[n].context, available)]
      BY <2>2 DEF Return
    <3> HIDE DEF n
    <3>3. Minus(heap[n].context, available) \in Context
      BY <3>1, MinusContext, JitAssumption
    <3>4. ~disabled(heap'[n]) /\ heap'[n].context = heap[n].context
      BY <1>1, <3>1 DEF Grown
    <3>5. n \in 0 .. Len(heap')
      BY <1>1, <3>1
    <3>6. QED
      BY <3>2, <3>3, <3>4, <3>5 DEF CacheOK
  <2>3. QED
    BY <2>1, <2>2
<1>5. deoptimizationStartedAt' \in 0 .. MaxDepth
  BY <1>2, JitAssumption DEF JInv
<1>6. Len(frames') <= MaxDepth
  BY <1>3, JitAssumption DEF JInv
<1>7. QED
  BY <1>1, <1>2, <1>3, <1>4, <1>5, <1>6 DEF JInv

LEMMA ErrorInv ==
    ASSUME JInv, Error
    PROVE  JInv'
<1>1. frames' \in Seq(Activation(heap)) /\ Len(frames') = 0
  BY EmptySeq DEF Error
<1>2. Activation(heap)' = Activation(heap)
  BY DEF Activation, Error
<1>3. QED
  BY <1>1, JitAssumption DEF JInv, Error

\* The heap MarkFunction leaves: only the Deopt flag matters to dispatch, and
\* it is not a flag the user changes.
LEMMA MarkHeap ==
    ASSUME JInv, NEW n \in {BASELINE} \cup Range(table), NEW f \in UserFlags,
           MarkFunction(n, f)
    PROVE  /\ HeapOK(heap', table) /\ Grown(heap, heap')
           /\ Entries(heap', table) = Entries(heap, table)
           /\ Len(heap') = Len(heap) /\ Len(heap) \in Nat
<1>1. /\ HeapOK(heap, table) /\ Len(heap) \in Nat /\ heap \in Seq(Function)
      /\ \A m \in 1 .. Len(heap) : heap[m] \in Function
  BY HeapFunctions DEF JInv, HeapOK
<1>2. n \in 1 .. Len(heap)
  <2>1. \A m \in Range(table) : \E i \in 1 .. Len(table) : m = table[i]
    BY <1>1, HeapFunctions DEF Range
  <2>2. QED
    BY <1>1, <2>1, HeapFunctions DEF BASELINE
<1> DEFINE b == heap[n].flags
<1>3. PICK gs \in {b \cup {f}, b \ {f}} :
         heap' = [heap EXCEPT ![n].flags =
                    IF f = "MarkOpt" /\ f \in gs THEN gs \ {"NotOptimizable"}
                    ELSE gs]
  BY DEF MarkFunction
<1> DEFINE fs == IF f = "MarkOpt" /\ f \in gs THEN gs \ {"NotOptimizable"} ELSE gs
           new == [heap[n] EXCEPT !.flags = fs]
<1>4. heap' = [heap EXCEPT ![n] = new]
  BY <1>3
<1>5. f \in Flag /\ f # "Deopt" /\ UserFlags \subseteq Flag
  BY JitAssumption
<1>6. b \in SUBSET Flag /\ b \cap inherited \subseteq UserFlags
  BY <1>1, <1>2 DEF HeapOK, Function
<1> HIDE DEF b
<1>7. fs \in SUBSET Flag /\ fs \cap {"Deopt"} = b \cap {"Deopt"}
  BY <1>3, <1>5, <1>6
<1>8. fs \cap inherited \subseteq UserFlags
  BY <1>3, <1>6
<1> HIDE DEF fs
<1>9. new \in Function /\ Entry(new) = Entry(heap[n]) /\ new.flags = fs
  BY <1>1, <1>2, <1>7, FlagUpdate, Zenon DEF b
<1>10. new.context = heap[n].context /\ (disabled(new) <=> disabled(heap[n]))
       /\ new.pendingCompilation = heap[n].pendingCompilation
  BY <1>9, SameEntry
<1> HIDE DEF new
<1>11. /\ HeapOK(heap', table) /\ Len(heap') = Len(heap)
       /\ \A m \in 1 .. Len(heap) : heap'[m] = IF m = n THEN new ELSE heap[m]
  <2>1. n = BASELINE => ~disabled(new)
    BY <1>1, <1>10 DEF HeapOK
  <2>2. /\ HeapOK([heap EXCEPT ![n] = new], table)
        /\ Len([heap EXCEPT ![n] = new]) = Len(heap)
        /\ \A m \in 1 .. Len(heap) :
              [heap EXCEPT ![n] = new][m] = IF m = n THEN new ELSE heap[m]
    BY <1>1, <1>2, <1>8, <1>9, <1>10, <2>1, OneFunction
  <2>3. QED
    BY <1>4, <2>2
<1>12. Grown(heap, heap')
  BY <1>1, <1>10, <1>11 DEF Grown
<1>13. Entries(heap', table) = Entries(heap, table)
  <2>1. \A i \in DOMAIN table : table[i] \in 1 .. Len(heap)
    BY <1>1, HeapFunctions
  <2>2. \A m \in 1 .. Len(heap) : Entry(heap'[m]) = Entry(heap[m])
    BY <1>9, <1>11, Zenon
  <2>3. QED
    BY <2>1, <2>2, Zenon DEF Entries
<1>14. QED
  BY <1>1, <1>11, <1>12, <1>13

LEMMA MarkInv ==
    ASSUME JInv, NEW n \in {BASELINE} \cup Range(table), NEW f \in UserFlags,
           MarkFunction(n, f)
    PROVE  JInv'
<1>1. /\ HeapOK(heap', table) /\ Grown(heap, heap')
      /\ Len(heap') = Len(heap) /\ Len(heap) \in Nat
  BY MarkHeap
<1>2. frames \in Seq(Activation(heap'))
  BY <1>1, ActivationsGrow DEF JInv
<1>3. CacheOK(heap', cache)
  BY <1>1, CacheGrown DEF JInv
<1>4. QED
  BY <1>1, <1>2, <1>3 DEF JInv, MarkFunction

LEMMA JInvStep == JInv /\ [Next]_vars => JInv'
<1> SUFFICES ASSUME JInv, [Next]_vars
             PROVE  JInv'
  OBVIOUS
<1>1. CASE vars' = vars
  BY <1>1 DEF vars, JInv, HeapOK, CacheOK, Activation, Entries, disabled
<1>2. CASE Next
  BY <1>2, CallInv, NativeCallInv, NativeCallSlowInv, FinishInv, DeoptInv,
     ReturnInv, ErrorInv, MarkInv, Zenon DEF Next
<1>3. QED
  BY <1>1, <1>2

-----------------------------------------------------------------------------
(* Types, target caches and deoptimized versions. *)

\* The state of calls, versions and the target cache is always well typed; in
\* particular an activation and the cache only ever name a version that exists.
THEOREM TypeCorrect == Spec => []TypeOK
<1>1. JInv => TypeOK
  <2> SUFFICES ASSUME JInv
               PROVE  TypeOK
    OBVIOUS
  <2> DEFINE R == [kind : {"run", "compile"}, fun : DOMAIN heap,
                   native : BOOLEAN, given : Context, patch : BOOLEAN,
                   deoptimizing : BOOLEAN]
  <2>1. DOMAIN heap = 1 .. Len(heap) /\ HeapOK(heap, table)
    BY HeapFunctions DEF JInv
  <2>2. Activation(heap) \subseteq R
    BY <2>1, Zenon DEF Activation
  <2>3. frames \in Seq(R)
    BY <2>2, SeqMonotonic DEF JInv
  <2>4. QED
    BY <2>1, <2>3 DEF JInv, TypeOK, HeapOK, CacheOK
<1>2. QED
  BY <1>1, JInvInit, JInvStep, PTL DEF Spec

\* A call site never targets a version that was deoptimized: deopt clears the
\* cache and a call patches it only with what dispatch finds enabled.
THEOREM CachesInvalidatedHolds == Spec => []CachesInvalidated
<1>1. JInv => CachesInvalidated
  BY DEF JInv, CacheOK, CachesInvalidated
<1>2. QED
  BY <1>1, JInvInit, JInvStep, PTL DEF Spec

LEMMA PushedActivation ==
    ASSUME NEW h, NEW fs \in Seq(Activation(h)), NEW a
    PROVE  /\ Len(fs) \in Nat /\ DOMAIN fs = 1 .. Len(fs)
           /\ DOMAIN Append(fs, a) = 1 .. Len(fs) + 1
           /\ Len(Append(fs, a)) = Len(fs) + 1
           /\ Append(fs, a) # <<>> /\ Last(Append(fs, a)) = a
           /\ Append(fs, a)[Len(fs) + 1] = a
           /\ \A k \in 1 .. Len(fs) : Append(fs, a)[k] = fs[k]
           /\ \A k \in DOMAIN Append(fs, a) : k \in DOMAIN fs \/ k = Len(fs) + 1
<1> DEFINE S == Activation(h) \cup {a}
<1>1. fs \in Seq(S)
  BY SeqMonotonic
<1>2. Len(fs) \in Nat /\ DOMAIN fs = 1 .. Len(fs)
  BY LenProperties
<1>3. /\ Append(fs, a) \in Seq(S) /\ Len(Append(fs, a)) = Len(fs) + 1
      /\ Append(fs, a)[Len(fs) + 1] = a
      /\ \A k \in 1 .. Len(fs) : Append(fs, a)[k] = fs[k]
  BY <1>1, AppendProperties
<1>4. DOMAIN Append(fs, a) = 1 .. Len(fs) + 1
  BY <1>3, LenProperties
<1>5. Append(fs, a) # <<>>
  BY <1>2, <1>3, EmptySeq
<1>6. Last(Append(fs, a)) = a
  BY <1>3 DEF Last
<1>7. QED
  BY <1>2, <1>3, <1>4, <1>5, <1>6

\* A step enters a version natively at k if the activation there was none, or
\* not native, before.
Enters(k) ==
    /\ k \in DOMAIN frames' /\ frames'[k].native
    /\ ~(k \in DOMAIN frames /\ frames[k].native)

\* What a step of the invariant enters is enabled, and its assumptions hold of
\* the call unless a native call site entered its cached target.
LEMMA DoCallEnters ==
    ASSUME JInv, NEW h, Kept(heap, h), NEW given \in Context, NEW patch \in BOOLEAN,
           DoCall(h, given, patch), NEW k, Enters(k)
    PROVE  /\ ~disabled(heap'[frames'[k].fun])
           /\ smaller(frames'[k].given, heap'[frames'[k].fun].context)
<1>1. HeapOK(heap, table) /\ frames \in Seq(Activation(heap))
  BY DEF JInv
<1>2. CASE Runs(given, patch)
  <2> DEFINE n == dispatch(heap, table, given)
             fr == Frame("run", n, given, patch)
  <2>1. Kept(heap, heap') /\ frames' = Append(frames, fr)
    BY <1>2 DEF Runs
  <2>2. n \in 1 .. Len(heap) /\ ~disabled(heap[n])
        /\ (n # BASELINE => smaller(given, heap[n].context))
    BY <1>1, DispatchSound
  <2> HIDE DEF n
  <2>3. fr.native = (n # BASELINE) /\ fr.fun = n /\ fr.given = given
    BY <1>1, <2>2, NewActivation
  <2> HIDE DEF fr
  <2>4. k = Len(frames) + 1 /\ frames'[k] = fr
    <3>1. /\ frames'[Len(frames) + 1] = fr
          /\ \A j \in DOMAIN frames : frames'[j] = frames[j]
          /\ \A j \in DOMAIN frames' : j \in DOMAIN frames \/ j = Len(frames) + 1
      BY <1>1, <2>1, PushedActivation
    <3>2. QED
      BY <3>1, Zenon DEF Enters
  <2>5. n # BASELINE
    BY <2>3, <2>4 DEF Enters
  <2>6. heap'[n].context = heap[n].context /\ ~disabled(heap'[n])
    BY <1>1, <2>1, <2>2, KeptGrown DEF Grown
  <2>7. QED
    BY <2>2, <2>3, <2>4, <2>5, <2>6
<1>3. ASSUME NEW g, NEW fs, NEW c, NEW es, Compiles(g, fs, c, es, given, patch)
      PROVE  FALSE
  <2> DEFINE fr == Frame("compile", Len(heap) + 1, given, patch)
  <2>1. frames' = Append(frames, fr)
    BY <1>3 DEF Compiles
  <2>2. ~fr.native
    BY DEF Frame
  <2> HIDE DEF fr
  <2>3. frames'[k] = fr
    <3>1. /\ frames'[Len(frames) + 1] = fr
          /\ \A j \in DOMAIN frames : frames'[j] = frames[j]
          /\ \A j \in DOMAIN frames' : j \in DOMAIN frames \/ j = Len(frames) + 1
      BY <1>1, <2>1, PushedActivation
    <3>2. QED
      BY <3>1, Zenon DEF Enters
  <2>4. QED
    BY <2>2, <2>3 DEF Enters
<1>4. QED
  BY <1>1, <1>2, <1>3, DoCallShape, Zenon

LEMMA CallEnters ==
    ASSUME JInv, NEW c,
           (c \in Calls /\ Call(c)) \/ (c \in NativeCalls /\ NativeCallSlow(c)),
           NEW k, Enters(k)
    PROVE  /\ ~disabled(heap'[frames'[k].fun])
           /\ smaller(frames'[k].given, heap'[frames'[k].fun].context)
<1>1. CASE c \in Calls /\ Call(c)
  <2>1. DoCall(heap, infer(EmptyContext, c), FALSE)
        /\ infer(EmptyContext, c) \in Context
    BY <1>1, CallGiven DEF Call
  <2>2. Kept(heap, heap)
    BY KeptReflexive DEF JInv, HeapOK
  <2>3. QED
    BY <2>1, <2>2, DoCallEnters
<1>2. CASE c \in NativeCalls /\ NativeCallSlow(c)
  <2>1. DoCall(slowHeap, infer(available, c), TRUE)
        /\ infer(available, c) \in Context
    BY <1>2, CallGiven, SlowCall
  <2>2. QED
    BY <2>1, SlowHeap, DoCallEnters
<1>3. QED
  BY <1>1, <1>2

LEMMA FinishEnters ==
    ASSUME JInv, FinishCompile, NEW k, Enters(k)
    PROVE  /\ ~disabled(heap'[frames'[k].fun])
           /\ smaller(frames'[k].given, heap'[frames'[k].fun].context)
<1> DEFINE n == dispatch(heap', table, Top.given)
           fr == Frame("run", n, Top.given, Top.patch)
<1>1. HeapOK(heap', table) /\ frames \in Seq(Activation(heap')) /\ frames # <<>>
      /\ Len(heap') = Len(heap)
  <2>1. HeapOK(heap', table) /\ Len(heap') = Len(heap) /\ Len(heap) \in Nat
    BY FinishHeap
  <2>2. frames \in Seq(Activation(heap)) /\ Len(heap) <= Len(heap')
    BY <2>1 DEF JInv
  <2>3. frames \in Seq(Activation(heap'))
    BY <2>1, <2>2, ActivationsGrow
  <2>4. QED
    BY <2>1, <2>3 DEF FinishCompile
<1>2. n \in 1 .. Len(heap') /\ ~disabled(heap'[n])
      /\ (n # BASELINE => smaller(Top.given, heap'[n].context))
  BY <1>1, DispatchSound
<1>3. Top.given \in Context /\ Top.patch \in BOOLEAN /\ DOMAIN frames = 1 .. Len(frames)
  BY <1>1, TopActivation DEF Top
<1>4. frames' = [frames EXCEPT ![Len(frames)] = fr]
  BY DEF FinishCompile, SetTop
<1> HIDE DEF n
<1>5. fr \in Activation(heap') /\ fr.native = (n # BASELINE) /\ fr.fun = n
      /\ fr.given = Top.given
  BY <1>2, <1>3, NewActivation
<1> HIDE DEF fr
<1>6. k = Len(frames) /\ frames'[k] = fr
  <2>1. DOMAIN frames' = DOMAIN frames
    BY <1>4
  <2>2. \A l \in 1 .. Len(frames) :
           frames'[l] = IF l = Len(frames) THEN fr ELSE frames[l]
    BY <1>1, <1>4, <1>5, TopReplaced
  <2>3. QED
    BY <1>3, <2>1, <2>2 DEF Enters
<1>7. QED
  BY <1>2, <1>5, <1>6 DEF Enters

\* The other steps enter nothing.
LEMMA OthersEnter ==
    ASSUME JInv,
           \/ Deopt \/ Return \/ Error \/ UNCHANGED vars
           \/ \E n \in {BASELINE} \cup Range(table), f \in UserFlags :
                 MarkFunction(n, f),
           NEW k
    PROVE  ~Enters(k)
<1>1. CASE frames' = frames
  BY <1>1 DEF Enters
<1>2. CASE Deopt
  <2> DEFINE fr == [Top EXCEPT !.native = FALSE, !.deoptimizing = TRUE]
  <2>1. frames \in Seq(Activation(heap)) /\ frames # <<>>
        /\ frames' = [frames EXCEPT ![Len(frames)] = fr]
    BY <1>2 DEF JInv, Deopt, SetTop
  <2>2. Top \in Activation(heap) /\ DOMAIN frames = 1 .. Len(frames)
    BY <2>1, TopActivation DEF Top
  <2>3. fr \in Activation(heap) /\ ~fr.native
    BY <2>2, DeoptActivation, Zenon
  <2> HIDE DEF fr
  <2>4. DOMAIN frames' = DOMAIN frames
    BY <2>1
  <2>5. \A l \in 1 .. Len(frames) :
           frames'[l] = IF l = Len(frames) THEN fr ELSE frames[l]
    BY <2>1, <2>3, TopReplaced
  <2>6. QED
    BY <2>2, <2>3, <2>4, <2>5 DEF Enters
<1>3. CASE Return
  <2>1. frames \in Seq(Activation(heap)) /\ frames # <<>> /\ frames' = Front(frames)
    BY <1>3 DEF JInv, Return
  <2>2. /\ Len(frames) \in Nat /\ DOMAIN frames = 1 .. Len(frames)
        /\ Front(frames) \in Seq(Activation(heap))
        /\ Len(Front(frames)) = Len(frames) - 1
        /\ \A l \in 1 .. Len(frames) - 1 : Front(frames)[l] = frames[l]
    BY <2>1, TopActivation
  <2>3. DOMAIN frames' = 1 .. Len(frames) - 1
    BY <2>1, <2>2, LenProperties
  <2>4. QED
    BY <2>1, <2>2, <2>3 DEF Enters
<1>4. CASE Error
  BY <1>4 DEF Error, Enters
<1>5. QED
  BY <1>1, <1>2, <1>3, <1>4 DEF MarkFunction, vars

\* No call enters a version that has been deoptimized, whether dispatch, a
\* finished compilation or the target cache of a native call site leads to it.
THEOREM NeverEntersDisabledHolds == Spec => NeverEntersDisabled
<1> DEFINE A == \A k \in DOMAIN frames' :
                  frames'[k].native /\ ~(k \in DOMAIN frames /\ frames[k].native)
                     => ~disabled(heap'[frames'[k].fun])
<1>1. JInv /\ [Next]_vars => [A]_vars
  <2> SUFFICES ASSUME JInv, [Next]_vars, NEW k \in DOMAIN frames', Enters(k)
               PROVE  ~disabled(heap'[frames'[k].fun])
    BY DEF Enters
  <2>1. ASSUME NEW c \in NativeCalls, NativeCall(c)
        PROVE  ~disabled(heap'[frames'[k].fun])
    <3> DEFINE n == cache.target
               fr == Frame("run", n, infer(available, c), FALSE)
    <3>1. /\ n \in 2 .. Len(heap) /\ ~disabled(heap[n])
          /\ Grown(heap, heap') /\ Len(heap) \in Nat
          /\ frames' = Append(frames, fr)
      BY <2>1, NativeTarget
    <3>2. n \in 1 .. Len(heap)
      BY <3>1
    <3>3. fr.fun = n
      BY DEF Frame
    <3> HIDE DEF n, fr
    <3>4. frames'[k] = fr
      BY <3>1, PushedActivation DEF Enters, JInv
    <3>5. QED
      BY <3>1, <3>2, <3>3, <3>4 DEF Grown
  <2>2. ASSUME NEW c,
               (c \in Calls /\ Call(c)) \/ (c \in NativeCalls /\ NativeCallSlow(c))
        PROVE  ~disabled(heap'[frames'[k].fun])
    BY <2>2, CallEnters
  <2>3. CASE FinishCompile
    BY <2>3, FinishEnters
  <2>4. CASE \/ Deopt \/ Return \/ Error \/ UNCHANGED vars
             \/ \E n \in {BASELINE} \cup Range(table), f \in UserFlags :
                   MarkFunction(n, f)
    BY <2>4, OthersEnter
  <2>5. QED
    BY <2>1, <2>2, <2>3, <2>4, Zenon DEF Next
<1>2. QED
  BY <1>1, JInvInit, JInvStep, PTL DEF Spec, NeverEntersDisabled

-----------------------------------------------------------------------------
(* Versions a step compiles. *)

\* The contexts calls ask doCall for.
Requested(given) ==
    \/ \E c \in Calls : given = infer(EmptyContext, c)
    \/ \E c \in NativeCalls : given = infer(available, c)

\* A step that compiles a version for the context c.
CompilesFor(c) ==
    \E given, patch, g, fs, es :
        /\ given \in Context /\ patch \in BOOLEAN /\ Requested(given) /\ MayCall
        /\ Compiles(g, fs, c, es, given, patch)

LEMMA DoCallHeap ==
    ASSUME JInv, NEW h, Kept(heap, h), NEW given \in Context, Requested(given),
           NEW patch \in BOOLEAN, MayCall, DoCall(h, given, patch)
    PROVE  /\ \A n \in 1 .. Len(heap) : heap'[n].context = heap[n].context
           /\ Len(heap') = Len(heap) \/ \E c : CompilesFor(c)
<1>1. HeapOK(heap, table)
  BY DEF JInv
<1>2. CASE Runs(given, patch)
  BY <1>1, <1>2, KeptHeap DEF Runs, Kept
<1>3. ASSUME NEW g, NEW fs, NEW c, NEW es, Compiles(g, fs, c, es, given, patch)
      PROVE  /\ \A n \in 1 .. Len(heap) : heap'[n].context = heap[n].context
             /\ \E d : CompilesFor(d)
  <2>1. Grown(heap, heap')
    BY <1>1, <1>3, CompiledVersion
  <2>2. CompilesFor(c)
    BY <1>3, Zenon DEF CompilesFor
  <2>3. QED
    BY <2>1, <2>2 DEF Grown
<1>4. QED
  BY <1>1, <1>2, <1>3, DoCallShape, Zenon

\* A step keeps the contexts of all versions, and adds one only if it compiles.
LEMMA StepHeap ==
    ASSUME JInv, [Next]_vars
    PROVE  /\ \A n \in 1 .. Len(heap) : heap'[n].context = heap[n].context
           /\ Len(heap') = Len(heap) \/ \E c : CompilesFor(c)
<1>1. ASSUME NEW c \in Calls, Call(c)
      PROVE  /\ \A n \in 1 .. Len(heap) : heap'[n].context = heap[n].context
             /\ Len(heap') = Len(heap) \/ \E d : CompilesFor(d)
  <2> DEFINE given == infer(EmptyContext, c)
  <2>1. given \in Context /\ Requested(given)
    BY CallGiven DEF Requested
  <2>2. DoCall(heap, given, FALSE) /\ MayCall
    BY <1>1 DEF Call
  <2>3. Kept(heap, heap)
    BY KeptReflexive DEF JInv, HeapOK
  <2> HIDE DEF given
  <2>4. QED
    BY <2>1, <2>2, <2>3, DoCallHeap
<1>2. ASSUME NEW c \in NativeCalls, NativeCallSlow(c)
      PROVE  /\ \A n \in 1 .. Len(heap) : heap'[n].context = heap[n].context
             /\ Len(heap') = Len(heap) \/ \E d : CompilesFor(d)
  <2> DEFINE given == infer(available, c)
  <2>1. given \in Context /\ Requested(given)
    BY CallGiven DEF Requested
  <2>2. DoCall(slowHeap, given, TRUE) /\ MayCall
    BY <1>2, SlowCall
  <2> HIDE DEF given
  <2>3. QED
    BY <2>1, <2>2, SlowHeap, DoCallHeap
<1>3. ASSUME NEW c \in NativeCalls, NativeCall(c)
      PROVE  /\ \A n \in 1 .. Len(heap) : heap'[n].context = heap[n].context
             /\ Len(heap') = Len(heap)
  <2>1. Grown(heap, heap') /\ Len(heap') = Len(heap)
    BY <1>3, NativeTarget
  <2>2. QED
    BY <2>1 DEF Grown
<1>4. CASE FinishCompile
  BY <1>4, FinishHeap
<1>5. CASE Deopt
  BY <1>5, DeoptHeap
<1>6. CASE Return
  BY <1>6, ReturnHeap DEF Grown
<1>7. ASSUME NEW n \in {BASELINE} \cup Range(table), NEW f \in UserFlags,
             MarkFunction(n, f)
      PROVE  /\ \A m \in 1 .. Len(heap) : heap'[m].context = heap[m].context
             /\ Len(heap') = Len(heap)
  BY <1>7, MarkHeap DEF Grown
<1>8. CASE Error \/ UNCHANGED vars
  BY <1>8 DEF Error, vars
<1>9. QED
  BY <1>1, <1>2, <1>3, <1>4, <1>5, <1>6, <1>7, <1>8, Zenon DEF Next

LEMMA CompiledFor ==
    ASSUME JInv, NEW c, CompilesFor(c)
    PROVE  /\ c \in Context /\ Len(heap) \in Nat /\ Len(heap') = Len(heap) + 1
           /\ heap'[Len(heap) + 1].context = c
           /\ HeapOK(heap', table')
<1>1. HeapOK(heap, table)
  BY DEF JInv
<1>2. PICK given, patch, g, fs, es :
         given \in Context /\ Compiles(g, fs, c, es, given, patch)
  BY Zenon DEF CompilesFor
<1>3. Len(heap) \in Nat
  BY <1>1, HeapFunctions
<1>4. QED
  BY <1>1, <1>2, <1>3, CompiledVersion

\* While specialization to argument types is off for the baseline no version
\* that assumes any is compiled: doCall clears the assumptions twice, for the
\* version it dispatched to and for the baseline (interp.cpp, doCall).
THEOREM SpecializationDisabledHolds == Spec => SpecializationDisabled
<1> DEFINE A == Len(heap') > Len(heap) /\
                "DisableArgumentTypeSpecialization" \in heap[BASELINE].flags =>
                   Last(heap').context.typeFlags = {}
<1>1. JInv /\ [Next]_vars => [A]_vars
  <2> SUFFICES ASSUME JInv, [Next]_vars, Len(heap') > Len(heap),
                      "DisableArgumentTypeSpecialization" \in heap[BASELINE].flags
               PROVE  Last(heap').context.typeFlags = {}
    OBVIOUS
  <2>1. Len(heap) \in Nat
    BY HeapFunctions DEF JInv
  <2>2. PICK c : CompilesFor(c)
    BY <2>1, StepHeap
  <2>3. Len(heap') = Len(heap) + 1 /\ heap'[Len(heap) + 1].context = c
    BY <2>2, CompiledFor
  <2>4. Last(heap').context = c
    BY <2>3 DEF Last
  <2>5. PICK given, patch, g, fs, es :
           given \in Context /\ Compiles(g, fs, c, es, given, patch)
    BY <2>2, Zenon DEF CompilesFor
  <2> DEFINE wanted == clearDisabledAssumptions(fs, SpecializationLevel, given)
  <2>6. c = clearDisabledAssumptions(heap[BASELINE].flags, SpecializationLevel,
                                     wanted)
    BY <2>5 DEF Compiles
  <2>7. wanted \in Context
    BY <2>5, ClearedContext
  <2> HIDE DEF wanted
  <2>8. c.typeFlags = {}
    BY <2>6, <2>7, ClearedTypes
  <2>9. QED
    BY <2>4, <2>8
<1>2. QED
  BY <1>1, JInvInit, JInvStep, PTL DEF Spec, SpecializationDisabled

-----------------------------------------------------------------------------
(* The assumptions of optimized code. *)

\* A call that reaches the compiler has its arguments within the formals.
LEMMA RequestedAbout ==
    ASSUME NEW given \in Context, Requested(given),
           NotTooManyArguments \in given.flags
    PROVE  \A f \in given.typeFlags :
              f \in available.typeFlags
                \/ f % NUM_TYPED_ARGS < formalNargs - given.missing
<1> USE DEF EmptyContext
<1>1. formalNargs \in Nat /\ available \in Context /\ available.missing \in Nat
  <2>1. formalNargs \in Nat /\ available \in Context
    BY JitAssumption
  <2>2. available.missing \in 0 .. MAX_MISSING
    BY <2>1, Zenon DEF Context
  <2>3. QED
    BY <2>1, <2>2 DEF MAX_MISSING
<1>2. ASSUME NEW c \in Calls, given = infer(EmptyContext, c)
      PROVE  \A f \in given.typeFlags : f % NUM_TYPED_ARGS < formalNargs - given.missing
  <2>1. c \in AnyCall
    BY JitAssumption
  <2>2. EmptyContext.flags = {} /\ EmptyContext.typeFlags = {}
    OBVIOUS
  <2>3. /\ Len(c.args) \in Nat
        /\ \A f \in given.typeFlags : f % NUM_TYPED_ARGS < Len(c.args)
        /\ Len(c.args) <= formalNargs
    BY <1>2, <2>1, <2>2, InferredFlags
  <2>4. given.missing = formalNargs - Len(c.args)
    BY <1>2, <2>1, <2>3, InferredFlags
  <2>5. formalNargs - given.missing = Len(c.args)
    BY <1>1, <2>3, <2>4
  <2>6. QED
    BY <2>3, <2>5
<1>3. ASSUME NEW c \in NativeCalls, given = infer(available, c)
      PROVE  \A f \in given.typeFlags :
                f \in available.typeFlags
                  \/ f % NUM_TYPED_ARGS < formalNargs - given.missing
  <2>1. c \in AnyCall
    BY JitAssumption
  <2>2. /\ Len(c.args) \in Nat
        /\ \A f \in given.typeFlags :
              f \in available.typeFlags \/ f % NUM_TYPED_ARGS < Len(c.args)
    BY <1>3, <2>1, InferredFlags
  <2>3. Len(c.args) + available.missing = formalNargs
    BY SiteAssumption
  <2>4. Len(c.args) <= formalNargs
    BY <1>1, <2>2, <2>3
  <2>5. given.missing = formalNargs - Len(c.args)
    BY <1>3, <2>1, <2>4, InferredFlags
  <2>6. formalNargs - given.missing = Len(c.args)
    BY <1>1, <2>2, <2>5
  <2>7. QED
    BY <2>2, <2>6
<1>4. QED
  BY <1>2, <1>3 DEF Requested

LEMMA CompiledAbout ==
    ASSUME NEW c, CompilesFor(c)
    PROVE  AboutArguments(c)
<1>1. PICK given, patch, g, fs, es :
         /\ given \in Context /\ Requested(given)
         /\ Compiles(g, fs, c, es, given, patch)
  BY Zenon DEF CompilesFor
<1> DEFINE wanted == clearDisabledAssumptions(fs, SpecializationLevel, given)
<1>2. /\ wanted \in Context /\ wanted.flags \subseteq given.flags
      /\ wanted.typeFlags \subseteq given.typeFlags
      /\ wanted.missing \in {0, given.missing}
  BY <1>1, ClearedContext, ClearedShrinks
<1>3. c = clearDisabledAssumptions(heap[BASELINE].flags, SpecializationLevel,
                                   wanted)
  BY <1>1 DEF Compiles
<1> HIDE DEF wanted
<1>4. /\ c.flags \subseteq wanted.flags /\ c.typeFlags \subseteq wanted.typeFlags
      /\ c.missing \in {0, wanted.missing}
  BY <1>2, <1>3, ClearedShrinks
<1>5. NotTooManyArguments \in given.flags
  BY <1>1, <1>2, <1>4 DEF Compiles, Includes, minimalContext
<1>6. given.missing \in Nat /\ formalNargs \in Nat
  <2>1. given \in Context /\ formalNargs \in Nat
    BY <1>1, JitAssumption
  <2>2. given.missing \in 0 .. MAX_MISSING
    BY <2>1, Zenon DEF Context
  <2>3. QED
    BY <2>1, <2>2 DEF MAX_MISSING
<1>7. formalNargs - given.missing \in Int /\ formalNargs - c.missing \in Int
      /\ formalNargs - given.missing <= formalNargs - c.missing
  BY <1>2, <1>4, <1>6
<1>8. SUFFICES ASSUME NEW f \in c.typeFlags, f \notin available.typeFlags
               PROVE  f % NUM_TYPED_ARGS < formalNargs - c.missing
  BY DEF AboutArguments
<1>9. f \in given.typeFlags
  BY <1>2, <1>4
<1>10. f % NUM_TYPED_ARGS < formalNargs - given.missing
  BY <1>1, <1>5, <1>8, <1>9, RequestedAbout
<1>11. f \in Nat
  BY <1>1, <1>9 DEF Context, TypeAssumption, NUM_TYPED_ARGS
<1>12. f % NUM_TYPED_ARGS \in Int
  BY <1>11 DEF NUM_TYPED_ARGS
<1>13. QED
  BY <1>7, <1>10, <1>12

\* An activation that stays native stays in its version, for the same call.
LEMMA StaysNative ==
    ASSUME JInv, [Next]_vars, NEW k \in DOMAIN frames', k \in DOMAIN frames,
           frames[k].native, frames'[k].native
    PROVE  frames'[k].fun = frames[k].fun /\ frames'[k].given = frames[k].given
<1>1. frames \in Seq(Activation(heap))
  BY DEF JInv
<1>2. ASSUME NEW a, frames' = Append(frames, a)
      PROVE  frames'[k] = frames[k]
  BY <1>1, <1>2, PushedActivation
<1>3. ASSUME NEW h, NEW given, NEW patch, Kept(heap, h), DoCall(h, given, patch)
      PROVE  frames'[k] = frames[k]
  <2>1. \E a : frames' = Append(frames, a)
    BY <1>3, DoCallShape DEF JInv, Runs, Compiles
  <2>2. QED
    BY <1>2, <2>1
<1>4. ASSUME NEW c \in Calls, Call(c)
      PROVE  frames'[k] = frames[k]
  BY <1>3, <1>4, KeptReflexive DEF JInv, HeapOK, Call
<1>5. ASSUME NEW c \in NativeCalls, NativeCallSlow(c)
      PROVE  frames'[k] = frames[k]
  BY <1>3, <1>5, SlowCall, SlowHeap
<1>6. ASSUME NEW c \in NativeCalls, NativeCall(c)
      PROVE  frames'[k] = frames[k]
  BY <1>2, <1>6 DEF NativeCall, Push
<1>7. ASSUME NEW a, frames # <<>>, frames' = [frames EXCEPT ![Len(frames)] = a],
             ~a.native \/ ~Top.native
      PROVE  frames'[k] = frames[k]
  <2>1. DOMAIN frames = 1 .. Len(frames) /\ Top = frames[Len(frames)]
    BY <1>1, <1>7, TopActivation DEF Top
  <2>2. QED
    BY <1>7, <2>1
<1>8. CASE FinishCompile
  <2>1. frames # <<>> /\ ~Top.native
    BY <1>1, <1>8, TopActivation DEF FinishCompile, Top
  <2>2. QED
    BY <1>7, <1>8, <2>1, Zenon DEF FinishCompile, SetTop
<1>9. CASE Deopt
  <2> DEFINE fr == [Top EXCEPT !.native = FALSE, !.deoptimizing = TRUE]
  <2>1. frames # <<>> /\ frames' = [frames EXCEPT ![Len(frames)] = fr]
    BY <1>9 DEF Deopt, SetTop
  <2>2. Top \in Activation(heap)
    BY <1>1, <2>1, TopActivation DEF Top
  <2>3. ~fr.native
    BY <2>2, DeoptActivation, Zenon
  <2> HIDE DEF fr
  <2>4. QED
    BY <1>7, <2>1, <2>3
<1>10. CASE Return
  <2>1. frames # <<>> /\ frames' = Front(frames)
    BY <1>10 DEF Return
  <2>2. /\ Front(frames) \in Seq(Activation(heap)) /\ Len(frames) \in Nat
        /\ Len(Front(frames)) = Len(frames) - 1
        /\ \A l \in 1 .. Len(frames) - 1 : Front(frames)[l] = frames[l]
    BY <1>1, <2>1, TopActivation
  <2>3. k \in 1 .. Len(frames) - 1
    BY <2>1, <2>2, LenProperties
  <2>4. QED
    BY <2>1, <2>2, <2>3
<1>11. CASE Error
  BY <1>11 DEF Error
<1>12. CASE UNCHANGED vars \/ \E n \in {BASELINE} \cup Range(table),
                                 f \in UserFlags : MarkFunction(n, f)
  BY <1>12 DEF MarkFunction, vars
<1>13. QED
  BY <1>4, <1>5, <1>6, <1>8, <1>9, <1>10, <1>11, <1>12, Zenon DEF Next

LEMMA AInvInit == Init => AInv
<1> SUFFICES ASSUME Init
             PROVE  AInv
  OBVIOUS
<1>1. Len(heap) = 1 /\ DOMAIN frames = {}
  <2> DEFINE f == NewFunction(EmptyContext, {}, FALSE)
  <2>1. heap = <<f>> /\ frames = <<>>
    BY DEF Init
  <2> HIDE DEF f
  <2>2. QED
    BY <2>1
<1>2. QED
  BY <1>1 DEF AInv, AssumptionsHold

LEMMA AInvStep ==
    ASSUME NoPromiseChains, JInv, AInv, [Next]_vars
    PROVE  AInv'
<1>1. /\ Len(heap) \in Nat
      /\ \A n \in 1 .. Len(heap) : heap'[n].context = heap[n].context
  BY StepHeap, HeapFunctions DEF JInv
<1>2. \A n \in 2 .. Len(heap') : AboutArguments(heap'[n].context)
  <2>1. \A n \in 2 .. Len(heap) : AboutArguments(heap'[n].context)
    BY <1>1 DEF AInv
  <2>2. CASE Len(heap') = Len(heap)
    BY <2>1, <2>2
  <2>3. ASSUME NEW c, CompilesFor(c)
        PROVE  \A n \in 2 .. Len(heap') : AboutArguments(heap'[n].context)
    <3>1. Len(heap') = Len(heap) + 1 /\ heap'[Len(heap) + 1].context = c
      BY <2>3, CompiledFor
    <3>2. AboutArguments(heap'[Len(heap) + 1].context)
      BY <2>3, <3>1, CompiledAbout
    <3>3. \A n \in 2 .. Len(heap') : n \in 2 .. Len(heap) \/ n = Len(heap) + 1
      BY <1>1, <3>1
    <3>4. QED
      BY <2>1, <3>2, <3>3
  <2>4. QED
    BY <2>2, <2>3, StepHeap
<1>3. ASSUME NEW k \in DOMAIN frames', frames'[k].native
      PROVE  smaller(frames'[k].given, heap'[frames'[k].fun].context)
  <2>1. CASE Enters(k)
    <3>1. ASSUME NEW c \in NativeCalls, NativeCall(c)
          PROVE  smaller(frames'[k].given, heap'[frames'[k].fun].context)
      <4> DEFINE n == cache.target
                 fr == Frame("run", n, infer(available, c), FALSE)
      <4>1. /\ n \in 2 .. Len(heap) /\ accepts(c)
            /\ frames' = Append(frames, fr)
        BY <3>1, NativeTarget
      <4>2. smaller(infer(available, c), heap[n].context)
        BY <4>1, AcceptedCall
      <4>3. fr.fun = n /\ fr.given = infer(available, c)
        BY DEF Frame
      <4>4. n \in 1 .. Len(heap)
        BY <1>1, <4>1
      <4> HIDE DEF n, fr
      <4>5. frames'[k] = fr
        BY <2>1, <4>1, PushedActivation DEF Enters, JInv
      <4>6. QED
        BY <1>1, <4>2, <4>3, <4>4, <4>5
    <3>2. ASSUME NEW c, (c \in Calls /\ Call(c))
                          \/ (c \in NativeCalls /\ NativeCallSlow(c))
          PROVE  smaller(frames'[k].given, heap'[frames'[k].fun].context)
      BY <2>1, <3>2, CallEnters
    <3>3. CASE FinishCompile
      BY <2>1, <3>3, FinishEnters
    <3>4. CASE \/ Deopt \/ Return \/ Error \/ UNCHANGED vars
               \/ \E n \in {BASELINE} \cup Range(table), f \in UserFlags :
                     MarkFunction(n, f)
      BY <2>1, <3>4, OthersEnter
    <3>5. QED
      BY <3>1, <3>2, <3>3, <3>4, Zenon DEF Next
  <2>2. CASE ~Enters(k)
    <3>1. k \in DOMAIN frames /\ frames[k].native
      BY <1>3, <2>2 DEF Enters
    <3>2. frames'[k].fun = frames[k].fun /\ frames'[k].given = frames[k].given
      BY <1>3, <3>1, StaysNative
    <3>3. smaller(frames[k].given, heap[frames[k].fun].context)
      BY <3>1 DEF AInv, AssumptionsHold
    <3>4. frames[k].fun \in 1 .. Len(heap)
      <4>1. frames[k] \in Activation(heap)
        BY <3>1, ElementOfSeq, LenProperties DEF JInv
      <4>2. QED
        BY <4>1 DEF Activation
    <3>5. QED
      BY <1>1, <3>2, <3>3, <3>4
  <2>3. QED
    BY <2>1, <2>2
<1>4. QED
  BY <1>2, <1>3 DEF AInv, AssumptionsHold

\* Optimized code runs only for calls that satisfy every assumption it was
\* compiled under, whether dispatch, a finished compilation or the target
\* cache of a native call site leads to it (interp.cpp, native/builtins.cpp).
THEOREM AssumptionsHoldAlways ==
    ASSUME NoPromiseChains
    PROVE  Spec => []AssumptionsHold
<1>1. Init => JInv /\ AInv
  BY JInvInit, AInvInit
<1>2. JInv /\ AInv /\ [Next]_vars => (JInv /\ AInv)'
  BY JInvStep, AInvStep
<1>3. AInv => AssumptionsHold
  BY DEF AInv
<1>4. QED
  BY <1>1, <1>2, <1>3, PTL DEF Spec

=============================================================================
