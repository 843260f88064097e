----------------------------- MODULE JitProofs ------------------------------
(***************************************************************************)
(* A version compiled for a call is used by it, and calls, compilations and *)
(* deoptimizations change the dispatch table only as module DispatchTable   *)
(* says.                                                                    *)
(***************************************************************************)
EXTENDS JitInvariant

\* The provers of a leaf that names none, in the order they are tried.
USE SMTT(10), ZenonT(20), SMTT(90)

\* While the backend does not run R code only the running activation is a
\* compilation; its version, and no other, awaits its code.
Awaiting(h, t, fs) ==
    LET compiling == fs # <<>> /\ Last(fs).kind = "compile"
        n == Last(fs).fun
    IN  /\ \A k \in DOMAIN fs : fs[k].kind = "compile" => k = Len(fs)
        /\ \A m \in DOMAIN h : h[m].pendingCompilation => compiling /\ m = n
        /\ compiling => /\ h[n].pendingCompilation /\ ~disabled(h[n])
                        /\ \E i \in 1 .. Len(t) : t[i] = n
QInv == Awaiting(heap, table, frames)

\* Without disabled specializations a version is compiled for exactly the
\* context of the call.
GInv == frames # <<>> /\ Top.kind = "compile" =>
            heap[Top.fun].context = Top.given

-----------------------------------------------------------------------------
(* Compilations, while the backend does not run R code. *)

\* No activation is a compilation and no version awaits its code.
Quiet(h, fs) ==
    /\ \A k \in DOMAIN fs : fs[k].kind = "run"
    /\ \A m \in DOMAIN h : ~h[m].pendingCompilation

LEMMA QuietAwaits ==
    ASSUME NEW h, NEW t, NEW fs \in Seq(Activation(h)), Quiet(h, fs)
    PROVE  Awaiting(h, t, fs)
<1>1. ~(fs # <<>> /\ Last(fs).kind = "compile")
  <2> SUFFICES ASSUME fs # <<>>
               PROVE  Last(fs).kind # "compile"
    OBVIOUS
  <2>1. Len(fs) \in Nat /\ Len(fs) >= 1 /\ DOMAIN fs = 1 .. Len(fs)
        /\ Last(fs) = fs[Len(fs)]
    BY TopActivation
  <2>2. Len(fs) \in DOMAIN fs
    BY <2>1
  <2>3. QED
    BY <2>1, <2>2 DEF Quiet
<1>2. QED
  BY <1>1, Zenon DEF Awaiting, Quiet

LEMMA AwaitingQuiet ==
    ASSUME NEW h, NEW t, NEW fs \in Seq(Activation(h)), Awaiting(h, t, fs),
           ~(fs # <<>> /\ Last(fs).kind = "compile")
    PROVE  Quiet(h, fs)
<1>1. ASSUME NEW k \in DOMAIN fs
      PROVE  fs[k].kind = "run"
  <2>1. DOMAIN fs = 1 .. Len(fs) /\ Len(fs) \in Nat
    BY LenProperties
  <2>2. fs # <<>>
    BY <2>1, EmptySeq
  <2>3. Last(fs) = fs[Len(fs)]
    BY <2>2, TopActivation
  <2>4. fs[k].kind # "compile"
    BY <2>2, <2>3 DEF Awaiting
  <2>5. fs[k] \in Activation(h)
    BY <2>1, ElementOfSeq
  <2>6. fs[k].kind \in {"run", "compile"}
    BY <2>5 DEF Activation
  <2>7. QED
    BY <2>4, <2>6
<1>2. \A m \in DOMAIN h : ~h[m].pendingCompilation
  BY Zenon DEF Awaiting
<1>3. QED
  BY <1>1, <1>2 DEF Quiet

\* Before a call nothing is being compiled.
LEMMA CallQuiet ==
    ASSUME ~BackendEvaluates, JInv, QInv, MayCall
    PROVE  Quiet(heap, frames)
<1>1. ~(frames # <<>> /\ Last(frames).kind = "compile")
  BY DEF MayCall
<1>2. frames \in Seq(Activation(heap)) /\ Awaiting(heap, table, frames)
  BY DEF JInv, QInv
<1>3. QED
  BY <1>1, <1>2, AwaitingQuiet

LEMMA QuietPush ==
    ASSUME JInv, Quiet(heap, frames), NEW a, a.kind = "run",
           frames' = Append(frames, a), Len(heap') = Len(heap),
           \A m \in 1 .. Len(heap) :
              heap'[m].pendingCompilation = heap[m].pendingCompilation,
           heap' \in Seq(Function)
    PROVE  Quiet(heap', frames')
<1>1. frames \in Seq(Activation(heap)) /\ DOMAIN heap = 1 .. Len(heap)
      /\ DOMAIN heap' = 1 .. Len(heap)
  BY HeapFunctions, LenProperties DEF JInv
<1>2. \A k \in DOMAIN frames' : frames'[k].kind = "run"
  <2>1. /\ DOMAIN frames = 1 .. Len(frames)
        /\ Append(frames, a)[Len(frames) + 1] = a
        /\ \A k \in 1 .. Len(frames) : Append(frames, a)[k] = frames[k]
        /\ \A k \in DOMAIN Append(frames, a) :
              k \in DOMAIN frames \/ k = Len(frames) + 1
    BY <1>1, PushedActivation
  <2>2. QED
    BY <2>1, Zenon DEF Quiet
<1>3. QED
  BY <1>1, <1>2 DEF Quiet

LEMMA DoCallQuiet ==
    ASSUME JInv, Quiet(heap, frames), NEW h, Kept(heap, h),
           NEW given \in Context, Requested(given), NEW patch \in BOOLEAN, MayCall,
           DoCall(h, given, patch)
    PROVE  Quiet(heap', frames') \/ \E c : CompilesFor(c)
<1>1. HeapOK(heap, table)
  BY DEF JInv
<1>2. CASE Runs(given, patch)
  <2> DEFINE fr == Frame("run", dispatch(heap, table, given), given, patch)
  <2>1. Kept(heap, heap') /\ frames' = Append(frames, fr)
    BY <1>2 DEF Runs
  <2>2. fr.kind = "run"
    BY DEF Frame
  <2> HIDE DEF fr
  <2>3. /\ heap' \in Seq(Function) /\ Len(heap') = Len(heap)
        /\ \A m \in 1 .. Len(heap) :
              heap'[m].pendingCompilation = heap[m].pendingCompilation
    BY <1>1, <2>1, KeptHeap DEF Kept
  <2>4. QED
    BY <2>1, <2>2, <2>3, QuietPush
<1>3. ASSUME NEW g, NEW fs, NEW c, NEW es, Compiles(g, fs, c, es, given, patch)
      PROVE  CompilesFor(c)
  BY <1>3, Zenon DEF CompilesFor
<1>4. QED
  BY <1>1, <1>2, <1>3, DoCallShape, Zenon

LEMMA FinishQuiet ==
    ASSUME JInv, QInv, FinishCompile
    PROVE  Quiet(heap', frames')
<1> DEFINE fr == Frame("run", dispatch(heap', table, Top.given), Top.given, Top.patch)
<1>1. frames \in Seq(Activation(heap)) /\ frames # <<>>
      /\ frames' = [frames EXCEPT ![Len(frames)] = fr]
  BY DEF JInv, FinishCompile, SetTop
<1>2. fr.kind = "run"
  BY DEF Frame
<1> HIDE DEF fr
<1>3. DOMAIN frames = 1 .. Len(frames) /\ DOMAIN frames' = 1 .. Len(frames)
      /\ \A k \in 1 .. Len(frames) :
            frames'[k] = IF k = Len(frames) THEN fr ELSE frames[k]
  BY <1>1, LenProperties
<1>4. ASSUME NEW k \in DOMAIN frames'
      PROVE  frames'[k].kind = "run"
  <2>1. CASE k = Len(frames)
    BY <1>2, <1>3, <2>1
  <2>2. CASE k # Len(frames)
    <3>1. frames'[k] = frames[k] /\ frames[k].kind # "compile"
      BY <1>3, <2>2 DEF QInv, Awaiting
    <3>2. frames[k] \in Activation(heap)
      BY <1>1, <1>3, ElementOfSeq
    <3>3. frames[k].kind \in {"run", "compile"}
      BY <3>2 DEF Activation
    <3>4. QED
      BY <3>1, <3>3
  <2>3. QED
    BY <2>1, <2>2
<1>5. ASSUME NEW m \in DOMAIN heap'
      PROVE  ~heap'[m].pendingCompilation
  <2>1. /\ m \in 1 .. Len(heap) /\ m \in DOMAIN heap
        /\ m # Top.fun => heap'[m] = heap[m]
        /\ ~heap'[Top.fun].pendingCompilation
    <3>1. /\ HeapOK(heap', table) /\ Len(heap') = Len(heap)
          /\ ~heap'[Top.fun].pendingCompilation
          /\ \A n \in 1 .. Len(heap) : n # Top.fun => heap'[n] = heap[n]
      BY FinishHeap
    <3>2. DOMAIN heap' = 1 .. Len(heap) /\ DOMAIN heap = 1 .. Len(heap)
      BY <3>1, HeapFunctions DEF JInv
    <3>3. QED
      BY <3>1, <3>2
  <2>2. heap[m].pendingCompilation => m = Top.fun
    BY <2>1, Zenon DEF QInv, Awaiting, Top
  <2>3. QED
    BY <2>1, <2>2
<1>6. QED
  BY <1>4, <1>5 DEF Quiet

\* The steps other than calls and compilations leave nothing to compile.
LEMMA OthersQuiet ==
    ASSUME JInv, QInv,
           \/ Deopt \/ Return \/ Error
           \/ \E n \in {BASELINE} \cup Range(table), f \in UserFlags :
                 MarkFunction(n, f)
    PROVE  Quiet(heap', frames')
<1>1. frames \in Seq(Activation(heap)) /\ HeapOK(heap, table)
      /\ DOMAIN heap = 1 .. Len(heap) /\ Awaiting(heap, table, frames)
  BY HeapFunctions DEF JInv, QInv
<1>2. ~(frames # <<>> /\ Last(frames).kind = "compile")
  <2>1. CASE Deopt
    BY <1>1, <2>1, TopActivation DEF Deopt, Top
  <2>2. CASE Return \/ Error
    BY <2>2 DEF Return, Error, Top
  <2>3. CASE frames = <<>>
    BY <2>3
  <2>4. QED
    BY <2>1, <2>2, <2>3 DEF MarkFunction
<1>3. Quiet(heap, frames)
  BY <1>1, <1>2, AwaitingQuiet
<1>4. /\ DOMAIN heap' = 1 .. Len(heap)
      /\ \A m \in 1 .. Len(heap) :
            heap'[m].pendingCompilation = heap[m].pendingCompilation
  <2>1. CASE Deopt
    <3>1. /\ HeapOK(heap', table) /\ Len(heap') = Len(heap)
          /\ \A m \in 1 .. Len(heap) :
                heap'[m].pendingCompilation = heap[m].pendingCompilation
      BY <2>1, DeoptHeap
    <3>2. QED
      BY <3>1, HeapFunctions
  <2>2. CASE Return
    <3>1. HeapOK(heap', table) /\ Len(heap') = Len(heap) /\ Grown(heap, heap')
      BY <2>2, ReturnHeap
    <3>2. QED
      BY <3>1, HeapFunctions DEF Grown
  <2>3. CASE Error
    BY <1>1, <2>3 DEF Error
  <2>4. ASSUME NEW n \in {BASELINE} \cup Range(table), NEW f \in UserFlags,
               MarkFunction(n, f)
        PROVE  /\ DOMAIN heap' = 1 .. Len(heap)
               /\ \A m \in 1 .. Len(heap) :
                     heap'[m].pendingCompilation = heap[m].pendingCompilation
    <3>1. HeapOK(heap', table) /\ Len(heap') = Len(heap) /\ Grown(heap, heap')
      BY <2>4, MarkHeap
    <3>2. QED
      BY <3>1, HeapFunctions DEF Grown
  <2>5. QED
    BY <2>1, <2>2, <2>3, <2>4, Zenon
<1>5. \A k \in DOMAIN frames' : frames'[k].kind = "run"
  <2>1. CASE Deopt
    <3> DEFINE fr == [Top EXCEPT !.native = FALSE, !.deoptimizing = TRUE]
    <3>1. frames # <<>> /\ frames' = [frames EXCEPT ![Len(frames)] = fr]
      BY <2>1 DEF Deopt, SetTop
    <3>2. Top \in Activation(heap) /\ Top.kind = "run"
      BY <1>1, <2>1, TopActivation DEF Top, Deopt
    <3>3. fr.kind = "run"
      BY <3>2, DeoptActivation, Zenon
    <3> HIDE DEF fr
    <3>4. QED
      BY <1>3, <3>1, <3>3 DEF Quiet
  <2>2. CASE Return
    <3>1. frames # <<>> /\ frames' = Front(frames)
      BY <2>2 DEF Return
    <3>2. /\ Front(frames) \in Seq(Activation(heap)) /\ Len(frames) \in Nat
          /\ Len(Front(frames)) = Len(frames) - 1
          /\ DOMAIN frames = 1 .. Len(frames)
          /\ \A l \in 1 .. Len(frames) - 1 : Front(frames)[l] = frames[l]
      BY <1>1, <3>1, TopActivation
    <3>3. DOMAIN frames' = 1 .. Len(frames) - 1
      BY <3>1, <3>2, LenProperties
    <3>4. QED
      BY <1>3, <3>1, <3>2, <3>3 DEF Quiet
  <2>3. CASE Error
    BY <2>3 DEF Error
  <2>4. CASE frames' = frames
    BY <1>3, <2>4 DEF Quiet
  <2>5. QED
    BY <2>1, <2>2, <2>3, <2>4 DEF MarkFunction
<1>6. QED
  BY <1>3, <1>4, <1>5 DEF Quiet

\* A step starts a compilation, or leaves nothing to compile.
LEMMA StepQuiet ==
    ASSUME ~BackendEvaluates, JInv, QInv, Next
    PROVE  Quiet(heap', frames') \/ \E c : CompilesFor(c)
<1>1. ASSUME NEW c \in Calls, Call(c)
      PROVE  Quiet(heap', frames') \/ \E d : CompilesFor(d)
  <2> DEFINE given == infer(EmptyContext, c)
  <2>1. given \in Context /\ Requested(given)
    BY CallGiven DEF Requested
  <2>2. DoCall(heap, given, FALSE) /\ MayCall
    BY <1>1 DEF Call
  <2>3. Kept(heap, heap)
    BY KeptReflexive DEF JInv, HeapOK
  <2> HIDE DEF given
  <2>4. QED
    BY <2>1, <2>2, <2>3, CallQuiet, DoCallQuiet
<1>2. ASSUME NEW c \in NativeCalls, NativeCallSlow(c)
      PROVE  Quiet(heap', frames') \/ \E d : CompilesFor(d)
  <2> DEFINE given == infer(available, c)
  <2>1. given \in Context /\ Requested(given)
    BY CallGiven DEF Requested
  <2>2. DoCall(slowHeap, given, TRUE) /\ MayCall
    BY <1>2, SlowCall
  <2> HIDE DEF given
  <2>3. QED
    BY <2>1, <2>2, SlowHeap, CallQuiet, DoCallQuiet
<1>3. ASSUME NEW c \in NativeCalls, NativeCall(c)
      PROVE  Quiet(heap', frames')
  <2> DEFINE fr == Frame("run", cache.target, infer(available, c), FALSE)
  <2>1. Kept(heap, heap') /\ frames' = Append(frames, fr)
    BY <1>3, NativeTarget
  <2>2. fr.kind = "run"
    BY DEF Frame
  <2> HIDE DEF fr
  <2>3. /\ heap' \in Seq(Function) /\ Len(heap') = Len(heap)
        /\ \A m \in 1 .. Len(heap) :
              heap'[m].pendingCompilation = heap[m].pendingCompilation
    BY <2>1, KeptHeap DEF Kept, JInv
  <2>4. Quiet(heap, frames)
    BY <1>3, CallQuiet DEF NativeCall
  <2>5. QED
    BY <2>1, <2>2, <2>3, <2>4, QuietPush
<1>4. QED
  BY <1>1, <1>2, <1>3, FinishQuiet, OthersQuiet, Zenon DEF Next

\* The version a step compiles awaits its code, and is the only one.
LEMMA CompiledAwaits ==
    ASSUME ~BackendEvaluates, JInv, QInv, NEW c, CompilesFor(c)
    PROVE  /\ QInv'
           /\ \E given, fs :
                 /\ given \in Context /\ fs \cap inherited \subseteq UserFlags
                 /\ c = clearDisabledAssumptions(heap[BASELINE].flags,
                           SpecializationLevel,
                           clearDisabledAssumptions(fs, SpecializationLevel, given))
                 /\ Last(frames').given = given
                 /\ Last(frames').fun = Len(heap) + 1
<1>1. PICK given, patch, g, fs, es :
         /\ given \in Context /\ patch \in BOOLEAN /\ MayCall
         /\ Compiles(g, fs, c, es, given, patch)
  BY Zenon DEF CompilesFor
<1> DEFINE n == Len(heap) + 1
           fr == Frame("compile", n, given, patch)
<1>2. /\ frames \in Seq(Activation(heap)) /\ HeapOK(heap, table)
      /\ Len(heap) \in Nat /\ DOMAIN heap = 1 .. Len(heap)
  BY HeapFunctions DEF JInv
<1>3. frames' = Append(frames, fr)
  BY <1>1 DEF Compiles
<1>4. fr.kind = "compile" /\ fr.fun = n /\ fr.given = given
  BY DEF Frame
<1> HIDE DEF fr
<1>5. /\ DOMAIN frames = 1 .. Len(frames) /\ Len(frames') = Len(frames) + 1
      /\ frames' # <<>> /\ Last(frames') = fr
      /\ \A k \in 1 .. Len(frames) : frames'[k] = frames[k]
      /\ \A k \in DOMAIN frames' : k \in DOMAIN frames \/ k = Len(frames) + 1
  BY <1>2, <1>3, PushedActivation
<1>6. /\ HeapOK(heap', table') /\ Grown(heap, heap') /\ Len(heap') = n
      /\ heap'[n].pendingCompilation /\ ~disabled(heap'[n])
      /\ \E i \in 1 .. Len(table') : table'[i] = n
  BY <1>1, <1>2, CompiledVersion
<1>7. Quiet(heap, frames)
  BY <1>1, CallQuiet
<1>8. \A k \in DOMAIN frames' : frames'[k].kind = "compile" => k = Len(frames')
  BY <1>5, <1>7 DEF Quiet
<1>9. \A m \in DOMAIN heap' : heap'[m].pendingCompilation => m = n
  <2>1. DOMAIN heap' = 1 .. n
    BY <1>6, HeapFunctions
  <2>2. \A m \in 1 .. n : m # n => m \in 1 .. Len(heap)
    BY <1>2
  <2>3. QED
    BY <1>2, <1>6, <1>7, <2>1, <2>2 DEF Quiet, Grown
<1> HIDE DEF n
<1>10. Awaiting(heap', table', frames')
  BY <1>4, <1>5, <1>6, <1>8, <1>9, Zenon DEF Awaiting
<1>11. QED
  BY <1>1, <1>4, <1>5, <1>10, Zenon DEF QInv, Compiles, n

LEMMA QInvInit == Init => QInv
<1> SUFFICES ASSUME Init
             PROVE  QInv
  OBVIOUS
<1>1. JInv
  BY JInvInit
<1>2. Quiet(heap, frames)
  <2> DEFINE f == NewFunction(EmptyContext, {}, FALSE)
  <2>1. heap = <<f>> /\ frames = <<>>
    BY DEF Init
  <2>2. ~f.pendingCompilation
    BY DEF NewFunction
  <2> HIDE DEF f
  <2>3. QED
    BY <2>1, <2>2 DEF Quiet
<1>3. QED
  BY <1>1, <1>2, QuietAwaits DEF JInv, QInv

LEMMA QInvStep ==
    ASSUME ~BackendEvaluates, JInv, QInv, [Next]_vars
    PROVE  QInv'
<1>1. CASE UNCHANGED vars
  BY <1>1 DEF vars, QInv
<1>2. CASE Next /\ Quiet(heap', frames')
  <2>1. frames' \in Seq(Activation(heap'))
    BY JInvStep DEF JInv
  <2>2. QED
    BY <1>2, <2>1, QuietAwaits DEF QInv
<1>3. ASSUME NEW c, CompilesFor(c)
      PROVE  QInv'
  BY <1>3, CompiledAwaits
<1>4. QED
  BY <1>1, <1>2, <1>3, StepQuiet

\* No flag that restricts specialization is ever set, and no global level.
Unrestricted ==
    UserFlags \cap inherited = {} /\ ~(SpecializationLevel < 100)

LEMMA ClearedNothing ==
    ASSUME Unrestricted, NEW fs, fs \cap inherited \subseteq UserFlags,
           NEW given
    PROVE  clearDisabledAssumptions(fs, SpecializationLevel, given) = given
<1>1. /\ "DisableArgumentTypeSpecialization" \notin fs
      /\ "DisableNumArgumentsSpezialization" \notin fs
      /\ "DisableAllSpecialization" \notin fs
  BY DEF Unrestricted, inherited
<1>2. QED
  BY <1>1, Zenon DEF clearDisabledAssumptions, Unrestricted

LEMMA GInvStep ==
    ASSUME ~BackendEvaluates, Unrestricted, JInv, QInv, GInv, [Next]_vars
    PROVE  GInv'
<1>1. CASE UNCHANGED vars
  BY <1>1 DEF vars, GInv, Top
<1>2. CASE Next /\ Quiet(heap', frames')
  <2>1. frames' \in Seq(Activation(heap'))
    BY JInvStep DEF JInv
  <2>2. ASSUME frames' # <<>>
        PROVE  Last(frames').kind = "run"
    <3>1. Len(frames') \in Nat /\ Len(frames') >= 1 /\ DOMAIN frames' = 1 .. Len(frames')
          /\ Last(frames') = frames'[Len(frames')]
      BY <2>1, <2>2, TopActivation
    <3>2. Len(frames') \in DOMAIN frames'
      BY <3>1
    <3>3. QED
      BY <1>2, <3>1, <3>2 DEF Quiet
  <2>3. QED
    BY <2>2 DEF GInv, Top
<1>3. ASSUME NEW c, CompilesFor(c)
      PROVE  GInv'
  <2>1. PICK given, fs :
           /\ fs \cap inherited \subseteq UserFlags
           /\ c = clearDisabledAssumptions(heap[BASELINE].flags,
                     SpecializationLevel,
                     clearDisabledAssumptions(fs, SpecializationLevel, given))
           /\ Last(frames').given = given
           /\ Last(frames').fun = Len(heap) + 1
    BY <1>3, CompiledAwaits, Zenon
  <2>2. clearDisabledAssumptions(fs, SpecializationLevel, given) = given
    BY <2>1, ClearedNothing
  <2>3. heap[BASELINE].flags \cap inherited \subseteq UserFlags
    BY HeapFunctions DEF JInv, HeapOK, BASELINE
  <2>4. c = given
    BY <2>1, <2>2, <2>3, ClearedNothing
  <2>5. heap'[Len(heap) + 1].context = c
    BY <1>3, CompiledFor
  <2>6. QED
    BY <2>1, <2>4, <2>5 DEF GInv, Top
<1>4. QED
  BY <1>1, <1>2, <1>3, StepQuiet

LEMMA FinishDispatches ==
    ASSUME JInv, QInv, GInv, FinishCompile
    PROVE  dispatch(heap', table, Top.given) = Top.fun
<1> DEFINE n == Top.fun
           es == Entries(heap', table)
           given == Top.given
           p == dispatchIndex(es, given, TRUE)
<1>1. /\ HeapOK(heap', table) /\ n \in 1 .. Len(heap) /\ Len(heap') = Len(heap)
      /\ heap'[n].context = heap[n].context /\ heap'[n].flags = heap[n].flags
  BY FinishHeap
<1>2. given \in Context
  BY TopActivation DEF JInv, FinishCompile, Top
<1>3. frames # <<>> /\ Last(frames).kind = "compile"
  BY DEF FinishCompile, Top
<1>4. PICK i \in 1 .. Len(table) : table[i] = n
  BY <1>3, Zenon DEF QInv, Awaiting, Top
<1>5. heap[n].context = given /\ ~disabled(heap[n])
  BY <1>3, Zenon DEF QInv, Awaiting, Top, GInv
<1>6. /\ es \in Seq(VersionsFor(EmptyContext)) /\ es \in Seq(Version)
      /\ Len(es) = Len(table) /\ SortedTable(es)
      /\ \A j \in 1 .. Len(table) : es[j] = Entry(heap'[table[j]])
  BY <1>1, TableOfEntries DEF HeapOK
<1> HIDE DEF es, n, given
<1>7. es[i].context = given /\ ~disabled(es[i])
  <2>1. es[i] = Entry(heap'[n])
    BY <1>4, <1>6
  <2>2. QED
    BY <1>1, <1>5, <2>1, EntryFields DEF disabled
<1>8. smaller(given, es[i].context)
  BY <1>2, <1>7, SmallerPreorder
<1>9. p \in 1 .. Len(es) /\ p <= i /\ smaller(given, es[p].context)
  BY <1>4, <1>6, <1>7, <1>8, DispatchFirst
<1> HIDE DEF p
<1>10. p = i
  <2>1. p < i => ~smaller(es[i].context, es[p].context)
    BY <1>4, <1>6, <1>9, SortedEntries
  <2>2. Len(table) \in Nat
    BY <1>1, HeapFunctions
  <2>3. QED
    BY <1>4, <1>6, <1>7, <1>9, <2>1, <2>2
<1>11. p # 0
  BY <1>4, <1>10
<1>12. QED
  BY <1>4, <1>10, <1>11, Zenon DEF dispatch, p, es, n, given

\* A call that had a version compiled runs that version: when the backend is
\* done doCall dispatches again, and finds what it compiled (interp.cpp).
THEOREM RecompilationUsedHolds ==
    ASSUME ~BackendEvaluates, Unrestricted
    PROVE  Spec => RecompilationUsed
<1> DEFINE A == FinishCompile => smaller(heap'[frames'[Len(frames)].fun].context,
                                         heap[Top.fun].context)
           I == JInv /\ QInv /\ GInv
<1>1. Init => I
  BY JInvInit, QInvInit DEF Init, GInv
<1>2. I /\ [Next]_vars => I'
  BY JInvStep, QInvStep, GInvStep
<1>3. I /\ [Next]_vars => [A]_vars
  <2> SUFFICES ASSUME I, FinishCompile
               PROVE  smaller(heap'[frames'[Len(frames)].fun].context,
                              heap[Top.fun].context)
    OBVIOUS
  <2> DEFINE fr == Frame("run", Top.fun, Top.given, Top.patch)
  <2>1. frames' = [frames EXCEPT ![Len(frames)] = fr]
    BY FinishDispatches DEF FinishCompile, SetTop
  <2>2. fr.fun = Top.fun
    BY DEF Frame
  <2> HIDE DEF fr
  <2>3. Len(frames) \in DOMAIN frames
    BY TopActivation DEF JInv, FinishCompile
  <2>4. frames'[Len(frames)].fun = Top.fun
    BY <2>1, <2>2, <2>3
  <2>5. /\ Top.fun \in 1 .. Len(heap)
        /\ heap'[Top.fun].context = heap[Top.fun].context
    BY FinishHeap
  <2>6. heap[Top.fun].context \in Context
    BY <2>5, HeapFunctions DEF JInv
  <2>7. QED
    BY <2>4, <2>5, <2>6, SmallerPreorder
<1>4. QED
  BY <1>1, <1>2, <1>3, PTL DEF Spec, RecompilationUsed

-----------------------------------------------------------------------------
(* The steps of the dispatch table. *)

LEMMA EntryUpdate ==
    ASSUME NEW h, NEW t, HeapOK(h, t), NEW n, NEW g,
           \A m \in 1 .. Len(h) : m # n => g[m] = h[m]
    PROVE  LET es == Entries(h, t)
           IN  \/ Entries(g, t) = es
               \/ \E i \in 1 .. Len(t) :
                     /\ t[i] = n /\ i \in DOMAIN es /\ es[i] = Entry(h[n])
                     /\ Entries(g, t) = [es EXCEPT ![i] = Entry(g[n])]
<1> DEFINE es == Entries(h, t)
<1>1. /\ es \in Seq(VersionsFor(EmptyContext)) /\ Len(es) = Len(t)
      /\ DOMAIN es = 1 .. Len(t) /\ SortedTable(es)
      /\ \A i \in 1 .. Len(t) : es[i] = Entry(h[t[i]])
  BY TableOfEntries DEF HeapOK
<1>2. /\ DOMAIN t = 1 .. Len(t) /\ Len(t) \in Nat /\ Len(h) \in Nat
      /\ \A i \in 1 .. Len(t) : t[i] \in 2 .. Len(h)
  BY HeapFunctions
<1>3. \A i \in 1 .. Len(t) : t[i] \in 1 .. Len(h)
  BY <1>2
<1>4. /\ DOMAIN Entries(g, t) = 1 .. Len(t)
      /\ \A i \in 1 .. Len(t) : Entries(g, t)[i] = Entry(g[t[i]])
      /\ Entries(g, t) = [i \in 1 .. Len(t) |-> Entry(g[t[i]])]
      /\ es = [i \in 1 .. Len(t) |-> Entry(h[t[i]])]
  BY <1>2 DEF Entries
<1> HIDE DEF es
<1>5. CASE \A i \in 1 .. Len(t) : t[i] # n
  <2>1. \A i \in 1 .. Len(t) : Entry(g[t[i]]) = Entry(h[t[i]])
    BY <1>3, <1>5
  <2>2. QED
    BY <1>4, <2>1 DEF es
<1>6. ASSUME NEW i \in 1 .. Len(t), t[i] = n
      PROVE  Entries(g, t) = [es EXCEPT ![i] = Entry(g[n])]
  <2>1. ASSUME NEW j \in 1 .. Len(t), j # i
        PROVE  t[j] # n
    <3> SUFFICES ASSUME t[j] = n
                 PROVE  FALSE
      OBVIOUS
    <3>1. es[i].context = es[j].context
      BY <1>1, <1>6
    <3>2. QED
      BY <1>1, <2>1, <3>1, SortedEntries
  <2>2. \A j \in 1 .. Len(t) :
           Entry(g[t[j]]) = IF j = i THEN Entry(g[n]) ELSE es[j]
    BY <1>1, <1>3, <1>6, <2>1
  <2> DEFINE e == Entry(g[n])
  <2> HIDE DEF e
  <2>3. [es EXCEPT ![i] = e] = [j \in 1 .. Len(t) |-> IF j = i THEN e ELSE es[j]]
    BY <1>1
  <2>4. QED
    BY <1>4, <2>2, <2>3, Zenon DEF e
<1>7. QED
  BY <1>1, <1>5, <1>6, Zenon DEF es

LEMMA EntryUpdates ==
    ASSUME NEW f \in Function
    PROVE  /\ Entry([f EXCEPT !.pendingCompilation = FALSE]) =
                 [Entry(f) EXCEPT !.pendingCompilation = FALSE]
           /\ Entry(registerDeopt(f)) = registerDeopt(Entry(f))
<1>1. Entry([f EXCEPT !.pendingCompilation = FALSE]) =
         [Entry(f) EXCEPT !.pendingCompilation = FALSE]
  <2> DEFINE no == FALSE
  <2>1. \A b : Entry([f EXCEPT !.pendingCompilation = b]) =
                  [Entry(f) EXCEPT !.pendingCompilation = b]
    BY DEF Entry, Function
  <2>2. QED
    BY <2>1, Zenon
<1>2. Entry(registerDeopt(f)) = registerDeopt(Entry(f))
  <2> DEFINE k == IF f.deoptCount < UINT_MAX THEN f.deoptCount + 1 ELSE f.deoptCount
             fs == f.flags \cup {"Deopt"}
  <2>1. registerDeopt(f) = [f EXCEPT !.flags = fs, !.deoptCount = k]
    BY DEF registerDeopt, Function
  <2>2. registerDeopt(Entry(f)) = [Entry(f) EXCEPT
            !.flags = (f.flags \cap {"Deopt"}) \cup {"Deopt"}, !.deoptCount = k]
    BY DEF registerDeopt, Entry
  <2>3. (f.flags \cap {"Deopt"}) \cup {"Deopt"} = fs \cap {"Deopt"}
    OBVIOUS
  <2> HIDE DEF k, fs
  <2>4. Entry([f EXCEPT !.flags = fs, !.deoptCount = k]) =
           [Entry(f) EXCEPT !.flags = fs \cap {"Deopt"}, !.deoptCount = k]
    <3> DEFINE g == [f EXCEPT !.flags = fs, !.deoptCount = k]
               r == [context |-> f.context, flags |-> fs \cap {"Deopt"},
                     pendingCompilation |-> f.pendingCompilation,
                     deoptCount |-> k]
    <3>1. /\ g.context = f.context /\ g.flags = fs /\ g.deoptCount = k
          /\ g.pendingCompilation = f.pendingCompilation
      BY DEF Function
    <3> HIDE DEF g
    <3>2. Entry(g) = r
      BY <3>1 DEF Entry
    <3>3. [Entry(f) EXCEPT !.flags = fs \cap {"Deopt"}, !.deoptCount = k] = r
      <4> DEFINE p == f.pendingCompilation
                 fl == fs \cap {"Deopt"}
                 e == [context |-> f.context, flags |-> f.flags \cap {"Deopt"},
                       pendingCompilation |-> p, deoptCount |-> f.deoptCount]
                 d == [context |-> f.context, flags |-> fl,
                       pendingCompilation |-> p, deoptCount |-> f.deoptCount]
      <4> HIDE DEF p, fl
      <4>1. [e EXCEPT !.flags = fl] = d
        OBVIOUS
      <4>2. [d EXCEPT !.deoptCount = k] = [context |-> f.context, flags |-> fl,
                pendingCompilation |-> p, deoptCount |-> k]
        OBVIOUS
      <4>3. Entry(f) = e
        BY DEF Entry, p
      <4> HIDE DEF d, e
      <4>4. [Entry(f) EXCEPT !.flags = fl, !.deoptCount = k] =
               [d EXCEPT !.deoptCount = k]
        BY <4>1, <4>3
      <4>5. QED
        BY <4>2, <4>4 DEF fl, p
    <3>4. QED
      BY <3>2, <3>3 DEF g
  <2>5. QED
    BY <2>1, <2>2, <2>3, <2>4
<1>3. QED
  BY <1>1, <1>2

\* What a step does to the dispatch table.
Inserted(c) ==
    CompilesFor(c) /\ Entries(heap', table') \in insert(Entries(heap, table), NewVersion(c))
Finished(i) ==
    LET es == Entries(heap, table)
    IN  /\ i \in DOMAIN es /\ es[i].pendingCompilation
        /\ Entries(heap', table') =
              [es EXCEPT ![i] = [es[i] EXCEPT !.pendingCompilation = FALSE]]
Deoptimized(i) ==
    LET es == Entries(heap, table)
    IN  /\ i \in DOMAIN es /\ ~es[i].pendingCompilation
        /\ Entries(heap', table') = [es EXCEPT ![i] = registerDeopt(es[i])]

LEMMA DoCallEntries ==
    ASSUME JInv, NEW h, Kept(heap, h), NEW given \in Context, Requested(given),
           NEW patch \in BOOLEAN, MayCall, DoCall(h, given, patch)
    PROVE  Entries(heap', table') = Entries(heap, table) \/ \E c : Inserted(c)
<1>1. HeapOK(heap, table)
  BY DEF JInv
<1>2. CASE Runs(given, patch)
  BY <1>1, <1>2, KeptHeap DEF Runs
<1>3. ASSUME NEW g, NEW fs, NEW c, NEW es, Compiles(g, fs, c, es, given, patch)
      PROVE  Inserted(c)
  <2>1. Entries(heap', table') \in insert(Entries(heap, table), NewVersion(c))
    BY <1>1, <1>3, CompiledVersion
  <2>2. CompilesFor(c)
    BY <1>3, Zenon DEF CompilesFor
  <2>3. QED
    BY <2>1, <2>2 DEF Inserted
<1>4. QED
  BY <1>1, <1>2, <1>3, DoCallShape, Zenon

\* A finished compilation is that of a version of the table, a version that
\* deoptimizes was not awaiting its code; either may have left the table.
LEMMA UpdatedEntries ==
    ASSUME JInv, QInv, FinishCompile \/ Deopt
    PROVE  \/ Entries(heap', table') = Entries(heap, table)
           \/ \E i : Finished(i) \/ Deoptimized(i)
<1> DEFINE n == Top.fun
           es == Entries(heap, table)
<1>1. HeapOK(heap, table) /\ frames \in Seq(Activation(heap)) /\ frames # <<>>
      /\ table' = table
  BY DEF JInv, FinishCompile, Deopt
<1>2. /\ n \in 1 .. Len(heap) /\ heap[n] \in Function /\ n \in DOMAIN heap
      /\ \A m \in 1 .. Len(heap) : m # n => heap'[m] = heap[m]
  <2>1. n \in 1 .. Len(heap)
    BY <1>1, TopActivation DEF Top
  <2>2. \A m \in 1 .. Len(heap) : m # n => heap'[m] = heap[m]
    BY FinishHeap, DeoptHeap
  <2>3. QED
    BY <1>1, <2>1, <2>2, HeapFunctions
<1>3. \/ Entries(heap', table) = es
      \/ \E i \in 1 .. Len(table) :
            /\ i \in DOMAIN es /\ es[i] = Entry(heap[n])
            /\ Entries(heap', table) = [es EXCEPT ![i] = Entry(heap'[n])]
  <2> HIDE DEF n
  <2> QED BY <1>1, <1>2, EntryUpdate
<1>4. ASSUME NEW i, i \in DOMAIN es, es[i] = Entry(heap[n]),
             Entries(heap', table) = [es EXCEPT ![i] = Entry(heap'[n])]
      PROVE  Finished(i) \/ Deoptimized(i)
  <2>1. CASE FinishCompile
    <3>1. heap'[n] = [heap[n] EXCEPT !.pendingCompilation = FALSE]
      BY <2>1, FinishHeap
    <3>2. Entry(heap'[n]) = [es[i] EXCEPT !.pendingCompilation = FALSE]
      BY <1>2, <1>4, <3>1, EntryUpdates, Zenon
    <3>3. heap[n].pendingCompilation
      BY <2>1, Zenon DEF QInv, Awaiting, FinishCompile, Top
    <3>4. es[i].pendingCompilation
      BY <1>4, <3>3, EntryFields
    <3>5. QED
      BY <1>1, <1>4, <3>2, <3>4, Zenon DEF Finished
  <2>2. CASE Deopt
    <3>1. heap'[n] = registerDeopt(heap[n])
      BY <2>2, DeoptHeap
    <3>2. Entry(heap'[n]) = registerDeopt(es[i])
      BY <1>2, <1>4, <3>1, EntryUpdates, Zenon
    <3>3. ~(frames # <<>> /\ Last(frames).kind = "compile")
      BY <1>1, <2>2, TopActivation DEF Deopt, Top
    <3>4. ~heap[n].pendingCompilation
      BY <1>2, <3>3, Zenon DEF QInv, Awaiting
    <3>5. ~es[i].pendingCompilation
      BY <1>4, <3>4, EntryFields
    <3>6. QED
      BY <1>1, <1>4, <3>2, <3>5, Zenon DEF Deoptimized
  <2>3. QED
    BY <2>1, <2>2
<1>5. QED
  BY <1>1, <1>3, <1>4, Zenon

LEMMA StepEntries ==
    ASSUME ~BackendEvaluates, JInv, QInv, [Next]_vars
    PROVE  \/ Entries(heap', table') = Entries(heap, table)
           \/ \E c : Inserted(c)
           \/ \E i : Finished(i) \/ Deoptimized(i)
<1>1. ASSUME NEW c \in Calls, Call(c)
      PROVE  Entries(heap', table') = Entries(heap, table) \/ \E d : Inserted(d)
  <2> DEFINE given == infer(EmptyContext, c)
  <2>1. given \in Context /\ Requested(given)
    BY CallGiven DEF Requested
  <2>2. DoCall(heap, given, FALSE) /\ MayCall
    BY <1>1 DEF Call
  <2>3. Kept(heap, heap)
    BY KeptReflexive DEF JInv, HeapOK
  <2> HIDE DEF given
  <2>4. QED
    BY <2>1, <2>2, <2>3, DoCallEntries
<1>2. ASSUME NEW c \in NativeCalls, NativeCallSlow(c)
      PROVE  Entries(heap', table') = Entries(heap, table) \/ \E d : Inserted(d)
  <2> DEFINE given == infer(available, c)
  <2>1. given \in Context /\ Requested(given)
    BY CallGiven DEF Requested
  <2>2. DoCall(slowHeap, given, TRUE) /\ MayCall
    BY <1>2, SlowCall
  <2> HIDE DEF given
  <2>3. QED
    BY <2>1, <2>2, SlowHeap, DoCallEntries
<1>3. ASSUME NEW c \in NativeCalls, NativeCall(c)
      PROVE  Entries(heap', table') = Entries(heap, table)
  <2>1. Kept(heap, heap') /\ table' = table
    BY <1>3, NativeTarget DEF NativeCall
  <2>2. QED
    BY <2>1, KeptHeap DEF JInv
<1>4. CASE Return
  <2>1. Kept(heap, heap') /\ table' = table
    BY <1>4, ReturnHeap DEF Return
  <2>2. QED
    BY <2>1, KeptHeap DEF JInv
<1>5. ASSUME NEW n \in {BASELINE} \cup Range(table), NEW f \in UserFlags,
             MarkFunction(n, f)
      PROVE  Entries(heap', table') = Entries(heap, table)
  <2>1. table' = table
    BY <1>5 DEF MarkFunction
  <2>2. QED
    BY <1>5, <2>1, MarkHeap
<1>6. CASE Error \/ UNCHANGED vars
  BY <1>6 DEF Error, vars
<1>7. QED
  BY <1>1, <1>2, <1>3, <1>4, <1>5, <1>6, UpdatedEntries, Zenon DEF Next

-----------------------------------------------------------------------------
\* The contexts pirCompile can be asked for: what calls provide, without the
\* assumptions disabled for the dispatched version and for the baseline.
RequestedContexts ==
    UNION { { clearDisabledAssumptions(fs, SpecializationLevel,
                clearDisabledAssumptions(gs, SpecializationLevel, given)) :
                fs \in SUBSET (UserFlags \cap inherited),
                gs \in SUBSET (UserFlags \cap inherited) } :
            given \in { infer(EmptyContext, c) : c \in Calls } \cup
                      { infer(available, c) : c \in NativeCalls } }

DT == INSTANCE DispatchTable WITH
        table <- Entries(heap, table), userDefinedContext <- EmptyContext,
        CallContexts <- RequestedContexts, UserContexts <- {}

\* The dispatch table, as calls and deoptimizations change it, behaves as
\* module DispatchTable says.
ImplementsDispatchTable == DT!Spec

-----------------------------------------------------------------------------
LEMMA RequestedCompiled ==
    ASSUME JInv, NEW c, CompilesFor(c)
    PROVE  c \in RequestedContexts /\ c \in Context /\ Includes(c, minimalContext)
<1>1. PICK given, patch, g, fs, es :
         /\ given \in Context /\ Requested(given)
         /\ Compiles(g, fs, c, es, given, patch)
  BY Zenon DEF CompilesFor
<1> DEFINE bs == heap[BASELINE].flags
           S == SUBSET (UserFlags \cap inherited)
           clear(xs, a) == clearDisabledAssumptions(xs, SpecializationLevel, a)
<1>2. bs \cap inherited \subseteq UserFlags
  BY HeapFunctions DEF JInv, HeapOK, BASELINE
<1> DEFINE xs == fs \cap inherited
           ys == bs \cap inherited
           wanted == clear(fs, given)
<1>3. xs \in S /\ ys \in S
  BY <1>1, <1>2 DEF Compiles
<1>4. xs \cap inherited = fs \cap inherited /\ ys \cap inherited = bs \cap inherited
  OBVIOUS
<1>5. c = clear(bs, wanted)
  BY <1>1 DEF Compiles
<1> HIDE DEF xs, ys, bs
<1>6. wanted = clear(xs, given)
  BY <1>4, ClearedInherited
<1> HIDE DEF wanted
<1>7. c = clear(ys, wanted)
  BY <1>4, <1>5, ClearedInherited
<1>8. given \in { infer(EmptyContext, d) : d \in Calls } \cup
                { infer(available, d) : d \in NativeCalls }
  BY <1>1 DEF Requested
<1>9. c \in RequestedContexts
  <2> DEFINE T(a) == { clearDisabledAssumptions(us, SpecializationLevel,
                         clearDisabledAssumptions(vs, SpecializationLevel, a)) :
                         us \in S, vs \in S }
             G == { infer(EmptyContext, d) : d \in Calls } \cup
                  { infer(available, d) : d \in NativeCalls }
  <2>1. c \in T(given)
    BY <1>3, <1>6, <1>7
  <2>2. RequestedContexts = UNION { T(a) : a \in G }
    BY DEF RequestedContexts
  <2>3. given \in G
    BY <1>8
  <2> HIDE DEF T, G
  <2>4. QED
    BY <2>1, <2>2, <2>3, Zenon
<1>10. c \in Context
  BY CompiledFor
<1>11. QED
  BY <1>1, <1>9, <1>10 DEF Compiles

\* The operators of the instance are those of this module.
LEMMA SameOrder ==
    ASSUME NEW a, NEW b
    PROVE  DT!Less(a, b) <=> Less(a, b)
<1>1. ASSUME NEW x, NEW y
      PROVE  DT!smaller(x, y) <=> smaller(x, y)
  BY Zenon DEF DT!smaller, smaller, DT!NotTooManyArguments, NotTooManyArguments,
               DT!NoExplicitlyMissingArgs, NoExplicitlyMissingArgs
<1>2. ASSUME NEW x, NEW y
      PROVE  DT!IntGreater(x, y) <=> IntGreater(x, y)
  BY Zenon DEF DT!IntGreater, IntGreater
<1>3. DT!LexLess(a, b) <=> LexLess(a, b)
  <2>1. ASSUME NEW S
        PROVE  DT!Cardinality(S) = Cardinality(S)
    BY DEF DT!Cardinality, Cardinality
  <2>2. QED
    BY <1>2, <2>1, Zenon DEF DT!LexLess, LexLess
<1>4. QED
  BY <1>1, <1>3, Zenon DEF DT!Less, Less

LEMMA SameScanStop ==
    ASSUME NEW t, NEW c
    PROVE  DT!scanStop(t, c) = scanStop(t, c)
<1> DEFINE I == { i \in 1 .. Len(t) : ~Less(c, t[i].context) }
           J == { i \in 1 .. Len(t) : ~DT!Less(c, t[i].context) }
<1>1. I = J
  BY SameOrder, Zenon
<1>2. scanStop(t, c) = IF I # {} THEN Max(I) ELSE 0
  BY Zenon DEF scanStop, SelectLastInSeq
<1>3. DT!scanStop(t, c) = IF J # {} THEN DT!Max(J) ELSE 0
  BY Zenon DEF DT!scanStop, DT!SelectLastInSeq
<1> HIDE DEF I, J
<1>4. DT!Max(J) = Max(J)
  BY Zenon DEF DT!Max, Max
<1>5. QED
  BY <1>1, <1>2, <1>3, <1>4, Zenon

LEMMA SameInsert ==
    ASSUME NEW t, NEW f
    PROVE  DT!insert(t, f) = insert(t, f)
<1>1. DT!hasVersion(t, f.context) <=> hasVersion(t, f.context)
  BY SameScanStop, Zenon DEF DT!hasVersion, hasVersion
<1>2. DT!replaceVersion(t, f) = replaceVersion(t, f)
  BY SameScanStop, Zenon DEF DT!replaceVersion, replaceVersion,
     DT!addDeoptCount, addDeoptCount
<1>3. ASSUME NEW s
      PROVE  DT!addVersion(s, f) = addVersion(s, f)
  BY SameScanStop, Zenon DEF DT!addVersion, addVersion, DT!InsertAt, InsertAt
<1>4. ASSUME NEW i
      PROVE  DT!RemoveAt(t, i) = RemoveAt(t, i)
  BY Zenon DEF DT!RemoveAt, RemoveAt
<1>5. { DT!addVersion(DT!RemoveAt(t, i), f) : i \in 1 .. Len(t) } =
         { addVersion(RemoveAt(t, i), f) : i \in 1 .. Len(t) }
  BY <1>3, <1>4, Zenon
<1>6. QED
  BY <1>1, <1>2, <1>3, <1>5, Zenon DEF DT!insert, insert

\* A compiled version is inserted as module DispatchTable inserts it.
LEMMA InsertedIsInsert ==
    ASSUME JInv, NEW c, Inserted(c)
    PROVE  c \in RequestedContexts /\ DT!Insert(c)
<1>1. c \in RequestedContexts /\ c \in Context /\ Includes(c, minimalContext)
  BY RequestedCompiled DEF Inserted
<1>2. c.missing \in Nat
  BY <1>1, ContextFields
<1>3. DT!Joinable(EmptyContext, c)
  BY <1>2 DEF DT!Joinable, EmptyContext
<1>4. DT!Join(EmptyContext, c) = c
  <2>1. /\ c = [flags |-> c.flags, typeFlags |-> c.typeFlags, missing |-> c.missing]
        /\ c.flags \subseteq Assumption /\ c.typeFlags \subseteq TypeAssumption
    BY <1>1 DEF Context
  <2>2. DT!Join(EmptyContext, c) =
           [flags |-> {} \cup c.flags, typeFlags |-> {} \cup c.typeFlags,
            missing |-> IF c.missing > 0 THEN c.missing ELSE 0]
    BY DEF DT!Join, EmptyContext
  <2>3. /\ {} \cup c.flags = c.flags /\ {} \cup c.typeFlags = c.typeFlags
        /\ (IF c.missing > 0 THEN c.missing ELSE 0) = c.missing
    BY <1>2
  <2>4. QED
    BY <2>1, <2>2, <2>3, Zenon
<1>5. DT!Includes(c, DT!minimalContext)
  BY <1>1 DEF DT!Includes, Includes, DT!minimalContext, minimalContext,
     DT!CorrectOrderOfArguments, CorrectOrderOfArguments,
     DT!NotTooManyArguments, NotTooManyArguments
<1>6. DT!NewVersion(c) = NewVersion(c)
  BY DEF DT!NewVersion, NewVersion
<1>7. Entries(heap, table)' \in DT!insert(Entries(heap, table), DT!NewVersion(c))
  BY <1>6, SameInsert, Zenon DEF Inserted
<1>8. QED
  BY <1>1, <1>3, <1>4, <1>5, <1>7, Zenon DEF DT!Insert

LEMMA TableSteps ==
    ASSUME ~BackendEvaluates, JInv, QInv, [Next]_vars
    PROVE  [DT!Next]_(DT!vars)
<1> DEFINE es == Entries(heap, table)
           next == Entries(heap', table')
<1>1. CASE next = es
  <2>1. UNCHANGED DT!vars
    BY <1>1, Zenon DEF DT!vars, Entries
  <2>2. QED
    BY <2>1
<1>2. ASSUME NEW c, Inserted(c)
      PROVE  DT!Next
  BY <1>2, InsertedIsInsert, Zenon DEF DT!Next
<1>3. ASSUME NEW i, Finished(i)
      PROVE  DT!Next
  <2>1. DT!FinishCompilation(i) /\ i \in DOMAIN es
    BY <1>3, Zenon DEF DT!FinishCompilation, Finished
  <2>2. QED
    BY <2>1, Zenon DEF DT!Next
<1>4. ASSUME NEW i, Deoptimized(i)
      PROVE  DT!Next
  <2>1. DT!registerDeopt(es[i]) = registerDeopt(es[i])
    BY Zenon DEF DT!registerDeopt, registerDeopt
  <2>2. DT!Deopt(i) /\ i \in DOMAIN es
    BY <1>4, <2>1, Zenon DEF DT!Deopt, Deoptimized
  <2>3. QED
    BY <2>2, Zenon DEF DT!Next
<1>5. QED
  BY <1>1, <1>2, <1>3, <1>4, StepEntries, Zenon

\* While the backend does not run R code, every step of calls, compilations
\* and deoptimizations is a step of the dispatch table or leaves it alone.
THEOREM DispatchTableImplemented ==
    ASSUME ~BackendEvaluates
    PROVE  Spec => ImplementsDispatchTable
<1>1. Init => DT!Init
  <2> SUFFICES ASSUME Init
               PROVE  DT!Init
    OBVIOUS
  <2>1. table = <<>>
    BY DEF Init
  <2>2. Entries(heap, table) = <<>>
    BY <2>1 DEF Entries
  <2>3. EmptyContext = DT!EmptyContext
    BY DEF EmptyContext, DT!EmptyContext
  <2>4. QED
    BY <2>2, <2>3, Zenon DEF DT!Init
<1>2. JInv /\ QInv /\ [Next]_vars => [DT!Next]_(DT!vars)
  BY TableSteps
<1>3. Init => JInv /\ QInv
  BY JInvInit, QInvInit
<1>4. JInv /\ QInv /\ [Next]_vars => (JInv /\ QInv)'
  BY JInvStep, QInvStep
<1>5. QED
  BY <1>1, <1>2, <1>3, <1>4, PTL DEF Spec, ImplementsDispatchTable, DT!Spec

=============================================================================
