------------------------------ MODULE JitCalls ------------------------------
(***************************************************************************)
(* What dispatch, compilation and doCall of module Jit do to the versions   *)
(* of a function, to its dispatch table and to the activations, and that    *)
(* calls keep the invariant JInv.                                           *)
(***************************************************************************)
EXTENDS Jit, VersionsProofs

\* The provers of a leaf that names none, in the order they are tried.
USE SMTT(10), ZenonT(20), SMTT(90)

-----------------------------------------------------------------------------
\* What a heap h and the table t of version numbers satisfy in every state.
\* The baseline is enabled for good and the versions have contexts operator<
\* can order, hence the table stays sorted and dispatch returns an enabled
\* version.
HeapOK(h, t) ==
    /\ h \in Seq(Function)
    /\ Len(h) \in 1 .. MaxVersions + 1
    /\ h[BASELINE].context = EmptyContext /\ ~disabled(h[BASELINE])
    /\ \A n \in 2 .. Len(h) : Includes(h[n].context, minimalContext)
    /\ \A n \in 1 .. Len(h) : h[n].flags \cap inherited \subseteq UserFlags
    /\ t \in Seq(2 .. Len(h))
    /\ Len(t) < Capacity
    /\ SortedTable(Entries(h, t))

\* An activation of the versions of h.
Activation(h) ==
    { f \in [kind : {"run", "compile"}, fun : 1 .. Len(h), native : BOOLEAN,
             given : Context, patch : BOOLEAN, deoptimizing : BOOLEAN] :
        f.native => f.kind = "run" /\ f.fun # BASELINE }

CacheOK(h, ch) ==
    /\ ch \in [target : 0 .. Len(h), missing : Context]
    /\ ch.target # SENTINEL => /\ ~disabled(h[ch.target])
                               /\ ch.missing = Minus(h[ch.target].context, available)

JInv ==
    /\ HeapOK(heap, table)
    /\ CacheOK(heap, cache)
    /\ frames \in Seq(Activation(heap)) /\ Len(frames) <= MaxDepth
    /\ recheck \in 0 .. RECHECK + 1
    /\ deoptimizationStartedAt \in 0 .. MaxDepth
-----------------------------------------------------------------------------
(* Functions and heaps. *)

\* g is f but for the counters and the flags that dispatch ignores.
KeptFunction(f, g) ==
    /\ g \in Function
    /\ Entry(g) = Entry(f)
    /\ g.flags \cap inherited = f.flags \cap inherited

Kept(h, g) ==
    /\ g \in Seq(Function)
    /\ Len(g) = Len(h)
    /\ \A n \in 1 .. Len(h) : KeptFunction(h[n], g[n])

LEMMA EntryFields ==
    ASSUME NEW f
    PROVE  /\ Entry(f).context = f.context
           /\ Entry(f).flags = f.flags \cap {"Deopt"}
           /\ Entry(f).pendingCompilation = f.pendingCompilation
           /\ Entry(f).deoptCount = f.deoptCount
           /\ disabled(Entry(f)) <=> disabled(f)
BY DEF Entry, disabled

LEMMA EntryTyped ==
    ASSUME NEW f \in Function
    PROVE  Entry(f) \in Version
BY DEF Entry, Function, Version

\* Functions with the same entry are alike to dispatch.
LEMMA SameEntry ==
    ASSUME NEW f, NEW g, Entry(g) = Entry(f)
    PROVE  /\ g.context = f.context
           /\ disabled(g) <=> disabled(f)
           /\ g.pendingCompilation = f.pendingCompilation
           /\ g.deoptCount = f.deoptCount
<1>1. /\ Entry(f).context = f.context /\ Entry(g).context = g.context
      /\ Entry(f).pendingCompilation = f.pendingCompilation
      /\ Entry(g).pendingCompilation = g.pendingCompilation
      /\ Entry(f).deoptCount = f.deoptCount /\ Entry(g).deoptCount = g.deoptCount
      /\ disabled(Entry(f)) <=> disabled(f)
      /\ disabled(Entry(g)) <=> disabled(g)
  BY EntryFields
<1>2. QED
  BY <1>1

\* The counters of an invocation, and flags other than Deopt and the ones a
\* version inherits, do not matter to dispatch.
LEMMA Invocations ==
    ASSUME NEW f \in Function
    PROVE  /\ KeptFunction(f, registerInvocation(f))
           /\ KeptFunction(f, unregisterInvocation(f))
           /\ KeptFunction(f, registerEndInvocation(f))
<1>1. UINT_MAX \in Nat /\ f.invocationCount \in 0 .. UINT_MAX
  BY UintAssumption DEF Function
<1>2. ASSUME NEW b \in BOOLEAN, NEW k \in 0 .. UINT_MAX
      PROVE  KeptFunction(f, [f EXCEPT !.invoked = b, !.invocationCount = k])
  <2> DEFINE g == [f EXCEPT !.invoked = b, !.invocationCount = k]
  <2>1. g \in Function
    BY Zenon DEF Function
  <2>2. /\ g.context = f.context /\ g.flags = f.flags
        /\ g.pendingCompilation = f.pendingCompilation
        /\ g.deoptCount = f.deoptCount
    BY DEF Function
  <2> HIDE DEF g
  <2>3. Entry(g) = Entry(f)
    BY <2>2 DEF Entry
  <2>4. KeptFunction(f, g)
    BY <2>1, <2>2, <2>3 DEF KeptFunction
  <2>5. QED
    BY <2>4 DEF g
<1>3. registerInvocation(f) =
        [f EXCEPT !.invoked = TRUE, !.invocationCount =
            IF f.invocationCount < UINT_MAX THEN f.invocationCount + 1
            ELSE f.invocationCount]
  BY DEF registerInvocation
<1>4. unregisterInvocation(f) =
        [f EXCEPT !.invoked = FALSE, !.invocationCount =
            IF f.invocationCount > 0 THEN f.invocationCount - 1
            ELSE f.invocationCount]
  BY DEF unregisterInvocation
<1>5. registerEndInvocation(f) =
        [f EXCEPT !.invoked = FALSE, !.invocationCount = f.invocationCount]
  BY DEF registerEndInvocation, Function
<1>6. /\ (IF f.invocationCount < UINT_MAX THEN f.invocationCount + 1
          ELSE f.invocationCount) \in 0 .. UINT_MAX
      /\ (IF f.invocationCount > 0 THEN f.invocationCount - 1
          ELSE f.invocationCount) \in 0 .. UINT_MAX
  BY <1>1
<1>7. QED
  BY <1>1, <1>2, <1>3, <1>4, <1>5, <1>6, ZenonT(60)

LEMMA FlagUpdate ==
    ASSUME NEW f \in Function, NEW fs \in SUBSET Flag,
           fs \cap {"Deopt"} = f.flags \cap {"Deopt"}
    PROVE  /\ [f EXCEPT !.flags = fs] \in Function
           /\ [f EXCEPT !.flags = fs].flags = fs
           /\ Entry([f EXCEPT !.flags = fs]) = Entry(f)
<1> DEFINE g == [f EXCEPT !.flags = fs]
<1>1. g \in Function
  BY Zenon DEF Function
<1>2. /\ g.context = f.context /\ g.flags = fs
      /\ g.pendingCompilation = f.pendingCompilation
      /\ g.deoptCount = f.deoptCount
  BY DEF Function
<1> HIDE DEF g
<1>3. Entry(g) = Entry(f)
  BY <1>2 DEF Entry
<1>4. QED
  BY <1>1, <1>2, <1>3 DEF g

\* Changing one function.
LEMMA KeptUpdate ==
    ASSUME NEW h \in Seq(Function), NEW n \in 1 .. Len(h), NEW f,
           KeptFunction(h[n], f)
    PROVE  Kept(h, [h EXCEPT ![n] = f])
<1> DEFINE g == [h EXCEPT ![n] = f]
<1>1. f \in Function
  BY DEF KeptFunction
<1>2. g \in Seq(Function) /\ Len(g) = Len(h)
  BY <1>1, ExceptSeq
<1>3. \A m \in 1 .. Len(h) : h[m] \in Function /\ m \in DOMAIN h
  BY ElementOfSeq, LenProperties
<1>4. \A m \in 1 .. Len(h) : g[m] = IF m = n THEN f ELSE h[m]
  BY <1>3
<1> HIDE DEF g
<1>5. \A m \in 1 .. Len(h) : KeptFunction(h[m], h[m])
  BY <1>3 DEF KeptFunction
<1>6. Kept(h, g)
  BY <1>2, <1>4, <1>5 DEF Kept
<1>7. QED
  BY <1>6 DEF g

LEMMA KeptReflexive ==
    ASSUME NEW h \in Seq(Function)
    PROVE  Kept(h, h)
<1>1. \A m \in 1 .. Len(h) : h[m] \in Function
  BY ElementOfSeq
<1>2. QED
  BY <1>1 DEF Kept, KeptFunction

LEMMA KeptTransitive ==
    ASSUME NEW h, NEW g, NEW k, Kept(h, g), Kept(g, k)
    PROVE  Kept(h, k)
BY DEF Kept, KeptFunction

-----------------------------------------------------------------------------
(* Heaps and tables. *)

LEMMA HeapFunctions ==
    ASSUME NEW h, NEW t, HeapOK(h, t)
    PROVE  /\ DOMAIN h = 1 .. Len(h) /\ Len(h) \in Nat /\ 1 \in 1 .. Len(h)
           /\ \A n \in 1 .. Len(h) : /\ h[n] \in Function
                                     /\ h[n].context \in Context
           /\ DOMAIN t = 1 .. Len(t) /\ Len(t) \in Nat
           /\ \A i \in 1 .. Len(t) : t[i] \in 2 .. Len(h)
<1>1. /\ h \in Seq(Function) /\ Len(h) \in 1 .. MaxVersions + 1
      /\ t \in Seq(2 .. Len(h)) /\ MaxVersions \in Nat
  BY JitAssumption DEF HeapOK
<1>2. DOMAIN h = 1 .. Len(h) /\ Len(h) \in Nat
  BY <1>1, LenProperties
<1>3. \A n \in 1 .. Len(h) : h[n] \in Function
  BY <1>1, ElementOfSeq
<1>4. DOMAIN t = 1 .. Len(t) /\ Len(t) \in Nat
  BY <1>1, LenProperties
<1>5. \A i \in 1 .. Len(t) : t[i] \in 2 .. Len(h)
  BY <1>1, ElementOfSeq
<1>6. \A f \in Function : f.context \in Context
  BY DEF Function
<1>7. QED
  BY <1>1, <1>2, <1>3, <1>4, <1>5, <1>6

\* The versions are entries of a table for calls of any context.
LEMMA VersionEntry ==
    ASSUME NEW f \in Function, Includes(f.context, minimalContext)
    PROVE  Entry(f) \in VersionsFor(EmptyContext)
<1>1. Entry(f) \in Version /\ Entry(f).context = f.context
  BY EntryTyped, EntryFields
<1>2. f.context \in Context
  BY DEF Function
<1>3. smaller(f.context, EmptyContext)
  BY <1>2 DEF smaller, EmptyContext, Context, MAX_MISSING
<1>4. QED
  BY <1>1, <1>3 DEF VersionsFor, Includes

LEMMA TableOfEntries ==
    ASSUME NEW h, NEW t, HeapOK(h, t)
    PROVE  /\ Entries(h, t) \in Seq(VersionsFor(EmptyContext))
           /\ Entries(h, t) \in Seq(Version)
           /\ Len(Entries(h, t)) = Len(t)
           /\ DOMAIN Entries(h, t) = 1 .. Len(t)
           /\ \A i \in 1 .. Len(t) : Entries(h, t)[i] = Entry(h[t[i]])
<1> DEFINE V == VersionsFor(EmptyContext)
           es == Entries(h, t)
<1>1. \A i \in 1 .. Len(t) : Entry(h[t[i]]) \in V
  <2> SUFFICES ASSUME NEW i \in 1 .. Len(t)
               PROVE  Entry(h[t[i]]) \in V
    OBVIOUS
  <2>1. t[i] \in 2 .. Len(h) /\ Len(h) \in Nat
    BY HeapFunctions
  <2>2. t[i] \in 1 .. Len(h)
    BY <2>1
  <2>3. h[t[i]] \in Function /\ Includes(h[t[i]].context, minimalContext)
    BY <2>1, <2>2, HeapFunctions, Zenon DEF HeapOK
  <2>4. QED
    BY <2>3, VersionEntry
<1>2. es = [i \in 1 .. Len(t) |-> Entry(h[t[i]])] /\ Len(t) \in Nat
  BY HeapFunctions DEF Entries
<1> HIDE DEF V, es
<1>3. /\ es \in Seq(V) /\ Len(es) = Len(t) /\ DOMAIN es = 1 .. Len(t)
      /\ \A i \in 1 .. Len(t) : es[i] = Entry(h[t[i]])
  <2>1. es \in [1 .. Len(t) -> V]
    BY <1>1, <1>2
  <2>2. es \in Seq(V)
    BY <1>2, <2>1, SeqDef
  <2>3. QED
    BY <1>2, <2>1, <2>2, LenProperties
<1>4. QED
  BY <1>3, TableEntries DEF V, es

\* A heap in which every function has kept its context is as good.
LEMMA SameContexts ==
    ASSUME NEW h, NEW t, HeapOK(h, t),
           NEW g \in Seq(Function), Len(g) = Len(h),
           \A n \in 1 .. Len(h) : g[n].context = h[n].context,
           \A n \in 1 .. Len(h) : g[n].flags \cap inherited \subseteq UserFlags,
           ~disabled(g[BASELINE])
    PROVE  HeapOK(g, t)
<1>1. \A i \in DOMAIN t : Entries(g, t)[i].context = Entries(h, t)[i].context
  <2> SUFFICES ASSUME NEW i \in DOMAIN t
               PROVE  Entries(g, t)[i].context = Entries(h, t)[i].context
    OBVIOUS
  <2>1. t[i] \in 1 .. Len(h)
    BY HeapFunctions
  <2>2. Entries(g, t)[i] = Entry(g[t[i]]) /\ Entries(h, t)[i] = Entry(h[t[i]])
    BY DEF Entries
  <2>3. Entries(g, t)[i].context = g[t[i]].context
        /\ Entries(h, t)[i].context = h[t[i]].context
    BY <2>2, EntryFields
  <2>4. QED
    BY <2>1, <2>3
<1>2. DOMAIN Entries(g, t) = DOMAIN t /\ DOMAIN Entries(h, t) = DOMAIN t
  BY DEF Entries
<1>3. SortedTable(Entries(h, t))
  BY DEF HeapOK
<1>4. SortedTable(Entries(g, t))
  BY <1>1, <1>2, <1>3, Zenon DEF SortedTable
<1>5. BASELINE \in 1 .. Len(h)
  BY HeapFunctions DEF BASELINE
<1>6. \A n \in 2 .. Len(h) : n \in 1 .. Len(h)
  BY HeapFunctions
<1>7. QED
  BY <1>4, <1>5, <1>6 DEF HeapOK

LEMMA KeptHeap ==
    ASSUME NEW h, NEW t, HeapOK(h, t), NEW g, Kept(h, g)
    PROVE  /\ HeapOK(g, t)
           /\ Entries(g, t) = Entries(h, t)
           /\ \A n \in 1 .. Len(h) :
                 /\ g[n].context = h[n].context
                 /\ disabled(g[n]) <=> disabled(h[n])
                 /\ g[n].pendingCompilation = h[n].pendingCompilation
                 /\ g[n].flags \cap inherited = h[n].flags \cap inherited
<1>1. \A n \in 1 .. Len(h) : /\ Entry(g[n]) = Entry(h[n])
                             /\ g[n].flags \cap inherited = h[n].flags \cap inherited
  BY DEF Kept, KeptFunction
<1>2. \A n \in 1 .. Len(h) :
         /\ g[n].context = h[n].context
         /\ disabled(g[n]) <=> disabled(h[n])
         /\ g[n].pendingCompilation = h[n].pendingCompilation
  BY <1>1, SameEntry
<1>3. HeapOK(g, t)
  <2>1. BASELINE \in 1 .. Len(h)
    BY HeapFunctions DEF BASELINE
  <2>2. ~disabled(g[BASELINE])
    BY <1>2, <2>1 DEF HeapOK
  <2>3. \A n \in 1 .. Len(h) : g[n].flags \cap inherited \subseteq UserFlags
    BY <1>1 DEF HeapOK
  <2>4. QED
    BY <1>2, <2>2, <2>3, SameContexts DEF Kept
<1>4. Entries(g, t) = Entries(h, t)
  <2>1. \A i \in DOMAIN t : t[i] \in 1 .. Len(h)
    BY HeapFunctions
  <2>2. QED
    BY <1>1, <2>1, Zenon DEF Entries
<1>5. QED
  BY <1>1, <1>2, <1>3, <1>4

\* dispatch returns the baseline or a version of the table that is enabled and
\* whose assumptions the call satisfies.
LEMMA DispatchSound ==
    ASSUME NEW h, NEW t, HeapOK(h, t), NEW given
    PROVE  /\ dispatch(h, t, given) \in 1 .. Len(h)
           /\ ~disabled(h[dispatch(h, t, given)])
           /\ dispatch(h, t, given) # BASELINE =>
                 smaller(given, h[dispatch(h, t, given)].context)
<1> DEFINE es == Entries(h, t)
           d == dispatchIndex(es, given, TRUE)
<1>1. /\ es \in Seq(Version) /\ Len(es) = Len(t)
      /\ \A i \in 1 .. Len(t) : es[i] = Entry(h[t[i]])
  BY TableOfEntries
<1>2. dispatch(h, t, given) = IF d = 0 THEN BASELINE ELSE t[d]
  BY DEF dispatch
<1> HIDE DEF es
<1>3. \/ d = 0
      \/ d \in 1 .. Len(es) /\ smaller(given, es[d].context) /\ ~disabled(es[d])
  BY <1>1, DispatchEnabled
<1> HIDE DEF d
<1>4. CASE d = 0
  BY <1>2, <1>4, HeapFunctions DEF HeapOK, BASELINE
<1>5. CASE d # 0
  <2>1. /\ d \in 1 .. Len(t) /\ es[d] = Entry(h[t[d]])
        /\ smaller(given, es[d].context) /\ ~disabled(es[d])
    BY <1>1, <1>3, <1>5
  <2>2. t[d] \in 2 .. Len(h) /\ Len(h) \in Nat
    BY <2>1, HeapFunctions
  <2>3. smaller(given, h[t[d]].context) /\ ~disabled(h[t[d]])
    BY <2>1, EntryFields
  <2>4. dispatch(h, t, given) = t[d] /\ t[d] \in 1 .. Len(h)
    BY <1>2, <1>5, <2>2
  <2>5. QED
    BY <2>3, <2>4, Zenon
<1>6. QED
  BY <1>4, <1>5, Zenon

-----------------------------------------------------------------------------
(* Contexts of calls. *)

LEMMA ArgFlags ==
    ASSUME NEW a, NEW i \in Nat
    PROVE  /\ argFlags(a, i) \subseteq TypeAssumption
           /\ \A f \in argFlags(a, i) : f % NUM_TYPED_ARGS = i
BY DEF argFlags, TypeAssumption, Eager, NonRefl, NotObj, SimpleInt,
                SimpleReal, NUM_TYPED_ARGS

LEMMA InferredContext ==
    ASSUME NEW given \in Context, NEW c \in AnyCall
    PROVE  infer(given, c) \in Context
<1> DEFINE r == infer(given, c)
<1>1. Len(c.args) \in Nat
  BY LenProperties DEF AnyCall
<1>2. formalNargs \in 0 .. MAX_MISSING
  BY JitAssumption
<1>3. r.flags \subseteq Assumption
  BY DEF infer, inferCurrentContext
<1>4. r.typeFlags \subseteq TypeAssumption
  <2>1. \A i \in 1 .. Len(c.args) :
           argFlags(c.args[i], i - 1) \subseteq TypeAssumption
    <3>1. \A i \in 1 .. Len(c.args) : i - 1 \in Nat
      BY <1>1
    <3>2. QED
      BY <3>1, ArgFlags
  <2>2. given.typeFlags \subseteq TypeAssumption
    BY DEF Context
  <2>3. r.typeFlags \subseteq given.typeFlags \cup
            UNION { argFlags(c.args[i], i - 1) : i \in 1 .. Len(c.args) }
    BY DEF infer, inferCurrentContext
  <2>4. QED
    BY <2>1, <2>2, <2>3, Zenon
<1>5. r.missing \in 0 .. MAX_MISSING
  <2> DEFINE m == Len(c.args)
  <2>1. r.missing = IF m <= formalNargs THEN formalNargs - m ELSE given.missing
    BY DEF infer, inferCurrentContext
  <2>2. given.missing \in 0 .. MAX_MISSING /\ MAX_MISSING \in Nat
    BY DEF Context, MAX_MISSING
  <2> HIDE DEF m, r
  <2>3. m \in Nat
    BY <1>1 DEF m
  <2>4. QED
    BY <1>2, <2>1, <2>2, <2>3
<1>6. r = [flags |-> r.flags, typeFlags |-> r.typeFlags, missing |-> r.missing]
  BY DEF infer, inferCurrentContext
<1> HIDE DEF r
<1>7. QED
  BY <1>3, <1>4, <1>5, <1>6 DEF Context, r

LEMMA ClearedContext ==
    ASSUME NEW fs, NEW level, NEW given \in Context
    PROVE  clearDisabledAssumptions(fs, level, given) \in Context
<1>1. \A c \in Context : /\ clearTypeFlags(c) \in Context
                         /\ clearNargs(c) \in Context
                         /\ clearExcept(c, minimalContext) \in Context
                         /\ setSpecializationLevel(c, level) \in Context
  <2> SUFFICES ASSUME NEW c \in Context
               PROVE  /\ clearTypeFlags(c) \in Context
                      /\ clearNargs(c) \in Context
                      /\ clearExcept(c, minimalContext) \in Context
                      /\ setSpecializationLevel(c, level) \in Context
    OBVIOUS
  <2>1. 0 \in 0 .. MAX_MISSING
    BY DEF MAX_MISSING
  <2>2. clearTypeFlags(c) \in Context
    BY DEF clearTypeFlags, Context
  <2>3. clearNargs(c) \in Context
    BY <2>1 DEF clearNargs, Context
  <2>4. clearExcept(c, minimalContext) \in Context
    BY <2>1 DEF clearExcept, Context
  <2>5. setSpecializationLevel(c, level) \in Context
    BY <2>1 DEF setSpecializationLevel, Context
  <2>6. QED
    BY <2>2, <2>3, <2>4, <2>5
<1> DEFINE types == IF "DisableArgumentTypeSpecialization" \in fs
                    THEN clearTypeFlags(given) ELSE given
           nargs == IF "DisableNumArgumentsSpezialization" \in fs
                    THEN clearNargs(types) ELSE types
           all == IF "DisableAllSpecialization" \in fs
                  THEN clearExcept(nargs, minimalContext) ELSE nargs
<1>2. types \in Context
  BY <1>1
<1>3. nargs \in Context
  <2> HIDE DEF types
  <2> QED BY <1>1, <1>2
<1>4. all \in Context
  <2> HIDE DEF nargs
  <2> QED BY <1>1, <1>3
<1>5. clearDisabledAssumptions(fs, level, given) =
         IF level < 100 THEN setSpecializationLevel(all, level) ELSE all
  BY DEF clearDisabledAssumptions
<1> HIDE DEF all
<1>6. QED
  BY <1>1, <1>4, <1>5, Zenon

\* Only the flags a version inherits restrict what it is specialized for.
LEMMA ClearedInherited ==
    ASSUME NEW fs, NEW gs, NEW level, NEW given,
           fs \cap inherited = gs \cap inherited
    PROVE  clearDisabledAssumptions(fs, level, given) =
              clearDisabledAssumptions(gs, level, given)
<1>1. /\ "DisableArgumentTypeSpecialization" \in inherited
      /\ "DisableNumArgumentsSpezialization" \in inherited
      /\ "DisableAllSpecialization" \in inherited
  BY DEF inherited
<1>2. \A x \in inherited : x \in fs <=> x \in gs
  OBVIOUS
<1>3. QED
  BY <1>1, <1>2, Zenon DEF clearDisabledAssumptions

\* Without type specialization no type assumption is left.
LEMMA ClearedTypes ==
    ASSUME NEW fs, NEW level, NEW given \in Context,
           "DisableArgumentTypeSpecialization" \in fs
    PROVE  clearDisabledAssumptions(fs, level, given).typeFlags = {}
<1>1. clearTypeFlags(given) \in Context /\ clearTypeFlags(given).typeFlags = {}
  BY DEF clearTypeFlags, Context
<1>2. ASSUME NEW c \in Context, c.typeFlags = {}
      PROVE  /\ clearNargs(c) \in Context /\ clearNargs(c).typeFlags = {}
             /\ clearExcept(c, minimalContext) \in Context
             /\ clearExcept(c, minimalContext).typeFlags = {}
             /\ setSpecializationLevel(c, level).typeFlags = {}
  <2>1. 0 \in 0 .. MAX_MISSING
    BY DEF MAX_MISSING
  <2>2. clearNargs(c) \in Context /\ clearNargs(c).typeFlags = {}
    BY <1>2, <2>1 DEF clearNargs, Context
  <2>3. /\ clearExcept(c, minimalContext) \in Context
        /\ clearExcept(c, minimalContext).typeFlags = {}
    BY <2>1 DEF clearExcept, Context
  <2>4. setSpecializationLevel(c, level).typeFlags = {}
    BY <1>2 DEF setSpecializationLevel
  <2>5. QED
    BY <2>2, <2>3, <2>4
<1> DEFINE types == clearTypeFlags(given)
           nargs == IF "DisableNumArgumentsSpezialization" \in fs
                    THEN clearNargs(types) ELSE types
           all == IF "DisableAllSpecialization" \in fs
                  THEN clearExcept(nargs, minimalContext) ELSE nargs
<1>3. nargs \in Context /\ nargs.typeFlags = {}
  <2> HIDE DEF types
  <2> QED BY <1>1, <1>2, Zenon DEF types
<1>4. all \in Context /\ all.typeFlags = {}
  <2> HIDE DEF nargs
  <2> QED BY <1>2, <1>3, Zenon
<1>5. clearDisabledAssumptions(fs, level, given) =
         IF level < 100 THEN setSpecializationLevel(all, level) ELSE all
  BY DEF clearDisabledAssumptions
<1> HIDE DEF all
<1>6. QED
  BY <1>2, <1>4, <1>5, Zenon

-----------------------------------------------------------------------------
(* Compilation. *)

newFunction(h, c) == NewFunction(c, inheritFlags(h[BASELINE].flags), TRUE)
placeOf(es, c) == CHOOSE i \in DOMAIN es : es[i].context = c
compiledFunction(h, c, es) ==
    [newFunction(h, c) EXCEPT !.deoptCount = es[placeOf(es, c)].deoptCount]
heapWith(h, c, es) == Append(h, compiledFunction(h, c, es))
tableWith(h, t, c, es) ==
    [i \in DOMAIN es |->
        IF i = placeOf(es, c) THEN Len(h) + 1
        ELSE CHOOSE m \in Range(t) : h[m].context = es[i].context]

LEMMA NewFunctionEntry ==
    ASSUME NEW h \in Seq(Function), Len(h) >= 1, NEW c \in Context,
           NEW k \in 0 .. UINT_MAX
    PROVE  LET f == [newFunction(h, c) EXCEPT !.deoptCount = k]
           IN  /\ newFunction(h, c) \in Function
               /\ Entry(newFunction(h, c)) = NewVersion(c)
               /\ f \in Function
               /\ Entry(f) = [NewVersion(c) EXCEPT !.deoptCount = k]
               /\ f.context = c /\ f.pendingCompilation
               /\ f.flags = h[BASELINE].flags \cap inherited
               /\ ~disabled(f)
<1> DEFINE fs == inheritFlags(h[BASELINE].flags)
           yes == TRUE
           no == FALSE
           none == {}
           ver == NewVersion(c)
           g == newFunction(h, c)
           f == [g EXCEPT !.deoptCount = k]
<1>1. /\ fs \subseteq Flag /\ fs \cap {"Deopt"} = {} /\ "Deopt" \notin fs
      /\ fs = h[BASELINE].flags \cap inherited
  BY DEF inheritFlags, inherited, Flag
<1>2. UINT_MAX \in Nat /\ 0 \in 0 .. UINT_MAX
  BY UintAssumption
<1>3. g = [context |-> c, flags |-> fs, pendingCompilation |-> yes,
           deoptCount |-> 0, invocationCount |-> 0, invoked |-> no]
  BY DEF newFunction, NewFunction
<1>4. ver = [context |-> c, flags |-> none, pendingCompilation |-> yes,
             deoptCount |-> 0]
  BY DEF NewVersion
<1>5. yes \in BOOLEAN /\ no \in BOOLEAN /\ yes = TRUE
  OBVIOUS
<1> HIDE DEF yes, no, none, fs, g, ver
<1>6. f = [context |-> c, flags |-> fs, pendingCompilation |-> yes,
           deoptCount |-> k, invocationCount |-> 0, invoked |-> no]
  BY <1>3
<1>7. [ver EXCEPT !.deoptCount = k] =
         [context |-> c, flags |-> none, pendingCompilation |-> yes,
          deoptCount |-> k]
  BY <1>4
<1> HIDE DEF f
<1>8. g \in Function /\ f \in Function
  BY <1>1, <1>2, <1>3, <1>5, <1>6 DEF Function
<1>9. /\ Entry(g) = NewVersion(c)
      /\ Entry(f) = [NewVersion(c) EXCEPT !.deoptCount = k]
  <2>1. Entry(g) = [context |-> c, flags |-> {}, pendingCompilation |-> yes,
                    deoptCount |-> 0]
    BY <1>1, <1>3 DEF Entry
  <2>2. Entry(f) = [context |-> c, flags |-> {}, pendingCompilation |-> yes,
                    deoptCount |-> k]
    BY <1>1, <1>6 DEF Entry
  <2>3. QED
    BY <1>4, <1>7, <2>1, <2>2 DEF ver, none
<1>10. /\ f.context = c /\ f.pendingCompilation = yes /\ f.flags = fs
       /\ ~disabled(f)
  BY <1>1, <1>6 DEF disabled
<1>11. QED
  BY <1>1, <1>5, <1>8, <1>9, <1>10 DEF g, f

\* Heap g and table u are h and t after the compilation of new for context c,
\* the table having the entries es.
Compiled(h, t, c, es, g, u, new) ==
    /\ HeapOK(g, u)
    /\ Len(g) = Len(h) + 1
    /\ \A n \in 1 .. Len(h) : g[n] = h[n]
    /\ g[Len(h) + 1] = new
    /\ new.context = c /\ new.pendingCompilation /\ ~disabled(new)
    /\ new.flags \cap inherited \subseteq UserFlags
    /\ es \in insert(Entries(h, t), NewVersion(c))
    /\ Entries(g, u) = es
    /\ \E i \in 1 .. Len(u) : u[i] = Len(h) + 1

\* The table that pirCompile leaves has a version of the heap behind each of
\* the entries that insert returns, the new one behind the entry for c.
LEMMA CompileHeap ==
    ASSUME NEW h, NEW t, HeapOK(h, t), Len(h) <= MaxVersions,
           NEW c \in Context, Includes(c, minimalContext),
           NEW es \in insert(Entries(h, t), Entry(newFunction(h, c)))
    PROVE  Compiled(h, t, c, es, heapWith(h, c, es), tableWith(h, t, c, es),
                    compiledFunction(h, c, es))
<1> DEFINE V == VersionsFor(EmptyContext)
           ts == Entries(h, t)
           N == NewVersion(c)
           at == placeOf(es, c)
           new == compiledFunction(h, c, es)
           g == heapWith(h, c, es)
           u == tableWith(h, t, c, es)
<1>1. /\ h \in Seq(Function) /\ Len(h) \in Nat /\ Len(h) >= 1
      /\ MaxVersions \in Nat
      /\ \A n \in 1 .. Len(h) : h[n] \in Function
  BY HeapFunctions, JitAssumption DEF HeapOK
<1>2. 0 \in 0 .. UINT_MAX
  BY UintAssumption
<1>3. newFunction(h, c) \in Function /\ Entry(newFunction(h, c)) = N
  BY <1>1, <1>2, NewFunctionEntry
<1>4. N \in V /\ N.context = c
  <2>1. newFunction(h, c).context = c
    BY DEF newFunction, NewFunction
  <2>2. QED
    BY <1>3, <2>1, VersionEntry, EntryFields
<1>5. /\ ts \in Seq(V) /\ Len(ts) = Len(t)
      /\ \A i \in 1 .. Len(t) : ts[i] = Entry(h[t[i]])
      /\ SortedTable(ts) /\ Len(ts) < Capacity
  BY TableOfEntries DEF HeapOK
<1>6. es \in insert(ts, N)
  BY <1>3
<1> HIDE DEF ts, N, V
<1>7. es \in Seq(V) /\ Len(es) < Capacity /\ SortedTable(es)
  BY <1>4, <1>5, <1>6, InsertSorted DEF V
<1>8. /\ \E i \in 1 .. Len(es) :
            es[i] = [N EXCEPT !.deoptCount = es[i].deoptCount]
      /\ \A j \in 1 .. Len(es) : es[j].context # c =>
            \E k \in 1 .. Len(ts) : es[j] = ts[k]
  BY <1>4, <1>5, <1>6, InsertNew DEF V
<1>9. /\ DOMAIN es = 1 .. Len(es) /\ Len(es) \in Nat
      /\ \A i \in 1 .. Len(es) : es[i] \in V
  BY <1>7, LenProperties, ElementOfSeq
<1>10. \A i, j \in 1 .. Len(es) : es[i].context = es[j].context => i = j
  BY <1>7, SortedEntries, Zenon DEF V
<1>11. /\ at \in 1 .. Len(es) /\ es[at].context = c
       /\ es[at] = [N EXCEPT !.deoptCount = es[at].deoptCount]
       /\ es[at].deoptCount \in 0 .. UINT_MAX
  <2>1. PICK i \in 1 .. Len(es) : es[i] = [N EXCEPT !.deoptCount = es[i].deoptCount]
    BY <1>8
  <2>2. es[i].context = c
    <3>1. N \in Version
      BY <1>4 DEF V, VersionsFor
    <3>2. \A k : [N EXCEPT !.deoptCount = k].context = N.context
      BY <3>1, Zenon DEF Version
    <3>3. QED
      BY <1>4, <2>1, <3>2, Zenon
  <2>3. at \in DOMAIN es /\ es[at].context = c
    BY <1>9, <2>2, Zenon DEF placeOf
  <2> HIDE DEF at
  <2>4. at = i
    BY <1>9, <1>10, <2>2, <2>3, Zenon
  <2>5. es[at].deoptCount \in 0 .. UINT_MAX
    <3>1. es[at] \in Version
      BY <1>9, <2>3 DEF V, VersionsFor
    <3>2. QED
      BY <3>1 DEF Version
  <2>6. QED
    BY <1>9, <2>1, <2>3, <2>4, <2>5, Zenon
<1>12. /\ new \in Function
       /\ Entry(new) = es[at]
       /\ new.context = c /\ new.pendingCompilation /\ ~disabled(new)
       /\ new.flags = h[BASELINE].flags \cap inherited
  <2>1. new = [newFunction(h, c) EXCEPT !.deoptCount = es[at].deoptCount]
    BY DEF compiledFunction
  <2> HIDE DEF new, at
  <2> DEFINE k == es[at].deoptCount
  <2>2. k \in 0 .. UINT_MAX /\ es[at] = [N EXCEPT !.deoptCount = k]
    BY <1>11
  <2> HIDE DEF k
  <2>3. /\ new \in Function
        /\ Entry(new) = [NewVersion(c) EXCEPT !.deoptCount = k]
        /\ new.context = c /\ new.pendingCompilation /\ ~disabled(new)
        /\ new.flags = h[BASELINE].flags \cap inherited
    BY <1>1, <2>1, <2>2, NewFunctionEntry DEF k
  <2>4. QED
    BY <2>2, <2>3 DEF N
<1>13. /\ g \in Seq(Function) /\ Len(g) = Len(h) + 1 /\ g[Len(h) + 1] = new
       /\ \A n \in 1 .. Len(h) : g[n] = h[n]
  <2>1. g = Append(h, new)
    BY DEF heapWith
  <2> HIDE DEF g, new
  <2>2. QED
    BY <1>1, <1>12, <2>1, AppendProperties
<1>14. /\ DOMAIN u = 1 .. Len(es)
       /\ \A j \in 1 .. Len(es) : u[j] = IF j = at THEN Len(h) + 1
             ELSE CHOOSE m \in Range(t) : h[m].context = es[j].context
  BY <1>9 DEF tableWith
<1> HIDE DEF at, new, g, u
<1>15. ASSUME NEW j \in 1 .. Len(es), j # at
       PROVE  u[j] \in 2 .. Len(h) /\ es[j] = Entry(h[u[j]])
  <2>1. es[j].context # c
    BY <1>10, <1>11, <1>15
  <2>2. PICK k \in 1 .. Len(t) : es[j] = ts[k]
    BY <1>5, <1>8, <2>1
  <2>3. es[j] = Entry(h[t[k]]) /\ es[j].context = h[t[k]].context
    <3>1. es[j] = Entry(h[t[k]])
      BY <1>5, <2>2
    <3>2. QED
      BY <3>1, EntryFields
  <2>4. Range(t) = { t[i] : i \in 1 .. Len(t) }
    BY HeapFunctions DEF Range
  <2>5. \A m \in Range(t) : h[m].context = es[j].context => m = t[k]
    <3> SUFFICES ASSUME NEW m \in Range(t), h[m].context = es[j].context
                 PROVE  m = t[k]
      OBVIOUS
    <3>1. PICK l \in 1 .. Len(t) : m = t[l]
      BY <2>4, ZenonT(60)
    <3>2. ts[l] = Entry(h[m]) /\ ts[k].context = es[j].context
      BY <1>5, <2>2, <3>1
    <3>3. ts[l].context = ts[k].context
      BY <3>2, EntryFields
    <3>4. l = k
      BY <1>5, <3>3, SortedEntries, Zenon DEF V
    <3>5. QED
      BY <3>1, <3>4
  <2>6. u[j] = CHOOSE m \in Range(t) : h[m].context = es[j].context
    BY <1>14, <1>15
  <2>7. t[k] \in Range(t)
    BY <2>4
  <2>8. u[j] = t[k]
    BY <2>3, <2>5, <2>6, <2>7, Zenon
  <2>9. QED
    BY <2>3, <2>8, HeapFunctions
<1>16. u[at] = Len(h) + 1
  BY <1>11, <1>14
<1>17. u \in Seq(2 .. Len(h) + 1) /\ Len(u) = Len(es)
  <2>1. \A j \in 1 .. Len(es) : u[j] \in 2 .. Len(h) + 1
    BY <1>1, <1>15, <1>16
  <2>2. u = [j \in 1 .. Len(es) |-> u[j]]
    BY <1>9 DEF u, tableWith
  <2>3. u \in [1 .. Len(es) -> 2 .. Len(h) + 1]
    BY <2>1, <2>2, Zenon
  <2>4. u \in Seq(2 .. Len(h) + 1)
    BY <1>9, <2>3, SeqDef
  <2>5. QED
    BY <1>9, <1>14, <2>4, LenProperties
<1>18. Entries(g, u) = es
  <2>1. \A j \in 1 .. Len(es) : Entry(g[u[j]]) = es[j]
    <3> SUFFICES ASSUME NEW j \in 1 .. Len(es)
                 PROVE  Entry(g[u[j]]) = es[j]
      OBVIOUS
    <3>1. CASE j = at
      BY <1>12, <1>13, <1>16, <3>1
    <3>2. CASE j # at
      <4>1. u[j] \in 1 .. Len(h)
        BY <1>1, <1>15, <3>2
      <4>2. QED
        BY <1>13, <1>15, <3>2, <4>1
    <3>3. QED
      BY <3>1, <3>2
  <2>2. es = [j \in 1 .. Len(es) |-> es[j]]
    BY <1>7, <1>9
  <2>3. QED
    BY <1>14, <2>1, <2>2, Zenon DEF Entries
<1>19. new.flags \cap inherited \subseteq UserFlags
  BY <1>1, <1>12 DEF HeapOK, BASELINE
<1>20. HeapOK(g, u)
  <2>1. BASELINE = 1 /\ g[BASELINE] = h[BASELINE]
    BY <1>1, <1>13 DEF BASELINE
  <2>2. g[BASELINE].context = EmptyContext /\ ~disabled(g[BASELINE])
    BY <2>1 DEF HeapOK
  <2>3. \A n \in 1 .. Len(g) : n \in 1 .. Len(h) \/ n = Len(h) + 1
    BY <1>1, <1>13
  <2>4. \A n \in 2 .. Len(g) : n \in 2 .. Len(h) \/ n = Len(h) + 1
    BY <1>1, <1>13
  <2>5. \A n \in 2 .. Len(h) : n \in 1 .. Len(h)
    BY <1>1
  <2>6. \A n \in 2 .. Len(g) : Includes(g[n].context, minimalContext)
    BY <1>12, <1>13, <2>4, <2>5, Zenon DEF HeapOK
  <2>7. \A n \in 1 .. Len(g) : g[n].flags \cap inherited \subseteq UserFlags
    BY <1>13, <1>19, <2>3, Zenon DEF HeapOK
  <2>8. Len(g) \in 1 .. MaxVersions + 1
    BY <1>1, <1>13
  <2>9. QED
    BY <1>7, <1>13, <1>17, <1>18, <2>2, <2>6, <2>7, <2>8 DEF HeapOK
<1>21. Compiled(h, t, c, es, g, u, new)
  BY <1>6, <1>11, <1>12, <1>13, <1>16, <1>17, <1>18, <1>19, <1>20
     DEF Compiled, ts, N
<1>22. QED
  BY <1>21, Zenon DEF g, u, new

-----------------------------------------------------------------------------
(* doCall. *)

\* The functions of h are in g with their contexts and states.
Grown(h, g) ==
    /\ Len(h) <= Len(g)
    /\ \A n \in 1 .. Len(h) :
          /\ g[n].context = h[n].context
          /\ disabled(g[n]) <=> disabled(h[n])
          /\ g[n].pendingCompilation = h[n].pendingCompilation

LEMMA KeptGrown ==
    ASSUME NEW h, NEW t, HeapOK(h, t), NEW g, Kept(h, g)
    PROVE  Grown(h, g)
<1>1. \A n \in 1 .. Len(h) : /\ g[n].context = h[n].context
                             /\ disabled(g[n]) <=> disabled(h[n])
                             /\ g[n].pendingCompilation = h[n].pendingCompilation
  BY KeptHeap
<1>2. Len(h) <= Len(g)
  BY HeapFunctions DEF Kept
<1>3. QED
  BY <1>1, <1>2 DEF Grown

\* doCall runs what dispatch finds in the table as it is ...
Runs(given, patch) ==
    /\ Kept(heap, heap') /\ table' = table
    /\ frames' = Append(frames, Frame("run", dispatch(heap, table, given),
                                      given, patch))

\* ... or compiles a version for the context c first.
Compiles(g, fs, c, es, given, patch) ==
    /\ Kept(heap, g)
    /\ fs \cap inherited \subseteq UserFlags
    /\ c = clearDisabledAssumptions(heap[BASELINE].flags, SpecializationLevel,
              clearDisabledAssumptions(fs, SpecializationLevel, given))
    /\ Includes(c, minimalContext)
    /\ Len(heap) <= MaxVersions
    /\ es \in insert(Entries(g, table), Entry(newFunction(g, c)))
    /\ heap' = heapWith(g, c, es)
    /\ table' = tableWith(g, table, c, es)
    /\ frames' = Append(frames, Frame("compile", Len(heap) + 1, given, patch))

LEMMA DoCallShape ==
    ASSUME HeapOK(heap, table), NEW h, Kept(heap, h),
           NEW given, NEW patch, DoCall(h, given, patch)
    PROVE  /\ deoptimizationStartedAt' \in {deoptimizationStartedAt, 0}
           /\ \/ Runs(given, patch)
              \/ \E g, fs, c, es : Compiles(g, fs, c, es, given, patch)
<1> DEFINE n == dispatch(h, table, given)
           f1 == registerInvocation(h[n])
           h1 == [h EXCEPT ![n] = f1]
           f2 == [f1 EXCEPT !.flags = f1.flags \ {"MarkOpt"}]
           h2 == [h1 EXCEPT ![n] = f2]
           wanted == clearDisabledAssumptions(f1.flags, SpecializationLevel, given)
           context == clearDisabledAssumptions(h[BASELINE].flags,
                                               SpecializationLevel, wanted)
<1>1. /\ HeapOK(h, table) /\ Entries(h, table) = Entries(heap, table)
      /\ \A m \in 1 .. Len(heap) :
            h[m].flags \cap inherited = heap[m].flags \cap inherited
  BY KeptHeap
<1>2. n = dispatch(heap, table, given)
  BY <1>1 DEF dispatch
<1>3. n \in 1 .. Len(h)
  BY <1>1, DispatchSound
<1>4. /\ h \in Seq(Function) /\ Len(h) = Len(heap)
      /\ \A m \in 1 .. Len(h) : h[m] \in Function /\ m \in DOMAIN h
  BY <1>1, HeapFunctions DEF Kept
<1>5. BASELINE \in 1 .. Len(h) /\ Len(heap) \in Nat
  BY <1>1, <1>4, HeapFunctions DEF BASELINE
<1> HIDE DEF n
<1>6. KeptFunction(h[n], f1)
  BY <1>3, <1>4, Invocations
<1>7. Kept(h, h1) /\ h1[n] = f1 /\ h1 \in Seq(Function) /\ Len(h1) = Len(h)
  <2>1. Kept(h, h1)
    BY <1>3, <1>4, <1>6, KeptUpdate
  <2>2. h1[n] = f1
    BY <1>3, <1>4
  <2>3. QED
    BY <2>1, <2>2 DEF Kept
<1>8. f1 \in Function /\ f1.flags \in SUBSET Flag
  BY <1>6 DEF KeptFunction, Function
<1> HIDE DEF f1, h1
<1>9. KeptFunction(f1, f2)
  <2>1. /\ f1.flags \ {"MarkOpt"} \in SUBSET Flag
        /\ (f1.flags \ {"MarkOpt"}) \cap {"Deopt"} = f1.flags \cap {"Deopt"}
        /\ (f1.flags \ {"MarkOpt"}) \cap inherited = f1.flags \cap inherited
    BY <1>8 DEF inherited
  <2>2. QED
    BY <1>8, <2>1, FlagUpdate, Zenon DEF KeptFunction
<1>10. Kept(h1, h2) /\ h2 \in Seq(Function) /\ Len(h2) = Len(h)
  <2> HIDE DEF f2
  <2>1. n \in 1 .. Len(h1) /\ KeptFunction(h1[n], f2)
    BY <1>3, <1>7, <1>9
  <2>2. Kept(h1, h2)
    BY <1>7, <2>1, KeptUpdate
  <2> HIDE DEF h2
  <2>3. QED
    BY <1>7, <2>2 DEF Kept
<1>11. h2 = [h1 EXCEPT ![n].flags = @ \ {"MarkOpt"}]
  BY <1>7, Zenon
<1> HIDE DEF f2, h2
<1>12. Kept(heap, h1) /\ Kept(heap, h2)
  BY <1>7, <1>10, KeptTransitive, Zenon
<1>13. \A fs \in {{}, {"NotOptimizable"}} :
          Kept(heap, [h2 EXCEPT ![BASELINE].flags = @ \cup fs])
  <2> SUFFICES ASSUME NEW fs \in {{}, {"NotOptimizable"}}
               PROVE  Kept(heap, [h2 EXCEPT ![BASELINE].flags = @ \cup fs])
    OBVIOUS
  <2> DEFINE b == h2[BASELINE]
             f3 == [b EXCEPT !.flags = b.flags \cup fs]
  <2>1. b \in Function
    BY <1>5, <1>10, ElementOfSeq
  <2>2. /\ b.flags \cup fs \in SUBSET Flag
        /\ (b.flags \cup fs) \cap {"Deopt"} = b.flags \cap {"Deopt"}
        /\ (b.flags \cup fs) \cap inherited = b.flags \cap inherited
    <3>1. b.flags \in SUBSET Flag
      BY <2>1 DEF Function
    <3>2. QED
      BY <3>1 DEF Flag, inherited
  <2>3. KeptFunction(b, f3)
    BY <2>1, <2>2, FlagUpdate, Zenon DEF KeptFunction
  <2> HIDE DEF f3
  <2>4. Kept(h2, [h2 EXCEPT ![BASELINE] = f3])
    BY <1>5, <1>10, <2>3, KeptUpdate
  <2>5. [h2 EXCEPT ![BASELINE] = f3] = [h2 EXCEPT ![BASELINE].flags = @ \cup fs]
    BY Zenon DEF f3
  <2>6. QED
    BY <1>12, <2>4, <2>5, KeptTransitive, Zenon
<1>14. deoptimizationStartedAt' \in {deoptimizationStartedAt, 0}
  BY DEF DoCall
<1>15. \/ /\ heap' = h1
          /\ frames' = Append(frames, Frame("run", n, given, patch))
          /\ table' = table
       \/ /\ \E fs \in {{}, {"NotOptimizable"}} :
                heap' = [h2 EXCEPT ![BASELINE].flags = @ \cup fs]
          /\ frames' = Append(frames, Frame("run", n, given, patch))
          /\ table' = table
       \/ /\ Len(heap) <= MaxVersions
          /\ Includes(context, minimalContext)
          /\ Compile(h2, context)
          /\ frames' = Append(frames, Frame("compile", Len(heap) + 1, given, patch))
  BY <1>7, <1>11, Zenon DEF DoCall, Push, n, h1, f1
<1>16. CASE heap' = h1 /\ frames' = Append(frames, Frame("run", n, given, patch))
            /\ table' = table
  BY <1>2, <1>12, <1>14, <1>16, Zenon DEF Runs
<1>17. CASE /\ \E fs \in {{}, {"NotOptimizable"}} :
                  heap' = [h2 EXCEPT ![BASELINE].flags = @ \cup fs]
            /\ frames' = Append(frames, Frame("run", n, given, patch))
            /\ table' = table
  BY <1>2, <1>13, <1>14, <1>17, Zenon DEF Runs
<1>18. CASE /\ Len(heap) <= MaxVersions
            /\ Includes(context, minimalContext)
            /\ Compile(h2, context)
            /\ frames' = Append(frames, Frame("compile", Len(heap) + 1, given, patch))
  <2>1. context = clearDisabledAssumptions(heap[BASELINE].flags,
                                           SpecializationLevel, wanted)
    <3>1. h[BASELINE].flags \cap inherited = heap[BASELINE].flags \cap inherited
      BY <1>1, <1>4, <1>5
    <3> HIDE DEF wanted
    <3>2. QED
      BY <3>1, ClearedInherited
  <2>2. f1.flags \cap inherited \subseteq UserFlags
    BY <1>1, <1>3, <1>6 DEF KeptFunction, HeapOK
  <2> HIDE DEF context
  <2>3. PICK es \in insert(Entries(h2, table), Entry(newFunction(h2, context))) :
           heap' = heapWith(h2, context, es)
           /\ table' = tableWith(h2, table, context, es)
    BY <1>18, Zenon DEF Compile, newFunction, heapWith, tableWith,
                        compiledFunction, placeOf
  <2>4. Compiles(h2, f1.flags, context, es, given, patch)
    BY <1>12, <1>18, <2>1, <2>2, <2>3, Zenon DEF Compiles
  <2>5. QED
    BY <1>14, <2>4, Zenon
<1>19. QED
  BY <1>15, <1>16, <1>17, <1>18, Zenon

\* A version compiled by doCall.
LEMMA CompiledVersion ==
    ASSUME HeapOK(heap, table), NEW given \in Context, NEW patch, NEW g, NEW fs,
           NEW c, NEW es, Compiles(g, fs, c, es, given, patch)
    PROVE  /\ HeapOK(heap', table')
           /\ Grown(heap, heap')
           /\ Len(heap') = Len(heap) + 1
           /\ c \in Context
           /\ LET new == heap'[Len(heap) + 1]
              IN  new.context = c /\ new.pendingCompilation /\ ~disabled(new)
           /\ Entries(heap', table') \in insert(Entries(heap, table), NewVersion(c))
           /\ \E i \in 1 .. Len(table') : table'[i] = Len(heap) + 1
<1>1. c \in Context
  BY ClearedContext DEF Compiles
<1>2. /\ HeapOK(g, table) /\ Entries(g, table) = Entries(heap, table)
      /\ Grown(heap, g) /\ Len(g) = Len(heap)
  BY KeptHeap, KeptGrown DEF Compiles, Kept
<1>3. /\ Len(g) <= MaxVersions /\ Includes(c, minimalContext)
      /\ es \in insert(Entries(g, table), Entry(newFunction(g, c)))
      /\ heap' = heapWith(g, c, es) /\ table' = tableWith(g, table, c, es)
  BY <1>2 DEF Compiles
<1>4. /\ HeapOK(heap', table')
      /\ Len(heap') = Len(g) + 1
      /\ \A n \in 1 .. Len(g) : heap'[n] = g[n]
      /\ heap'[Len(g) + 1].context = c
      /\ heap'[Len(g) + 1].pendingCompilation
      /\ ~disabled(heap'[Len(g) + 1])
      /\ es \in insert(Entries(g, table), NewVersion(c))
      /\ Entries(heap', table') = es
      /\ \E i \in 1 .. Len(table') : table'[i] = Len(g) + 1
  <2> DEFINE h == heapWith(g, c, es)
             t == tableWith(g, table, c, es)
  <2>1. /\ HeapOK(h, t)
        /\ Len(h) = Len(g) + 1
        /\ \A n \in 1 .. Len(g) : h[n] = g[n]
        /\ h[Len(g) + 1].context = c
        /\ h[Len(g) + 1].pendingCompilation
        /\ ~disabled(h[Len(g) + 1])
        /\ es \in insert(Entries(g, table), NewVersion(c))
        /\ Entries(h, t) = es
        /\ \E i \in 1 .. Len(t) : t[i] = Len(g) + 1
    <3> DEFINE new == compiledFunction(g, c, es)
    <3>1. HeapOK(g, table) /\ Len(g) <= MaxVersions
      BY <1>2, <1>3
    <3>2. Compiled(g, table, c, es, h, t, new)
      BY <1>1, <1>3, <3>1, CompileHeap, Zenon
    <3> HIDE DEF new, h, t
    <3>3. QED
      BY <3>2, Zenon DEF Compiled
  <2>2. h = heap' /\ t = table'
    BY <1>3
  <2> HIDE DEF h, t
  <2>3. QED
    BY <2>1, <2>2
<1>5. Grown(heap, heap')
  <2>1. Len(heap) \in Nat
    BY HeapFunctions
  <2>2. Len(heap) <= Len(heap')
    BY <1>2, <1>4, <2>1
  <2>3. QED
    BY <1>2, <1>4, <2>2, Zenon DEF Grown
<1>6. QED
  BY <1>1, <1>2, <1>4, <1>5, Zenon

-----------------------------------------------------------------------------
(* The inductive invariant. *)

LEMMA ActivationsGrow ==
    ASSUME NEW h, NEW g, Len(h) \in Nat, Len(g) \in Nat, Len(h) <= Len(g),
           NEW fs \in Seq(Activation(h))
    PROVE  fs \in Seq(Activation(g))
<1>1. 1 .. Len(h) \subseteq 1 .. Len(g)
  OBVIOUS
<1>2. Activation(h) \subseteq Activation(g)
  BY <1>1, Zenon DEF Activation
<1>3. QED
  BY <1>2, SeqMonotonic

LEMMA NewActivation ==
    ASSUME NEW h, NEW kind \in {"run", "compile"}, NEW n \in 1 .. Len(h),
           NEW given \in Context, NEW patch \in BOOLEAN
    PROVE  /\ Frame(kind, n, given, patch) \in Activation(h)
           /\ Frame(kind, n, given, patch).kind = kind
           /\ Frame(kind, n, given, patch).fun = n
           /\ Frame(kind, n, given, patch).given = given
           /\ Frame(kind, n, given, patch).native = (kind = "run" /\ n # BASELINE)
<1> DEFINE b == kind = "run" /\ n # BASELINE
           r == [kind |-> kind, fun |-> n, native |-> b, given |-> given,
                 patch |-> patch, deoptimizing |-> FALSE]
<1>1. b \in BOOLEAN /\ (b => kind = "run" /\ n # BASELINE)
  OBVIOUS
<1> HIDE DEF b
<1>2. /\ r \in [kind : {"run", "compile"}, fun : 1 .. Len(h), native : BOOLEAN,
                given : Context, patch : BOOLEAN, deoptimizing : BOOLEAN]
      /\ r.native = b /\ r.fun = n /\ r.kind = kind /\ r.given = given
  BY <1>1, Zenon
<1>3. r = Frame(kind, n, given, patch)
  BY DEF Frame, b
<1> HIDE DEF r
<1>4. r \in Activation(h)
  BY <1>1, <1>2, Zenon DEF Activation
<1>5. QED
  BY <1>2, <1>3, <1>4, Zenon DEF b

LEMMA CacheGrown ==
    ASSUME NEW h, NEW g, Len(h) \in Nat, Len(g) \in Nat, Grown(h, g), NEW ch,
           CacheOK(h, ch)
    PROVE  CacheOK(g, ch)
<1>1. /\ ch.target \in 0 .. Len(h) /\ ch.missing \in Context
      /\ ch \in [target : 0 .. Len(h), missing : Context]
  BY DEF CacheOK
<1>2. 0 .. Len(h) \subseteq 0 .. Len(g)
  BY DEF Grown
<1>3. ch \in [target : 0 .. Len(g), missing : Context]
  BY <1>1, <1>2, Zenon
<1>4. CASE ch.target = SENTINEL
  BY <1>3, <1>4 DEF CacheOK
<1>5. CASE ch.target # SENTINEL
  <2>1. ch.target \in 1 .. Len(h)
    BY <1>1, <1>5 DEF SENTINEL
  <2>2. QED
    BY <1>3, <2>1, Zenon DEF CacheOK, Grown
<1>6. QED
  BY <1>4, <1>5

\* What a call of the closure keeps.
LEMMA DoCallInv ==
    ASSUME JInv, NEW h, Kept(heap, h), NEW given \in Context,
           NEW patch \in BOOLEAN, DoCall(h, given, patch), MayCall
    PROVE  /\ HeapOK(heap', table')
           /\ Grown(heap, heap') /\ Len(heap') \in Nat
           /\ frames' \in Seq(Activation(heap')) /\ Len(frames') <= MaxDepth
           /\ deoptimizationStartedAt' \in 0 .. MaxDepth
<1>1. /\ HeapOK(heap, table) /\ Len(heap) \in Nat
      /\ frames \in Seq(Activation(heap)) /\ Len(frames) \in Nat
      /\ MaxDepth \in Nat /\ Len(frames) < MaxDepth
      /\ deoptimizationStartedAt \in 0 .. MaxDepth
  BY HeapFunctions, LenProperties, JitAssumption DEF JInv, MayCall
<1>2. deoptimizationStartedAt' \in 0 .. MaxDepth
  <2>1. deoptimizationStartedAt' \in {deoptimizationStartedAt, 0}
    BY <1>1, DoCallShape
  <2>2. QED
    BY <1>1, <2>1
<1>3. CASE Runs(given, patch)
  <2> DEFINE n == dispatch(heap, table, given)
             fr == Frame("run", n, given, patch)
  <2>1. /\ Kept(heap, heap') /\ table' = table /\ frames' = Append(frames, fr)
    BY <1>3 DEF Runs
  <2>2. /\ HeapOK(heap', table') /\ Grown(heap, heap') /\ Len(heap') = Len(heap)
    BY <1>1, <2>1, KeptHeap, KeptGrown DEF Kept
  <2>3. n \in 1 .. Len(heap')
    BY <1>1, <2>2, DispatchSound
  <2> HIDE DEF n
  <2>4. fr \in Activation(heap')
    BY <2>3, NewActivation
  <2>5. frames \in Seq(Activation(heap'))
    BY <1>1, <2>2, ActivationsGrow
  <2> HIDE DEF fr
  <2>6. frames' \in Seq(Activation(heap')) /\ Len(frames') = Len(frames) + 1
    BY <2>1, <2>4, <2>5, AppendProperties
  <2>7. QED
    BY <1>1, <1>2, <2>2, <2>6
<1>4. ASSUME NEW g, NEW fs, NEW c, NEW es, Compiles(g, fs, c, es, given, patch)
      PROVE  /\ HeapOK(heap', table')
             /\ Grown(heap, heap') /\ Len(heap') \in Nat
             /\ frames' \in Seq(Activation(heap')) /\ Len(frames') <= MaxDepth
  <2> DEFINE fr == Frame("compile", Len(heap) + 1, given, patch)
  <2>1. /\ HeapOK(heap', table') /\ Grown(heap, heap')
        /\ Len(heap') = Len(heap) + 1
    BY <1>1, <1>4, CompiledVersion, Zenon
  <2>2. frames' = Append(frames, fr)
    BY <1>4 DEF Compiles
  <2>3. Len(heap) + 1 \in 1 .. Len(heap')
    BY <1>1, <2>1
  <2>4. fr \in Activation(heap')
    BY <2>3, NewActivation
  <2>5. frames \in Seq(Activation(heap'))
    BY <1>1, <2>1, ActivationsGrow
  <2> HIDE DEF fr
  <2>6. frames' \in Seq(Activation(heap')) /\ Len(frames') = Len(frames) + 1
    BY <2>2, <2>4, <2>5, AppendProperties
  <2>7. QED
    BY <1>1, <2>1, <2>6
<1>5. QED
  BY <1>1, <1>2, <1>3, <1>4, DoCallShape, Zenon

LEMMA TopActivation ==
    ASSUME NEW h, NEW fs \in Seq(Activation(h)), fs # <<>>
    PROVE  /\ Len(fs) \in Nat /\ Len(fs) >= 1 /\ DOMAIN fs = 1 .. Len(fs)
           /\ Last(fs) = fs[Len(fs)] /\ Last(fs) \in Activation(h)
           /\ Last(fs).fun \in 1 .. Len(h)
           /\ Last(fs).given \in Context
           /\ Last(fs).patch \in BOOLEAN
           /\ Last(fs).native => Last(fs).kind = "run" /\ Last(fs).fun # BASELINE
           /\ Front(fs) \in Seq(Activation(h)) /\ Len(Front(fs)) = Len(fs) - 1
           /\ \A k \in 1 .. Len(fs) - 1 : Front(fs)[k] = fs[k]
<1>1. /\ Len(fs) \in Nat /\ Len(fs) >= 1 /\ DOMAIN fs = 1 .. Len(fs)
      /\ Last(fs) = fs[Len(fs)]
  BY LenProperties, EmptySeq DEF Last
<1>2. Last(fs) \in Activation(h)
  BY <1>1, ElementOfSeq
<1>3. \A a \in Activation(h) : /\ a.fun \in 1 .. Len(h) /\ a.given \in Context
                               /\ a.patch \in BOOLEAN
                               /\ a.native => a.kind = "run" /\ a.fun # BASELINE
  BY DEF Activation
<1>4. /\ Front(fs) \in Seq(Activation(h)) /\ Len(Front(fs)) = Len(fs) - 1
      /\ \A k \in 1 .. Len(fs) - 1 : Front(fs)[k] = fs[k]
  BY <1>1, SubSeqProperties DEF Front
<1>5. QED
  BY <1>1, <1>2, <1>3, <1>4, Zenon

LEMMA TopReplaced ==
    ASSUME NEW h, NEW fs \in Seq(Activation(h)), fs # <<>>, NEW a \in Activation(h)
    PROVE  /\ [fs EXCEPT ![Len(fs)] = a] \in Seq(Activation(h))
           /\ Len([fs EXCEPT ![Len(fs)] = a]) = Len(fs)
           /\ \A k \in 1 .. Len(fs) :
                 [fs EXCEPT ![Len(fs)] = a][k] = IF k = Len(fs) THEN a ELSE fs[k]
<1>1. Len(fs) \in 1 .. Len(fs)
  BY TopActivation
<1>2. QED
  BY <1>1, ExceptSeq

\* Changing one function without touching its context.
LEMMA OneFunction ==
    ASSUME NEW h, NEW t, HeapOK(h, t), NEW n \in 1 .. Len(h), NEW f \in Function,
           f.context = h[n].context, f.flags \cap inherited \subseteq UserFlags,
           n = BASELINE => ~disabled(f)
    PROVE  /\ HeapOK([h EXCEPT ![n] = f], t)
           /\ Len([h EXCEPT ![n] = f]) = Len(h)
           /\ \A m \in 1 .. Len(h) :
                 [h EXCEPT ![n] = f][m] = IF m = n THEN f ELSE h[m]
<1> DEFINE g == [h EXCEPT ![n] = f]
<1>1. /\ g \in Seq(Function) /\ Len(g) = Len(h)
      /\ \A m \in 1 .. Len(h) : g[m] = IF m = n THEN f ELSE h[m]
  BY ExceptSeq DEF HeapOK
<1> HIDE DEF g
<1>2. BASELINE \in 1 .. Len(h) /\ ~disabled(h[BASELINE])
  BY HeapFunctions DEF BASELINE, HeapOK
<1>3. ~disabled(g[BASELINE])
  BY <1>1, <1>2
<1>4. \A m \in 1 .. Len(h) : /\ g[m].context = h[m].context
                             /\ g[m].flags \cap inherited \subseteq UserFlags
  BY <1>1 DEF HeapOK
<1>5. HeapOK(g, t)
  BY <1>1, <1>3, <1>4, SameContexts
<1>6. QED
  BY <1>1, <1>5 DEF g

LEMMA FunctionUpdates ==
    ASSUME NEW f \in Function
    PROVE  /\ [f EXCEPT !.pendingCompilation = FALSE] \in Function
           /\ [f EXCEPT !.pendingCompilation = FALSE].context = f.context
           /\ [f EXCEPT !.pendingCompilation = FALSE].flags = f.flags
           /\ [f EXCEPT !.pendingCompilation = FALSE].pendingCompilation = FALSE
           /\ registerDeopt(f) \in Function
           /\ registerDeopt(f).context = f.context
           /\ registerDeopt(f).pendingCompilation = f.pendingCompilation
           /\ registerDeopt(f).flags \cap inherited = f.flags \cap inherited
<1>1. UINT_MAX \in Nat /\ f.deoptCount \in 0 .. UINT_MAX /\ f.flags \in SUBSET Flag
  BY UintAssumption DEF Function
<1>2. /\ [f EXCEPT !.pendingCompilation = FALSE] \in Function
      /\ [f EXCEPT !.pendingCompilation = FALSE].context = f.context
      /\ [f EXCEPT !.pendingCompilation = FALSE].flags = f.flags
      /\ [f EXCEPT !.pendingCompilation = FALSE].pendingCompilation = FALSE
  BY Zenon DEF Function
<1> DEFINE k == IF f.deoptCount < UINT_MAX THEN f.deoptCount + 1 ELSE f.deoptCount
           fs == f.flags \cup {"Deopt"}
<1>3. k \in 0 .. UINT_MAX
  BY <1>1
<1>4. fs \in SUBSET Flag /\ fs \cap inherited = f.flags \cap inherited
  BY <1>1 DEF Flag, inherited
<1>5. registerDeopt(f) = [f EXCEPT !.flags = fs, !.deoptCount = k]
  BY DEF registerDeopt
<1> HIDE DEF k, fs
<1>6. /\ registerDeopt(f) \in Function
      /\ registerDeopt(f).context = f.context
      /\ registerDeopt(f).pendingCompilation = f.pendingCompilation
      /\ registerDeopt(f).flags = fs
  BY <1>3, <1>4, <1>5 DEF Function
<1>7. QED
  BY <1>2, <1>4, <1>6

LEMMA MinusContext ==
    ASSUME NEW a \in Context, NEW b \in Context
    PROVE  Minus(a, b) \in Context
<1>1. (a.missing - b.missing) % (MAX_MISSING + 1) \in 0 .. MAX_MISSING
  <2>1. a.missing \in 0 .. 255 /\ b.missing \in 0 .. 255
    BY DEF Context, MAX_MISSING
  <2> DEFINE d == a.missing - b.missing
  <2>2. d \in Int
    <3>1. \A x, y \in 0 .. 255 : x - y \in Int
      OBVIOUS
    <3>2. QED
      BY <2>1, <3>1, Zenon
  <2> HIDE DEF d
  <2>3. d % (MAX_MISSING + 1) \in 0 .. MAX_MISSING
    BY <2>2 DEF MAX_MISSING
  <2>4. QED
    BY <2>3, Zenon DEF d
<1>2. QED
  BY <1>1 DEF Minus, Context

LEMMA EmptyIsContext == EmptyContext \in Context
<1>1. 0 \in 0 .. MAX_MISSING
  BY DEF MAX_MISSING
<1>2. QED
  BY <1>1 DEF EmptyContext, Context

LEMMA CallGiven ==
    /\ \A c \in Calls : infer(EmptyContext, c) \in Context
    /\ \A c \in NativeCalls : infer(available, c) \in Context
BY InferredContext, EmptyIsContext, JitAssumption

\* The heap nativeCallTrampolineImpl leaves to doCall.
slowHeap == IF cache.target = SENTINEL THEN heap
            ELSE [heap EXCEPT ![cache.target] =
                    unregisterInvocation(registerInvocation(@))]

LEMMA SlowHeap ==
    ASSUME JInv
    PROVE  Kept(heap, slowHeap)
<1>1. heap \in Seq(Function) /\ cache.target \in 0 .. Len(heap) /\ Len(heap) \in Nat
  BY HeapFunctions DEF JInv, HeapOK, CacheOK
<1>2. CASE cache.target = SENTINEL
  BY <1>1, <1>2, KeptReflexive DEF slowHeap
<1>3. CASE cache.target # SENTINEL
  <2> DEFINE n == cache.target
             f == registerInvocation(heap[n])
             g == unregisterInvocation(f)
  <2>1. n \in 1 .. Len(heap)
    BY <1>1, <1>3 DEF SENTINEL
  <2>2. heap[n] \in Function
    BY <1>1, <2>1, ElementOfSeq
  <2>3. KeptFunction(heap[n], f)
    BY <2>2, Invocations
  <2>4. f \in Function
    BY <2>3 DEF KeptFunction
  <2> HIDE DEF f
  <2>5. KeptFunction(f, g)
    BY <2>4, Invocations
  <2> HIDE DEF g
  <2>6. KeptFunction(heap[n], g)
    BY <2>3, <2>5, Zenon DEF KeptFunction
  <2>7. Kept(heap, [heap EXCEPT ![n] = g])
    BY <1>1, <2>1, <2>6, KeptUpdate
  <2>8. slowHeap = [heap EXCEPT ![n] = g]
    BY <1>3 DEF slowHeap, f, g
  <2>9. QED
    BY <2>7, <2>8
<1>4. QED
  BY <1>2, <1>3

LEMMA SlowCall ==
    ASSUME NEW c, NativeCallSlow(c)
    PROVE  /\ DoCall(slowHeap, infer(available, c), TRUE)
           /\ MayCall /\ recheck' = 0 /\ cache' = cache
BY DEF NativeCallSlow, slowHeap

\* The version a native call enters.
LEMMA NativeTarget ==
    ASSUME JInv, NEW c \in NativeCalls, NativeCall(c)
    PROVE  /\ cache.target \in 2 .. Len(heap)
           /\ ~disabled(heap[cache.target]) /\ accepts(c)
           /\ ~heap[cache.target].pendingCompilation
           /\ Kept(heap, heap') /\ HeapOK(heap', table') /\ Grown(heap, heap')
           /\ Len(heap') = Len(heap) /\ Len(heap) \in Nat
           /\ frames' = Append(frames, Frame("run", cache.target,
                                             infer(available, c), FALSE))
<1> DEFINE n == cache.target
           f == registerInvocation(heap[n])
<1>1. /\ accepts(c) /\ hasNativeCode(n) /\ ~disabled(heap[n])
      /\ heap' = [heap EXCEPT ![n] = f] /\ table' = table
  BY DEF NativeCall, fails
<1>2. n \in 0 .. Len(heap) /\ Len(heap) \in Nat
  BY HeapFunctions DEF JInv, CacheOK
<1>3. n \in 2 .. Len(heap) /\ ~heap[n].pendingCompilation
  BY <1>1, <1>2 DEF hasNativeCode, SENTINEL, BASELINE
<1>4. heap[n] \in Function /\ n \in 1 .. Len(heap) /\ heap \in Seq(Function)
  <2>1. HeapOK(heap, table)
    BY Zenon DEF JInv
  <2>2. heap \in Seq(Function)
    BY <2>1, Zenon DEF HeapOK
  <2>3. n \in 1 .. Len(heap)
    <3> HIDE DEF n
    <3>1. QED
      BY <1>2, <1>3
  <2>4. heap[n] \in Function
    <3> HIDE DEF n
    <3>1. QED
      BY <2>1, <2>3, HeapFunctions, Zenon
  <2>5. QED
    BY <2>2, <2>3, <2>4
<1>5. KeptFunction(heap[n], f)
  BY <1>4, Invocations
<1> HIDE DEF f
<1>6. Kept(heap, heap')
  BY <1>1, <1>4, <1>5, KeptUpdate
<1>7. HeapOK(heap', table') /\ Grown(heap, heap') /\ Len(heap') = Len(heap)
  <2>1. HeapOK(heap, table)
    BY DEF JInv
  <2>2. HeapOK(heap', table) /\ Grown(heap, heap')
    BY <1>6, <2>1, KeptHeap, KeptGrown
  <2>3. QED
    BY <1>1, <1>6, <2>2 DEF Kept
<1>8. frames' = Append(frames, Frame("run", n, infer(available, c), FALSE))
  BY DEF NativeCall, Push
<1>9. QED
  BY <1>1, <1>2, <1>3, <1>6, <1>7, <1>8

LEMMA JInvInit == Init => JInv
<1> SUFFICES ASSUME Init
             PROVE  JInv
  OBVIOUS
<1> DEFINE f == NewFunction(EmptyContext, {}, FALSE)
<1>1. /\ UINT_MAX \in Nat /\ MaxVersions \in Nat /\ MaxDepth \in Nat
      /\ RECHECK \in Nat /\ Capacity \in Nat /\ Capacity >= 2
      /\ available \in Context
  BY UintAssumption, JitAssumption, CapacityAssumption
<1>2. f \in Function /\ f.context = EmptyContext /\ f.flags = {}
  BY <1>1, EmptyIsContext DEF NewFunction, Function
<1> HIDE DEF f
<1>3. heap = <<f>> /\ heap \in Seq(Function) /\ Len(heap) = 1 /\ heap[1] = f
  <2>1. heap = <<f>>
    BY DEF Init, f
  <2>2. QED
    BY <1>2, <2>1
<1>4. table = <<>> /\ DOMAIN table = {} /\ table \in Seq(2 .. Len(heap))
      /\ Len(table) = 0
  BY EmptySeq DEF Init
<1>5. SortedTable(Entries(heap, table))
  BY <1>4 DEF SortedTable, Entries
<1>6. ~disabled(f)
  BY <1>2 DEF disabled
<1>7. HeapOK(heap, table)
  BY <1>1, <1>2, <1>3, <1>4, <1>5, <1>6 DEF HeapOK, BASELINE
<1>8. Minus(EmptyContext, available) \in Context
  BY <1>1, EmptyIsContext, MinusContext
<1>9. CacheOK(heap, cache)
  <2> DEFINE m == Minus(EmptyContext, available)
  <2>1. cache = [target |-> 1, missing |-> m]
    BY DEF Init, BASELINE
  <2>2. heap[1].context = EmptyContext /\ ~disabled(heap[1])
    BY <1>2, <1>3, <1>6
  <2> HIDE DEF m
  <2>3. /\ cache \in [target : 0 .. Len(heap), missing : Context]
        /\ cache.target = 1 /\ cache.missing = m
    BY <1>3, <1>8, <2>1 DEF m
  <2>4. QED
    BY <2>2, <2>3 DEF CacheOK, m
<1>10. frames \in Seq(Activation(heap)) /\ Len(frames) = 0
  BY EmptySeq DEF Init
<1>11. QED
  BY <1>1, <1>7, <1>9, <1>10 DEF JInv, Init

LEMMA CallInv ==
    ASSUME JInv, NEW c \in Calls, Call(c)
    PROVE  JInv'
<1>1. DoCall(heap, infer(EmptyContext, c), FALSE) /\ MayCall
      /\ cache' = cache /\ recheck' = recheck
  BY DEF Call
<1>2. Kept(heap, heap)
  BY KeptReflexive DEF JInv, HeapOK
<1>3. infer(EmptyContext, c) \in Context
  BY CallGiven
<1>4. /\ HeapOK(heap', table')
      /\ Grown(heap, heap') /\ Len(heap') \in Nat
      /\ frames' \in Seq(Activation(heap')) /\ Len(frames') <= MaxDepth
      /\ deoptimizationStartedAt' \in 0 .. MaxDepth
  BY <1>1, <1>2, <1>3, DoCallInv
<1>5. CacheOK(heap', cache')
  BY <1>1, <1>4, CacheGrown, HeapFunctions DEF JInv
<1>6. QED
  BY <1>1, <1>4, <1>5 DEF JInv

LEMMA NativeCallSlowInv ==
    ASSUME JInv, NEW c \in NativeCalls, NativeCallSlow(c)
    PROVE  JInv'
<1>1. /\ DoCall(slowHeap, infer(available, c), TRUE) /\ MayCall
      /\ recheck' = 0 /\ cache' = cache
  BY SlowCall
<1>2. Kept(heap, slowHeap)
  BY SlowHeap
<1>3. infer(available, c) \in Context
  BY CallGiven
<1>4. /\ HeapOK(heap', table')
      /\ Grown(heap, heap') /\ Len(heap') \in Nat
      /\ frames' \in Seq(Activation(heap')) /\ Len(frames') <= MaxDepth
      /\ deoptimizationStartedAt' \in 0 .. MaxDepth
  BY <1>1, <1>2, <1>3, DoCallInv
<1>5. CacheOK(heap', cache')
  BY <1>1, <1>4, CacheGrown, HeapFunctions DEF JInv
<1>6. recheck' \in 0 .. RECHECK + 1
  BY <1>1, JitAssumption
<1>7. QED
  BY <1>4, <1>5, <1>6 DEF JInv

LEMMA NativeCallInv ==
    ASSUME JInv, NEW c \in NativeCalls, NativeCall(c)
    PROVE  JInv'
<1> DEFINE fr == Frame("run", cache.target, infer(available, c), FALSE)
<1>1. /\ HeapOK(heap', table') /\ Grown(heap, heap') /\ Len(heap') = Len(heap)
      /\ Len(heap) \in Nat /\ cache.target \in 1 .. Len(heap')
      /\ frames' = Append(frames, fr)
  <2>1. /\ HeapOK(heap', table') /\ Grown(heap, heap') /\ Len(heap') = Len(heap)
        /\ Len(heap) \in Nat /\ cache.target \in 2 .. Len(heap)
        /\ frames' = Append(frames, fr)
    BY NativeTarget, Zenon
  <2>2. cache.target \in 1 .. Len(heap')
    BY <2>1
  <2>3. QED
    BY <2>1, <2>2, Zenon
<1>2. fr \in Activation(heap')
  BY <1>1, CallGiven, NewActivation
<1>3. /\ frames \in Seq(Activation(heap')) /\ Len(frames) \in Nat
      /\ Len(frames) < MaxDepth /\ MaxDepth \in Nat
  <2>1. frames \in Seq(Activation(heap)) /\ Len(heap) <= Len(heap')
    BY <1>1 DEF JInv
  <2>2. frames \in Seq(Activation(heap'))
    BY <1>1, <2>1, ActivationsGrow
  <2>3. Len(frames) < MaxDepth /\ MaxDepth \in Nat
    BY JitAssumption DEF NativeCall, MayCall
  <2>4. QED
    BY <2>1, <2>2, <2>3, LenProperties
<1> HIDE DEF fr
<1>4. frames' \in Seq(Activation(heap')) /\ Len(frames') <= MaxDepth
  <2>1. frames' \in Seq(Activation(heap')) /\ Len(frames') = Len(frames) + 1
    BY <1>1, <1>2, <1>3, AppendProperties, ZenonT(60)
  <2>2. Len(frames) + 1 <= MaxDepth
    BY <1>3
  <2>3. QED
    BY <2>1, <2>2, Zenon
<1>5. CacheOK(heap', cache')
  BY <1>1, CacheGrown DEF JInv, NativeCall
<1>6. recheck' \in 0 .. RECHECK + 1
  <2>1. RECHECK \in Nat /\ recheck \in 0 .. RECHECK + 1
    BY JitAssumption DEF JInv
  <2>2. nextRecheck \in 0 .. RECHECK + 1
    BY <2>1 DEF nextRecheck
  <2>3. recheck' = nextRecheck \/ recheck' = 0
    BY DEF NativeCall
  <2>4. QED
    BY <2>1, <2>2, <2>3
<1>7. QED
  BY <1>1, <1>4, <1>5, <1>6 DEF JInv, NativeCall

-----------------------------------------------------------------------------
(* Which assumptions a call site establishes. *)

\* The type assumptions of a context are about arguments of its calls, or
\* among those the native call site knows statically.
AboutArguments(c) ==
    \A f \in c.typeFlags : f \in available.typeFlags
                           \/ f % NUM_TYPED_ARGS < formalNargs - c.missing

AInv ==
    /\ \A n \in 2 .. Len(heap) : AboutArguments(heap[n].context)
    /\ AssumptionsHold

\* Clearing assumptions only ever gives up some of them.
LEMMA ClearedShrinks ==
    ASSUME NEW fs, NEW level, NEW given \in Context
    PROVE  LET c == clearDisabledAssumptions(fs, level, given)
           IN  /\ c.flags \subseteq given.flags
               /\ c.typeFlags \subseteq given.typeFlags
               /\ c.missing \in {0, given.missing}
<1>1. ASSUME NEW a \in Context
      PROVE  /\ clearTypeFlags(a).flags = a.flags
             /\ clearTypeFlags(a).typeFlags = {}
             /\ clearTypeFlags(a).missing = a.missing
  BY DEF clearTypeFlags, Context
<1>2. ASSUME NEW a \in Context
      PROVE  /\ clearNargs(a).flags \subseteq a.flags
             /\ clearNargs(a).typeFlags = a.typeFlags
             /\ clearNargs(a).missing = 0
  BY DEF clearNargs, Context
<1>3. ASSUME NEW a \in Context
      PROVE  /\ clearExcept(a, minimalContext).flags \subseteq a.flags
             /\ clearExcept(a, minimalContext).typeFlags = {}
             /\ clearExcept(a, minimalContext).missing = 0
  BY DEF clearExcept
<1>4. ASSUME NEW a \in Context
      PROVE  /\ setSpecializationLevel(a, level).flags \subseteq a.flags
             /\ setSpecializationLevel(a, level).typeFlags \subseteq a.typeFlags
             /\ setSpecializationLevel(a, level).missing \in {0, a.missing}
  BY DEF setSpecializationLevel
<1> DEFINE types == IF "DisableArgumentTypeSpecialization" \in fs
                    THEN clearTypeFlags(given) ELSE given
           nargs == IF "DisableNumArgumentsSpezialization" \in fs
                    THEN clearNargs(types) ELSE types
           all == IF "DisableAllSpecialization" \in fs
                  THEN clearExcept(nargs, minimalContext) ELSE nargs
           Within(a) == /\ a \in Context
                        /\ a.flags \subseteq given.flags
                        /\ a.typeFlags \subseteq given.typeFlags
                        /\ a.missing \in {0, given.missing}
<1>5. \A a \in Context : /\ clearTypeFlags(a) \in Context
                         /\ clearNargs(a) \in Context
                         /\ clearExcept(a, minimalContext) \in Context
  <2>1. 0 \in 0 .. MAX_MISSING
    BY DEF MAX_MISSING
  <2>2. QED
    BY <2>1 DEF clearTypeFlags, clearNargs, clearExcept, Context
<1>6. Within(types)
  BY <1>1, <1>5
<1>7. Within(nargs)
  <2> HIDE DEF types
  <2> QED BY <1>2, <1>5, <1>6
<1>8. Within(all)
  <2> HIDE DEF nargs
  <2> QED BY <1>3, <1>5, <1>7
<1>9. clearDisabledAssumptions(fs, level, given) =
         IF level < 100 THEN setSpecializationLevel(all, level) ELSE all
  BY DEF clearDisabledAssumptions
<1> HIDE DEF all
<1>10. QED
  BY <1>4, <1>8, <1>9

\* The type assumptions a call establishes are about its arguments.
LEMMA InferredFlags ==
    ASSUME NEW given, NEW c \in AnyCall
    PROVE  /\ Len(c.args) \in Nat
           /\ \A f \in infer(given, c).typeFlags :
                 f \in given.typeFlags \/ f % NUM_TYPED_ARGS < Len(c.args)
           /\ Len(c.args) <= formalNargs =>
                 infer(given, c).missing = formalNargs - Len(c.args)
           /\ (NotTooManyArguments \in infer(given, c).flags
                /\ NotTooManyArguments \notin given.flags) =>
                 Len(c.args) <= formalNargs
           /\ \A i \in 1 .. Len(c.args) :
                 argFlags(c.args[i], i - 1) \subseteq infer(given, c).typeFlags
<1>1. Len(c.args) \in Nat
  BY LenProperties DEF AnyCall
<1>2. ASSUME NEW f \in infer(given, c).typeFlags, f \notin given.typeFlags
      PROVE  f % NUM_TYPED_ARGS < Len(c.args)
  <2>1. PICK i \in 1 .. Len(c.args) : f \in argFlags(c.args[i], i - 1)
    BY <1>2 DEF infer, inferCurrentContext
  <2>2. i - 1 \in Nat
    BY <1>1
  <2>3. f % NUM_TYPED_ARGS = i - 1
    BY <2>1, <2>2, ArgFlags
  <2>4. QED
    BY <1>1, <2>3
<1>3. Len(c.args) <= formalNargs =>
         infer(given, c).missing = formalNargs - Len(c.args)
  BY DEF infer, inferCurrentContext
<1>4. (NotTooManyArguments \in infer(given, c).flags
        /\ NotTooManyArguments \notin given.flags) => Len(c.args) <= formalNargs
  BY DEF infer, inferCurrentContext
<1>5. \A i \in 1 .. Len(c.args) :
         argFlags(c.args[i], i - 1) \subseteq infer(given, c).typeFlags
  BY DEF infer, inferCurrentContext
<1>6. QED
  BY <1>1, <1>2, <1>3, <1>4, <1>5

\* The check of the trampoline stands for what inferCurrentContext would infer
\* as long as an argument is at most one promise away from its value; the
\* trampoline looks no further (loadArg, native/builtins.cpp:1337).
NoPromiseChains ==
    \A c \in NativeCalls : \A i \in 1 .. Len(c.args) : Len(c.args[i].proms) <= 1

LEMMA ProvidedFlag ==
    ASSUME NEW a, Len(a.proms) <= 1, Len(a.proms) \in Nat,
           NEW f \in TypeAssumption, argProvides(a, f % NUM_TYPED_ARGS, f)
    PROVE  f \in argFlags(a, f % NUM_TYPED_ARGS)
<1> DEFINE i == f % NUM_TYPED_ARGS
<1>1. /\ i \in 0 .. 5
      /\ f \in {Eager(i), NonRefl(i), NotObj(i), SimpleInt(i), SimpleReal(i)}
  BY DEF TypeAssumption, Eager, NonRefl, NotObj, SimpleInt, SimpleReal,
                  NUM_TYPED_ARGS
<1>2. loadArg(a) = a.val
  BY DEF loadArg
<1>3. /\ f \in {Eager(i), NonRefl(i)} => Evaluated(a)
      /\ f = NotObj(i) => a.val \notin {"object", "missing", "unbound"}
      /\ f = SimpleInt(i) => a.val = "int"
      /\ f = SimpleReal(i) => a.val = "real"
  BY <1>2 DEF argProvides
<1>4. ~(i >= NUM_TYPED_ARGS)
  BY <1>1 DEF NUM_TYPED_ARGS
<1> HIDE DEF i
<1>5. f \in argFlags(a, i)
  BY <1>1, <1>3, <1>4, Zenon DEF argFlags
<1>6. QED
  BY <1>5 DEF i

\* The context of the cached target, compared with what the site provides.
LEMMA MissingAssumptions ==
    ASSUME NEW a \in Context, NEW b \in Context, NEW m, m = Minus(a, b)
    PROVE  /\ m.flags = {} => a.flags \subseteq b.flags
           /\ \A f \in a.typeFlags : f \in b.typeFlags \/ f \in m.typeFlags
           /\ m.missing = 0 => a.missing = b.missing
<1>1. m.flags = a.flags \ b.flags /\ m.typeFlags = a.typeFlags \ b.typeFlags
      /\ m.missing = (a.missing - b.missing) % (MAX_MISSING + 1)
  BY DEF Minus
<1>2. a.missing \in 0 .. 255 /\ b.missing \in 0 .. 255
  BY DEF Context, MAX_MISSING
<1>3. \A x, y \in 0 .. 255 : (x - y) % 256 = 0 => x = y
  <2> SUFFICES ASSUME NEW x \in 0 .. 255, NEW y \in 0 .. 255
               PROVE  (x - y) % 256 = 0 => x = y
    OBVIOUS
  <2> DEFINE d == x - y
  <2>1. d \in -255 .. 255 /\ (d = 0 => x = y)
    OBVIOUS
  <2> HIDE DEF d
  <2>2. d % 256 = 0 => d = 0
    <3>1. d >= 0 => d % 256 = d
      BY <2>1
    <3>2. d < 0 => d % 256 = d + 256
      BY <2>1
    <3>3. QED
      BY <2>1, <3>1, <3>2
  <2>3. QED
    BY <2>1, <2>2 DEF d
<1>4. MAX_MISSING + 1 = 256
  BY DEF MAX_MISSING
<1>5. m.missing = 0 => a.missing = b.missing
  <2>1. (a.missing - b.missing) % 256 = 0 => a.missing = b.missing
    BY <1>2, <1>3, Zenon
  <2>2. QED
    BY <1>1, <1>4, <2>1, Zenon
<1>6. QED
  BY <1>1, <1>5

\* The type assumptions of a context are numbers.
LEMMA TypeFlags ==
    \A c \in Context : \A f \in c.typeFlags : f \in TypeAssumption /\ f \in Nat
<1>1. TypeAssumption \subseteq Nat
  BY DEF TypeAssumption, NUM_TYPED_ARGS
<1>2. \A c \in Context : c.typeFlags \subseteq TypeAssumption
  BY DEF Context
<1>3. QED
  BY <1>1, <1>2, Zenon

\* A call that the cached target accepts satisfies its assumptions.
LEMMA AcceptedCall ==
    ASSUME NoPromiseChains, JInv, AInv, NEW c \in NativeCalls, accepts(c),
           cache.target \in 2 .. Len(heap)
    PROVE  smaller(infer(available, c), heap[cache.target].context)
<1> DEFINE n == cache.target
           ctx == heap[n].context
           m == cache.missing
           given == infer(available, c)
<1>1. Len(heap) \in Nat /\ n \in 1 .. Len(heap) /\ n # SENTINEL /\ ctx \in Context
  <2>1. Len(heap) \in Nat
    BY HeapFunctions DEF JInv
  <2>2. n \in 1 .. Len(heap) /\ n # SENTINEL
    BY <2>1 DEF SENTINEL
  <2>3. QED
    BY <2>1, <2>2, HeapFunctions DEF JInv
<1>2. m = Minus(ctx, available) /\ AboutArguments(ctx)
  BY <1>1 DEF JInv, CacheOK, AInv
<1>3. available \in Context /\ given \in Context /\ c \in AnyCall
      /\ formalNargs \in Nat
  <2>1. formalNargs \in Nat
    <3>1. formalNargs \in 0 .. MAX_MISSING
      BY JitAssumption, Zenon
    <3>2. QED
      BY <3>1 DEF MAX_MISSING
  <2>2. QED
    BY <2>1, CallGiven, JitAssumption
<1>4. smaller(given, available) /\ Len(c.args) + available.missing = formalNargs
  BY SiteAssumption
<1>5. \/ m = EmptyContext
      \/ onlyTypesMissing(m) /\ missingProvided(m, c)
      \/ smaller(given, ctx)
  BY <1>1, Zenon DEF accepts, infer
<1> HIDE DEF ctx, m, n
<1>6. /\ m.flags = {} => ctx.flags \subseteq available.flags
      /\ \A f \in ctx.typeFlags : f \in available.typeFlags \/ f \in m.typeFlags
      /\ m.missing = 0 => ctx.missing = available.missing
  BY <1>1, <1>2, <1>3, MissingAssumptions
<1>7. /\ available.flags \subseteq given.flags
      /\ available.typeFlags \subseteq given.typeFlags
  BY <1>4 DEF smaller
<1>8. CASE m = EmptyContext
  <2>1. m.flags = {} /\ m.typeFlags = {} /\ m.missing = 0
    BY <1>8 DEF EmptyContext
  <2>2. ctx.missing = available.missing /\ available.missing \in Nat
    BY <1>3, <1>6, <2>1, ContextFields
  <2>3. ctx.flags \subseteq available.flags /\ ctx.typeFlags \subseteq available.typeFlags
    BY <1>6, <2>1, Zenon
  <2>4. smaller(available, ctx)
    BY <2>2, <2>3 DEF smaller
  <2> HIDE DEF given
  <2>5. QED
    BY <1>1, <1>3, <1>4, <2>4, SmallerPreorder DEF ctx, n, given
<1>9. CASE onlyTypesMissing(m) /\ missingProvided(m, c)
  <2>1. m.flags = {} /\ m.missing = 0
    BY <1>9 DEF onlyTypesMissing
  <2>2. /\ Len(c.args) \in Nat
        /\ Len(c.args) <= formalNargs => given.missing = formalNargs - Len(c.args)
        /\ \A i \in 1 .. Len(c.args) :
              argFlags(c.args[i], i - 1) \subseteq given.typeFlags
    BY <1>3, InferredFlags
  <2> HIDE DEF given
  <2>3. available.missing \in Nat
    BY <1>3, ContextFields
  <2>4. ctx.missing = available.missing /\ given.missing = available.missing
        /\ formalNargs - ctx.missing = Len(c.args)
    BY <1>3, <1>4, <1>6, <2>1, <2>2, <2>3
  <2>5. ASSUME NEW f \in ctx.typeFlags
        PROVE  f \in given.typeFlags
    <3>1. CASE f \in available.typeFlags
      BY <1>7, <3>1
    <3>2. CASE f \notin available.typeFlags
      <4> DEFINE i == f % NUM_TYPED_ARGS
                 a == c.args[i + 1]
      <4>1. f \in TypeAssumption /\ f \in Nat
        <5>1. ctx \in Context
          BY <1>1 DEF ctx
        <5>2. QED
          BY <2>5, <5>1, TypeFlags, Zenon
      <4>2. i \in Nat
        BY <4>1 DEF NUM_TYPED_ARGS
      <4>3. i < Len(c.args)
        BY <1>2, <2>4, <2>5, <3>2 DEF AboutArguments
      <4>4. i + 1 \in 1 .. Len(c.args) /\ (i + 1) - 1 = i
        BY <2>2, <4>2, <4>3
      <4>5. argProvides(a, i, f)
        BY <1>6, <1>9, <2>5, <3>2 DEF missingProvided
      <4>6. Len(a.proms) <= 1 /\ Len(a.proms) \in Nat
        <5>1. a \in Argument
          BY <1>3, <4>4, ElementOfSeq DEF AnyCall
        <5>2. QED
          BY <4>4, <5>1, LenProperties DEF NoPromiseChains, Argument
      <4> HIDE DEF a
      <4>7. f \in argFlags(a, i)
        BY <4>1, <4>5, <4>6, ProvidedFlag
      <4>8. argFlags(a, i) \subseteq given.typeFlags
        <5> HIDE DEF i
        <5> DEFINE j == i + 1
        <5>1. j \in 1 .. Len(c.args) /\ j - 1 = i
          BY <4>4
        <5> HIDE DEF j
        <5>2. argFlags(c.args[j], j - 1) \subseteq given.typeFlags
          BY <2>2, <5>1, Zenon
        <5>3. QED
          BY <5>1, <5>2, Zenon DEF a, j
      <4>9. QED
        BY <4>7, <4>8
    <3>3. QED
      BY <3>1, <3>2
  <2>6. ctx.flags \subseteq given.flags
    BY <1>6, <1>7, <2>1
  <2>7. smaller(given, ctx)
    BY <2>3, <2>4, <2>5, <2>6 DEF smaller
  <2>8. QED
    BY <2>7 DEF ctx, n, given
<1>10. QED
  BY <1>5, <1>8, <1>9 DEF ctx, n

=============================================================================
