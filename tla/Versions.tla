------------------------------ MODULE Versions ------------------------------
(***************************************************************************)
(* The versions of a closure: their flags and the counters the              *)
(* recompilation heuristic looks at (runtime/Function.h, Function.cpp), and *)
(* the operations of a dispatch table on a sequence of them                 *)
(* (runtime/DispatchTable.h).  An operation on a Function touches only the  *)
(* fields it names, so modules may leave out fields they never use.         *)
(***************************************************************************)
EXTENDS Context, Lists

CONSTANT UINT_MAX   \* largest value of the unsigned counters
ASSUME UintAssumption == UINT_MAX \in Nat \ {0}

\* The function flags that dispatch and recompilation depend on.
Flag == {"Deopt", "MarkOpt", "NotOptimizable", "Reoptimize", "NeedsFullEnv",
         "DisableAllSpecialization", "DisableArgumentTypeSpecialization",
         "DisableNumArgumentsSpezialization"}

inherited == {"DisableAllSpecialization", "DisableArgumentTypeSpecialization",
              "DisableNumArgumentsSpezialization"}

\* What a version compiled from a baseline with flags fs starts with.
inheritFlags(fs) == fs \cap inherited

disabled(f) == "Deopt" \in f.flags

registerDeopt(f) ==
    [f EXCEPT !.flags = @ \cup {"Deopt"},
              !.deoptCount = IF @ < UINT_MAX THEN @ + 1 ELSE @]

\* Deopt counts are added without a check for overflow.
addDeoptCount(f, n) == [f EXCEPT !.deoptCount = (@ + n) % (UINT_MAX + 1)]

mutantClearDisabledAssumptions(fs, level, given) ==
    IF "DisableAllSpecialization" \in fs
    THEN clearExcept(given, minimalContext) ELSE given

\* The context a version may be specialized for, given the flags fs of the
\* function and the global specialization level.
clearDisabledAssumptions(fs, level, given) ==
    LET types == IF "DisableArgumentTypeSpecialization" \in fs
                 THEN clearTypeFlags(given) ELSE given
        nargs == IF "DisableNumArgumentsSpezialization" \in fs
                 THEN clearNargs(types) ELSE types
        all == IF "DisableAllSpecialization" \in fs
               THEN clearExcept(nargs, minimalContext) ELSE nargs
    IN  IF level < 100 THEN setSpecializationLevel(all, level) ELSE all

-----------------------------------------------------------------------------
(* Entry 0 of a dispatch table, the baseline, never changes and is left     *)
(* implicit; a table t holds the optimized versions in entries 1 ..         *)
(* size() - 1, in the order dispatch tries them.                            *)

CONSTANT Capacity   \* capacity(), the baseline included
ASSUME CapacityAssumption == Capacity \in Nat /\ Capacity >= 2

\* What the table needs to know of a Function.
Version == [context : Context, flags : SUBSET {"Deopt"},
            pendingCompilation : BOOLEAN, deoptCount : 0 .. UINT_MAX]

\* A version leaves the backend enabled, its code handle not yet filled.
NewVersion(c) == [context |-> c, flags |-> {},
                  pendingCompilation |-> TRUE, deoptCount |-> 0]

mutantDispatchIndex(t, a, ignorePending) ==
    SelectLastInSeq(t, LAMBDA e : /\ smaller(a, e.context)
                                  /\ ignorePending \/ ~e.pendingCompilation
                                  /\ ~disabled(e))

\* Index of the version dispatched to for a, 0 for the baseline.
dispatchIndex(t, a, ignorePending) ==
    SelectInSeq(t, LAMBDA e : /\ smaller(a, e.context)
                              /\ ignorePending \/ ~e.pendingCompilation
                              /\ ~disabled(e))

\* Index of the Function left in *disabledFunc, 0 for the baseline.
disabledFuncIndex(t, a, ignorePending) ==
    LET i == dispatchIndex(t, a, ignorePending)
    IN  IF i # 0 THEN i
        ELSE SelectLastInSeq(t,
                LAMBDA e : /\ smaller(a, e.context)
                           /\ ignorePending \/ ~e.pendingCompilation)

mutantContains(t, c) ==
    c = EmptyContext \/ SelectInSeq(t, LAMBDA e : e.context = c) # 0

\* The baseline has the empty context and is never disabled.
contains(t, c) ==
    LET i == SelectInSeq(t, LAMBDA e : e.context = c)
    IN  c = EmptyContext \/ (i # 0 /\ ~disabled(t[i]))

\* Where the backwards scan of insert stops.
scanStop(t, c) == SelectLastInSeq(t, LAMBDA e : ~Less(c, e.context))

hasVersion(t, c) ==
    LET p == scanStop(t, c) IN p # 0 /\ t[p].context = c

mutantReplaceVersion(t, f) == [t EXCEPT ![scanStop(t, f.context)] = f]

replaceVersion(t, f) ==
    LET p == scanStop(t, f.context)
    IN  [t EXCEPT ![p] = addDeoptCount(f, t[p].deoptCount)]

addVersion(t, f) == InsertAt(t, scanStop(t, f.context) + 1, f)

\* The possible outcomes of insert: the evicted entry is random.
insert(t, f) ==
    IF hasVersion(t, f.context)
    THEN {replaceVersion(t, f)}
    ELSE IF Len(t) + 1 = Capacity
         THEN { addVersion(RemoveAt(t, pos), f) : pos \in 1 .. Len(t) }
         ELSE {addVersion(t, f)}

\* The entries newWithUserContext copies; j counts the ones copied so far.
keptUpTo(t, udc, i) == { k \in 1 .. i : smaller(t[k].context, udc) }

mutantWithUserContext(t, udc) == t

withUserContext(t, udc) ==
    [j \in 1 .. Cardinality(keptUpTo(t, udc, Len(t))) |->
        t[CHOOSE i \in keptUpTo(t, udc, Len(t)) :
            Cardinality(keptUpTo(t, udc, i)) = j]]

\* Entries are strictly increasing, hence no context occurs twice.
SortedTable(t) ==
    \A i, j \in DOMAIN t : i < j => Less(t[i].context, t[j].context)

=============================================================================
