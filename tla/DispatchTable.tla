--------------------------- MODULE DispatchTable ---------------------------
(***************************************************************************)
(* The dispatch table of a closure (runtime/DispatchTable.h) under every    *)
(* operation on it.                                                         *)
(***************************************************************************)
EXTENDS Versions

CONSTANTS CallContexts,  \* contexts a compilation can be requested for
          UserContexts   \* contexts given to rirSetUserContext

ASSUME CallContextsAssumption == CallContexts \subseteq Context
ASSUME UserContextsAssumption == UserContexts \subseteq Context

VARIABLES table, userDefinedContext
vars == <<table, userDefinedContext>>

-----------------------------------------------------------------------------
Init == table = <<>> /\ userDefinedContext = EmptyContext

\* pirCompile inserts a version for the requested context, combined with the
\* user defined one; compileClosure refuses contexts without the minimal one.
Insert(given) ==
    /\ Joinable(userDefinedContext, given)
    /\ Includes(Join(userDefinedContext, given), minimalContext)
    /\ table' \in insert(table, NewVersion(Join(userDefinedContext, given)))
    /\ UNCHANGED userDefinedContext

\* The backend's finalizer fills the code handle.
FinishCompilation(i) ==
    /\ table[i].pendingCompilation
    /\ table' = [table EXCEPT ![i].pendingCompilation = FALSE]
    /\ UNCHANGED userDefinedContext

\* An activation of version i deoptimizes.
Deopt(i) ==
    /\ ~table[i].pendingCompilation
    /\ table' = [table EXCEPT ![i] = registerDeopt(@)]
    /\ UNCHANGED userDefinedContext

RemoveVersion(i) ==
    /\ table' = RemoveAt(table, i)
    /\ UNCHANGED userDefinedContext

\* rirSetUserContext swaps the table for a filtered copy.
SetUserContext(udc) ==
    /\ table' = withUserContext(table, udc)
    /\ userDefinedContext' = udc

\* serialize writes the baseline alone; deserialize starts from create().
Reload ==
    /\ table' = <<>>
    /\ userDefinedContext' = EmptyContext

Next ==
    \/ \E given \in CallContexts : Insert(given)
    \/ \E i \in DOMAIN table :
          FinishCompilation(i) \/ Deopt(i) \/ RemoveVersion(i)
    \/ \E udc \in UserContexts : SetUserContext(udc)
    \/ Reload

Spec == Init /\ [][Next]_vars

-----------------------------------------------------------------------------
TypeOK ==
    /\ table \in Seq(Version)
    /\ Len(table) < Capacity
    /\ userDefinedContext \in Context

\* The order DEBUG_DISPATCH asserts after an insertion (DispatchTable.h:178).
Sorted == SortedTable(table)

\* What pirCompile asserts of a table that contains a version for c
\* (api.cpp:336): dispatching on c finds exactly that version.
DispatchExact ==
    \A c \in CallContexts :
        (c # EmptyContext /\ contains(table, c)) =>
            /\ dispatchIndex(table, c, TRUE) # 0
            /\ table[dispatchIndex(table, c, TRUE)].context = c

\* Dispatch takes the most specialized version the call permits: no enabled
\* version that the call satisfies assumes strictly more than the chosen one,
\* and the baseline is chosen only when there is no such version.
DispatchMostSpecific ==
    \A a \in CallContexts :
        LET d == dispatchIndex(table, a, TRUE)
        IN  \A i \in DOMAIN table :
                smaller(a, table[i].context) /\ ~disabled(table[i]) =>
                    /\ d # 0
                    /\ i # d => ~smaller(table[i].context, table[d].context)

\* No version of a closure outlives or escapes its user defined context: a
\* call that passes the check of dispatch meets only versions within it.
WithinUserContext ==
    \A i \in DOMAIN table : smaller(table[i].context, userDefinedContext)

\* Deopt counts survive recompilation (DispatchTable.h:131): as long as a
\* version for some context stays in the table its count never drops.
DeoptCountsKept ==
    [][\A i \in DOMAIN table : \A j \in DOMAIN table' :
          table[i].context = table'[j].context =>
              table'[j].deoptCount >= table[i].deoptCount]_vars

=============================================================================
