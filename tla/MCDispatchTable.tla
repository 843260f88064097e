-------------------------- MODULE MCDispatchTable --------------------------
(***************************************************************************)
(* Small instance of DispatchTable: contexts over the flags that interact   *)
(* with the number of missing arguments and two type assumptions.           *)
(***************************************************************************)
EXTENDS DispatchTable

Ctx(fs, ts, m) ==
    [flags |-> minimalContext \cup fs, typeFlags |-> ts, missing |-> m]

MCCallContexts ==
    { Ctx({}, {}, 0), Ctx({}, {}, 1), Ctx({NoExplicitlyMissingArgs}, {}, 1),
      Ctx({}, {Eager(0)}, 0), Ctx({}, {SimpleReal(0)}, 1),
      Ctx({NoExplicitlyMissingArgs}, {Eager(0), SimpleReal(0)}, 1),
      [flags |-> {CorrectOrderOfArguments}, typeFlags |-> {Eager(0)},
       missing |-> 0] }

MCUserContexts ==
    { EmptyContext,
      [flags |-> {}, typeFlags |-> {SimpleReal(0)}, missing |-> 0] }

=============================================================================
