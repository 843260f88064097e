------------------------------- MODULE MCJit -------------------------------
(***************************************************************************)
(* Small instances of Jit: a closure with two formals, called with one or   *)
(* two arguments of kinds that tell the assumptions apart.                  *)
(***************************************************************************)
EXTENDS JitProofs

Arg(ps, v) == [proms |-> ps, val |-> v]
ACall(args) == [args |-> args, misnamed |-> FALSE, suppliedvars |-> FALSE]

real == Arg(<<>>, "real")
object == Arg(<<>>, "object")
lazyString == Arg(<<"trivial">>, "string")
lazyObject == Arg(<<"trivial">>, "object")

MCCalls == { ACall(<<real>>), ACall(<<object>>) }
MCNativeCalls == { ACall(<<lazyString>>), ACall(<<lazyObject>>) }
MCAvailable == [flags |-> Assumption, typeFlags |-> {NonRefl(0)}, missing |-> 1]

NoCalls == {}

=============================================================================
