------------------------------ MODULE ColonLoop ------------------------------
(***************************************************************************)
(* for (i in from:to), which the bytecode compiler turns into a counting   *)
(* loop unless a check of the ends, made at run time, asks for the vector. *)
(* The loop runs in the interpreter, or as native code compiled for what   *)
(* is known of the ends and, where it was recorded, of the converted ones. *)
(***************************************************************************)
EXTENDS Lowering

CONSTANT MaxVisits    \* bound: elements visited

\* The values of from and to: scalars over the whole range and beyond, and
\* vectors from:to does not take, or takes the first element of.
half == One \div 2
Ends ==
    {lgl(1), lgl(NA_INTEGER)}
    \union {int(i) : i \in INT_MIN .. INT_MAX}
    \union {real(r) : r \in {NaN, Inf, NegInf, dbl(INT_MIN), dbl(-INT_MAX), -One - half, 0, half,
                             One, dbl(INT_MAX), dbl(INT_MAX) + half, dbl(INT_MAX + 1)}}
    \union {Sexp("INTSXP", <<>>, "none"), Sexp("INTSXP", <<1, 2>>, "none"),
            Sexp("INTSXP", <<1>>, "class"), Sexp("STRSXP", <<0>>, "none")}

VARIABLES pc, tier,
          from, to,    \* the ends, and as the compiler knows them
          a, b,
          want,        \* what GNU R's from:to does
          ins, res,    \* the instruction to run, and what it did
          cur, tcur,   \* the counter i' and its type
          end, tend,   \* n' and its type
          step,
          visited, raisedEff
vars == <<pc, tier, from, to, a, b, want, ins, res, cur, tcur, end, tend, step,
          visited, raisedEff>>
input == <<tier, from, to, a, b, want>>
loop == <<cur, tcur, end, tend, step, visited>>

None == sexp(R_UnboundValue)
hold(x, t) == IF tier = "interpreter" THEN sexp(x) ELSE load(sexp(x), t, Rep(t))

Init ==
    /\ pc = "check" /\ tier \in {"interpreter", "native"}
    /\ from \in Ends /\ to \in Ends
    /\ a \in {operand(val), operand(typeOf(from))} /\ b \in {operand(val), operand(typeOf(to))}
    /\ tier = "interpreter" => a.ty = val /\ b.ty = val
    /\ want = R_colon(from, to)
    /\ ins = [op |-> "", p |-> None, q |-> None, tp |-> bottom, tq |-> bottom, t |-> bottom]
    /\ res = done(None, {})
    /\ cur = None /\ end = None /\ step = None /\ tcur = bottom /\ tend = bottom
    /\ visited = <<>> /\ raisedEff = {}

(* The next instruction, its operands and their types, and where its result *)
(* is used.                                                                 *)
Issue(op, p, q, tp, tq, next) ==
    /\ ins' = [op |-> op, p |-> p, q |-> q, tp |-> tp, tq |-> tq,
               t |-> updatedType(op, operand(tp), operand(tq))]
    /\ pc' = next
    /\ UNCHANGED <<input, res, raisedEff>>

(* The instruction runs in the tier; an error ends the loop. *)
after == [effects |-> "checked", vector |-> "for", castLhs |-> "lhs", castRhs |-> "end",
          order |-> "direction", test |-> "tested", add |-> "next"]
Run ==
    /\ pc \in DOMAIN after
    /\ res' = IF tier = "interpreter" THEN boxed(interpret(ins.op, ins.p.s, ins.q.s))
              ELSE execute(ins.op, ins.p, ins.q, operand(ins.tp), operand(ins.tq), ins.t)
    /\ raisedEff' = raisedEff \union res'.eff
    /\ pc' = IF "Error" \in res'.eff THEN "error" ELSE after[pc]
    /\ UNCHANGED <<input, ins, loop>>

(* A branch: only FALSE is false. *)
isFalse == res.v = sexp(R_FalseValue) \/ res.v = i32(0)

(* colonInputEffects, and the branch to the regular loop over the vector. *)
Check ==
    /\ pc = "check"
    /\ Issue("ColonInputEffects", hold(from, a.ty), hold(to, b.ty), a.ty, b.ty, "effects")
    /\ UNCHANGED loop
Regular ==
    /\ pc = "checked" /\ isFalse
    /\ Issue("Colon", hold(from, a.ty), hold(to, b.ty), a.ty, b.ty, "vector")
    /\ UNCHANGED loop

(* The builtin for. *)
ForEach ==
    /\ pc = "for"
    /\ LET seq == res.v.s
       IN IF Len(visited) < Len(seq.v)
          THEN /\ visited' = Append(visited, scalarOf(seq.t, seq.v[Len(visited) + 1]))
               /\ UNCHANGED pc
          ELSE pc' = "done" /\ UNCHANGED visited
    /\ UNCHANGED <<input, ins, res, cur, tcur, end, tend, step, raisedEff>>

(* m' <- colonCastLhs(m'); its recorded type may be assumed. *)
CastLhs ==
    /\ pc = "checked" /\ ~isFalse
    /\ Issue("ColonCastLhs", hold(from, a.ty), None, a.ty, bottom, "castLhs")
    /\ UNCHANGED loop
speculated == {ins.t, typeOf(valueOf(res.v, ins.t))}
as(t) == IF tier = "interpreter" THEN res.v ELSE load(res.v, ins.t, Rep(t))
Start ==
    /\ pc = "lhs" /\ pc' = "rhs"
    /\ tcur' \in speculated /\ cur' = as(tcur')
    /\ UNCHANGED <<input, ins, res, end, tend, step, visited, raisedEff>>

(* n' <- colonCastRhs(m', n') *)
CastRhs ==
    /\ pc = "rhs"
    /\ Issue("ColonCastRhs", cur, hold(to, b.ty), tcur, b.ty, "castRhs")
    /\ UNCHANGED loop
End ==
    /\ pc = "end" /\ tend' \in speculated /\ end' = as(tend')
    /\ Issue("Lte", cur, as(tend'), tcur, tend', "order")
    /\ UNCHANGED <<cur, tcur, step, visited>>

(* step <- if (m' <= n') 1L else -1L; i' is the phi of m' and i' + step. *)
stepType == typeOf(int(1))
Direction ==
    /\ pc = "direction" /\ pc' = "while"
    /\ step' = hold(int(IF isFalse THEN -1 ELSE 1), stepType)
    /\ tcur' = union(tcur, updatedType("Add", operand(tcur), operand(stepType)))
    /\ cur' = IF tier = "interpreter" THEN cur ELSE load(cur, tcur, Rep(tcur'))
    /\ UNCHANGED <<input, ins, res, end, tend, visited, raisedEff>>

(* while (i' != n') { i <- i'; i' <- i' + step; ... } *)
While ==
    /\ pc = "while" /\ Len(visited) < MaxVisits
    /\ Issue("Neq", cur, end, tcur, tend, "test") /\ UNCHANGED loop
Leave == pc = "tested" /\ isFalse /\ pc' = "done" /\ UNCHANGED <<input, ins, res, loop, raisedEff>>
Body ==
    /\ pc = "tested" /\ ~isFalse
    /\ visited' = Append(visited, IF tier = "interpreter" THEN cur.s ELSE valueOf(cur, tcur))
    /\ Issue("Add", cur, step, tcur, stepType, "add")
    /\ UNCHANGED <<cur, tcur, end, tend, step>>
Advance ==
    /\ pc = "next" /\ pc' = "while"
    /\ cur' = as(tcur)
    /\ UNCHANGED <<input, ins, res, tcur, end, tend, step, visited, raisedEff>>

(* A loop that misses its end is followed no further than MaxVisits. *)
Finished ==
    /\ pc \in {"done", "error"} \/ (pc = "while" /\ Len(visited) = MaxVisits)
    /\ UNCHANGED vars

Next == \/ Run \/ Check \/ Regular \/ ForEach \/ CastLhs \/ Start \/ CastRhs \/ End
        \/ Direction \/ While \/ Leave \/ Body \/ Advance \/ Finished
Spec == Init /\ [][Next]_vars
-----------------------------------------------------------------------------
(* The element of GNU R's sequence visited at the k-th round. *)
element(k) == scalarOf(want.res.t, want.res.v[k])

(* Where the code differs from GNU R: an end that is the real INT_MIN, an *)
(* infinite end, counting down to -INT_MAX, past which there is no int, and *)
(* in native code counting ints up to a real that is beyond them.           *)
atBoundary ==
    \/ \E e \in {from, to} : numeric(e) /\ e.v # <<>> /\ Rf_asReal(e) \in {Inf, NegInf, dbl(INT_MIN)}
    \/ /\ "Error" \notin want.eff /\ want.res.t = "INTSXP"
       /\ Len(want.res.v) > 1 /\ want.res.v[Len(want.res.v)] = -INT_MAX
    \/ tier = "native" /\ from.t # "REALSXP" /\ to.t = "REALSXP" /\ to.v[1] > dbl(INT_MAX)

number(v, t) == num_(valueOf(v, t))

(* The loop over from:to visits the elements of GNU R's vector, in order, *)
(* and all of them, with the same warnings and errors, though it never    *)
(* makes the vector.  It ends: as many steps as there are elements left   *)
(* bring i' to n' exactly, so that the test i' != n' does not miss it.    *)
LoopVisitsSequence ==
    atBoundary \/
      /\ \A k \in DOMAIN visited : k \in DOMAIN want.res.v /\ visited[k] = element(k)
      /\ pc = "done" => Len(visited) = Len(want.res.v) /\ raisedEff = want.eff
      /\ pc = "error" => "Error" \in want.eff
      /\ pc = "while" =>
           number(cur, tcur) + number(step, stepType) * (Len(want.res.v) - Len(visited))
             = number(end, tend)

=============================================================================
