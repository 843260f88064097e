------------------------------ MODULE Rir2Pir ------------------------------
(***************************************************************************)
(* compiler/rir2pir: verified bytecode is translated to PIR, and the PIR    *)
(* runs in lockstep with the interpreter.                                   *)
(*                                                                          *)
(* Of a PIR instruction only its place is kept: <<b, n, k>> is the k-th     *)
(* value of the n-th item of basic block b, and <<b, 0, i>> the phi for the *)
(* i-th stack slot.  A value <<0, p, k>> is the same whenever it is used: a *)
(* constant, a closure (created in the first block), or an argument of a    *)
(* continuation.  A block's items are the bytecodes translated into it,     *)
(* with the checkpoints and frame states around them; that a checkpoint     *)
(* ends its block is left out.  A promise forced by force_ counts as the     *)
(* promise.                                                                 *)
(***************************************************************************)
EXTENDS CodeVerifier, SequencesExt, TLC

VARIABLES r2p,          \* the translation: see Translation
          place,        \* the item of the PIR that is next: <<block, index>>
          ostack,       \* the interpreter's operand stack, with its values
          values        \* the values of the PIR instructions

\* Positions with more than one way to get there, in all of the code.
incom(p) ==
    Cardinality({j \in Position : isJmp(code[j]) /\ code[j].imm = p}) +
    (IF p > 1 /\ code[p - 1].op # "br_" /\ ~isExit(code[p - 1]) THEN 1 ELSE 0)

findMergepoints ==
    {p \in Position : /\ \E j \in Position : isJmp(code[j]) /\ code[j].imm = p
                      /\ p = 1 \/ incom(p) > 1}

\* mergepoints gives the block of a mergepoint that was seen, else 0.
Translation(stage0, start, height0, promise) ==
    [stage |-> stage0, inPromise |-> promise,
     start |-> start, finger |-> start, stack |-> [k \in 1 .. height0 |-> <<0, 0, k>>], bb |-> 1,
     worklist |-> << >>, mergepoints |-> [p \in findMergepoints |-> 0], feedback |-> << >>,
     blocks |-> << [items |-> << >>, phis |-> << >>, next |-> << >>] >>]

end == Len(code) + 1

Item(kind, pos, stack, taken) == [kind |-> kind, pos |-> pos, stack |-> stack, taken |-> taken]
add(t, items) == [t EXCEPT !.blocks[t.bb].items = @ \o items]
createBB(t) == [t EXCEPT !.blocks = Append(@, [items |-> << >>, phis |-> << >>, next |-> << >>])]

Drop(s, n) == SubSeq(s, 1, Len(s) - n)
stackAt(s, k) == s[Len(s) - k]

\* The constant a push_ pushes: the dots are expanded by the call they are for.
IsExpandDots(v) == v[1] = 0 /\ v[2] > 0 /\ code[v[2]] = [op |-> "push_", imm |-> 1]
isInstruction(v) == v[1] # 0

addCheckpoint(pos, s) ==
    IF \E v \in ToSet(s) : IsExpandDots(v) THEN << >> ELSE << Item("checkpoint", pos, s, FALSE) >>
registerFrameState(pos, s) == << Item("framestate", pos, s, FALSE) >>

-----------------------------------------------------------------------------
\* State::createMergepoint: a block with a phi for every slot of the stack.
createMergepoint(t) ==
    LET b == Len(t.blocks) + 1
        made == createBB(t)
    IN  [made EXCEPT
            !.blocks[t.bb].next = << b >>,
            !.blocks[b].phis = [k \in DOMAIN t.stack |-> (t.bb :> t.stack[k])],
            !.stack = [k \in DOMAIN t.stack |-> <<b, 0, k>>],
            !.bb = b,
            !.mergepoints[t.finger] = b]

\* State::mergeIn, into the block b.
mergeIn(t, b) ==
    [t EXCEPT !.blocks[b].phis = [k \in DOMAIN @ |-> (t.bb :> t.stack[k]) @@ @[k]],
              !.blocks[t.bb].next = << b >>,
              !.stack = << >>, !.finger = end]

-----------------------------------------------------------------------------
(* compileBC.                                                                *)

\* What it pops off the abstract stack and the instructions it pushes.
pops(i) ==
    IF i.op \in Calls THEN i.imm + 1
    ELSE IF i.op = "call_builtin_" THEN i.imm
    ELSE IF i.op \in Arithmetic \cup Divisions \cup Relations \cup Logic \cup {"set_names_"} THEN 2
    ELSE IF i.op \in Extracts1 \cup Extracts2 THEN 1 + dims(i.op)
    ELSE IF i.op \in Subassigns1 \cup Subassigns2 \cup MatrixSubassigns THEN 2 + dims(i.op)
    ELSE IF i.op \in Stores \cup Unops \cup Conversions \cup Forces \cup
            {"names_", "length_", "as_switch_idx_", "for_seq_size_", "colon_cast_rhs_"} THEN 1
    ELSE 0
mutantPushes(i) == IF i.op \in Stores THEN 0 ELSE 1
pushes(i) == IF i.op \in Stores THEN 0 ELSE IF i.op = "for_seq_size_" THEN 2 ELSE 1

Ignored == NoEffect \cup Records \cup {"ensure_named_", "set_shared_"}

\* pick_ and put_ move a value to the top and from the top.
pick(s, k) == Append(RemoveAt(s, Len(s) - k), stackAt(s, k))
mutantPut(s, k) == [s EXCEPT ![Len(s)] = stackAt(s, k), ![Len(s) - k] = stackAt(s, 0)]
put(s, k) == InsertAt(Drop(s, 1), Len(s) - k, stackAt(s, 0))

\* The stack after the bytecode, which is item n of block b.
afterBC(i, pos, s, n, b) ==
    IF i.op \in Ignored THEN s
    ELSE IF i.op = "swap_" THEN Drop(s, 2) \o << stackAt(s, 0), stackAt(s, 1) >>
    ELSE IF i.op = "dup_" THEN Append(s, stackAt(s, 0))
    ELSE IF i.op = "dup2_" THEN s \o << stackAt(s, 1), stackAt(s, 0) >>
    ELSE IF i.op = "pop_" THEN Drop(s, 1)
    ELSE IF i.op = "popn_" THEN Drop(s, i.imm)
    ELSE IF i.op = "pull_" THEN Append(s, stackAt(s, i.imm))
    ELSE IF i.op = "pick_" THEN pick(s, i.imm)
    ELSE IF i.op = "put_" THEN put(s, i.imm)
    ELSE IF i.op = "push_" THEN Append(s, <<0, pos, 0>>)
    ELSE Drop(s, pops(i)) \o [k \in 1 .. pushes(i) |-> <<b, n, k>>]

Forcing == {"ldvar_", "ldvar_cached_", "ldvar_for_update_", "ldvar_for_update_cache_", "force_"}
Dispatching == Extracts1 \cup Extracts2 \cup Subassigns1 \cup Subassigns2 \cup MatrixSubassigns \cup
               Arithmetic \cup Divisions \cup Relations \cup {"colon_"}

\* What is inserted before it: checkpoints from which the interpreter runs the
\* bytecode again, and the state in which it goes on after the force.
beforeBC(i, pos, s) ==
    IF i.op = "ldfun_" THEN addCheckpoint(pos, s) \o addCheckpoint(pos, s)
    ELSE IF i.op \in Forcing THEN registerFrameState(pos + 1, Drop(s, pops(i)))
    ELSE IF i.op \in Dispatching THEN addCheckpoint(pos, s)
    ELSE << >>

\* After an instruction that may be a deopt barrier there is a checkpoint.
afterBarrier(i, pos, s) ==
    IF i.op \in StackOps \cup Ignored \cup {"put_", "pick_", "pull_", "push_"} THEN << >>
    ELSE addCheckpoint(pos + 1, s)

-----------------------------------------------------------------------------
(* Calls.  What the profile knows of the callee, how the arguments match its  *)
(* formals and which promises are pure is whatever the code can meet.         *)

madeBy(t, v, ops) ==
    /\ isInstruction(v) /\ v[2] > 0
    /\ LET maker == t.blocks[v[1]].items[v[2]] IN maker.kind = "bc" /\ code[maker.pos].op \in ops

\* A phi that has one input so far stands for it.
RECURSIVE callee(_, _)
callee(t, v) ==
    LET inputs == t.blocks[v[1]].phis[v[3]] IN
    IF isInstruction(v) /\ v[2] = 0 /\ Cardinality(DOMAIN inputs) = 1
    THEN callee(t, CHOOSE w \in Range(inputs) : TRUE) ELSE v

\* What record_call_ left with the callee: nothing of use, or its only target.
callFeedback(v) == IF isInstruction(v) THEN {"none", "builtin", "closure", "special"} ELSE {"none"}

\* What the call is compiled for.  There is no speculation in promises, and builtins
\* take neither names nor dots.  A constant callee is the builtin compileCall pushed.
targets(t, i, c) ==
    {ti \in callFeedback(c) : /\ t.inPromise => ti = "none"
                              /\ ti = "builtin" => i.op = "call_"} \cup
    (IF c[1] = 0 /\ c[2] > 0 /\ c[3] = 0 /\ i.op = "call_" THEN {"static"} ELSE {})

\* The checkpoint at which the guard of the callee fails: that of the ldfun_, or a
\* new one.
earlyCheckpoint(t, c) ==
    madeBy(t, c, {"ldfun_"}) /\ c[2] > 1 /\ t.blocks[c[1]].items[c[2] - 1].kind = "checkpoint"
calleeGuard(t, c) == IF earlyCheckpoint(t, c) THEN << >> ELSE addCheckpoint(t.finger, t.stack)
\* The test of the callee is an assumption at that checkpoint.
insertCalleeGuard(t, c, cp) == earlyCheckpoint(t, c) \/ cp # << >>

\* ArgumentMatcher::reorder, which only dots rule out for certain.
reorder(t, i) ==
    IF \E k \in 0 .. i.imm - 1 : IsExpandDots(stackAt(t.stack, k)) THEN {FALSE} ELSE BOOLEAN

\* The promise k below the top is evaluated here, and a checkpoint knows it was.
tryCreateArg(t, v) == add(t, << Item("eager", t.finger, << v >>, FALSE) >>)
eagerEval(t, k) ==
    LET wrapped == <<t.bb, Len(t.blocks[t.bb].items) + 1, 1>>
        u == [tryCreateArg(t, stackAt(t.stack, k)) EXCEPT !.stack[Len(t.stack) - k] = wrapped]
    IN  add(u, addCheckpoint(t.finger, u.stack))

\* Arguments that are evaluated first: those of a builtin, and the first of a
\* closure that only calls UseMethod, unless the promise holds its value already.
eagerArgs(t, i, ti) ==
    {k \in 0 .. i.imm - 1 : /\ madeBy(t, stackAt(t.stack, k), {"mk_promise_"})
                            /\ \/ ti \in {"builtin", "static"}
                               \/ ti = "closure" /\ k = i.imm - 1}

callItem(t, guarded) == << Item("call", t.finger, << >>, guarded) >>
emitGenericCall(t, i) ==
    add(t, registerFrameState(t.finger + 1, Drop(t.stack, i.imm + 1)) \o callItem(t, TRUE))
\* A StaticCall of the closure, and a call of the builtin, which has no frame state.
apply(t, i, guarded) ==
    add(t, registerFrameState(t.finger + 1, Drop(t.stack, i.imm + 1)) \o callItem(t, guarded))
builtinCall(t, guarded) == add(t, callItem(t, guarded))

callTranslations(t, i) ==
    LET c == callee(t, stackAt(t.stack, i.imm)) IN
    UNION {LET speculates == ti \in {"builtin", "closure", "special"}
               cp == calleeGuard(t, c)
               guarded == ~speculates \/ insertCalleeGuard(t, c, cp)
               started == IF speculates THEN add(t, cp) ELSE t
               Evaluated(ks) == FoldLeft(eagerEval, started, Reverse(SetToSortSeq(ks, <)))
           IN  IF ti \in {"none", "special"} THEN {emitGenericCall(started, i)}
               ELSE IF ti = "closure"
               THEN UNION {IF matched THEN {apply(Evaluated(ks), i, guarded) : ks \in SUBSET eagerArgs(t, i, ti)}
                           ELSE {emitGenericCall(started, i)} : matched \in reorder(t, i)}
               ELSE {builtinCall(Evaluated(ks), guarded) : ks \in SUBSET eagerArgs(t, i, ti)}
           : ti \in targets(t, i, c)}

-----------------------------------------------------------------------------
(* tryTranslate.  One iteration of its loop is one step.                     *)

\* An iteration that begins at a new mergepoint makes it one.
current ==
    IF r2p.finger \in DOMAIN r2p.mergepoints
    THEN LET t == createMergepoint(r2p) IN add(t, addCheckpoint(t.finger, t.stack))
    ELSE r2p
at(pos) == code[pos]

Seen(p) == p \in DOMAIN r2p.mergepoints /\ r2p.mergepoints[p] # 0
Translating == r2p.stage = "translate" /\ r2p.finger # end /\ ~Seen(r2p.finger)
Stopped(stage) == [r2p EXCEPT !.stage = stage]

popWorklist ==
    /\ r2p.stage = "translate" /\ r2p.finger = end
    /\ r2p' = IF r2p.worklist = << >> THEN Stopped("finalize")
              ELSE LET w == Last(r2p.worklist) IN
                   [r2p EXCEPT !.stack = w.stack, !.bb = w.bb, !.finger = w.pos, !.worklist = Front(@)]

Merge ==
    /\ r2p.stage = "translate" /\ Seen(r2p.finger)
    /\ LET b == r2p.mergepoints[r2p.finger] IN
       r2p' = IF Len(r2p.blocks[b].phis) = Len(r2p.stack) THEN mergeIn(r2p, b) ELSE Stopped("failed")

UncondJmp ==
    /\ Translating /\ at(r2p.finger).op = "br_"
    /\ LET t == current IN
       r2p' = [add(t, << Item("jump", t.finger, << >>, TRUE) >>) EXCEPT !.finger = at(@).imm]

\* A condition that was always the same is assumed to be so again, if there can
\* be a checkpoint.  The branch that was never taken is not translated.
CondJmp ==
    /\ Translating /\ at(r2p.finger).op \in {"brtrue_", "brfalse_"}
    /\ LET t == current
           pos == t.finger
           c == stackAt(t.stack, 0)
           cp == addCheckpoint(pos, t.stack)
           likely == IF isInstruction(c) /\ c \in DOMAIN t.feedback THEN t.feedback[c] ELSE "unknown"
           expectBranch == likely = (IF at(pos).op = "brtrue_" THEN "true" ELSE "false")
           popped1 == [t EXCEPT !.stack = Drop(@, 1)]
           n == Len(t.blocks)
       IN  r2p' = IF ~t.inPromise /\ likely \in {"true", "false"} /\ cp # << >>
                  THEN [add(popped1, cp \o << Item("assume", pos, t.stack, expectBranch) >>) EXCEPT
                            !.finger = IF expectBranch THEN at(pos).imm ELSE pos + 1]
                  ELSE [createBB(createBB(add(popped1, << Item("branch", pos, << >>, FALSE) >>))) EXCEPT
                            !.blocks[t.bb].next = << n + 1, n + 2 >>,
                            !.worklist = Append(@, [stack |-> popped1.stack, bb |-> n + 1, pos |-> at(pos).imm]),
                            !.bb = n + 2, !.finger = pos + 1]

\* ret_ and return_, which empties the stack.
Exit ==
    /\ Translating /\ isExit(at(r2p.finger))
    /\ LET t == current
           rest == Drop(t.stack, 1)
       IN  r2p' = IF at(t.finger).op = "ret_" /\ rest # << >> THEN Stopped("failed")
                  ELSE [add(t, << Item("exit", t.finger, << stackAt(t.stack, 0) >>, FALSE) >>) EXCEPT
                           !.stack = << >>, !.finger = end]

ifFunctionLiteral(pos) ==
    /\ pos + 4 \in Position
    /\ \A k \in 0 .. 2 : at(pos + k).op = "push_"
    /\ at(pos + 3).op = "close_"

FunctionLiteral ==
    /\ Translating /\ ifFunctionLiteral(r2p.finger)
    /\ LET t == current IN
       r2p' = [add(t, << Item("literal", t.finger, << >>, FALSE) >>) EXCEPT
                  !.stack = Append(@, <<0, t.finger, 2>>), !.finger = @ + 4]

Unsupported == {"beginloop_", "endloop_", "ldddvar_", "close_"}
Compilable(pos) == ~isJmp(at(pos)) /\ ~isExit(at(pos)) /\ ~ifFunctionLiteral(pos)

\* A call that was never reached, and a call of stop, end the block.
Ends ==
    /\ Translating /\ Compilable(r2p.finger)
    /\ LET t == current
           pos == t.finger
       IN  \/ /\ at(pos).op = "record_call_" /\ ~t.inPromise
              /\ r2p' = [add(t, << Item("deopt", pos, t.stack, FALSE) >>) EXCEPT !.stack = << >>, !.finger = end]
           \/ /\ at(pos).op = "call_builtin_"
              /\ r2p' = [add(t, << Item("stop", pos, << >>, FALSE) >>) EXCEPT !.stack = << >>, !.finger = end]

\* What the tests said that record_test_ saw about the value.
observe(t, fb) ==
    LET v == stackAt(t.stack, 0) IN
    IF fb = "unknown" \/ ~isInstruction(v) THEN t
    ELSE [t EXCEPT !.feedback = (v :> IF v \in DOMAIN @ /\ @[v] # fb THEN "unknown" ELSE fb) @@ @]

CompileBC ==
    /\ Translating /\ Compilable(r2p.finger) /\ at(r2p.finger).op \notin Unsupported
    /\ LET t == current
           pos == t.finger
           i == at(pos)
           plain == add(t, beforeBC(i, pos, t.stack) \o << Item("bc", pos, << >>, FALSE) >>)
       IN  \E fb \in (IF i.op = "record_test_" THEN {"true", "false", "unknown"} ELSE {"unknown"}),
              done \in (IF i.op \in Calls THEN callTranslations(t, i) ELSE {plain}) :
               LET after == afterBC(i, pos, t.stack, Len(done.blocks[t.bb].items), t.bb) IN
               r2p' = IF Len(after) = Len(t.stack) - popCount(i) + pushCount(i)
                      THEN [add(observe(done, fb), afterBarrier(i, pos, after)) EXCEPT
                               !.stack = after, !.finger = pos + 1]
                      ELSE Stopped("failed")

UnsupportedBC ==
    /\ Translating /\ ~ifFunctionLiteral(r2p.finger) /\ at(r2p.finger).op \in Unsupported
    /\ r2p' = Stopped("unsupported")

Translate == popWorklist \/ Merge \/ UncondJmp \/ CondJmp \/ Exit \/ FunctionLiteral \/ Ends \/
             CompileBC \/ UnsupportedBC

-----------------------------------------------------------------------------
(* Rir2Pir::finalize.                                                        *)

\* The value that can stand for phi v: its only input but itself.
onlyInput(v, inputs) == Range(inputs) \ {v}
Excessive == {v \in UNION {{<<b, 0, k>> : k \in DOMAIN r2p.blocks[b].phis} : b \in DOMAIN r2p.blocks} :
                 LET inputs == r2p.blocks[v[1]].phis[v[3]] IN
                 inputs # << >> /\ Cardinality(onlyInput(v, inputs)) = 1}

\* Phi::replaceUsesWith, and the phi is removed.
replacePhi(v, w) ==
    LET Use(s) == [k \in DOMAIN s |-> IF s[k] = v THEN w ELSE s[k]] IN
    [b \in DOMAIN r2p.blocks |->
        [r2p.blocks[b] EXCEPT
            !.items = [n \in DOMAIN @ |-> [@[n] EXCEPT !.stack = Use(@)]],
            !.phis = [k \in DOMAIN @ |-> IF <<b, 0, k>> = v THEN << >> ELSE Use(@[k])]]]

RemovePhi ==
    /\ r2p.stage = "finalize" /\ Excessive # {}
    /\ LET v == CHOOSE v \in Excessive : TRUE
           w == CHOOSE w \in onlyInput(v, r2p.blocks[v[1]].phis[v[3]]) : TRUE
       IN  r2p' = [r2p EXCEPT !.blocks = replacePhi(v, w)]

finalize ==
    /\ r2p.stage = "finalize" /\ Excessive = {}
    /\ r2p' = Stopped("execute")

-----------------------------------------------------------------------------
(* The PIR runs, and evalRirCode (interpreter/interp.cpp) beside it.  A value *)
(* at run time is the PIR value it was made for, whether it is the latest one *)
(* made there and, for the promise of an argument, that it was forced early.  *)

Made(v) == <<v, TRUE>>
forced(x) == <<x[1], x[2], "forced">>
Valuation(v) == IF ~isInstruction(v) THEN Made(v) ELSE IF v \in DOMAIN values THEN values[v] ELSE << >>
Rebuilt(s) == [k \in DOMAIN s |-> Valuation(s[k])]
aged(x, made) == IF x[1] \in made THEN [x EXCEPT ![2] = FALSE] ELSE x

\* The handlers on the operand stack: the cells one replaces, and the new values.
replaces(i) == IF i.op = "colon_input_effects_" THEN 0
               ELSE IF i.op = "colon_cast_rhs_" THEN 1 ELSE handler(i, 0).needs
shiftDown(s, k) == [j \in DOMAIN s |-> IF j < Len(s) - k THEN s[j] ELSE IF j < Len(s) THEN s[j + 1] ELSE s[Len(s) - k]]
shiftUp(s, k) == [j \in DOMAIN s |-> IF j < Len(s) - k THEN s[j] ELSE IF j = Len(s) - k THEN s[Len(s)] ELSE s[j - 1]]
Kept == NoEffect \cup Records \cup {"ensure_named_", "set_shared_"}

executed(i, s, new) ==
    IF i.op \in Kept THEN s
    ELSE IF i.op = "swap_" THEN shiftUp(s, 1)
    ELSE IF i.op = "dup_" THEN Append(s, Last(s))
    ELSE IF i.op = "dup2_" THEN s \o SubSeq(s, Len(s) - 1, Len(s))
    ELSE IF i.op \in {"pop_", "popn_"} THEN Drop(s, handler(i, 0).needs)
    ELSE IF i.op = "pull_" THEN Append(s, s[Len(s) - i.imm])
    ELSE IF i.op = "pick_" THEN shiftDown(s, i.imm)
    ELSE IF i.op = "put_" THEN shiftUp(s, i.imm)
    ELSE Drop(s, replaces(i)) \o SubSeq(new, 1, replaces(i) + handler(i, 0).delta)

block == r2p.blocks[place[1]]
InBlock == r2p.stage = "execute" /\ place[2] \in DOMAIN block.items
item == block.items[place[2]]

\* Control passes to block b, whose phis take their values all at once.
enter(b) ==
    /\ place' = <<b, 1>>
    /\ LET phis == r2p.blocks[b].phis
           Live == {k \in DOMAIN phis : place[1] \in DOMAIN phis[k]}
       IN  values' = [v \in {<<b, 0, k>> : k \in Live} |-> Valuation(phis[v[3]][place[1]])] @@ values

\* Jumps and checkpoints.
Passes ==
    /\ InBlock /\ item.kind \in {"checkpoint", "framestate", "jump", "assume"}
    /\ pc' = IF item.kind \in {"checkpoint", "framestate"} THEN pc
             ELSE IF item.taken THEN code[pc].imm ELSE pc + 1
    /\ ostack' = IF item.kind = "assume" THEN Drop(ostack, 1) ELSE ostack
    /\ place' = <<place[1], place[2] + 1>>
    /\ UNCHANGED <<r2p, values>>

Branches ==
    /\ InBlock /\ item.kind = "branch"
    /\ \E k \in 1 .. 2 : /\ enter(block.next[k])
                         /\ pc' = IF k = 1 THEN code[pc].imm ELSE pc + 1
    /\ ostack' = Drop(ostack, 1)
    /\ UNCHANGED r2p

FallsThrough ==
    /\ r2p.stage = "execute" /\ ~InBlock
    /\ enter(block.next[1])
    /\ UNCHANGED <<r2p, pc, ostack>>

\* The promise of an argument is evaluated, for the interpreter as well.
ForcesEarly ==
    /\ InBlock /\ item.kind = "eager"
    /\ LET x == Valuation(item.stack[1]) IN
       /\ ostack' = [k \in DOMAIN ostack |-> IF ostack[k] = x THEN forced(x) ELSE ostack[k]]
       /\ values' = (<<place[1], place[2], 1>> :> forced(x)) @@ values
    /\ place' = <<place[1], place[2] + 1>>
    /\ UNCHANGED <<r2p, pc>>

\* A push_ and a function literal make the same value each time.
Executes ==
    /\ InBlock /\ item.kind \in {"bc", "call", "literal"}
    /\ LET i == code[pc]
           fixed == IF item.kind = "literal" THEN << Made(<<0, pc, 2>>) >> ELSE << Made(<<0, pc, 0>>) >>
           made == {<<place[1], place[2], k>> : k \in 1 .. pushes(i)}
           s == [k \in DOMAIN ostack |-> aged(ostack[k], made)]
       IN  IF item.kind = "literal" \/ i.op = "push_"
           THEN ostack' = ostack \o fixed /\ UNCHANGED values
           ELSE /\ ostack' = executed(i, s, [k \in 1 .. 2 |-> Made(<<place[1], place[2], k>>)])
                /\ values' = [v \in made |-> Made(v)] @@ [v \in DOMAIN values |-> aged(values[v], made)]
    /\ pc' = pc + (IF item.kind = "literal" THEN 4 ELSE 1)
    /\ place' = <<place[1], place[2] + 1>>
    /\ UNCHANGED r2p

Leaves ==
    /\ InBlock /\ item.kind \in {"exit", "deopt", "stop"}
    /\ r2p' = Stopped("left")
    /\ UNCHANGED <<place, pc, ostack, values>>

Execute == Passes \/ Branches \/ FallsThrough \/ ForcesEarly \/ Executes \/ Leaves

-----------------------------------------------------------------------------
\* The interpreter can take over at every checkpoint, at every failing assumption
\* and after every call and force: the position and the stack that the frame state
\* names are those the interpreter would have by itself, on every path through
\* branches, merges and loops, whatever value a phi has there, and no promise that
\* was evaluated early is evaluated again.  A call that is compiled for one callee
\* has such a checkpoint for its guard.  What the PIR returns is what the
\* interpreter returns.
FrameStatesAreExact ==
    InBlock =>
        /\ item.kind \in {"checkpoint", "assume", "deopt"} =>
               pc = item.pos /\ Rebuilt(item.stack) = ostack
        /\ item.kind = "framestate" =>
               pc + 1 = item.pos /\ Rebuilt(item.stack) = Drop(ostack, replaces(code[pc]))
        /\ item.kind = "call" => item.taken
        /\ item.kind = "exit" => pc = item.pos /\ Rebuilt(item.stack) = << Last(ostack) >>

\* Control never reaches a phi from a block it has no input for.
phisCoverPredecessors ==
    r2p.stage = "execute" /\ ~InBlock =>
        \A phi \in ToSet(r2p.blocks[block.next[1]].phis) : phi # << >> => place[1] \in DOMAIN phi

\* No bytecode is translated twice, except the straight line in which a
\* continuation began, which is met again when a loop comes back to it.
translatedOnce ==
    Translating =>
        LET Copies == {<<b, n>> \in UNION {{b} \X DOMAIN r2p.blocks[b].items : b \in DOMAIN r2p.blocks} :
                          /\ r2p.blocks[b].items[n].pos = r2p.finger
                          /\ r2p.blocks[b].items[n].kind \notin {"checkpoint", "framestate", "eager"}}
        IN  Cardinality(Copies) <= IF r2p.start = 1 THEN 0 ELSE 1

\* The asserts of tryTranslate and mergeIn hold on code that was verified, also
\* when a continuation begins in the middle of it: states that meet have equally
\* high stacks, a ret_ leaves none, and a bytecode moves the stack as insns.h says.
\* The translation comes to an end, and its phis have all their inputs.
VerifiedCodeTranslates == r2p.stage # "failed" /\ phisCoverPredecessors /\ translatedOnce

=============================================================================
