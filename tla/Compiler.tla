------------------------------ MODULE Compiler ------------------------------
(***************************************************************************)
(* bc/Compiler.cpp: the bytecode compiler.                                  *)
(*                                                                          *)
(* An expression of R is a node [t, name, args] (see Node).  The compiler   *)
(* has a list of things to do: instructions to write and directives, such   *)
(* as to compile a subexpression, to place a label or to begin a loop.  A   *)
(* C++ function that compiles a construct is an operator that gives the     *)
(* list of what it writes and calls, in that order.                         *)
(***************************************************************************)
EXTENDS Bytecode, SequencesExt, TLC

CONSTANTS profile,              \* Compiler::profile
          unsoundOpts,          \* Compiler::unsoundOpts
          loopPeelingEnabled,   \* Compiler::loopPeelingEnabled
          MAX_CACHE_SIZE,       \* slots of a binding cache
          BaseBuiltins,         \* functions that are BUILTINSXP in R_BaseEnv
          InternalBuiltins,     \* functions .Internal calls eagerly
          Programs              \* functions to compile: [formals, body]

VARIABLES program,      \* the function that is compiled
          ctx,          \* the CompilerContext
          todo          \* what is left to do

compiler == <<program, ctx, todo>>

\* Nodes of the syntax tree.  A call whose function is no symbol has the name
\* "()" and its function as first argument; a tag is a node around an argument.
Node(t, name, args) == [t |-> t, name |-> name, args |-> args]
Const == Node("const", "", << >>)
Str == Node("str", "", << >>)
Prom == Node("prom", "", << >>)
Sym(x) == Node("sym", x, << >>)
Missing == Node("missing", "", << >>)
Dots == Sym("...")
Lang(f, args) == Node("lang", f, args)
Apply(f, args) == Lang("()", << f >> \o args)
Tagged(x, a) == Node("tagged", x, << a >>)

hasTag(a) == a.t = "tagged"
value(a) == IF hasTag(a) THEN a.args[1] ELSE a
isCall(e, names) == e.t = "lang" /\ e.name \in names
isRegularArg(a) == a # Dots /\ ~hasTag(a)
isConstant(e) == e.t \notin {"lang", "sym", "missing", "prom"}

\* Instructions and directives.
On(o, e) == [op |-> o, imm |-> 0, e |-> e]
OpN(o, n) == [op |-> o, imm |-> n, e |-> Const]
Op(o) == OpN(o, 0)
Ops(s) == [k \in DOMAIN s |-> Op(s[k])]
Expr(e) == On("compileExpr", value(e))
In(void, e) == On(IF void THEN "compileVoid" ELSE "compileExpr", value(e))
If(b, s) == IF b THEN s ELSE << >>
Directives == {"compileExpr", "compileVoid", "compilePromise", "compilePromiseNoRir",
               "popContext", "label", "addSrc", "pushLoop", "pushFakeLoop", "popLoop",
               "beginLoop", "endLoop", "setContextNeeded", "ldvarForUpdate", "stvar"}

-----------------------------------------------------------------------------
(* CodeStream and FunctionWriter.  The stream holds instructions, whose      *)
(* jumps name labels, and marks where labels are.                            *)

BindingCacheDisabled == -1

CodeContext(promise) ==
    [cs |-> << >>, sources |-> {}, promises |-> << >>, nextLabel |-> 0, loops |-> << >>,
     slots |-> << >>, nCached |-> 0, promise |-> promise, escapes |-> FALSE]

Written(i) == [op |-> i.op, imm |-> i.imm]
write(c, i) == [c EXCEPT !.cs = Append(@, Written(i))]
remove(c, k) == [c EXCEPT !.cs[k] = Written(Op("nop_")), !.sources = @ \ {k}]
isMark(i) == i.op = "label"

\* A jump to the label that would follow it is removed.
label(c, l) ==
    LET last == SelectLastInSeq(c.cs, LAMBDA i : ~isMark(i))
        needless == last # 0 /\ c.cs[last] = Written(OpN("br_", l))
    IN  write(IF needless THEN remove(c, last) ELSE c, OpN("label", l))

\* writeCode skips nops and replaces labels by positions.
writeCode(c) ==
    LET cs == c.cs
        Kept(i) == ~isMark(i) /\ i.op # "nop_"
        kept == SelectSeq(cs, Kept)
        Pos(k) == Len(SelectSeq(SubSeq(cs, 1, k - 1), Kept)) + 1
        Offset(l) == Pos(CHOOSE k \in DOMAIN cs : cs[k] = Written(OpN("label", l)))
    IN  [instrs |-> [p \in DOMAIN kept |-> IF isJmp(kept[p]) THEN [kept[p] EXCEPT !.imm = Offset(@)]
                                           ELSE kept[p]],
         sources |-> {Pos(k) : k \in c.sources},
         promises |-> c.promises,
         bindingCacheSize |-> Cardinality(DOMAIN c.slots),
         escapes |-> c.escapes]

-----------------------------------------------------------------------------
(* CompilerContext: the code contexts under construction, of which cur is    *)
(* the top, and the code objects that are finished.                          *)

Contexts == {ctx.cur} \cup ToSet(ctx.outer)
isInPromise == \E c \in Contexts : c.promise
inLoop == \E c \in Contexts : c.loops # << >>
loopIsLocal == ctx.cur.loops # << >>
loop == Last(ctx.cur.loops)

pushPromiseContext == [ctx EXCEPT !.cur = CodeContext(TRUE), !.outer = Append(@, ctx.cur)]
\* The code is finished and becomes a promise of the one around it.
popContext == [cur |-> [Last(ctx.outer) EXCEPT !.promises = Append(@, Len(ctx.done) + 1)],
               outer |-> Front(ctx.outer),
               done |-> Append(ctx.done, writeCode(ctx.cur))]

pushLoop(next) ==
    [ctx EXCEPT !.cur.loops = Append(@, [next |-> next, break |-> next + 1, begin |-> 0,
                                         context_needed |-> FALSE])]
Needed(loops) == [loops EXCEPT ![Len(loops)].context_needed = TRUE]

mutantSetContextNeeded == [ctx EXCEPT !.cur.escapes = TRUE]

\* PromiseContext::loopIsLocal marks the loop of the nearest code context
\* around the promise that has one.  Code that escapes has a break or next of a
\* loop it is not in, which is compiled as an ordinary call.
setContextNeeded ==
    LET k == SelectLastInSeq(ctx.outer, LAMBDA c : c.loops # << >>)
    IN  [ctx EXCEPT !.outer[k].loops = Needed(@), !.cur.escapes = TRUE]

beginLoop ==
    [ctx EXCEPT !.cur = write([@ EXCEPT !.loops[Len(ctx.cur.loops)].begin = Len(ctx.cur.cs) + 1],
                              OpN("beginloop_", loop.break))]

\* Without need for a context the beginloop_ is removed.
endLoop ==
    LET c == label(write(ctx.cur, OpN("br_", loop.next)), loop.break)
    IN  [ctx EXCEPT !.cur = IF loop.context_needed THEN write(c, Op("endloop_"))
                            ELSE remove(c, loop.begin)]

isCached(x) == x \in DOMAIN ctx.cur.slots /\ ctx.cur.slots[x] # BindingCacheDisabled

\* An instruction on a variable, through its slot of the binding cache if any.
access(x, plain, cached) ==
    IF isCached(x) THEN OpN(cached, ctx.cur.slots[x]) ELSE Op(plain)

-----------------------------------------------------------------------------
(* What is written in many places.                                           *)

recordType == If(profile, << Op("record_type_") >>)
recordCall == If(profile, << Op("record_call_") >>)
popIf(void) == If(void, << Op("pop_") >>)
popOrRecord(void) == IF void THEN << Op("pop_") >> ELSE recordType
mutantNilUnless(void) == Ops(<< "push_", "invisible_" >>)
nilUnless(void) == If(~void, Ops(<< "push_", "invisible_" >>))
guard == If(~unsoundOpts, << Op("guard_fun_") >>)
stvar(x, super) == << IF super THEN Op("stvar_super_") ELSE On("stvar", Sym(x)) >>

emitError == << Op("push_"), Op("push_"), OpN("call_builtin_", 2), Op("return_") >>
emitWarning == << Op("push_"), Op("push_"), Op("push_"), Op("push_"), OpN("call_builtin_", 4),
                  Op("pop_") >>

compileConst == Ops(<< "push_", "visible_" >>)
compileGetvar(e) ==
    IF e = Missing THEN << Op("push_") >>
    ELSE IF e.name = "..1" THEN << Op("ldddvar_") >>
    ELSE << access(e.name, "ldvar_", "ldvar_cached_") >> \o recordType

-----------------------------------------------------------------------------
(* Questions about the tree.                                                 *)

RECURSIVE containsLoop(_)
containsLoop(e) ==
    /\ e.t = "lang" /\ e.name # "()"
    /\ \/ e.name \in {"Repeat", "While", "For"}
       \/ \E a \in ToSet(e.args) : containsLoop(value(a))

RECURSIVE maybeChanges(_, _)
maybeChanges(x, e) ==
    /\ e.t = "lang" /\ e.args # << >>
    /\ LET args == IF e.name = "()" THEN Tail(e.args) ELSE e.args IN
       \/ args # << >> /\ value(args[1]) = Sym(x)
       \/ \E a \in ToSet(args) : maybeChanges(x, value(a))

\* The cache slots of all variables of a function, in the order they occur.
RECURSIVE scanNames(_, _)
scanNames(cur, e) ==
    LET args == IF e.name = "()" THEN Tail(e.args) ELSE e.args
        cacheSlotFor(c, x) ==
            IF x \in DOMAIN c.slots \/ c.nCached >= MAX_CACHE_SIZE THEN c
            ELSE [c EXCEPT !.slots = @ @@ (x :> c.nCached), !.nCached = @ + 1]
        Scan(c, a) ==
            IF e.name = "rm" THEN [c EXCEPT !.slots = (value(a).name :> BindingCacheDisabled) @@ @]
            ELSE IF value(a).t = "sym" THEN cacheSlotFor(c, value(a).name)
            ELSE scanNames(c, value(a))
    IN  IF e.t = "lang" THEN FoldLeft(Scan, cur, args) ELSE cur

-----------------------------------------------------------------------------
(* Calls, loops and the functions that are compiled to instructions of       *)
(* their own.                                                                *)

BinaryOps ==
    [Add |-> "add_", Sub |-> "sub_", Mul |-> "mul_", Div |-> "div_", Idiv |-> "idiv_",
     Mod |-> "mod_", Pow |-> "pow_", Eq |-> "eq_", Ne |-> "ne_", Lt |-> "lt_", Le |-> "le_",
     Gt |-> "gt_", Ge |-> "ge_", Colon |-> "colon_"]
UnaryOps == [Add |-> "uplus_", Sub |-> "uminus_", Not |-> "not_"]
Extract == [Bracket |-> << "extract1_1_", "extract1_2_", "extract1_3_" >>,
            DoubleBracket |-> << "extract2_1_", "extract2_2_" >>]
Subassign == [Bracket |-> << "subassign1_1_", "subassign1_2_", "subassign1_3_" >>,
              DoubleBracket |-> << "subassign2_1_", "subassign2_2_" >>]
Assigns == {"Assign", "Assign2", "SuperAssign"}
TypeTests == {"isnull", "islist", "ispairlist"}
Brackets == {"Bracket", "DoubleBracket"}

\* The indices of x[i, j] that have an instruction.
Indexed(fun, idx) ==
    /\ Len(idx) \in DOMAIN Extract[fun]
    /\ \A k \in DOMAIN idx : isRegularArg(idx[k])

\* The variable a left-hand side is about: none when it is built on anything else.
RECURSIVE Target(_)
Target(l) ==
    IF l.t \in {"sym", "str"} THEN << l >>
    ELSE IF l.t = "lang" /\ l.name # "()" /\ l.args # << >> THEN Target(value(l.args[1]))
    ELSE << >>

\* An assignment that compileSpecialCall rewrites.
Assignable(lhs) ==
    /\ Target(lhs) # << >>
    /\ \/ lhs.t = "sym"
       \/ /\ lhs.t = "lang"
          /\ value(lhs.args[1]).t \in {"sym", "str"}
          /\ lhs.name \in Brackets => Indexed(lhs.name, Tail(lhs.args))
          /\ lhs.name \notin {"slot", "class", "Dollar", "At"}

\* A switch whose errors are known before it runs.
mismatched(args) == args = << >> \/ (hasTag(args[1]) /\ args[1].name # "EXPR")

\* Whether compileSpecialCall returns true for a call of function fun.
isSpecial(fun, args) ==
    LET n == Len(args) IN
    \/ fun = "Function" /\ n = 3
    \/ fun \in DOMAIN BinaryOps \cup {"And", "Or"} /\ n = 2
    \/ fun \in DOMAIN UnaryOps \cup TypeTests \cup {"quote"} /\ n = 1
    \/ fun \in Assigns /\ Assignable(value(args[1]))
    \/ fun = "If" /\ n \in 2 .. 3
    \/ fun = "Parenthesis" /\ n = 1 /\ value(args[1]) # Dots
    \/ fun = "Return" /\ n < 2
    \/ fun \in Brackets /\ n > 0 /\ Indexed(fun, Tail(args))
    \/ fun = "Missing" /\ n = 1 /\ value(args[1]).t \in {"sym", "missing"} /\ value(args[1]).name # "..1"
    \/ fun \in {"Block", "While", "Repeat", "For"}
    \/ fun \in {"Next", "Break"} /\ loopIsLocal
    \/ fun = "Switch" /\ (mismatched(args) \/ \A k \in 2 .. n : value(args[k]) # Dots)
    \/ /\ fun = "Internal"
       /\ LET in == value(args[1]) IN
          isCall(in, InternalBuiltins) \/ (isCall(in, {"lapply"}) /\ Len(in.args) = 2)

\* What compileSpecialCall writes before it returns false.  The immediate of
\* clear_binding_cache_ is where the slots it clears end.
unless(fun) ==
    LET Used == Range(ctx.cur.slots) \ {BindingCacheDisabled} IN
    If(fun \in {"rm", "remove"} /\ Cardinality(Used) > 1,
       << OpN("clear_binding_cache_", Min(Used) + (Max(Used) - Min(Used))) >>) \o
    If(fun \in {"Next", "Break"} /\ inLoop /\ ctx.cur.promise, << Op("setContextNeeded") >>)

\* A loop around what checks its condition and leaves it, and its body.
compileLoop(l, peeled, head, body) ==
    << Op("beginLoop") >> \o
    If(loopPeelingEnabled /\ ~containsLoop(body), peeled \o << In(TRUE, body) >>) \o
    << OpN("label", l) >> \o head \o << In(TRUE, body), Op("endLoop") >>

compileWhile(l, cond, step, body) ==
    << OpN("pushLoop", l) >> \o
    compileLoop(l, cond \o << Op("record_test_"), OpN("brfalse_", l + 1) >> \o step,
                   cond \o << OpN("brfalse_", l + 1) >> \o step, body) \o
    << Op("popLoop") >>

compileRepeat(l, body, void) ==
    << OpN("pushLoop", l) >> \o compileLoop(l, << >>, << >>, body) \o nilUnless(void) \o
    << Op("popLoop") >>

\* The loop is pushed before its sequence is compiled.
compileFor(l, x, seq, body, void) ==
    LET compare == Ops(<< "inc_", "ensure_named_", "dup2_", "lt_", "addSrc" >>)
        index == << OpN("brtrue_", l + 1), OpN("pull_", 2), OpN("pull_", 1), Op("extract2_1_"),
                    Op("addSrc") >> \o stvar(x, FALSE)
    IN  << OpN("pushLoop", l), Expr(seq), Op("for_seq_size_"), Op("push_") >> \o
        compileLoop(l, compare \o << Op("record_test_") >> \o index, compare \o index, body) \o
        << OpN("popn_", 3) >> \o nilUnless(void) \o << Op("popLoop") >>

\* The `for` of GNU R, called with the sequence and the body as promises, when
\* the bounds turn out to have effects.
compileRegularFor(seq, body, void) ==
    << Op("colon_"), Op("addSrc"), On("compilePromise", seq),
       Op("pushFakeLoop"), On("compilePromise", body), Op("popLoop"), Op("ldfun_"), Op("swap_"),
       OpN("mk_eager_promise_", 1), Op("mk_promise_"), OpN("call_", 2) >> \o popOrRecord(void)

\* for (x in start:end), counted on the operand stack.
compileSimpleFor(l, x, seq, body, void) ==
    LET staticFastcase == \A k \in 1 .. 2 : value(seq.args[k]) = Const
    IN  << Expr(seq.args[1]), Op("force_"), Expr(seq.args[2]), Op("force_"),
           Op("colon_input_effects_"), Op("addSrc") >> \o
        (IF staticFastcase THEN << Op("pop_") >>
         ELSE << Op("record_test_"), OpN("brtrue_", l) >> \o compileRegularFor(seq, body, void) \o
              << OpN("br_", l + 3), OpN("label", l) >>) \o
        Ops(<< "swap_", "colon_cast_lhs_", "record_type_", "ensure_named_", "swap_",
               "colon_cast_rhs_", "ensure_named_", "record_type_", "dup2_", "le_", "addSrc",
               "record_test_" >>) \o
        << OpN("brfalse_", l + 1), Op("push_"), OpN("br_", l + 2), OpN("label", l + 1), Op("push_"),
           OpN("label", l + 2), Op("swap_"), OpN("pick_", 2) >> \o
        compileWhile(l + 4, Ops(<< "dup2_", "ne_", "addSrc" >>),
                     << Op("dup_") >> \o stvar(x, FALSE) \o
                     << OpN("pull_", 2), Op("ensure_named_"), Op("add_"), Op("addSrc") >>, body) \o
        << OpN("popn_", 3) >> \o nilUnless(void) \o << OpN("label", l + 3) >>

\* How an argument is loaded.  A promise is compiled, then created.
compileLoadOneArg(arg, type) ==
    LET e == value(arg) IN
    IF e = Missing THEN << Op("push_") >>
    ELSE IF e = Dots THEN << OpN("push_", 1) >>
    ELSE IF type = "RAW_VALUE" THEN << Expr(e) >>
    ELSE IF type = "EAGER_PROMISE_FROM_TOS"
    THEN << Op("compilePromiseNoRir"), Op("mk_eager_promise_") >>
    ELSE IF e.t \notin {"lang", "sym"} THEN << Op("push_") >>
    ELSE << On("compilePromise", e), Op("mk_promise_") >>

compileLoadArgs(args, type) ==
    FlattenSeq([k \in DOMAIN args |-> compileLoadOneArg(args[k], type)])

\* callDots, call with names, or call.
emitCall(args) ==
    << OpN(IF \E a \in ToSet(args) : value(a) = Dots THEN "call_dots_"
           ELSE IF \E a \in ToSet(args) : hasTag(a) THEN "named_call_" ELSE "call_", Len(args)) >>

\* x <- rhs and x <<- rhs.
compileAssign(x, rhs, super, void) ==
    << Expr(rhs) >> \o If(~void, Ops(<< "dup_", "invisible_" >>)) \o stvar(x, super)

\* x[i, ...] <- rhs.  The value of rhs stays below if the assignment has one.
compileSubassign(fun, x, idx, rhs, super, void) ==
    LET forUpdate == On("ldvarForUpdate", Sym(x)) IN
    If(maybeChanges(x, rhs), << forUpdate, Op("set_shared_"), Op("pop_") >>) \o
    << Expr(rhs) >> \o
    If(~void, << Op("dup_") >> \o If(~isConstant(rhs), << Op("set_shared_") >>)) \o
    << IF super THEN Op("ldvar_super_") ELSE forUpdate >> \o recordType \o
    If(\E a \in ToSet(idx) : maybeChanges(x, value(a)), << Op("set_shared_") >>) \o
    [k \in DOMAIN idx |-> Expr(idx[k])] \o
    << Op(Subassign[fun][Len(idx)]), Op("addSrc") >> \o stvar(x, super) \o
    If(~void, << Op("invisible_") >>)

\* f(x, ...) <- rhs calls `f<-`(x, ..., value = rhs) with the value of rhs, which
\* is moved (pick_) or copied (pull_) from below the function.
compileReplacement(args, x, rhs, super, void) ==
    LET z == Tagged("value", rhs) IN
    << Expr(rhs), Op("ldfun_") >> \o recordCall \o
    compileLoadOneArg(args[1], "RAW_VALUE") \o compileLoadArgs(Tail(args), "PROMISE") \o
    << OpN(IF void THEN "pick_" ELSE "pull_", Len(args) + 1) >> \o
    compileLoadOneArg(z, "EAGER_PROMISE_FROM_TOS") \o emitCall(Append(args, z)) \o
    stvar(x, super) \o If(~void, << Op("invisible_") >> \o recordType)

compileBlock(args, void) ==
    IF args = << >> THEN If(~void, << Op("push_") >>)
    ELSE [k \in DOMAIN args |-> In(void \/ k < Len(args), args[k])]

compileIf(l, args, void) ==
    << Expr(args[1]), Op("asbool_"), OpN("brtrue_", l) >> \o
    (IF Len(args) < 3 THEN nilUnless(void) ELSE << In(void, args[3]) >>) \o
    << OpN("br_", l + 1), OpN("label", l), In(void, args[2]), OpN("label", l + 1) >>

compileAndOr(l, args, branch, op, void) ==
    << Expr(args[1]), Op("aslogical_"), Op("addSrc"), Op("dup_"), OpN(branch, l),
       Expr(args[2]), Op("aslogical_"), Op("addSrc"), Op(op), OpN("label", l) >> \o popIf(void)

\* x[i, ...]: an object gets its indices as promises, for the dispatch.
compileExtract(l, fun, args, void) ==
    << Expr(args[1]), Op("dup_"), Op("is_"), Op("record_test_"), OpN("brfalse_", l),
       OpN("br_", l + 1), OpN("label", l) >> \o
    compileLoadArgs(Tail(args), "PROMISE") \o << OpN("br_", l + 2), OpN("label", l + 1) >> \o
    [k \in 1 .. Len(args) - 1 |-> Expr(args[k + 1])] \o
    << OpN("br_", l + 2), OpN("label", l + 2), Op(Extract[fun][Len(args) - 1]), Op("addSrc") >> \o
    (IF void THEN << Op("pop_") >> ELSE recordType \o << Op("visible_") >>)

compileReturn(args) ==
    << IF args = << >> THEN Op("push_") ELSE Expr(args[1]),
       Op(IF inLoop \/ isInPromise THEN "return_" ELSE "ret_") >>

\* switch: by number to each alternative, by name to the alternative itself or,
\* when it is empty, to the next one that is not.
compileSwitch(l, args, void) ==
    LET alts == Tail(args)
        nil == l + 6
        cont == l + 7
        Label(k) == l + 7 + k
        Given(k) == value(alts[k]) # Missing
        Chosen(k) == {j \in k .. Len(alts) : Given(j)}
        Untagged == {k \in DOMAIN alts : ~hasTag(alts[k])}
        IsA(branch, target) == Ops(<< "dup_", "is_", "record_test_" >>) \o << OpN(branch, target) >>
        Equals(target) == Ops(<< "dup_", "push_", "eq_", "addSrc", "asbool_", "record_test_" >>) \o
                          << OpN("brtrue_", target) >>
        byNumber == FlattenSeq([k \in DOMAIN alts |-> Equals(Label(k))])
        byName == FlattenSeq([k \in DOMAIN alts |-> If(hasTag(alts[k]) /\ Chosen(k) # {},
                                                       Equals(Label(Min(Chosen(k)))))])
        alternatives ==
            FlattenSeq([k \in DOMAIN alts |-> << OpN("label", Label(k)) >> \o
                           IF Given(k) THEN << Op("pop_"), Expr(alts[k]), OpN("br_", cont) >>
                           ELSE emitError])
    IN  IF mismatched(args) THEN emitError
        ELSE << Expr(args[1]) >> \o IsA("brtrue_", l) \o << OpN("br_", l + 1), OpN("label", l) >> \o
             Ops(<< "dup_", "length_", "push_", "eq_", "addSrc", "record_test_" >>) \o
             << OpN("brtrue_", l + 2), OpN("label", l + 1) >> \o emitError \o
             << OpN("label", l + 2) >> \o IsA("brfalse_", l + 3) \o emitWarning \o
             << OpN("label", l + 3) >> \o If(alts = << >>, emitWarning \o << OpN("br_", nil) >>) \o
             IsA("brtrue_", l + 4) \o << Op("as_switch_idx_") >> \o byNumber \o
             << OpN("br_", nil), OpN("label", l + 4) >> \o
             (IF Cardinality(Untagged) > 1 THEN emitError
              ELSE << Op("dup_"), OpN("call_builtin_", 1), Op("asbool_"), Op("record_test_"),
                      OpN("brfalse_", l + 5), Op("pop_"), Op("push_"), OpN("label", l + 5) >> \o byName \o
                   << OpN("br_", IF Untagged = {} THEN nil ELSE Label(Min(Untagged))) >>) \o
             alternatives \o
             << OpN("label", nil), Op("pop_"), Op("push_"), OpN("label", cont) >> \o popIf(void)

\* .Internal(f(...)) for a builtin f.
compileInternalBuiltin(args, void) ==
    LET hasDots == \E a \in ToSet(args) : value(a) = Dots IN
    If(hasDots, << Op("push_") >>) \o compileLoadArgs(args, "RAW_VALUE") \o
    << OpN(IF hasDots THEN "call_dots_" ELSE "call_builtin_", Len(args)) >> \o popIf(void)

\* .Internal(lapply(X, FUN)), a loop over [ans, length(X), i].
compileLapply(l, X, FUN, void) ==
    LET element == Lang("DoubleBracket", << X, Sym("i") >>)
        call == IF FUN.t = "sym" THEN Lang(FUN.name, << element, Dots >>) ELSE Apply(FUN, << element, Dots >>)
    IN  << Expr(X) >> \o
        Ops(<< "dup_", "names_", "swap_", "length_", "dup_", "push_", "swap_" >>) \o
        << OpN("call_builtin_", 2), OpN("pick_", 2), Op("set_names_"), Op("swap_"), Op("push_"),
           OpN("label", l), Op("inc_"), Op("dup2_"), Op("lt_"), Op("addSrc"), OpN("brtrue_", l + 1),
           Op("dup_"), Op("stvar_"), Expr(call), OpN("pull_", 1), OpN("pick_", 4), Op("swap_"),
           Op("set_vec_elt_"), OpN("put_", 2), OpN("br_", l), OpN("label", l + 1), Op("pop_"),
           Op("pop_"), Op("visible_") >> \o popIf(void)

compileSpecialAssign(lhs, rhs, super, void) ==
    LET x == Target(lhs)[1].name IN
    IF lhs.t = "sym" THEN guard \o compileAssign(x, rhs, super, void)
    ELSE IF lhs.name \in Brackets
    THEN guard \o compileSubassign(lhs.name, x, Tail(lhs.args), rhs, super, void)
    ELSE compileReplacement(lhs.args, x, rhs, super, void)

compileSpecialCall(l, fun, args, void) ==
    LET arg(k) == value(args[k])
        UnlessVoid(s) == If(~void, s)
    IN  IF fun = "Function" THEN UnlessVoid(Ops(<< "push_", "push_", "push_", "close_" >>))
        ELSE IF fun = "Switch" THEN compileSwitch(l, args, void)
        ELSE IF fun \in Assigns THEN compileSpecialAssign(arg(1), arg(2), fun = "SuperAssign", void)
        ELSE IF fun = "Internal" /\ arg(1).name \notin InternalBuiltins
        THEN compileLapply(l, value(arg(1).args[1]), value(arg(1).args[2]), void)
        ELSE guard \o
             IF fun \in DOMAIN BinaryOps /\ Len(args) = 2
             THEN << Expr(args[1]), Expr(args[2]), Op(BinaryOps[fun]), Op("addSrc") >> \o popOrRecord(void)
             ELSE IF fun = "And" THEN compileAndOr(l, args, "brfalse_", "lgl_and_", void)
             ELSE IF fun = "Or" THEN compileAndOr(l, args, "brtrue_", "lgl_or_", void)
             ELSE IF fun \in DOMAIN UnaryOps
             THEN << Expr(args[1]), Op(UnaryOps[fun]), Op("addSrc") >> \o popIf(void)
             ELSE IF fun = "quote" THEN UnlessVoid(<< Op("push_") >>)
             ELSE IF fun = "Block" THEN compileBlock(args, void)
             ELSE IF fun = "If" THEN compileIf(l, args, void)
             ELSE IF fun = "Parenthesis" THEN << Expr(args[1]), Op(IF void THEN "pop_" ELSE "visible_") >>
             ELSE IF fun = "Return" THEN compileReturn(args)
             ELSE IF fun \in TypeTests THEN << Expr(args[1]), Op(IF void THEN "pop_" ELSE "is_") >>
             ELSE IF fun \in Brackets THEN compileExtract(l, fun, args, void)
             ELSE IF fun = "Missing" THEN UnlessVoid(Ops(<< "missing_", "visible_" >>))
             ELSE IF fun = "While"
             THEN compileWhile(l, << Expr(args[1]), Op("asbool_") >>, << >>, arg(2)) \o nilUnless(void)
             ELSE IF fun = "Repeat" THEN compileRepeat(l, arg(1), void)
             ELSE IF fun = "For"
             THEN IF isCall(arg(2), {"Colon"}) /\ Len(arg(2).args) = 2
                  THEN compileSimpleFor(l, arg(1).name, arg(2), arg(3), void)
                  ELSE compileFor(l, arg(1).name, arg(2), arg(3), void)
             ELSE IF fun = "Next" THEN << OpN("br_", loop.next), Op("push_") >>
             ELSE IF fun = "Break" THEN << OpN("br_", loop.break), Op("push_") >>
             ELSE compileInternalBuiltin(arg(1).args, void)

compileCall(l, fun, args, void) ==
    LET special == fun.t = "sym"
        speculateOnBuiltin == /\ special /\ fun.name \in BaseBuiltins /\ ~isInPromise
                              /\ \A a \in ToSet(args) : value(a) # Dots
        Load(type) == compileLoadArgs(args, type) \o emitCall(args)
    IN  IF special /\ isSpecial(fun.name, args) THEN compileSpecialCall(l, fun.name, args, void)
        ELSE If(special, unless(fun.name)) \o
             If(speculateOnBuiltin,
                Ops(<< "push_", "dup_", "ldvar_noforce_", "identical_noforce_", "record_test_" >>) \o
                << OpN("brtrue_", l), Op("pop_") >>) \o
             (IF special THEN << Op("ldfun_") >> ELSE << Expr(fun), Op("check_function_") >>) \o
             recordCall \o
             (IF fun = Sym("forceAndCall")
              THEN compileLoadArgs(SubSeq(args, 1, 2), "RAW_VALUE") \o recordCall \o
                   compileLoadArgs(SubSeq(args, 3, Len(args)), "PROMISE") \o emitCall(args)
              ELSE Load("PROMISE")) \o
             If(speculateOnBuiltin,
                << OpN("br_", l + 1), OpN("label", l) >> \o Load("RAW_VALUE") \o << OpN("label", l + 1) >>) \o
             popOrRecord(void)

compileExpr(l, e, void) ==
    IF e.t = "lang"
    THEN IF e.name = "()" THEN compileCall(l, value(e.args[1]), Tail(e.args), void)
         ELSE compileCall(l, Sym(e.name), e.args, void)
    ELSE IF e.t \in {"sym", "missing"} THEN compileGetvar(e) \o popIf(void)
    ELSE If(~void, compileConst \o If(e.t = "prom", << Op("addSrc") >>))

-----------------------------------------------------------------------------
(* The steps of the compiler.                                                *)

\* What a directive does to the context.
perform(d) ==
    IF d.op = "addSrc" THEN [ctx EXCEPT !.cur.sources = @ \cup {Len(ctx.cur.cs)}]
    ELSE IF d.op = "label" THEN [ctx EXCEPT !.cur = label(@, d.imm)]
    ELSE IF d.op = "pushLoop" THEN pushLoop(d.imm)
    ELSE IF d.op = "pushFakeLoop"
    THEN LET c == pushLoop(-1) IN [c EXCEPT !.cur.loops = Needed(@)]
    ELSE IF d.op = "popLoop" THEN [ctx EXCEPT !.cur.loops = Front(@)]
    ELSE IF d.op = "beginLoop" THEN beginLoop
    ELSE IF d.op = "endLoop" THEN endLoop
    ELSE IF d.op = "setContextNeeded" THEN setContextNeeded
    ELSE popContext

\* What it is written out as.
expand(d) ==
    LET l == ctx.cur.nextLabel IN
    IF d.op \in {"compileExpr", "compileVoid"} THEN compileExpr(l, d.e, d.op = "compileVoid")
    ELSE IF d.op = "stvar" THEN << access(d.e.name, "stvar_", "stvar_cached_") >>
    ELSE << access(d.e.name, "ldvar_for_update_", "ldvar_for_update_cache_") >>

Compilations == {"compileExpr", "compileVoid", "stvar", "ldvarForUpdate"}
Promises == {"compilePromise", "compilePromiseNoRir"}

\* Bound: the labels one construct may use.
Labels(e) == 8 + Len(e.args)

Expand ==
    /\ todo # << >> /\ Head(todo).op \in Compilations
    /\ todo' = expand(Head(todo)) \o Tail(todo)
    /\ ctx' = [ctx EXCEPT !.cur.nextLabel = @ + Labels(Head(todo).e)]
    /\ UNCHANGED program

compilePromise ==
    /\ todo # << >> /\ Head(todo).op \in Promises
    /\ ctx' = pushPromiseContext
    /\ todo' = << IF Head(todo).op = "compilePromise" THEN Expr(Head(todo).e) ELSE Op("push_"),
                  Op("ret_"), Op("popContext") >> \o Tail(todo)
    /\ UNCHANGED program

Perform ==
    /\ todo # << >> /\ Head(todo).op \in Directives \ (Compilations \cup Promises)
    /\ ctx' = perform(Head(todo))
    /\ todo' = Tail(todo)
    /\ UNCHANGED program

\* All instructions up to the next directive.  The promise of a mk_promise_ is
\* one that was compiled last (see compileRegularFor).
Write ==
    LET n == SelectInSeq(todo, LAMBDA d : d.op \in Directives) - 1
        k == IF n = -1 THEN Len(todo) ELSE n
        Emitted(d) == IF d.op \in {"mk_promise_", "mk_eager_promise_"}
                      THEN OpN(d.op, Len(ctx.cur.promises) - d.imm) ELSE d
    IN  /\ k > 0
        /\ ctx' = [ctx EXCEPT !.cur.cs = @ \o [j \in 1 .. k |-> Written(Emitted(todo[j]))]]
        /\ todo' = SubSeq(todo, k + 1, Len(todo))
        /\ UNCHANGED program

\* Compiler::finalize: the default arguments, then the body.
CompilerInit ==
    LET Defaults == SelectSeq(program.formals, LAMBDA f : f # Missing) IN
    /\ program \in Programs
    /\ ctx = [cur |-> scanNames(CodeContext(FALSE), program.body), outer |-> << >>, done |-> << >>]
    /\ todo = [k \in DOMAIN Defaults |-> On("compilePromise", Defaults[k])] \o
              << Expr(program.body), Op("ret_") >>

Compile == Expand \/ compilePromise \/ Perform \/ Write

compiled == Append(ctx.done, writeCode(ctx.cur))

=============================================================================
