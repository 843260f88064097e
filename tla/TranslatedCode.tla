--------------------------- MODULE TranslatedCode ---------------------------
(***************************************************************************)
(* A function is compiled, one of its code objects is verified, and the     *)
(* optimizer translates it from its beginning or, for a continuation, from  *)
(* any position the verifier reached: bc/Compiler.cpp, bc/CodeVerifier.cpp  *)
(* and rir2pir.cpp together.                                               *)
(***************************************************************************)
EXTENDS Compiler, Rir2Pir

VARIABLE which          \* the code object that is verified, 0 before

\* hasSources.
Required == Extracts1 \cup Extracts2 \cup Arithmetic \cup Divisions \cup Relations \cup
            Subassigns1 \cup {"subassign2_1_", "subassign2_2_"} \cup
            {"uplus_", "uminus_", "not_", "colon_", "colon_input_effects_"}
May == {"aslogical_", "asbool_", "missing_"}

\* The checks of verifyFunctionLayout on the sources and on the binding cache.
SourcesAsNeeded(c) ==
    \A p \in DOMAIN c.instrs :
        /\ c.instrs[p].op \in Required => p \in c.sources
        /\ p \in c.sources => c.instrs[p].op \in Required \cup May

CacheIndicesValid(c) ==
    \A p \in DOMAIN c.instrs :
        LET i == c.instrs[p] IN
        /\ i.op \in {"ldvar_cached_", "stvar_cached_", "ldvar_for_update_cache_"} =>
               i.imm < c.bindingCacheSize
        /\ i.op = "clear_binding_cache_" => i.imm <= c.bindingCacheSize

PipelineInit ==
    /\ CompilerInit
    /\ which = 0
    /\ code = << >>
    /\ Start

Finalize ==
    /\ which = 0 /\ todo = << >>
    /\ which' \in DOMAIN compiled
    /\ code' = compiled[which'].instrs
    /\ UNCHANGED <<compiler, phase, verifier, frame>>

CompiledLayout ==
    /\ phase = "layout"
    /\ phase' = IF /\ verifyFunctionLayout
                   /\ SourcesAsNeeded(compiled[which])
                   /\ CacheIndicesValid(compiled[which])
                THEN "accepted" ELSE "rejected"
    /\ UNCHANGED <<code, verifier, frame>>

PipelineNext ==
    \/ which = 0 /\ Compile /\ UNCHANGED <<which, vars>>
    \/ Finalize
    \/ which # 0 /\ (Take \/ Straight \/ Verified \/ CompiledLayout) /\ UNCHANGED <<compiler, which>>

-----------------------------------------------------------------------------
\* Where a break or next of an enclosing loop and a return may stand: nowhere that
\* values of an unfinished expression lie on the operand stack (unless clean).  A
\* return in a loop or in a promise (unwinds) discards them itself.
RECURSIVE Settled(_, _, _)
Settled(e, clean, unwinds) ==
    LET args == e.args
        From(k, c, u) == \A j \in k .. Len(args) : Settled(value(args[j]), c, u)
        First(c) == args # << >> => Settled(value(args[1]), c, unwinds)
        lhs == value(args[1])
    IN  IF e.t # "lang" \/ e.name \in {"quote", "Function"} THEN TRUE
        ELSE IF e.name \in {"Break", "Next"} THEN clean
        ELSE IF e.name = "Return" THEN (clean \/ unwinds) /\ First(clean)
        ELSE IF e.name \in {"While", "Repeat"} THEN From(1, TRUE, TRUE)
        ELSE IF e.name = "For"
        THEN /\ Settled(value(args[2]), clean /\ isCall(value(args[2]), {"Colon"}), unwinds)
             /\ Settled(value(args[3]), TRUE, TRUE)
        ELSE IF e.name \in {"Block", "If", "Switch"} THEN From(1, clean, unwinds)
        ELSE IF e.name \in Assigns
        THEN /\ Settled(value(args[2]), clean, unwinds)
             /\ lhs.t = "lang" => /\ \A j \in 2 .. Len(lhs.args) :
                                         Settled(value(lhs.args[j]), lhs.name \notin Brackets,
                                                 lhs.name \notin Brackets \/ unwinds)
                                  /\ value(args[2]) \notin {Dots, Missing}
        ELSE IF e.name = "Internal" THEN \A a \in ToSet(lhs.args) : Settled(value(a), FALSE, unwinds)
        ELSE IF e.name \in DOMAIN BinaryOps \cup DOMAIN UnaryOps \cup TypeTests \cup Brackets \cup
                           {"And", "Or", "Parenthesis"}
        THEN First(clean) /\ From(2, FALSE, unwinds)
        ELSE IF e.name = "()" THEN First(clean) /\ From(2, TRUE, TRUE)
        ELSE IF e.name \in BaseBuiltins \cup {"forceAndCall"} THEN From(1, FALSE, unwinds)
        ELSE From(1, TRUE, TRUE)

WellPlaced == /\ Settled(program.body, TRUE, FALSE)
              /\ \A f \in ToSet(program.formals) : Settled(f, TRUE, TRUE)

\* The verifier accepts what the compiler emits, however its cases are nested: on
\* all paths to an instruction the operand stack has the same height, every exit
\* leaves it empty, an expression in a void context leaves no value and any other
\* leaves one, every instruction that may dispatch has its source, and cached
\* variables have a slot in the binding cache.  The loops of
\* accepted code have the shape on which the proof about verified code rests:
\* also after loop peeling, the removal of needless contexts and of jumps.
CompiledCodeIsAccepted ==
    WellPlaced => /\ phase # "rejected"
                  /\ phase = "accepted" => StructuredLoops(code)

\* The context of a loop is at run time what a break or next finds that is
\* evaluated in a promise: every promise with such a call, or with a promise that
\* has one, is created between the beginloop_ and the endloop_ of a loop or is
\* the body of a `for` that GNU R runs.
RECURSIVE Escapes(_)
Escapes(k) ==
    LET c == compiled[k].instrs
        InLoop(p) == \E b \in DOMAIN c : c[b].op = "beginloop_" /\ p \in b .. c[b].imm
        ForBody(p) == p > 1 /\ c[p - 1].op = "mk_eager_promise_"
    IN  \/ compiled[k].escapes
        \/ \E p \in DOMAIN c : /\ c[p].op = "mk_promise_"
                               /\ ~InLoop(p) /\ ~ForBody(p)
                               /\ Escapes(compiled[k].promises[c[p].imm])

EscapesFindTheirLoop == phase = "accepted" => ~Escapes(Len(compiled))

----------------------------------------------------------------------------
CONSTANT Translated     \* the programs that are translated

pir == <<r2p, place, ostack, values>>

TranslatedInit ==
    /\ PipelineInit
    /\ r2p = Translation("idle", 1, 0, FALSE)
    /\ place = <<1, 1>> /\ ostack = << >> /\ values = << >>

\* A continuation is of a function's body.  A function with arguments that may be
\* reflective begins with a checkpoint.
BeginTranslation ==
    /\ phase = "accepted" /\ program \in Translated
    /\ \E start \in DOMAIN state, anyReflective \in BOOLEAN :
           LET promise == which # Len(compiled)
               t == Translation("translate", start, state[start], promise)
           IN
           /\ promise => start = 1
           /\ anyReflective => ~promise /\ start = 1
           /\ r2p' = IF anyReflective THEN add(t, addCheckpoint(start, t.stack)) ELSE t
           /\ pc' = start
           /\ ostack' = [k \in 1 .. state[start] |-> Made(<<0, 0, k>>)]
    /\ phase' = "translated"
    /\ UNCHANGED <<compiler, which, code, verifier, height, loops, place, values>>

TranslatedNext ==
    \/ PipelineNext /\ UNCHANGED pir
    \/ BeginTranslation
    \/ (Translate \/ RemovePhi \/ finalize) /\ UNCHANGED <<compiler, which, vars, place, ostack, values>>
    \/ Execute /\ UNCHANGED <<compiler, which, code, phase, verifier, height, loops>>

=============================================================================
