---------------------------- MODULE CodeVerifier ----------------------------
(***************************************************************************)
(* A piece of bytecode is verified and then interpreted.                    *)
(*                                                                          *)
(* Phase "verify" is CodeVerifier::calculateAndVerifyStack, which computes  *)
(* the height of the operand stack before every instruction; "layout" is    *)
(* the part of verifyFunctionLayout that looks at jumps; "run" is           *)
(* evalRirCode with its loopTrampoline, of which only the height of the     *)
(* operand stack above the frame's base is kept.                            *)
(*                                                                          *)
(* The code is any member of Codes whose loops have the shape the compiler  *)
(* gives them; everything else about it is for the verifier to find out.    *)
(***************************************************************************)
EXTENDS Bytecode, Sequences

CONSTANTS Codes,        \* sequences of instructions; jump targets are positions
          Slack,        \* cells ostack_ensureSize reserves above stackLength
          MaxAdded      \* bound: arguments a call adds on the stack

Instruction == [op : Opcode, imm : Nat]

ASSUME CodeAssumption ==
    /\ Slack \in Nat /\ Slack >= 2
    /\ MaxAdded \in Nat
    /\ \A c \in Codes : c \in Seq(Instruction) /\ c # << >>

VARIABLES code,         \* the instructions
          phase,        \* what happens to the code
          q,            \* the verifier's stack of states to look at
          cur,          \* <<i>> while it follows the straight line from i
          state,        \* the heights it has found, by position
          seen,         \* history: every state the inner loop went through
          stackLength,  \* the verifier's max, then Code::stackLength
          pc, height,   \* the interpreter's position and operand stack
          loops         \* the loop contexts it is in

verifier == <<q, cur, state, seen, stackLength>>
frame == <<pc, height, loops>>
vars == <<code, phase, verifier, frame>>

\* std::stack
top(s) == s[Len(s)]
pop(s) == SubSeq(s, 1, Len(s) - 1)

Position == 1 .. Len(code)
At(p, h) == [pc |-> p, ostack |-> h]

\* The loops of bc/Compiler.cpp: beginloop_ and endloop_ come in pairs around a
\* body that is entered and left only there, and that has no ret_.
StructuredLoops(c) ==
    LET Begins == {b \in DOMAIN c : c[b].op = "beginloop_"} IN
    /\ \A b \in Begins :
           /\ c[b].imm \in b + 1 .. Len(c) - 1
           /\ \A p \in DOMAIN c \ {b} :
                  isJmp(c[p]) => (p \in b .. c[b].imm <=> c[p].imm \in b + 1 .. c[b].imm)
           /\ \A p \in b .. c[b].imm : c[p].op # "ret_"
    /\ \A e \in DOMAIN c :
           c[e].op = "endloop_" <=> \E b \in Begins : c[b].imm = e
    /\ \A a, b \in Begins : c[a].imm = c[b].imm => a = b

Start ==
    /\ phase = "verify"
    /\ q = << At(1, 0) >>
    /\ cur = << >>
    /\ state = << >>
    /\ seen = {}
    /\ stackLength = 0
    /\ pc = 1 /\ height = 0 /\ loops = << >>

Init ==
    /\ code \in {c \in Codes : StructuredLoops(c)}
    /\ Start

Reject == phase' = "rejected" /\ UNCHANGED <<code, verifier, frame>>

-----------------------------------------------------------------------------
(* calculateAndVerifyStack.                                                 *)

\* State::advance: the height after instruction i, before the pushes and after.
popped(i, h) == IF i.op = "return_" THEN 0 ELSE h - popCount(i)
advance(i, h) == popped(i, h) + pushCount(i)

mutantVisited(i) ==
    /\ q' = pop(q)
    /\ cur' = << i >>
    /\ UNCHANGED <<code, phase, state, seen, stackLength, frame>>

\* A position that was visited is only compared.
Visited(i) ==
    /\ i.pc \in DOMAIN state
    /\ IF state[i.pc] = i.ostack
       THEN /\ q' = pop(q)
            /\ UNCHANGED <<code, phase, cur, state, seen, stackLength, frame>>
       ELSE Reject

Take ==
    /\ phase = "verify" /\ cur = << >> /\ q # << >>
    /\ \/ Visited(top(q))
       \/ /\ top(q).pc \notin DOMAIN state
          /\ q' = pop(q)
          /\ cur' = << top(q) >>
          /\ UNCHANGED <<code, phase, state, seen, stackLength, frame>>

\* What one instruction adds to the verifier's state.
Follow(i, instr, after) ==
    /\ q' = IF isJmp(instr) THEN Append(q, At(instr.imm, after)) ELSE q
    /\ cur' = IF isExit(instr) \/ instr.op = "br_" THEN << >>
              ELSE << At(i.pc + 1, after) >>
    /\ stackLength' = IF after > stackLength THEN after ELSE stackLength

mutantAccepts(i) ==
    /\ i.pc \in Position
    /\ popped(code[i.pc], i.ostack) >= 0

\* The asserts on the way: the position is in the code, "Too many pops", and
\* "Stack imbalance when exitting the function".
accepts(i) ==
    /\ i.pc \in Position
    /\ popped(code[i.pc], i.ostack) >= 0
    /\ isExit(code[i.pc]) => advance(code[i.pc], i.ostack) = 0

\* One iteration of the inner loop.  It overwrites the height of a position
\* it has visited before without comparing the two.
Straight ==
    /\ phase = "verify" /\ cur # << >>
    /\ LET i == cur[1] IN
       IF accepts(i)
       THEN /\ state' = [p \in DOMAIN state \cup {i.pc} |->
                            IF p = i.pc THEN i.ostack ELSE state[p]]
            /\ seen' = seen \cup {i}
            /\ Follow(i, code[i.pc], advance(code[i.pc], i.ostack))
            /\ UNCHANGED <<code, phase, frame>>
       ELSE Reject

Verified ==
    /\ phase = "verify" /\ cur = << >> /\ q = << >>
    /\ phase' = "layout"
    /\ UNCHANGED <<code, verifier, frame>>

-----------------------------------------------------------------------------
(* verifyFunctionLayout.                                                    *)

\* The loop over all instructions: branches stay in the code or go to its end,
\* and the last instruction is a jump backwards or an exit.
verifyFunctionLayout ==
    /\ \A p \in Position :
           code[p].op \in {"br_", "brtrue_", "brfalse_"} =>
               code[p].imm \in 1 .. Len(code) + 1
    /\ LET last == code[Len(code)] IN
       (isJmp(last) /\ last.imm <= Len(code)) \/ isExit(last)

Layout ==
    /\ phase = "layout"
    /\ phase' = IF verifyFunctionLayout THEN "run" ELSE "rejected"
    /\ UNCHANGED <<code, verifier, frame>>

-----------------------------------------------------------------------------
(* evalRirCode.                                                             *)

instr == code[pc]
Running == phase = "run" /\ pc \in Position

Goto(p, h) ==
    /\ pc' = p
    /\ height' = h
    /\ UNCHANGED <<code, verifier>>

\* The frame ends and leaves the operand stack at height h.
Finish(h) ==
    /\ phase' = "done"
    /\ height' = h
    /\ loops' = << >>
    /\ UNCHANGED <<code, verifier, pc>>

\* An assert of the interpreter fails that no check of the verifier implies.
AssertFails == phase' = "aborted" /\ UNCHANGED <<code, verifier, frame>>

\* An instruction that is no jump.  A handler that looks below the values of
\* its frame reads what belongs to the caller.
Plain ==
    /\ Running /\ instr.op \notin Control
    /\ \E added \in 0 .. (IF instr.op \in Calls THEN MaxAdded ELSE 0) :
           LET h == handler(instr, added) IN
           IF height < h.needs
           THEN phase' = "underflow" /\ UNCHANGED <<code, verifier, frame>>
           ELSE Goto(pc + 1, height + h.delta) /\ UNCHANGED <<phase, loops>>

Branch ==
    /\ Running /\ instr.op \in {"brtrue_", "brfalse_"}
    /\ IF height < 1
       THEN phase' = "underflow" /\ UNCHANGED <<code, verifier, frame>>
       ELSE /\ \E p \in {pc + 1, instr.imm} : Goto(p, height - 1)
            /\ UNCHANGED <<phase, loops>>

Br ==
    /\ Running /\ instr.op = "br_"
    /\ Goto(instr.imm, height)
    /\ UNCHANGED <<phase, loops>>

\* loopTrampoline: the body runs in an evalRirCode of its own, under a context
\* that remembers the operand stack.
BeginLoop ==
    /\ Running /\ instr.op = "beginloop_"
    /\ loops' = Append(loops, [begin |-> pc, nodestack |-> height])
    /\ Goto(pc + 1, height)
    /\ UNCHANGED phase

mutantLeaveLoop(h) ==
    LET end == code[top(loops).begin].imm IN
    /\ loops' = pop(loops)
    /\ Goto(end, h)
    /\ UNCHANGED phase

\* The loop's context is gone and beginloop_ continues after the endloop_.
LeaveLoop(h) ==
    LET end == code[top(loops).begin].imm IN
    IF end \in Position /\ code[end].op = "endloop_"
    THEN /\ loops' = pop(loops)
         /\ Goto(end + 1, h)
         /\ UNCHANGED phase
    ELSE AssertFails

\* The body's evalRirCode returns the marker to loopTrampoline, or, when there
\* is no loop, to a caller that expects a value.
EndLoop ==
    /\ Running /\ instr.op = "endloop_"
    /\ IF loops = << >> THEN AssertFails ELSE LeaveLoop(height)

\* Instructions that can run other R code, which may break out of this frame's
\* innermost loop, continue it, or unwind the frame.
Evaluates == UpdateLoads \cup Loads \cup Calls \cup Forces \cup Arithmetic \cup
             Divisions \cup Relations \cup Extracts1 \cup Extracts2 \cup
             Subassigns1 \cup Subassigns2 \cup MatrixSubassigns \cup {"call_builtin_"}

Break ==
    /\ Running /\ instr.op \in Evaluates /\ loops # << >>
    /\ LeaveLoop(top(loops).nodestack)

mutantContinue ==
    /\ Running /\ instr.op \in Evaluates /\ loops # << >>
    /\ Goto(top(loops).begin + 1, height)
    /\ UNCHANGED <<phase, loops>>

Continue ==
    /\ Running /\ instr.op \in Evaluates /\ loops # << >>
    /\ Goto(top(loops).begin + 1, top(loops).nodestack)
    /\ UNCHANGED <<phase, loops>>

Unwind ==
    /\ Running /\ instr.op \in Evaluates
    /\ Finish(0)

\* osr: the frame's base is only known outside of loops.  The continuation
\* takes all of the frame's operand stack.
Osr ==
    /\ Running /\ loops = << >>
    /\ \/ instr.op \in Calls /\ height >= handler(instr, 0).needs
       \/ instr.op = "br_" /\ instr.imm <= pc
    /\ Finish(0)

\* Rf_findcontext restores the operand stack of the function's context.
ReturnOp ==
    /\ Running /\ instr.op = "return_"
    /\ IF height < 1
       THEN phase' = "underflow" /\ UNCHANGED <<code, verifier, frame>>
       ELSE Finish(0)

Ret ==
    /\ Running /\ instr.op = "ret_"
    /\ IF loops # << >> THEN AssertFails ELSE Finish(height - 1)

Verify == Take \/ Straight \/ Verified \/ Layout
Run == Plain \/ Branch \/ Br \/ BeginLoop \/ EndLoop \/ Break \/ Continue \/
       Unwind \/ Osr \/ ReturnOp \/ Ret
Terminated ==
    /\ phase \in {"rejected", "done", "aborted", "underflow"}
    /\ UNCHANGED vars

Next == Verify \/ Run \/ Terminated

\* The verifier is a sequential function: nothing but its own code stops it.
Spec == Init /\ [][Next]_vars /\ WF_vars(Verify)

-----------------------------------------------------------------------------
StateType == [pc : Nat, ostack : Int]

TypeOK ==
    /\ code \in Seq(Instruction)
    /\ phase \in {"verify", "layout", "rejected", "run", "done", "aborted", "underflow"}
    /\ \A k \in DOMAIN q : q[k] \in StateType
    /\ Len(cur) <= 1 /\ \A k \in DOMAIN cur : cur[k] \in StateType
    /\ DOMAIN state \subseteq Position /\ \A p \in DOMAIN state : state[p] \in Nat
    /\ stackLength \in Nat
    /\ pc \in Nat /\ height \in Int
    /\ \A k \in DOMAIN loops : loops[k].begin \in Position /\ loops[k].nodestack \in Nat

\* Code that calculateAndVerifyStack accepts never reads or pops values that
\* are not its own, whatever path it takes through branches, loops, breaks and
\* continues: also at the positions whose height the verifier overwrote.
NeverUnderflows == phase # "underflow" /\ (phase \in {"run", "done"} => height >= 0)

\* The interpreter stays in the code and its operand stack within the
\* stackLength that the verifier stored.  While a handler runs it is within the
\* room ostack_ensureSize makes, "some slack of 5 to make sure the call
\* instruction can store some intermediate values on the stack", as long as no
\* call adds as many arguments as there is slack.
StaysInBounds ==
    phase = "run" =>
        /\ pc \in Position /\ height <= stackLength
        /\ instr.op \notin Control =>
             \A added \in 0 .. MaxAdded :
                 added < Slack => height + handler(instr, added).scratch <= stackLength + Slack

\* The asserts of loopTrampoline and beginloop_ hold: the evalRirCode of a loop
\* body returns nothing but the marker, the marker never reaches anyone else, and
\* what follows a loop is its endloop_.
LoopsEndWithMarker == phase # "aborted"

\* "ret_ ... requires the stack to have *only* the result value left": a frame
\* leaves the operand stack as it found it.
ReturnsClean == phase = "done" => height = 0

\* calculateAndVerifyStack comes to an end, whatever jumps the code contains.
VerifierTerminates == <>(phase \notin {"verify", "layout"})

=============================================================================
