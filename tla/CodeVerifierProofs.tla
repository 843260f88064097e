------------------------- MODULE CodeVerifierProofs -------------------------
(***************************************************************************)
(* The verifier is sound: whatever the code, the interpreter only meets     *)
(* states the verifier's inner loop went through.                           *)
(*                                                                          *)
(* The map `state` cannot carry the argument, because falling through into  *)
(* a visited position overwrites its height.  The set `seen` can: once the  *)
(* stack q is empty it is closed under the steps of the interpreter.        *)
(***************************************************************************)
EXTENDS CodeVerifier, SequenceTheorems, TLAPS

\* The provers of a leaf that names none, in the order they are tried.
USE SMTT(10), ZenonT(20), SMTT(90)

USE CodeAssumption

States == [pc : Nat, ostack : Nat]

Elems(s) == {s[k] : k \in DOMAIN s}

\* Where the verifier goes from a state.
Succ(s) ==
    LET i == code[s.pc]
        a == advance(i, s.ostack)
    IN  (IF isJmp(i) THEN {At(i.imm, a)} ELSE {}) \cup
        (IF isExit(i) \/ i.op = "br_" THEN {} ELSE {At(s.pc + 1, a)})

\* What the verifier has established about the states it has seen.
SeenOK ==
    \A s \in seen :
        /\ s \in States
        /\ accepts(s)
        /\ s.ostack <= stackLength
        /\ Succ(s) \subseteq seen \cup Elems(q) \cup Elems(cur)

\* The loops around position p of code c.
In(c, p) == {b \in DOMAIN c : c[b].op = "beginloop_" /\ p \in b + 1 .. c[b].imm}

\* The positions of the first k loop contexts of l.
Opened(l, k) == {l[j].begin : j \in 1 .. k}

\* The loop contexts are those of the loops around pc, the outermost first, and
\* each was created in a state that the verifier has seen.
LoopsOK ==
    /\ loops \in Seq([begin : Nat, nodestack : Nat])
    /\ \A k \in 1 .. Len(loops) :
           /\ loops[k].begin \in DOMAIN code
           /\ code[loops[k].begin].op = "beginloop_"
           /\ At(loops[k].begin, loops[k].nodestack) \in seen
           /\ In(code, loops[k].begin) = Opened(loops, k - 1)
    /\ In(code, pc) = Opened(loops, Len(loops))

VerifierInv ==
    /\ code \in Seq(Instruction) /\ code # << >> /\ StructuredLoops(code)
    /\ q \in Seq(States) /\ cur \in Seq(States) /\ Len(cur) <= 1
    /\ stackLength \in Nat
    /\ \A s \in Elems(q) \cup Elems(cur) : s.ostack <= stackLength
    /\ SeenOK
    /\ \A p \in DOMAIN state : At(p, state[p]) \in seen
    /\ At(1, 0) \in seen \cup Elems(q) \cup Elems(cur)

RunInv ==
    /\ phase \in {"verify", "layout", "rejected", "run", "done", "underflow"}
    /\ height \in Nat
    /\ phase \in {"verify", "layout"} => pc = 1 /\ height = 0 /\ loops = << >>
    /\ phase \in {"layout", "run"} => q = << >> /\ cur = << >>
    /\ phase = "run" => At(pc, height) \in seen /\ LoopsOK
    /\ phase = "done" => height = 0

\* The inductive invariant.
Inv == VerifierInv /\ RunInv

-----------------------------------------------------------------------------
(* Counts.                                                                  *)

LEMMA PushCountNat ==
    ASSUME NEW i \in Instruction
    PROVE  pushCount(i) \in Nat
BY DEF pushCount, Instruction

LEMMA DimsNat ==
    ASSUME NEW o
    PROVE  dims(o) \in {1, 2, 3}
BY DEF dims

LEMMA PopCountNat ==
    ASSUME NEW i \in Instruction
    PROVE  popCount(i) \in Nat
BY DimsNat DEF popCount, Instruction

\* What insns.h declares that the kinds of instructions take from the stack ...
LEMMA PopCounts ==
    ASSUME NEW i
    PROVE  /\ i.op \in NoEffect \cup UpdateLoads \cup Loads \cup Constants \cup Addresses \cup
                       {"br_", "beginloop_", "endloop_"} => popCount(i) = 0
           /\ i.op \in Stores \cup Records \cup Forces \cup Conversions \cup Attributes \cup
                       Unops \cup {"dup_", "pop_", "brtrue_", "brfalse_", "ret_"} => popCount(i) = 1
           /\ i.op \in Arithmetic \cup Divisions \cup Relations \cup Logic \cup
                       {"dup2_", "swap_", "colon_input_effects_", "colon_cast_rhs_",
                        "set_names_"} => popCount(i) = 2
           /\ i.op \in Calls => popCount(i) = i.imm + 1
           /\ i.op \in {"call_builtin_", "popn_"} => popCount(i) = i.imm
           /\ i.op = "close_" => popCount(i) = 3
           /\ i.op \in Extracts1 \cup Extracts2 => popCount(i) = 1 + dims(i.op)
           /\ i.op \in Subassigns1 \cup Subassigns2 \cup MatrixSubassigns =>
                  popCount(i) = 2 + dims(i.op)
<1> USE DEF popCount, UpdateLoads, Loads, Constants, Stores, Records, Calls, Forces, Unops, Arithmetic,
            Divisions, Relations, Logic, Conversions, Attributes, Extracts1, Extracts2,
            Subassigns1, Subassigns2, MatrixSubassigns, NoEffect, Addresses
<1>1. i.op \in NoEffect \cup UpdateLoads \cup Loads \cup Constants \cup Addresses \cup
               {"br_", "beginloop_", "endloop_"} => popCount(i) = 0
  OBVIOUS
<1>2. i.op \in Stores \cup Records \cup Forces \cup Conversions \cup Attributes \cup
               Unops \cup {"dup_", "pop_", "brtrue_", "brfalse_", "ret_"} => popCount(i) = 1
  OBVIOUS
<1>3. i.op \in Arithmetic \cup Divisions \cup Relations \cup Logic \cup
               {"dup2_", "swap_", "colon_input_effects_", "colon_cast_rhs_",
                "set_names_"} => popCount(i) = 2
  OBVIOUS
<1>4. /\ i.op \in Calls => popCount(i) = i.imm + 1
      /\ i.op \in {"call_builtin_", "popn_"} => popCount(i) = i.imm
      /\ i.op = "close_" => popCount(i) = 3
  OBVIOUS
<1>5. /\ i.op \in Extracts1 \cup Extracts2 => popCount(i) = 1 + dims(i.op)
      /\ i.op \in Subassigns1 \cup Subassigns2 \cup MatrixSubassigns =>
             popCount(i) = 2 + dims(i.op)
  OBVIOUS
<1> HIDE DEF popCount, UpdateLoads, Loads, Constants, Stores, Records, Calls, Forces, Unops, Arithmetic,
             Divisions, Relations, Logic, Conversions, Attributes, Extracts1, Extracts2,
             Subassigns1, Subassigns2, MatrixSubassigns, NoEffect, Addresses
<1> QED
  BY <1>1, <1>2, <1>3, <1>4, <1>5

\* ... and put on it.
LEMMA PushCounts ==
    ASSUME NEW i
    PROVE  /\ i.op \in NoEffect \cup Stores \cup Control \cup
                       {"pop_", "popn_", "put_", "pick_"} => pushCount(i) = 0
           /\ i.op \in UpdateLoads \cup Loads \cup Constants \cup Records \cup Forces \cup
                       Conversions \cup Attributes \cup Unops \cup Calls \cup
                       Arithmetic \cup Divisions \cup Relations \cup Logic \cup
                       Extracts1 \cup Extracts2 \cup Subassigns1 \cup Subassigns2 \cup
                       MatrixSubassigns \cup
                       {"call_builtin_", "close_", "set_names_", "pull_", "for_seq_size_"} =>
                  pushCount(i) = 1
           /\ i.op \in {"dup_", "swap_", "colon_cast_rhs_"} => pushCount(i) = 2
           /\ i.op = "colon_input_effects_" => pushCount(i) = 3
           /\ i.op = "dup2_" => pushCount(i) = 4
BY DEF pushCount, UpdateLoads, Loads, Constants, Stores, Records, Calls, Forces, Unops, Arithmetic,
       Divisions, Relations, Logic, Conversions, Attributes, Extracts1, Extracts2,
       Subassigns1, Subassigns2, MatrixSubassigns, NoEffect, Control, Jumps

\* The effects the handlers of evalRirCode have are the ones insns.h declares;
\* only the instructions of Addresses need values that popCount does not count.
LEMMA HandlerCounts ==
    ASSUME NEW i \in Instruction, i.op \notin Control, NEW added \in Nat
    PROVE  /\ handler(i, added).needs \in Nat
           /\ handler(i, added).delta = pushCount(i) - popCount(i)
           /\ i.op \notin Addresses => handler(i, added).needs <= popCount(i)
<1>1. i.imm \in Nat /\ i.op \in Opcode /\ dims(i.op) \in {1, 2, 3}
  BY DimsNat DEF Instruction
<1> USE DEF handler, UpdateLoads, Loads, Constants, Stores, Records, Calls, Forces, Unops, Arithmetic,
            Divisions, Relations, Logic, Conversions, Attributes, Extracts1, Extracts2,
            Subassigns1, Subassigns2, MatrixSubassigns, NoEffect
<1>2. i.op \in NoEffect => handler(i, added) = Does(0, 0, 0)
  OBVIOUS
<1>3. i.op \in UpdateLoads \cup Loads \cup Constants => handler(i, added) = Does(0, 1, 1)
  OBVIOUS
<1>4. i.op \in Stores => handler(i, added) = Does(1, 0, -1)
  OBVIOUS
<1>5. i.op \in Records \cup Forces \cup Conversions \cup Attributes =>
          handler(i, added) = Does(1, 0, 0)
  OBVIOUS
<1>6. i.op \in Unops => handler(i, added) = Does(1, 1, 0)
  OBVIOUS
<1>7. i.op \in Calls => \E s : handler(i, added) = Does(i.imm + 1, s, -i.imm)
  OBVIOUS
<1>8. i.op = "call_builtin_" =>
          handler(i, added) = Does(i.imm, IF i.imm = 0 THEN 1 ELSE 0, 1 - i.imm)
  OBVIOUS
<1>9. i.op = "close_" => handler(i, added) = Does(3, 0, -2)
  OBVIOUS
<1>10. i.op = "dup_" => handler(i, added) = Does(1, 1, 1)
  OBVIOUS
<1>11. i.op = "dup2_" => handler(i, added) = Does(2, 2, 2)
  OBVIOUS
<1>12. i.op = "pop_" => handler(i, added) = Does(1, 0, -1)
  OBVIOUS
<1>13. i.op = "popn_" => handler(i, added) = Does(i.imm, 0, -i.imm)
  OBVIOUS
<1>14. i.op \in {"swap_", "colon_cast_rhs_"} => handler(i, added) = Does(2, 0, 0)
  OBVIOUS
<1>15. i.op \in {"put_", "pick_"} => handler(i, added) = Does(i.imm + 1, 0, 0)
  OBVIOUS
<1>16. i.op = "pull_" => handler(i, added) = Does(i.imm + 1, 1, 1)
  OBVIOUS
<1>17. i.op \in Arithmetic \cup Divisions \cup Relations \cup Logic =>
          handler(i, added) = Does(2, 1, -1)
  OBVIOUS
<1>18. i.op = "colon_input_effects_" => handler(i, added) = Does(2, 1, 1)
  OBVIOUS
<1>19. i.op = "set_names_" => handler(i, added) = Does(2, 0, -1)
  OBVIOUS
<1>20. i.op = "for_seq_size_" => handler(i, added) = Does(1, 1, 1)
  OBVIOUS
<1>21. i.op \in Extracts1 \cup Extracts2 =>
          handler(i, added) = Does(1 + dims(i.op), 1, -dims(i.op))
  OBVIOUS
<1>22. i.op \in Subassigns1 \cup Subassigns2 \cup MatrixSubassigns =>
          handler(i, added) = Does(2 + dims(i.op), 0, -1 - dims(i.op))
  OBVIOUS
<1> HIDE DEF handler, UpdateLoads, Loads, Constants, Stores, Records, Calls, Forces, Unops, Arithmetic,
             Divisions, Relations, Logic, Conversions, Attributes, Extracts1, Extracts2,
             Subassigns1, Subassigns2, MatrixSubassigns, NoEffect
<1> QED
  BY <1>1, <1>2, <1>3, <1>4, <1>5, <1>6, <1>7, <1>8, <1>9, <1>10, <1>11, <1>12, <1>13,
     <1>14, <1>15, <1>16, <1>17, <1>18, <1>19, <1>20, <1>21, <1>22, PopCounts, PushCounts
  DEF Does, Opcode, StackOps, Addresses, Others

\* The cells a handler fills above its operands.
LEMMA HandlerScratch ==
    ASSUME NEW i \in Instruction, NEW added \in Nat
    PROVE  /\ handler(i, added).scratch \in Nat
           /\ handler(i, added).scratch <= 2 \/ handler(i, added).scratch <= added + 1
BY DEF handler, Does, Instruction

-----------------------------------------------------------------------------
(* Sequences.                                                               *)

LEMMA ElemsDef ==
    ASSUME NEW S, NEW s \in Seq(S)
    PROVE  Elems(s) = {s[k] : k \in 1 .. Len(s)} /\ Len(s) \in Nat
BY DEF Elems

LEMMA ElemsAppend ==
    ASSUME NEW S, NEW s \in Seq(S), NEW x \in S
    PROVE  Append(s, x) \in Seq(S) /\ Elems(Append(s, x)) = Elems(s) \cup {x}
<1>1. Append(s, x) \in Seq(S) /\ Len(Append(s, x)) = Len(s) + 1
  OBVIOUS
<1>2. \A k \in 1 .. Len(s) : Append(s, x)[k] = s[k]
  OBVIOUS
<1>3. Append(s, x)[Len(s) + 1] = x
  OBVIOUS
<1>4. \A k : k \in 1 .. Len(s) + 1 <=> k \in 1 .. Len(s) \/ k = Len(s) + 1
  BY ElemsDef
<1>5. Elems(Append(s, x)) = {Append(s, x)[k] : k \in 1 .. Len(s) + 1}
  BY <1>1, ElemsDef, ZenonT(60)
<1>6. Elems(s) = {s[k] : k \in 1 .. Len(s)}
  BY ElemsDef
<1> QED
  BY <1>1, <1>2, <1>3, <1>4, <1>5, <1>6, Zenon

LEMMA ElemsPop ==
    ASSUME NEW S, NEW s \in Seq(S), s # << >>
    PROVE  /\ pop(s) \in Seq(S) /\ Len(pop(s)) = Len(s) - 1
           /\ \A k \in 1 .. Len(s) - 1 : pop(s)[k] = s[k]
           /\ top(s) \in S
           /\ Elems(s) = Elems(pop(s)) \cup {top(s)}
<1>1. Len(s) \in Nat \ {0}
  OBVIOUS
<1>2. \A k \in 1 .. Len(s) - 1 : s[k] \in S
  BY <1>1
<1>3. /\ pop(s) \in Seq(S) /\ Len(pop(s)) = Len(s) - 1
      /\ \A k \in 1 .. Len(s) - 1 : pop(s)[k] = s[k]
  <2> DEFINE n == Len(s) - 1
  <2>1. n \in Int /\ 1 \in Int /\ \A i \in 1 .. n : s[i] \in S
    BY <1>1, <1>2
  <2> HIDE DEF n
  <2>2. /\ SubSeq(s, 1, n) \in Seq(S)
        /\ Len(SubSeq(s, 1, n)) = IF 1 <= n THEN n - 1 + 1 ELSE 0
        /\ \A i \in 1 .. n - 1 + 1 : SubSeq(s, 1, n)[i] = s[1 + i - 1]
    BY <2>1, SubSeqProperties
  <2>3. pop(s) = SubSeq(s, 1, n)
    BY DEF n, pop
  <2> DEFINE t == SubSeq(s, 1, n)
  <2> HIDE DEF t
  <2>4. /\ t \in Seq(S)
        /\ Len(t) = IF 1 <= n THEN n - 1 + 1 ELSE 0
        /\ \A i \in 1 .. n - 1 + 1 : t[i] = s[1 + i - 1]
    BY <2>2 DEF t
  <2>5. n \in Nat
    BY <1>1 DEF n
  <2>6. t \in Seq(S) /\ Len(t) = n /\ \A k \in 1 .. n : t[k] = s[k]
    BY <2>4, <2>5
  <2> QED
    BY <2>3, <2>6 DEF n, t
<1>4. top(s) \in S
  BY <1>1 DEF top
<1>5. \A k : k \in 1 .. Len(s) <=> k \in 1 .. Len(s) - 1 \/ k = Len(s)
  BY <1>1
<1>6. Elems(pop(s)) = {pop(s)[k] : k \in 1 .. Len(s) - 1}
  BY <1>3, ElemsDef
<1>7. Elems(s) = {s[k] : k \in 1 .. Len(s)}
  BY ElemsDef
<1>8. Elems(s) = Elems(pop(s)) \cup {s[Len(s)]}
  BY <1>3, <1>5, <1>6, <1>7, Zenon
<1> QED
  BY <1>3, <1>4, <1>8 DEF top

LEMMA ElemsEmpty == Elems(<< >>) = {}
BY DEF Elems

LEMMA ElemsSingle ==
    ASSUME NEW x
    PROVE  Elems(<< x >>) = {x}
BY DEF Elems

-----------------------------------------------------------------------------
(* The loops around a position.                                             *)

LEMMA Structure ==
    ASSUME NEW c \in Seq(Instruction), StructuredLoops(c)
    PROVE  /\ \A b \in DOMAIN c : c[b].op = "beginloop_" =>
                  /\ c[b].imm \in b + 1 .. Len(c) - 1
                  /\ c[b].imm \in DOMAIN c /\ c[c[b].imm].op = "endloop_"
           /\ \A b, p \in DOMAIN c :
                  c[b].op = "beginloop_" /\ p # b /\ isJmp(c[p]) =>
                      (p \in b .. c[b].imm <=> c[p].imm \in b + 1 .. c[b].imm)
           /\ \A b \in DOMAIN c : c[b].op = "beginloop_" =>
                  \A p \in b .. c[b].imm : c[p].op # "ret_"
           /\ \A e \in DOMAIN c : c[e].op = "endloop_" =>
                  \E b \in DOMAIN c : c[b].op = "beginloop_" /\ c[b].imm = e
           /\ \A a, b \in DOMAIN c :
                  c[a].op = "beginloop_" /\ c[b].op = "beginloop_" /\ c[a].imm = c[b].imm
                      => a = b
<1> DEFINE Begins == {b \in DOMAIN c : c[b].op = "beginloop_"}
<1>1. /\ \A b \in Begins :
             /\ c[b].imm \in b + 1 .. Len(c) - 1
             /\ \A p \in DOMAIN c \ {b} :
                    isJmp(c[p]) => (p \in b .. c[b].imm <=> c[p].imm \in b + 1 .. c[b].imm)
             /\ \A p \in b .. c[b].imm : c[p].op # "ret_"
      /\ \A e \in DOMAIN c : c[e].op = "endloop_" <=> \E b \in Begins : c[b].imm = e
      /\ \A a, b \in Begins : c[a].imm = c[b].imm => a = b
  BY Zenon DEF StructuredLoops
<1>2. \A b \in DOMAIN c : c[b].op = "beginloop_" <=> b \in Begins
  OBVIOUS
<1> HIDE DEF Begins
<1>3. Begins \subseteq DOMAIN c /\ DOMAIN c = 1 .. Len(c) /\ Len(c) \in Nat
  BY DEF Begins
<1>4. \A b \in Begins : c[b].imm \in DOMAIN c
  BY <1>1, <1>3
<1> QED
  BY <1>1, <1>2, <1>3, <1>4

LEMMA InNext ==
    ASSUME NEW c \in Seq(Instruction), StructuredLoops(c), NEW p \in DOMAIN c,
           c[p].op # "beginloop_", c[p].op # "endloop_"
    PROVE  In(c, p + 1) = In(c, p)
<1> SUFFICES ASSUME NEW b \in DOMAIN c, c[b].op = "beginloop_"
             PROVE  p + 1 \in b + 1 .. c[b].imm <=> p \in b + 1 .. c[b].imm
  BY DEF In
<1>1. c[b].imm \in b + 1 .. Len(c) - 1 /\ c[c[b].imm].op = "endloop_"
  BY Structure
<1> QED
  BY <1>1

LEMMA InJump ==
    ASSUME NEW c \in Seq(Instruction), StructuredLoops(c), NEW p \in DOMAIN c,
           c[p].op # "beginloop_", isJmp(c[p])
    PROVE  In(c, c[p].imm) = In(c, p)
<1> SUFFICES ASSUME NEW b \in DOMAIN c, c[b].op = "beginloop_"
             PROVE  c[p].imm \in b + 1 .. c[b].imm <=> p \in b + 1 .. c[b].imm
  BY DEF In
<1>1. c[b].imm \in b + 1 .. Len(c) - 1
  BY Structure
<1>2. p \in b .. c[b].imm <=> c[p].imm \in b + 1 .. c[b].imm
  BY Structure
<1> QED
  BY <1>1, <1>2 DEF Instruction

LEMMA InBegin ==
    ASSUME NEW c \in Seq(Instruction), StructuredLoops(c), NEW b \in DOMAIN c,
           c[b].op = "beginloop_"
    PROVE  /\ In(c, b + 1) = In(c, b) \cup {b}
           /\ c[b].imm \in DOMAIN c /\ c[c[b].imm].op = "endloop_"
           /\ In(c, c[b].imm + 1) = In(c, b)
<1>1. c[b].imm \in b + 1 .. Len(c) - 1 /\ c[c[b].imm].op = "endloop_"
  BY Structure
<1>2. \A a \in DOMAIN c : c[a].op = "beginloop_" =>
          (b + 1 \in a + 1 .. c[a].imm <=> b \in a + 1 .. c[a].imm \/ a = b)
  <2> SUFFICES ASSUME NEW a \in DOMAIN c, c[a].op = "beginloop_"
               PROVE  b + 1 \in a + 1 .. c[a].imm <=> b \in a + 1 .. c[a].imm \/ a = b
    OBVIOUS
  <2>1. c[a].imm \in a + 1 .. Len(c) - 1 /\ c[c[a].imm].op = "endloop_"
    BY Structure
  <2> QED
    BY <1>1, <2>1
<1>3. \A a \in DOMAIN c : c[a].op = "beginloop_" =>
          (c[b].imm + 1 \in a + 1 .. c[a].imm <=> b \in a + 1 .. c[a].imm)
  <2> SUFFICES ASSUME NEW a \in DOMAIN c, c[a].op = "beginloop_", a # b
               PROVE  c[b].imm + 1 \in a + 1 .. c[a].imm <=> b \in a + 1 .. c[a].imm
    BY <1>1
  <2>1. b \in a .. c[a].imm <=> c[b].imm \in a + 1 .. c[a].imm
    BY Structure DEF isJmp, Jumps
  <2>2. c[b].imm # c[a].imm
    BY Structure
  <2>3. c[a].imm \in a + 1 .. Len(c) - 1 /\ c[b].imm # a
    BY <1>1, Structure
  <2>4. /\ a \in Nat /\ b \in Nat /\ c[a].imm \in Nat /\ c[b].imm \in Nat
        /\ a # b /\ b <= c[b].imm
    BY <1>1, <2>3
  <2> QED
    BY <2>1, <2>2, <2>3, <2>4
<1> QED
  BY <1>1, <1>2, <1>3 DEF In

\* At an endloop_ the innermost loop is the one it ends.
LEMMA InEnd ==
    ASSUME NEW c \in Seq(Instruction), StructuredLoops(c), NEW e \in DOMAIN c,
           c[e].op = "endloop_", NEW b \in In(c, e),
           \A a \in In(c, e) : a = b \/ a \in In(c, b)
    PROVE  c[b].imm = e
<1>1. PICK a \in DOMAIN c : c[a].op = "beginloop_" /\ c[a].imm = e
  BY Structure
<1>2. a \in In(c, e)
  BY <1>1, Structure DEF In
<1>3. CASE a \in In(c, b) /\ a # b
  <2>1. b \in a .. c[a].imm <=> c[b].imm \in a + 1 .. c[a].imm
    BY <1>1, <1>3, Structure DEF isJmp, Jumps, In
  <2> QED
    BY <1>1, <1>3, <2>1 DEF In, Instruction
<1> QED
  BY <1>1, <1>2, <1>3

-----------------------------------------------------------------------------
(* The verifier.                                                            *)

LEMMA AdvanceNat ==
    ASSUME NEW i \in Instruction, NEW h \in Nat, popped(i, h) >= 0
    PROVE  advance(i, h) \in Nat
<1>1. popped(i, h) \in Int
  BY PopCountNat DEF popped
<1> QED
  BY <1>1, PushCountNat DEF advance

LEMMA InitInv == Init => Inv
<1> SUFFICES ASSUME Init PROVE Inv
  OBVIOUS
<1> USE DEF Init, Start
<1>1. code \in Seq(Instruction) /\ code # << >> /\ StructuredLoops(code)
  OBVIOUS
<1>2. q \in Seq(States) /\ cur \in Seq(States) /\ Len(cur) <= 1
  BY DEF States, At
<1>3. Elems(q) = {At(1, 0)} /\ Elems(cur) = {}
  BY ElemsEmpty, ElemsSingle
<1>4. SeenOK
  BY DEF SeenOK
<1>5. DOMAIN state = {}
  OBVIOUS
<1>6. VerifierInv
  BY <1>1, <1>2, <1>3, <1>4, <1>5 DEF VerifierInv, At
<1>7. RunInv
  BY DEF RunInv
<1> QED
  BY <1>6, <1>7 DEF Inv

\* A step that changes neither the code nor the verifier's state.
LEMMA VerifierUnchanged ==
    ASSUME VerifierInv, UNCHANGED <<code, verifier>>
    PROVE  VerifierInv'
<1>1. SeenOK' <=> SeenOK
  BY ZenonT(30) DEF verifier, SeenOK, Succ, accepts, popped, advance, At, Position
<1>2. Elems(q)' = Elems(q) /\ Elems(cur)' = Elems(cur)
  BY DEF verifier, Elems
<1> QED
  BY <1>1, <1>2, ZenonT(30) DEF VerifierInv, verifier, accepts, popped, advance, At, Position

\* A step that keeps what was seen and the states to come.
LEMMA SeenKept ==
    ASSUME SeenOK, UNCHANGED <<code, seen, stackLength>>,
           (seen \cup Elems(q) \cup Elems(cur))' = seen \cup Elems(q) \cup Elems(cur)
    PROVE  SeenOK'
<1>1. ASSUME NEW s
      PROVE  (accepts(s))' = accepts(s) /\ (Succ(s))' = Succ(s)
  BY Zenon DEF Succ, accepts, popped, advance, At, Position
<1> QED
  BY <1>1, Zenon DEF SeenOK

LEMMA TakeInv == Inv /\ Take => Inv'
<1> SUFFICES ASSUME Inv, Take PROVE Inv'
  OBVIOUS
<1> DEFINE i == top(q)
<1>1. /\ phase = "verify" /\ cur = << >> /\ q # << >> /\ Elems(cur) = {}
      /\ q \in Seq(States)
  BY ElemsEmpty, ElemsSingle DEF Take, Inv, VerifierInv
<1>2. /\ pop(q) \in Seq(States) /\ i \in States
      /\ Elems(q) = Elems(pop(q)) \cup {i}
  BY <1>1, ElemsPop
<1>3. i = At(i.pc, i.ostack)
  BY <1>2 DEF States, At
<1> HIDE DEF i
<1>4. CASE phase' = "rejected" /\ UNCHANGED <<code, verifier, frame>>
  BY <1>4, VerifierUnchanged DEF Inv, RunInv, frame
<1>5. CASE /\ i.pc \in DOMAIN state /\ state[i.pc] = i.ostack
           /\ q' = pop(q)
           /\ UNCHANGED <<code, phase, cur, state, seen, stackLength, frame>>
  <2>1. i \in seen
    BY <1>3, <1>5 DEF Inv, VerifierInv
  <2>2. seen \cup Elems(q) \cup Elems(cur) = (seen \cup Elems(q) \cup Elems(cur))'
    BY <1>1, <1>2, <1>5, <2>1, ZenonT(60) DEF Elems
  <2>3. SeenOK'
    BY <1>5, <2>2, SeenKept, Zenon DEF Inv, VerifierInv
  <2>4. \A s \in (Elems(q) \cup Elems(cur))' : s.ostack <= stackLength'
    BY <1>1, <1>2, <1>5, ZenonT(60) DEF Inv, VerifierInv, Elems
  <2>5. VerifierInv'
    BY <1>1, <1>2, <1>5, <2>2, <2>3, <2>4 DEF Inv, VerifierInv, At
  <2> QED
    BY <1>1, <1>5, <2>5 DEF Inv, RunInv, frame
<1>6. CASE /\ q' = pop(q) /\ cur' = << i >>
           /\ UNCHANGED <<code, phase, state, seen, stackLength, frame>>
  <2>1. cur' \in Seq(States) /\ Len(cur') = 1 /\ Elems(cur') = {i}
    BY <1>2, <1>6, ElemsEmpty, ElemsSingle
  <2>2. seen \cup Elems(q) \cup Elems(cur) = (seen \cup Elems(q) \cup Elems(cur))'
    BY <1>1, <1>2, <1>6, <2>1
  <2>3. SeenOK'
    BY <1>6, <2>2, SeenKept, Zenon DEF Inv, VerifierInv
  <2>4. \A s \in (Elems(q) \cup Elems(cur))' : s.ostack <= stackLength'
    BY <1>1, <1>2, <1>6, <2>1 DEF Inv, VerifierInv
  <2>5. VerifierInv'
    BY <1>1, <1>2, <1>6, <2>1, <2>2, <2>3, <2>4 DEF Inv, VerifierInv, At
  <2> QED
    BY <1>1, <1>6, <2>5 DEF Inv, RunInv, frame
<1> QED
  BY <1>4, <1>5, <1>6 DEF Take, Visited, Reject, i

LEMMA StraightInv == Inv /\ Straight => Inv'
<1> SUFFICES ASSUME Inv, Straight PROVE Inv'
  OBVIOUS
<1> DEFINE i == cur[1]
           a == advance(code[i.pc], i.ostack)
<1>1. phase = "verify" /\ cur \in Seq(States) /\ q \in Seq(States) /\ Len(cur) = 1
  <2>1. /\ phase = "verify" /\ cur # << >>
        /\ cur \in Seq(States) /\ q \in Seq(States) /\ Len(cur) <= 1
    BY DEF Straight, Inv, VerifierInv
  <2>2. \A s \in Seq(States) : s # << >> => Len(s) \in Nat \ {0}
    BY EmptySeq, Zenon
  <2>3. Len(cur) \in Nat \ {0} /\ Len(cur) <= 1
    BY <2>1, <2>2, Zenon
  <2>4. Len(cur) = 1
    BY <2>3
  <2> QED
    BY <2>1, <2>4, Zenon
<1>2. i \in States /\ cur = << i >> /\ Elems(cur) = {i}
  <2>1. i \in States
    BY <1>1
  <2>2. cur = << i >>
    BY <1>1
  <2>3. Elems(<< i >>) = {i}
    BY ElemsSingle
  <2> QED
    BY <2>1, <2>2, <2>3, Zenon
<1>3. CASE Reject
  BY <1>1, <1>3, VerifierUnchanged DEF Inv, RunInv, frame, Reject
<1>4. CASE /\ accepts(i)
           /\ state' = [p \in DOMAIN state \cup {i.pc} |->
                            IF p = i.pc THEN i.ostack ELSE state[p]]
           /\ seen' = seen \cup {i}
           /\ Follow(i, code[i.pc], a)
           /\ UNCHANGED <<code, phase, frame>>
  <2>1. code[i.pc] \in Instruction /\ a \in Nat
    BY <1>2, <1>4, AdvanceNat DEF accepts, States, Inv, VerifierInv, Position
  <2>2. stackLength' \in Nat /\ stackLength <= stackLength' /\ a <= stackLength'
    BY <1>4, <2>1 DEF Follow, Inv, VerifierInv
  <2>3. /\ q' \in Seq(States)
        /\ Elems(q') = Elems(q) \cup
               (IF isJmp(code[i.pc]) THEN {At(code[i.pc].imm, a)} ELSE {})
    <3>1. At(code[i.pc].imm, a) \in States
      BY <2>1 DEF At, States, Instruction
    <3>2. q' = IF isJmp(code[i.pc]) THEN Append(q, At(code[i.pc].imm, a)) ELSE q
      BY <1>4, Zenon DEF Follow
    <3>3. CASE isJmp(code[i.pc])
      <4> DEFINE x == At(code[i.pc].imm, a)
      <4>1. q' = Append(q, x)
        BY <3>2, <3>3, Zenon
      <4>2. x \in States
        BY <3>1, Zenon
      <4> HIDE DEF x
      <4>3. Append(q, x) \in Seq(States) /\ Elems(Append(q, x)) = Elems(q) \cup {x}
        BY <1>1, <4>2, ElemsAppend
      <4> QED
        BY <3>3, <4>1, <4>3, Zenon DEF x
    <3>4. CASE ~isJmp(code[i.pc])
      <4>1. q' = q
        BY <3>2, <3>4, Zenon
      <4>2. Elems(q) = Elems(q) \cup {}
        BY Zenon
      <4> QED
        BY <1>1, <3>4, <4>1, <4>2, Zenon
    <3> QED
      BY <3>3, <3>4, Zenon
  <2>4. /\ cur' \in Seq(States) /\ Len(cur') <= 1
        /\ Elems(cur') = IF isExit(code[i.pc]) \/ code[i.pc].op = "br_" THEN {}
                         ELSE {At(i.pc + 1, a)}
    <3>1. At(i.pc + 1, a) \in States
      BY <1>2, <2>1 DEF At, States
    <3>2. CASE isExit(code[i.pc]) \/ code[i.pc].op = "br_"
      <4>1. cur' = << >>
        BY <1>4, <3>2 DEF Follow
      <4>2. << >> \in Seq(States) /\ Len(<< >>) = 0 /\ Elems(<< >>) = {}
        BY ElemsEmpty, ElemsSingle
      <4>3. cur' \in Seq(States) /\ Len(cur') = 0 /\ Elems(cur') = {}
        BY <4>1, <4>2
      <4> QED
        BY <3>2, <4>3
    <3>3. CASE ~(isExit(code[i.pc]) \/ code[i.pc].op = "br_")
      <4>1. cur' = << At(i.pc + 1, a) >>
        BY <1>4, <3>3 DEF Follow
      <4> QED
        BY <3>1, <3>3, <4>1, ElemsEmpty, ElemsSingle
    <3> QED
      BY <3>2, <3>3
  <2>5. seen \cup Elems(q) \cup Elems(cur) \subseteq (seen \cup Elems(q) \cup Elems(cur))'
    BY <1>2, <1>4, <2>3
  <2>6. Succ(i) \subseteq (seen \cup Elems(q) \cup Elems(cur))'
    BY <2>3, <2>4 DEF Succ
  <2>7. \A s \in Elems(q) \cup Elems(cur) : s.ostack <= stackLength
    BY DEF Inv, VerifierInv
  <2>8. SeenOK'
    <3> SUFFICES ASSUME NEW s \in seen'
                 PROVE  /\ s \in States /\ accepts(s) /\ s.ostack <= stackLength'
                        /\ Succ(s) \subseteq (seen \cup Elems(q) \cup Elems(cur))'
      BY <1>4, ZenonT(60) DEF SeenOK, Succ, accepts, popped, advance, At, Position
    <3>1. CASE s \in seen
      BY <2>2, <2>5, <3>1 DEF Inv, VerifierInv, SeenOK, States
    <3>2. CASE s = i
      BY <1>2, <1>4, <2>2, <2>6, <2>7, <3>2 DEF Inv, VerifierInv, States
    <3> QED
      BY <1>4, <3>1, <3>2
  <2>9. \A s \in (Elems(q) \cup Elems(cur))' : s.ostack <= stackLength'
    <3>1. \A s \in Elems(q) : s \in States /\ s.ostack <= stackLength'
      <4>1. Elems(q) = {q[k] : k \in 1 .. Len(q)}
        BY <1>1, ElemsDef
      <4>2. \A s \in Elems(q) : s \in States
        BY <1>1, <4>1
      <4> QED
        BY <2>2, <2>7, <4>2 DEF States, Inv, VerifierInv
    <3>2. \A p : At(p, a).ostack <= stackLength'
      BY <2>2 DEF At
    <3>3. \A s \in Elems(q') : s.ostack <= stackLength'
      BY <2>3, <3>1, <3>2, Zenon
    <3>4. \A s \in Elems(cur') : s.ostack <= stackLength'
      BY <2>4, <3>2, Zenon
    <3> QED
      BY <3>3, <3>4, Zenon DEF Elems
  <2>10. \A p \in DOMAIN state' : At(p, state'[p]) \in seen'
    BY <1>2, <1>4 DEF Inv, VerifierInv, At, States
  <2>11. VerifierInv'
    BY <1>4, <2>2, <2>3, <2>4, <2>5, <2>8, <2>9, <2>10, ZenonT(60) DEF Inv, VerifierInv, At
  <2> QED
    BY <1>1, <1>4, <2>11 DEF Inv, RunInv, frame
<1> QED
  BY <1>3, <1>4 DEF Straight

\* Outside of loops when the interpreter starts.
LEMMA InStart ==
    ASSUME NEW c \in Seq(Instruction), StructuredLoops(c)
    PROVE  In(c, 1) = {}
<1>1. \A b \in DOMAIN c : 1 \notin b + 1 .. c[b].imm
  OBVIOUS
<1> QED
  BY <1>1 DEF In

LEMMA VerifiedInv == Inv /\ Verified => Inv'
<1> SUFFICES ASSUME Inv, Verified PROVE Inv'
  OBVIOUS
<1>1. VerifierInv'
  BY VerifierUnchanged DEF Verified, Inv
<1> QED
  BY <1>1 DEF Inv, RunInv, Verified, verifier, frame

LEMMA LoopsUnchanged ==
    ASSUME LoopsOK, UNCHANGED <<code, seen, loops>>, In(code, pc') = In(code, pc)
    PROVE  LoopsOK'
BY DEF LoopsOK

LEMMA LayoutInv == Inv /\ Layout => Inv'
<1> SUFFICES ASSUME Inv, Layout PROVE Inv'
  OBVIOUS
<1>1. VerifierInv'
  BY VerifierUnchanged DEF Layout, Inv
<1>2. q = << >> /\ cur = << >> /\ pc = 1 /\ height = 0 /\ loops = << >>
  BY DEF Layout, Inv, RunInv
<1>3. At(pc, height) \in seen
  BY <1>2, ElemsEmpty DEF Inv, VerifierInv
<1>4. LoopsOK
  <2>1. loops \in Seq([begin : Nat, nodestack : Nat]) /\ Len(loops) = 0
    BY <1>2
  <2>2. Opened(loops, 0) = {}
    BY DEF Opened
  <2>3. In(code, pc) = {}
    BY <1>2, InStart DEF Inv, VerifierInv
  <2> QED
    BY <2>1, <2>2, <2>3 DEF LoopsOK
<1>5. LoopsOK'
  BY <1>4, LoopsUnchanged DEF Layout, verifier, frame
<1> QED
  BY <1>1, <1>2, <1>3, <1>5 DEF Inv, RunInv, Layout, verifier, frame

-----------------------------------------------------------------------------
(* The interpreter.                                                         *)

\* A state of the interpreter is one the verifier has seen, and so are those
\* the verifier went to from there.
LEMMA SeenStep ==
    ASSUME Inv, phase = "run", NEW s \in seen
    PROVE  /\ s \in States /\ s.pc \in DOMAIN code /\ code[s.pc] \in Instruction
           /\ popped(code[s.pc], s.ostack) >= 0
           /\ s.ostack <= stackLength
           /\ isExit(code[s.pc]) => advance(code[s.pc], s.ostack) = 0
           /\ advance(code[s.pc], s.ostack) \in Nat
           /\ Succ(s) \subseteq seen
<1>1. q = << >> /\ cur = << >>
  BY DEF Inv, RunInv
<1>2. Elems(q) = {} /\ Elems(cur) = {}
  BY <1>1, ElemsEmpty
<1>3. /\ s \in States /\ accepts(s) /\ s.ostack <= stackLength
      /\ Succ(s) \subseteq seen
  BY <1>2 DEF Inv, VerifierInv, SeenOK
<1>4. s.pc \in DOMAIN code /\ code[s.pc] \in Instruction
  BY <1>3 DEF accepts, Position, Inv, VerifierInv
<1> QED
  BY <1>3, <1>4, AdvanceNat DEF accepts, States

\* A step of the interpreter to a state that the verifier has seen, with the
\* right loop contexts.
LEMMA EnterState ==
    ASSUME Inv, phase = "run", phase' = "run", UNCHANGED <<code, verifier>>,
           height' \in Nat, At(pc, height)' \in seen, LoopsOK'
    PROVE  Inv'
<1>1. VerifierInv'
  BY VerifierUnchanged DEF Inv
<1>2. q = << >> /\ cur = << >>
  BY DEF Inv, RunInv
<1>3. q' = << >> /\ cur' = << >> /\ seen' = seen
  BY <1>2 DEF verifier
<1>4. At(pc, height)' \in seen'
  BY <1>3
<1>5. RunInv'
  BY <1>3, <1>4 DEF RunInv
<1> QED
  BY <1>1, <1>5 DEF Inv

\* A step within the loops that surround pc.
LEMMA SameLoops ==
    ASSUME Inv, phase = "run", phase' = "run", UNCHANGED <<code, verifier, loops>>,
           At(pc, height)' \in seen, In(code, pc') = In(code, pc)
    PROVE  Inv'
<1>1. LoopsOK
  BY DEF Inv, RunInv
<1>2. LoopsOK'
  BY <1>1, LoopsUnchanged DEF verifier
<1>3. height' \in Nat
  BY SeenStep DEF States, At
<1> QED
  BY <1>2, <1>3, EnterState

\* A step that ends the frame, or that stops for lack of operands.
LEMMA FrameEnds ==
    ASSUME Inv, UNCHANGED <<code, verifier>>, height' \in Nat,
           phase' = "underflow" \/ (phase' = "done" /\ height' = 0)
    PROVE  Inv'
<1>1. VerifierInv'
  BY VerifierUnchanged DEF Inv
<1> QED
  BY <1>1 DEF Inv, RunInv

\* The facts that every step of the interpreter starts from.
LEMMA RunFacts ==
    ASSUME Inv, phase = "run"
    PROVE  /\ pc \in DOMAIN code /\ pc \in Nat /\ height \in Nat
           /\ code \in Seq(Instruction) /\ StructuredLoops(code)
           /\ code[pc] \in Instruction
           /\ At(pc, height) \in seen /\ LoopsOK
           /\ height <= stackLength
           /\ Succ(At(pc, height)) \subseteq seen
<1>1. At(pc, height) \in seen /\ LoopsOK /\ height \in Nat
  BY DEF Inv, RunInv
<1>2. At(pc, height).pc = pc /\ At(pc, height).ostack = height
  BY DEF At
<1> QED
  BY <1>1, <1>2, SeenStep DEF Inv, VerifierInv, States

LEMMA PlainInv == Inv /\ Plain => Inv'
<1> SUFFICES ASSUME Inv, Plain PROVE Inv'
  OBVIOUS
<1> USE DEF instr
<1>1. phase = "run" /\ code[pc].op \notin Control
  BY DEF Plain, Running
<1>2. CASE phase' = "underflow" /\ UNCHANGED <<code, verifier, frame>>
  BY <1>1, <1>2, FrameEnds, RunFacts DEF frame
<1>3. ASSUME NEW added \in Nat,
             Goto(pc + 1, height + handler(code[pc], added).delta), UNCHANGED <<phase, loops>>
      PROVE  Inv'
  <2>1. code[pc] \in Instruction /\ height \in Nat /\ pc \in DOMAIN code
    BY <1>1, RunFacts
  <2>2. advance(code[pc], height) = height + handler(code[pc], added).delta
    <3>1. popped(code[pc], height) = height - popCount(code[pc])
      BY <1>1 DEF popped, Control, Jumps
    <3>2. handler(code[pc], added).delta = pushCount(code[pc]) - popCount(code[pc])
      BY <1>1, <2>1, HandlerCounts
    <3> QED
      BY <2>1, <3>1, <3>2, PushCountNat, PopCountNat DEF advance
  <2>3. Succ(At(pc, height)) = {At(pc + 1, height + handler(code[pc], added).delta)}
    BY <1>1, <2>2 DEF Succ, At, isJmp, isExit, Control, Jumps
  <2>4. At(pc, height)' \in seen
    BY <1>1, <1>3, <2>3, RunFacts DEF Goto, At
  <2>5. In(code, pc + 1) = In(code, pc)
    BY <1>1, InNext, RunFacts DEF Control, Jumps
  <2> QED
    BY <1>1, <1>3, <2>4, <2>5, SameLoops DEF Goto
<1> QED
  BY <1>2, <1>3 DEF Plain

\* Jumps and loops leave the stack alone; branches and exits take one value.
LEMMA ControlCounts ==
    ASSUME NEW i \in Instruction, NEW h \in Nat
    PROVE  /\ i.op \in {"br_", "beginloop_", "endloop_"} => advance(i, h) = h
           /\ i.op \in {"brtrue_", "brfalse_", "ret_"} =>
                  advance(i, h) = h - 1 /\ popped(i, h) = h - 1
<1>1. /\ i.op \in {"br_", "beginloop_", "endloop_"} => popCount(i) = 0
      /\ i.op \in {"brtrue_", "brfalse_", "ret_"} => popCount(i) = 1
  BY PopCounts
<1>2. i.op \in {"br_", "beginloop_", "endloop_", "brtrue_", "brfalse_", "ret_"} =>
          pushCount(i) = 0
  BY PushCounts DEF Control, Jumps
<1> QED
  BY <1>1, <1>2 DEF advance, popped

LEMMA BranchInv == Inv /\ Branch => Inv'
<1> SUFFICES ASSUME Inv, Branch PROVE Inv'
  OBVIOUS
<1> USE DEF instr
<1>1. phase = "run" /\ code[pc].op \in {"brtrue_", "brfalse_"}
  BY DEF Branch, Running
<1>2. CASE phase' = "underflow" /\ UNCHANGED <<code, verifier, frame>>
  BY <1>1, <1>2, FrameEnds, RunFacts DEF frame
<1>3. ASSUME NEW p \in {pc + 1, code[pc].imm}, Goto(p, height - 1), UNCHANGED <<phase, loops>>
      PROVE  Inv'
  <2>1. code[pc] \in Instruction /\ height \in Nat /\ pc \in DOMAIN code
    BY <1>1, RunFacts
  <2>2. advance(code[pc], height) = height - 1
    BY <1>1, <2>1, ControlCounts
  <2>3. Succ(At(pc, height)) = {At(pc + 1, height - 1), At(code[pc].imm, height - 1)}
    BY <1>1, <2>2 DEF Succ, At, isJmp, isExit, Jumps
  <2>4. At(pc, height)' \in seen
    BY <1>1, <1>3, <2>3, RunFacts DEF Goto, At
  <2>5. In(code, p) = In(code, pc)
    BY <1>1, <1>3, InNext, InJump, RunFacts DEF isJmp, Jumps
  <2> QED
    BY <1>1, <1>3, <2>4, <2>5, SameLoops DEF Goto
<1> QED
  BY <1>2, <1>3 DEF Branch

LEMMA BrInv == Inv /\ Br => Inv'
<1> SUFFICES ASSUME Inv, Br PROVE Inv'
  OBVIOUS
<1> USE DEF instr
<1>1. /\ phase = "run" /\ code[pc].op = "br_" /\ Goto(code[pc].imm, height)
      /\ UNCHANGED <<phase, loops>>
  BY DEF Br, Running
<1>2. code[pc] \in Instruction /\ height \in Nat /\ pc \in DOMAIN code
  BY <1>1, RunFacts
<1>3. advance(code[pc], height) = height
  BY <1>1, <1>2, ControlCounts
<1>4. Succ(At(pc, height)) = {At(code[pc].imm, height)}
  BY <1>1, <1>3 DEF Succ, At, isJmp, isExit, Jumps
<1>5. At(pc, height)' \in seen
  BY <1>1, <1>4, RunFacts DEF Goto, At
<1>6. In(code, code[pc].imm) = In(code, pc)
  BY <1>1, InJump, RunFacts DEF isJmp, Jumps
<1> QED
  BY <1>1, <1>5, <1>6, SameLoops DEF Goto

LEMMA OpenedSame ==
    ASSUME NEW l, NEW m, NEW k \in Nat, \A j \in 1 .. k : l[j] = m[j]
    PROVE  Opened(l, k) = Opened(m, k)
BY Zenon DEF Opened

LEMMA OpenedNext ==
    ASSUME NEW l, NEW k \in Nat
    PROVE  Opened(l, k + 1) = Opened(l, k) \cup {l[k + 1].begin}
<1>1. \A j : j \in 1 .. k + 1 <=> j \in 1 .. k \/ j = k + 1
  OBVIOUS
<1> QED
  BY <1>1, Zenon DEF Opened

LEMMA BeginLoopInv == Inv /\ BeginLoop => Inv'
<1> SUFFICES ASSUME Inv, BeginLoop PROVE Inv'
  OBVIOUS
<1> USE DEF instr
<1> DEFINE C == [begin : Nat, nodestack : Nat]
           r == [begin |-> pc, nodestack |-> height]
           n == Len(loops)
<1>1. /\ phase = "run" /\ code[pc].op = "beginloop_" /\ Goto(pc + 1, height)
      /\ loops' = Append(loops, r) /\ phase' = phase
  BY DEF BeginLoop, Running
<1>2. code[pc] \in Instruction /\ height \in Nat /\ pc \in DOMAIN code /\ pc \in Nat
  BY <1>1, RunFacts
<1>3. advance(code[pc], height) = height
  BY <1>1, <1>2, ControlCounts
<1>4. At(pc + 1, height) \in Succ(At(pc, height))
  BY <1>1, <1>3 DEF Succ, At, isJmp, isExit, Jumps
<1>5. At(pc, height)' \in seen
  BY <1>1, <1>4, RunFacts DEF Goto, At
<1>6. /\ loops \in Seq(C) /\ n \in Nat /\ r \in C
      /\ loops' \in Seq(C) /\ Len(loops') = n + 1
      /\ \A k \in 1 .. n : loops'[k] = loops[k]
      /\ loops'[n + 1] = r
  BY <1>1, <1>2, RunFacts DEF LoopsOK
<1> HIDE DEF n, C, r
<1>7. \A k \in 0 .. n : Opened(loops', k) = Opened(loops, k)
  <2> SUFFICES ASSUME NEW k \in 0 .. n PROVE Opened(loops', k) = Opened(loops, k)
    OBVIOUS
  <2>1. k \in Nat /\ \A j \in 1 .. k : loops'[j] = loops[j]
    BY <1>6
  <2> QED
    BY <2>1, OpenedSame
<1>8. Opened(loops', n + 1) = Opened(loops, n) \cup {pc}
  <2>1. Opened(loops', n + 1) = Opened(loops', n) \cup {loops'[n + 1].begin}
    BY <1>6, OpenedNext
  <2>2. Opened(loops', n) = Opened(loops, n)
    BY <1>6, <1>7
  <2>3. r.begin = pc
    BY DEF r
  <2> QED
    BY <1>6, <2>1, <2>2, <2>3
<1>9. In(code, pc) = Opened(loops, n) /\ In(code, pc + 1) = In(code, pc) \cup {pc}
  BY <1>1, <1>2, RunFacts, InBegin DEF LoopsOK, n
<1>10. LoopsOK'
  <2>1. In(code, pc)' = Opened(loops', Len(loops'))
    BY <1>1, <1>6, <1>8, <1>9 DEF Goto, In
  <2>2. ASSUME NEW k \in 1 .. n + 1
        PROVE  /\ loops'[k].begin \in DOMAIN code
               /\ code[loops'[k].begin].op = "beginloop_"
               /\ At(loops'[k].begin, loops'[k].nodestack) \in seen
               /\ In(code, loops'[k].begin) = Opened(loops', k - 1)
    <3>1. CASE k = n + 1
      <4>1. /\ loops'[k] = r /\ r.begin = pc /\ r.nodestack = height
            /\ k - 1 = n /\ n \in 0 .. n
        BY <1>6, <3>1 DEF r
      <4>2. In(code, pc) = Opened(loops', k - 1)
        BY <1>7, <1>9, <4>1, Zenon
      <4>3. At(pc, height) \in seen
        BY <1>1, RunFacts, Zenon
      <4> QED
        BY <1>1, <1>2, <4>1, <4>2, <4>3, Zenon
    <3>2. CASE k \in 1 .. n
      <4>1. k - 1 \in 0 .. n
        BY <1>6, <3>2
      <4> QED
        BY <1>1, <1>6, <1>7, <3>2, <4>1, RunFacts, ZenonT(60) DEF LoopsOK, n
    <3>3. k = n + 1 \/ k \in 1 .. n
      BY <1>6
    <3> QED
      BY <3>1, <3>2, <3>3, Zenon
  <2> QED
    BY <1>1, <1>6, <2>1, <2>2, ZenonT(60) DEF LoopsOK, Goto, verifier, In, At, C
<1>11. height' \in Nat /\ UNCHANGED <<code, verifier>>
  BY <1>1, <1>2 DEF Goto
<1> QED
  BY <1>1, <1>5, <1>10, <1>11, EnterState

\* What is known of the innermost loop.
LEMMA InnermostLoop ==
    ASSUME Inv, phase = "run", loops # << >>
    PROVE  LET b == top(loops).begin
               h == top(loops).nodestack
               e == code[b].imm
           IN  /\ b \in DOMAIN code /\ b \in Nat /\ h \in Nat /\ code[b].op = "beginloop_"
               /\ e \in DOMAIN code /\ e \in Nat /\ code[e].op = "endloop_"
               /\ At(b + 1, h) \in seen /\ At(e + 1, h) \in seen
               /\ Opened(loops, Len(loops)) = In(code, b) \cup {b}
               /\ In(code, b) = Opened(loops, Len(loops) - 1)
<1> DEFINE n == Len(loops)
           b == top(loops).begin
           h == top(loops).nodestack
           e == code[b].imm
<1>1. /\ loops \in Seq([begin : Nat, nodestack : Nat]) /\ n \in Nat \ {0}
      /\ code \in Seq(Instruction) /\ StructuredLoops(code)
  BY RunFacts DEF LoopsOK
<1>2. /\ b \in DOMAIN code /\ b \in Nat /\ h \in Nat /\ code[b].op = "beginloop_"
      /\ At(b, h) \in seen /\ In(code, b) = Opened(loops, n - 1)
  <2>1. n \in 1 .. Len(loops) /\ top(loops) = loops[n]
    BY <1>1 DEF top
  <2>2. top(loops) \in [begin : Nat, nodestack : Nat]
    BY <1>1, ElemsPop, ZenonT(60)
  <2>3. /\ loops[n].begin \in DOMAIN code
        /\ code[loops[n].begin].op = "beginloop_"
        /\ At(loops[n].begin, loops[n].nodestack) \in seen
        /\ In(code, loops[n].begin) = Opened(loops, n - 1)
    BY <2>1, RunFacts DEF LoopsOK
  <2> QED
    BY <2>1, <2>2, <2>3
<1>3. e \in DOMAIN code /\ e \in Nat /\ code[e].op = "endloop_"
  BY <1>1, <1>2, InBegin
<1>4. code[b] \in Instruction /\ code[e] \in Instruction
  BY <1>1, <1>2, <1>3
<1>5. Succ(At(b, h)) = {At(e, h), At(b + 1, h)}
  <2>1. advance(code[b], h) = h
    BY <1>2, <1>4, ControlCounts
  <2> QED
    BY <1>2, <2>1 DEF Succ, At, isJmp, isExit, Jumps
<1>6. At(e, h) \in seen /\ At(b + 1, h) \in seen
  BY <1>2, <1>5, SeenStep
<1>7. Succ(At(e, h)) = {At(e + 1, h)}
  <2>1. advance(code[e], h) = h
    BY <1>2, <1>3, <1>4, ControlCounts
  <2> QED
    BY <1>3, <2>1 DEF Succ, At, isJmp, isExit, Jumps
<1>8. At(e + 1, h) \in seen
  BY <1>6, <1>7, SeenStep
<1>9. Opened(loops, n) = Opened(loops, n - 1) \cup {b}
  <2>1. n - 1 \in Nat /\ n - 1 + 1 = n
    BY <1>1
  <2>2. Opened(loops, n - 1 + 1) = Opened(loops, n - 1) \cup {loops[n - 1 + 1].begin}
    BY <2>1, OpenedNext, ZenonT(60)
  <2> QED
    BY <2>1, <2>2 DEF top
<1> QED
  BY <1>2, <1>3, <1>6, <1>8, <1>9

\* Leaving the innermost loop in a state its endloop_ leads to.
LEMMA LeaveLoopInv ==
    ASSUME Inv, phase = "run", loops # << >>, NEW h \in Nat, LeaveLoop(h),
           At(code[top(loops).begin].imm + 1, h) \in seen
    PROVE  Inv'
<1> DEFINE C == [begin : Nat, nodestack : Nat]
           n == Len(loops)
           b == top(loops).begin
           e == code[b].imm
<1>1. /\ b \in DOMAIN code /\ code[b].op = "beginloop_"
      /\ e \in DOMAIN code /\ code[e].op = "endloop_"
      /\ In(code, b) = Opened(loops, n - 1)
  BY InnermostLoop
<1>2. /\ loops' = pop(loops) /\ Goto(e + 1, h) /\ phase' = phase
  BY <1>1, RunFacts DEF LeaveLoop, Position
<1>3. /\ loops \in Seq(C) /\ n \in Nat \ {0}
      /\ loops' \in Seq(C) /\ Len(loops') = n - 1
      /\ \A k \in 1 .. n - 1 : loops'[k] = loops[k]
  <2>1. loops \in Seq(C)
    BY RunFacts DEF LoopsOK
  <2>2. n \in Nat \ {0}
    BY <2>1
  <2>3. /\ pop(loops) \in Seq(C) /\ Len(pop(loops)) = n - 1
        /\ \A k \in 1 .. n - 1 : pop(loops)[k] = loops[k]
    BY <2>1, ElemsPop, ZenonT(60)
  <2> QED
    BY <1>2, <2>1, <2>2, <2>3
<1>4. In(code, e + 1) = In(code, b)
  BY <1>1, InBegin, RunFacts
<1> HIDE DEF n, C, b, e
<1>5. \A k \in 0 .. n - 1 : Opened(loops', k) = Opened(loops, k)
  <2> SUFFICES ASSUME NEW k \in 0 .. n - 1 PROVE Opened(loops', k) = Opened(loops, k)
    OBVIOUS
  <2>1. k \in Nat /\ \A j \in 1 .. k : loops'[j] = loops[j]
    BY <1>3
  <2> QED
    BY <2>1, OpenedSame
<1>6. LoopsOK'
  <2>1. In(code, pc)' = Opened(loops', Len(loops'))
    BY <1>1, <1>2, <1>3, <1>4, <1>5 DEF Goto, In
  <2>2. ASSUME NEW k \in 1 .. n - 1
        PROVE  /\ loops'[k].begin \in DOMAIN code
               /\ code[loops'[k].begin].op = "beginloop_"
               /\ At(loops'[k].begin, loops'[k].nodestack) \in seen
               /\ In(code, loops'[k].begin) = Opened(loops', k - 1)
    <3>1. k - 1 \in 0 .. n - 1 /\ k \in 1 .. n
      BY <1>3
    <3> QED
      BY <1>3, <1>5, <3>1, RunFacts, ZenonT(60) DEF LoopsOK, n
  <2> QED
    BY <1>2, <1>3, <2>1, <2>2 DEF LoopsOK, Goto, verifier, In, At, C
<1>7. height' \in Nat /\ UNCHANGED <<code, verifier>>
  BY <1>2 DEF Goto
<1>8. At(pc, height)' \in seen
  BY <1>2 DEF Goto, At, b, e
<1> QED
  BY <1>2, <1>6, <1>7, <1>8, EnterState

LEMMA EndLoopInv == Inv /\ EndLoop => Inv'
<1> SUFFICES ASSUME Inv, EndLoop PROVE Inv'
  OBVIOUS
<1> USE DEF instr
<1> DEFINE n == Len(loops)
           b == top(loops).begin
<1>1. phase = "run" /\ code[pc].op = "endloop_"
  BY DEF EndLoop, Running
<1>2. In(code, pc) = Opened(loops, n)
  BY <1>1, RunFacts, Zenon DEF LoopsOK
<1>3. loops # << >>
  <2> SUFFICES ASSUME loops = << >> PROVE FALSE
    OBVIOUS
  <2>1. PICK a \in DOMAIN code : code[a].op = "beginloop_" /\ code[a].imm = pc
    BY <1>1, RunFacts, Structure
  <2>2. a \in In(code, pc)
    <3>1. /\ code \in Seq(Instruction) /\ StructuredLoops(code)
          /\ a \in Nat /\ pc \in Nat
      BY <1>1, RunFacts
    <3>2. pc \in a + 1 .. code[a].imm
      BY <2>1, <3>1, Structure
    <3> QED
      BY <2>1, <3>2, Zenon DEF In
  <2>3. Opened(loops, n) = {}
    BY DEF Opened
  <2> QED
    BY <1>2, <2>2, <2>3
<1>4. LeaveLoop(height) /\ height \in Nat
  BY <1>1, <1>3, RunFacts DEF EndLoop
<1>5. In(code, pc) = In(code, b) \cup {b} /\ b \in In(code, pc)
  BY <1>1, <1>2, <1>3, InnermostLoop
<1>6. code[b].imm = pc
  BY <1>1, <1>5, RunFacts, InEnd
<1>7. Succ(At(pc, height)) = {At(pc + 1, height)}
  <2>1. advance(code[pc], height) = height
    BY <1>1, RunFacts, ControlCounts
  <2> QED
    BY <1>1, <2>1 DEF Succ, At, isJmp, isExit, Jumps
<1>8. At(code[b].imm + 1, height) \in seen
  BY <1>1, <1>6, <1>7, RunFacts
<1> QED
  BY <1>1, <1>3, <1>4, <1>8, LeaveLoopInv

LEMMA BreakInv == Inv /\ Break => Inv'
<1> SUFFICES ASSUME Inv, Break PROVE Inv'
  OBVIOUS
<1>1. phase = "run" /\ loops # << >> /\ LeaveLoop(top(loops).nodestack)
  BY DEF Break, Running
<1>2. /\ top(loops).nodestack \in Nat
      /\ At(code[top(loops).begin].imm + 1, top(loops).nodestack) \in seen
  BY <1>1, InnermostLoop
<1> QED
  BY <1>1, <1>2, LeaveLoopInv

LEMMA ContinueInv == Inv /\ Continue => Inv'
<1> SUFFICES ASSUME Inv, Continue PROVE Inv'
  OBVIOUS
<1> DEFINE b == top(loops).begin
           h == top(loops).nodestack
<1>1. phase = "run" /\ loops # << >> /\ Goto(b + 1, h) /\ UNCHANGED <<phase, loops>>
  BY DEF Continue, Running
<1>2. /\ b \in DOMAIN code /\ code[b].op = "beginloop_" /\ At(b + 1, h) \in seen
      /\ Opened(loops, Len(loops)) = In(code, b) \cup {b}
  BY <1>1, InnermostLoop
<1>3. In(code, b + 1) = In(code, b) \cup {b}
  BY <1>1, <1>2, RunFacts, InBegin
<1>4. In(code, pc) = Opened(loops, Len(loops))
  BY <1>1, RunFacts DEF LoopsOK
<1>5. At(pc, height)' \in seen
  BY <1>1, <1>2 DEF Goto, At
<1> QED
  BY <1>1, <1>2, <1>3, <1>4, <1>5, SameLoops DEF Goto

LEMMA UnwindInv == Inv /\ Unwind => Inv'
BY FrameEnds DEF Unwind, Finish

LEMMA OsrInv == Inv /\ Osr => Inv'
BY FrameEnds DEF Osr, Finish

LEMMA ReturnOpInv == Inv /\ ReturnOp => Inv'
<1> SUFFICES ASSUME Inv, ReturnOp PROVE Inv'
  OBVIOUS
<1>1. phase = "run" /\ height \in Nat
  BY RunFacts DEF ReturnOp, Running
<1>2. CASE phase' = "underflow" /\ UNCHANGED <<code, verifier, frame>>
  BY <1>1, <1>2, FrameEnds DEF frame
<1>3. CASE Finish(0)
  BY <1>3, FrameEnds DEF Finish
<1> QED
  BY <1>2, <1>3 DEF ReturnOp

LEMMA RetInv == Inv /\ Ret => Inv'
<1> SUFFICES ASSUME Inv, Ret PROVE Inv'
  OBVIOUS
<1> USE DEF instr
<1>1. phase = "run" /\ code[pc].op = "ret_"
  BY DEF Ret, Running
<1>2. /\ pc \in DOMAIN code /\ code[pc] \in Instruction /\ height \in Nat
      /\ code \in Seq(Instruction) /\ StructuredLoops(code)
      /\ At(pc, height) \in seen
  BY <1>1, RunFacts
<1>3. loops = << >>
  <2> SUFFICES ASSUME loops # << >> PROVE FALSE
    OBVIOUS
  <2> DEFINE b == top(loops).begin
  <2>1. b \in In(code, pc)
    <3>1. b \in Opened(loops, Len(loops))
      BY <1>1, InnermostLoop
    <3> QED
      BY <1>1, <3>1, RunFacts DEF LoopsOK
  <2>2. b \in DOMAIN code /\ code[b].op = "beginloop_" /\ pc \in b .. code[b].imm
    BY <1>2, <2>1 DEF In
  <2>3. \A p \in b .. code[b].imm : code[p].op # "ret_"
    BY <1>2, <2>2, Structure
  <2> QED
    BY <1>1, <2>2, <2>3
<1>4. Finish(height - 1)
  BY <1>3 DEF Ret
<1>5. height - 1 = 0
  <2>1. isExit(code[pc])
    BY <1>1 DEF isExit
  <2>2. At(pc, height).pc = pc /\ At(pc, height).ostack = height
    BY DEF At
  <2>3. advance(code[pc], height) = 0
    BY <1>1, <1>2, <2>1, <2>2, SeenStep
  <2> QED
    BY <1>1, <1>2, <2>3, ControlCounts
<1> QED
  BY <1>4, <1>5, FrameEnds DEF Finish

-----------------------------------------------------------------------------
(* The theorems.                                                            *)

LEMMA NextInv == Inv /\ [Next]_vars => Inv'
<1> SUFFICES ASSUME Inv, [Next]_vars PROVE Inv'
  OBVIOUS
<1>1. CASE UNCHANGED vars
  <2>1. /\ UNCHANGED <<code, verifier>> /\ phase' = phase
        /\ pc' = pc /\ height' = height /\ loops' = loops
    BY <1>1 DEF vars, frame
  <2>2. VerifierInv'
    BY <2>1, VerifierUnchanged DEF Inv
  <2>3. LoopsOK => LoopsOK'
    BY <2>1, LoopsUnchanged DEF verifier
  <2> QED
    BY <2>1, <2>2, <2>3 DEF Inv, RunInv, verifier, At
<1>2. CASE Verify
  BY <1>2, TakeInv, StraightInv, VerifiedInv, LayoutInv DEF Verify
<1>3. CASE Run
  BY <1>3, PlainInv, BranchInv, BrInv, BeginLoopInv, EndLoopInv, BreakInv, ContinueInv,
     UnwindInv, OsrInv, ReturnOpInv, RetInv DEF Run
<1> QED
  BY <1>1, <1>2, <1>3 DEF Next, Terminated

\* The inductive invariant holds of every code of every length: once the
\* verifier has accepted it, evalRirCode only meets positions and heights that
\* calculateAndVerifyStack went through.
THEOREM VerifierInvariant == Spec => []Inv
<1>1. Init => Inv
  BY InitInv
<1>2. Inv /\ [Next]_vars => Inv'
  BY NextInv
<1> QED
  BY <1>1, <1>2, PTL DEF Spec

\* Of every code whose loops have the compiler's shape: if the verifier accepts
\* it, the interpreter never leaves the code or the stackLength computed for it.
THEOREM BoundsSound == Spec => []StaysInBounds
<1>1. Inv => StaysInBounds
  <2> SUFFICES ASSUME Inv, phase = "run" PROVE StaysInBounds
    BY DEF StaysInBounds
  <2>1. /\ pc \in Position /\ height <= stackLength /\ height \in Nat
        /\ instr \in Instruction /\ stackLength \in Nat
    BY RunFacts DEF Position, instr, Inv, VerifierInv
  <2>2. ASSUME NEW added \in 0 .. MaxAdded, added < Slack
        PROVE  height + handler(instr, added).scratch <= stackLength + Slack
    BY <2>1, <2>2, HandlerScratch, CodeAssumption
  <2> QED
    BY <2>1, <2>2 DEF StaysInBounds
<1> QED
  BY <1>1, VerifierInvariant, PTL

\* ... every loop body returns nothing but the marker of endloop_, to the loop
\* it belongs to, and that marker never reaches the caller of the code.
THEOREM LoopsSound == Spec => []LoopsEndWithMarker
<1>1. Inv => LoopsEndWithMarker
  BY DEF LoopsEndWithMarker, Inv, RunInv
<1> QED
  BY <1>1, VerifierInvariant, PTL

\* ... and the frame leaves the operand stack as it found it, however it ends.
THEOREM ReturnsSound == Spec => []ReturnsClean
<1>1. Inv => ReturnsClean
  BY DEF ReturnsClean, Inv, RunInv
<1> QED
  BY <1>1, VerifierInvariant, PTL

\* The code has none of the instructions whose operands insns.h does not count.
OperandsCounted ==
    \A c \in Codes : \A p \in DOMAIN c : c[p].op \notin Addresses \cup {"return_"}

LEMMA UnderflowStep ==
    ASSUME OperandsCounted, Inv, code \in Codes, phase # "underflow", [Next]_vars
    PROVE  phase' # "underflow"
<1> USE DEF instr
<1>1. ASSUME Plain PROVE phase' # "underflow"
  <2>1. phase = "run" /\ code[pc].op \notin Control
    BY <1>1 DEF Plain, Running
  <2>2. /\ pc \in DOMAIN code /\ code[pc] \in Instruction /\ height \in Nat
        /\ At(pc, height) \in seen
    BY <2>1, RunFacts
  <2>3. code[pc].op \notin Addresses
    BY <2>2 DEF OperandsCounted
  <2>4. popped(code[pc], height) >= 0
    BY <2>1, <2>2, SeenStep DEF At
  <2>5. height >= popCount(code[pc])
    BY <2>1, <2>2, <2>4, PopCountNat DEF popped, Control, Jumps
  <2>6. \A added \in Nat : ~(height < handler(code[pc], added).needs)
    BY <2>1, <2>2, <2>3, <2>5, HandlerCounts, PopCountNat
  <2>7. \A added \in 0 .. (IF code[pc].op \in Calls THEN MaxAdded ELSE 0) : added \in Nat
    OBVIOUS
  <2> QED
    BY <1>1, <2>1, <2>6, <2>7 DEF Plain
<1>2. ASSUME Branch PROVE phase' # "underflow"
  <2>1. phase = "run" /\ code[pc].op \in {"brtrue_", "brfalse_"}
    BY <1>2 DEF Branch, Running
  <2>2. /\ pc \in DOMAIN code /\ code[pc] \in Instruction /\ height \in Nat
        /\ At(pc, height) \in seen
    BY <2>1, RunFacts
  <2>3. popped(code[pc], height) >= 0 /\ popped(code[pc], height) = height - 1
    BY <2>1, <2>2, SeenStep, ControlCounts DEF At
  <2> QED
    BY <1>2, <2>1, <2>2, <2>3 DEF Branch
<1>3. ASSUME ReturnOp PROVE phase' # "underflow"
  <2>1. phase = "run" /\ code[pc].op = "return_"
    BY <1>3 DEF ReturnOp, Running
  <2> QED
    BY <2>1, RunFacts DEF OperandsCounted
<1>4. ASSUME Verify PROVE phase' # "underflow"
  BY <1>4 DEF Verify, Take, Visited, Straight, Verified, Layout, Reject
<1>5. ASSUME Br \/ BeginLoop \/ EndLoop \/ Break \/ Continue \/ Unwind \/ Osr \/ Ret
      PROVE  phase' # "underflow"
  BY <1>5, ZenonT(60) DEF Br, BeginLoop, EndLoop, Break, Continue, Unwind, Osr, Ret, LeaveLoop,
     AssertFails, Finish
<1> QED
  BY <1>1, <1>2, <1>3, <1>4, <1>5 DEF Next, Run, Terminated, vars

\* Of every code that has none of put_, pick_, pull_, for_seq_size_ and return_:
\* what the verifier accepts never reads or pops a value that is not its own.
THEOREM OperandsSound ==
    ASSUME OperandsCounted
    PROVE  Spec => []NeverUnderflows
<1> DEFINE J == Inv /\ code \in Codes /\ phase # "underflow"
<1>1. Init => J
  BY InitInv DEF Init, Start
<1>2. J /\ [Next]_vars => J'
  <2> SUFFICES ASSUME J, [Next]_vars PROVE J'
    OBVIOUS
  <2>1. code' = code
    BY ZenonT(60) DEF Next, Verify, Run, Terminated, vars, Take, Visited, Straight, Verified, Layout,
       Reject, Plain, Branch, Br, BeginLoop, EndLoop, Break, Continue, Unwind, Osr,
       ReturnOp, Ret, LeaveLoop, AssertFails, Finish, Goto
  <2>2. Inv' /\ phase' # "underflow"
    BY NextInv, UnderflowStep
  <2> QED
    BY <2>1, <2>2
<1>3. J => NeverUnderflows
  BY DEF NeverUnderflows, Inv, RunInv
<1> QED
  BY <1>1, <1>2, <1>3, PTL DEF Spec

=============================================================================
