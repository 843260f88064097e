---------------------------- MODULE CodeAnalyses ----------------------------
(***************************************************************************)
(* The analyses of PIR code on every edge-split graph of at most MaxBlocks *)
(* blocks, built block by block, and on SSA programs over some of them:    *)
(* dominance, loops, phi placement, liveness and the allocation of slots.  *)
(***************************************************************************)
EXTENDS Allocator

CONSTANTS MaxBlocks,
          MaxInstrs     \* instructions of a program next to the two in its entry

\* The graphs that get programs, as the successors of their blocks: a diamond, a
\* loop, and a loop without an end next to an exit.
Shapes ==
    {<< << 1, 2 >>, << 3 >>, << 3 >>, << >> >>,
     << << 1 >>, << 2, 3 >>, << 1 >>, << >> >>,
     << << 1, 2 >>, << 3 >>, << >>, << 4 >>, << 3 >> >>}

VARIABLES g,        \* the successors of the first blocks
          known,    \* number of blocks that are successors or the entry
          single,   \* blocks that may have no further predecessor
          bb, ins,  \* the instructions of the program
          phase,    \* "graph", "dominators", "analysed", "placed" or, with a program, "phis", "instrs",
                    \* "inputs", "cssa" and "allocated"
          result    \* what was computed in this phase

graph == << g, known, single >>
vars == << graph, bb, ins, phase, result >>

Init == /\ g = << >> /\ known = 1 /\ single = {entry}
        /\ bb = << >> /\ ins = << >> /\ phase = "graph" /\ result = << >>

----------------------------------------------------------------------------
(* Graphs *)

cur == Cardinality(DOMAIN g)
complete == phase = "graph" /\ cur = known
building == phase = "graph" /\ cur < known
addBlock(succs) ==
    /\ building /\ g' = [b \in 0..cur |-> IF b = cur THEN succs ELSE g[b]]
    /\ UNCHANGED << bb, ins, phase, result >>

Exit == addBlock(<< >>) /\ UNCHANGED << known, single >>

Jump ==
    /\ \E b \in 0..known : /\ b \notin single /\ b < MaxBlocks
                           /\ addBlock(<< b >>)
                           /\ known' = IF b = known THEN known + 1 ELSE known
    /\ UNCHANGED single

\* The verifier wants the successors of a branch to have no other predecessor.
Branch ==
    /\ known + 1 < MaxBlocks
    /\ addBlock(<< known, known + 1 >>)
    /\ known' = known + 2 /\ single' = single \cup {known, known + 1}

RECURSIVE reach(_, _, _)
\* The blocks reached from the set s without entering the set avoid.
reach(h, s, avoid) ==
    LET t == s \cup (UNION {Succ(h, b) : b \in s} \ avoid) IN IF t = s THEN s ELSE reach(h, t, avoid)

onEveryPath(a, b) == a = b \/ b \notin reach(g, {entry} \ {a}, {a})

Dominators ==
    /\ complete /\ phase' = "dominators"
    /\ result' = DominanceGraph(g)
    /\ UNCHANGED << graph, bb, ins >>

Analyse ==
    /\ phase = "dominators" /\ phase' = "analysed"
    /\ result' = [frontier |-> DominanceFrontier(g, result), tree |-> DominatorTreeVisitor(g, result),
                  loops |-> Loops(g, result)]
    /\ UNCHANGED << graph, bb, ins >>

PlacePhis ==
    /\ phase = "analysed" /\ phase' = "placed"
    /\ \E writes \in {w \in SUBSET Blocks(g) : Cardinality(w) \in 1..3} :
          LET p == PhiPlacement(g, writes, result.tree, result.frontier)
          IN  result' = [writes |-> writes, placement |-> p.placement, dominatingPhi |-> p.dominatingPhi]
    /\ UNCHANGED << graph, bb, ins >>

----------------------------------------------------------------------------
(* Programs *)

code == [succ |-> g, bb |-> bb, ins |-> ins]
ids == DOMAIN ins

StartProgram ==
    /\ complete /\ \E s \in Shapes : g = [b \in 0..(Len(s) - 1) |-> s[b + 1]]
    /\ phase' = "phis"
    /\ bb' = [b \in Blocks(g) |-> IF b = entry THEN << 1, 2 >> ELSE << >>]
    /\ ins' = << Instr("Op", << >>), Instr("Op", << >>) >>
    /\ UNCHANGED << graph, result >>

addInstr(b, i) == /\ bb' = [bb EXCEPT ![b] = Append(@, Len(ins) + 1)]
                  /\ ins' = Append(ins, i)

\* Blocks are filled in their order.
inOrder(b) == \A i \in ids : i > 2 /\ isPhi(code, i) = (phase = "phis") => blockOf(code, i) <= b

\* The verifier refuses a phi with an input from its own block.
AddPhi ==
    /\ phase = "phis" /\ Len(ins) < MaxInstrs + 2
    /\ \E b \in Blocks(g) : /\ isMerge(g, b) /\ b \notin Succ(g, b) /\ inOrder(b)
                            /\ addInstr(b, Phi(<< >>, SetToSeq(predecessors(g, b))))
    /\ UNCHANGED << graph, phase, result >>

EndPhis == phase = "phis" /\ phase' = "instrs" /\ UNCHANGED << graph, bb, ins, result >>

available(b) == {i \in ids : onEveryPath(blockOf(code, i), b)}

AddInstr ==
    /\ phase = "instrs" /\ Len(ins) < MaxInstrs + 2
    /\ \E b \in Blocks(g) : /\ inOrder(b)
                            /\ \E tag \in {"Op", "FrameState"} :
                               \E args \in SeqOf(available(b), 2) \ {<< >>} :
                                   /\ tag = "FrameState" => Len(args) = 1
                                   /\ Len(args) = 2 => args[1] < args[2]
                                   /\ addInstr(b, Instr(tag, args))
    /\ UNCHANGED << graph, phase, result >>

EndInstrs == phase = "instrs" /\ phase' = "inputs" /\ UNCHANGED << graph, bb, ins, result >>

\* Only now are the inputs known that come around a loop.
SetInputs ==
    /\ phase = "inputs"
    /\ \E i \in ids :
          /\ isPhi(code, i) /\ ins[i].args = << >>
          /\ \A j \in 1..(i - 1) : isPhi(code, j) => ins[j].args # << >>
          /\ \E args \in [DOMAIN ins[i].input -> {v \in ids : ~isCompositeValue(code, v)}] :
                /\ \A k \in DOMAIN args : args[k] \in available(ins[i].input[k])
                /\ ins' = [ins EXCEPT ![i].args = args]
    /\ UNCHANGED << graph, bb, phase, result >>

\* Programs with more than one unused value add nothing.
EndInputs ==
    /\ phase = "inputs" /\ \A i \in ids : isPhi(code, i) => ins[i].args # << >>
    /\ Cardinality({i \in ids : \A j \in ids : i \notin Range(ins[j].args)}) <= 1
    /\ phase' = "cssa"
    /\ LET c == toCSSA(code) IN result' = [cssa |-> c, intervals |-> LivenessIntervals(c)]
    /\ UNCHANGED << graph, bb, ins >>

\* The phis are visited in any order of the blocks.
Allocate ==
    /\ phase = "cssa" /\ phase' = "allocated"
    /\ \E order \in genericRun(result.cssa.succ, "Random", entry, null) :
          result' = [cssa |-> result.cssa, allocation |-> compute(result.cssa, result.intervals, order)]
    /\ UNCHANGED << graph, bb, ins >>

Next == \/ Exit \/ Jump \/ Branch \/ Dominators \/ Analyse \/ PlacePhis
        \/ StartProgram \/ AddPhi \/ EndPhis \/ AddInstr \/ EndInstrs \/ SetInputs \/ EndInputs
        \/ Allocate

Spec == Init /\ [][Next]_vars

----------------------------------------------------------------------------
(* Properties of graphs *)

\* Walks of the graph see all of its paths.  The visitors visit every block
\* once, whatever their order; isPredecessor tells whether there is a path of at
\* least one edge; a block is in dominatedSet(S) when every path to it meets S;
\* dominates tells whether every path from the entry to b contains a; and the
\* frontier of b are the blocks where its dominance stops: b dominates a
\* predecessor of them, but does not strictly dominate them.
QueriesMatchPaths ==
    /\ complete =>
         /\ \A order \in {"Random", "Breadth", "Depth"} : \A v \in genericRun(g, order, entry, null) :
                Len(v) = cur /\ Range(v) = Blocks(g)
         /\ \A a, b \in Blocks(g) : isPredecessor(g, a, b) <=> b \in reach(g, Succ(g, a), {})
         /\ \A S \in SUBSET Blocks(g) : dominatedSet(g, S) = Blocks(g) \ reach(g, {entry} \ S, S)
    /\ phase = "dominators" =>
         \A a, b \in Blocks(g) : dominates(result, a, b) <=> onEveryPath(a, b)
    /\ phase = "analysed" =>
         \A b \in Blocks(g) :
            result.frontier[b] = {n \in Blocks(g) : /\ \E p \in predecessors(g, n) : onEveryPath(b, p)
                                                    /\ ~(b # n /\ onEveryPath(b, n))}

\* What hoisting relies on: a loop is entered through its header only, and when
\* there is a preheader, through that; loops that meet are nested, and the
\* outer loop found is the next larger one around the whole loop.
LoopsAreEnteredAtTheirHeader ==
    phase = "analysed" =>
        LET loops == result.loops
        IN  \A l \in loops :
                /\ \A b \in l.body \ {l.header} : predecessors(g, b) \subseteq l.body
                /\ \A b \in l.body : l.header \in reach(g, Succ(g, b), Blocks(g) \ l.body)
                /\ LET p == preheader(g, l)
                   IN  p # null => \A b \in l.body : onEveryPath(p, b)
                /\ outerLoops(loops, l) =
                       {o \in loops : /\ o # l /\ l.body \subseteq o.body
                                     /\ \A q \in loops : q # l /\ l.body \subseteq q.body
                                                          => o.body \subseteq q.body}

RECURSIVE executions(_, _, _, _)
\* All << block, last write, phis that hold the value of the last write >> at
\* the ends of blocks, from the new ones; a phi with a wrong input holds some
\* other value.
executions(placement, writes, seen, fresh) ==
    LET rightInput(x, i) == IF i.otherPhi # null THEN i.otherPhi \in x[3] ELSE x[2] = i.aValue
        step(x, b) ==
            LET here == {i \in placement : i.phi = b}
                right == \A i \in here : i.inputBlock = x[1] => rightInput(x, i)
            IN  IF b \in writes THEN << b, b, {} >>
                ELSE IF here = {} THEN << b, x[2], x[3] >>
                ELSE << b, x[2], IF right THEN x[3] \cup {b} ELSE x[3] \ {b} >>
        next == UNION {{step(x, b) : b \in Succ(g, x[1])} : x \in fresh} \ (seen \cup fresh)
    IN  IF next = {} THEN seen \cup fresh ELSE executions(placement, writes, seen \cup fresh, next)

\* However a block is reached, the phi that dominates it holds the value that
\* was written last, and a phi has one input for each predecessor.
PhisHoldTheLastWrite ==
    phase = "placed" =>
        LET start == << entry, IF entry \in result.writes THEN entry ELSE null, {} >>
        IN  /\ \A b \in {i.phi : i \in result.placement} :
                   {i.inputBlock : i \in {j \in result.placement : j.phi = b}} = predecessors(g, b)
            /\ \A x \in executions(result.placement, result.writes, {}, {start}) :
               \A d \in result.dominatingPhi :
                   d[1] = x[1] /\ x[1] \notin result.writes => d[2] \in x[3]

----------------------------------------------------------------------------
(* Properties of programs *)

definedIn(c, b, v) == v \in Range(c.bb[b])

\* v is used in s when s is entered from p.
usedFrom(c, v, p, s) ==
    \E i \in Range(c.bb[s]) :
        IF isPhi(c, i) THEN \E k \in DOMAIN c.ins[i].args : c.ins[i].args[k] = v /\ c.ins[i].input[k] = p
        ELSE ~definedIn(c, s, v) /\ v \in Range(liveArgs(c, i))

RECURSIVE liveOut(_, _, _)
liveOut(c, v, blocks) ==
    LET next == blocks \cup {p \in Blocks(c.succ) : \E s \in Succ(c.succ, p) :
                                usedFrom(c, v, p, s) \/ (s \in blocks /\ ~definedIn(c, s, v))}
    IN  IF next = blocks THEN blocks ELSE liveOut(c, v, next)

\* v, which is live out of the given blocks, is needed after index idx of b.
neededAfter(c, v, out, b, idx) ==
    /\ \A k \in DOMAIN c.bb[b] : c.bb[b][k] = v => k - 1 <= idx
    /\ \/ b \in out
       \/ \E k \in DOMAIN c.bb[b] : /\ k - 1 > idx
                                    /\ LET i == c.bb[b][k]
                                       IN  v \in Range(IF isPhi(c, i) THEN c.ins[i].args ELSE liveArgs(c, i))

\* A value is live exactly where there is a path from it to one of its uses,
\* the uses of pseudo instructions included (a deopt reads them late).
LivenessIsExact ==
    phase = "cssa" =>
        LET c == result.cssa
            intervals == result.intervals
        IN  \A v \in {w \in DOMAIN c.ins : ~isCompositeValue(c, w)} :
                LET out == liveOut(c, v, {})
                IN  \A b \in Blocks(c.succ) :
                        /\ liveAtBBEntry(intervals, b, v) <=> neededAfter(c, v, out, b, -1)
                        /\ \A idx \in 0..(Len(c.bb[b]) - 1) :
                               live(intervals, b, idx, v) <=> neededAfter(c, v, out, b, idx)

\* Execute block b from p with the slots reg; the result is empty when an argument is not in its slot.
execute(c, alloc, p, b, reg) ==
    FoldLeft(LAMBDA r, i :
                 LET reads == IF isPhi(c, i)
                              THEN {c.ins[i].args[k] : k \in {j \in DOMAIN c.ins[i].args : c.ins[i].input[j] = p}}
                              ELSE Range(liveArgs(c, i))
                     ok == \A v \in reads : /\ v \in DOMAIN alloc
                                            /\ IF isPhi(c, i) THEN r[alloc[i]] = v ELSE r[alloc[v]] = v
                 IN  IF r = << >> \/ ~ok THEN << >>
                     ELSE IF i \in DOMAIN alloc THEN [r EXCEPT ![alloc[i]] = i] ELSE r,
             reg, c.bb[b])

RECURSIVE slotStates(_, _, _, _)
\* All << block, slots at its end >>, from the new ones.
slotStates(c, alloc, seen, fresh) ==
    LET next == UNION {{<< b, execute(c, alloc, x[1], b, x[2]) >> : b \in Succ(c.succ, x[1])} :
                          x \in {y \in fresh : y[2] # << >>}} \ (seen \cup fresh)
    IN  IF next = {} THEN seen \cup fresh ELSE slotStates(c, alloc, seen \cup fresh, next)

\* On every path the slot of an argument still holds that argument when it is
\* read, and the slot of a phi holds the input that belongs to the edge taken.
SlotsHoldTheirValues ==
    phase = "allocated" =>
        LET c == result.cssa
            alloc == result.allocation
            empty == [s \in 1..(Cardinality(DOMAIN c.ins) + 1) |-> 0]
        IN  \A x \in slotStates(c, alloc, {}, {<< entry, execute(c, alloc, null, entry, empty) >>}) :
                x[2] # << >>

=============================================================================
