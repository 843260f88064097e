------------------------------ MODULE Allocator ------------------------------
(***************************************************************************)
(* From SSA to stack slots: liveness intervals (analysis/liveness), the    *)
(* copies around phis (toCSSA in backend.cpp) and the allocation of slots  *)
(* (native/allocator).  A code object has the graph succ, the sequence     *)
(* bb[b] of the instructions of a block, and ins[i], an instruction: its   *)
(* tag, its arguments (instructions) and, for a phi, the block each        *)
(* argument comes from.  Every instruction that is no pseudo instruction   *)
(* has a value represented as a SEXP.                                      *)
(***************************************************************************)
EXTENDS Cfg

unset == 1000000         \* unsigned -1, above every index: begin and end before they are set

Phi(args, from) == [tag |-> "Phi", args |-> args, input |-> from]
Instr(tag, args) == [tag |-> tag, args |-> args, input |-> << >>]

\* Pseudo instructions have no run time value of their own.
isCompositeValue(c, i) == c.ins[i].tag = "FrameState"

Dead == [live |-> FALSE, liveAtEntry |-> FALSE, begin |-> unset, end |-> unset]

RECURSIVE liveArgs(_, _)
\* The values an instruction uses, those of its pseudo arguments included.
liveArgs(c, i) ==
    FoldLeft(LAMBDA acc, v : acc \o (IF isCompositeValue(c, v) THEN liveArgs(c, v) ELSE << v >>),
             << >>, c.ins[i].args)

\* One block, run backwards from what is live at its end, s.liveAtEnd[b]: the
\* new intervals, what is accumulated at the entry and the phi inputs by block.
runBackwards(c, s, b) ==
    LET size == Len(c.bb[b])
        ids == DOMAIN c.ins
        incoming == {v \in s.liveAtEnd[b] :
                        ~s.intervals[v][b].live \/ s.intervals[v][b].end < size}
        marked == [v \in ids |-> IF v \notin incoming THEN s.intervals[v]
                                 ELSE [s.intervals[v] EXCEPT ![b].live = TRUE, ![b].end = size]]
        \* Mark v live up to pos unless it is live in this block already.
        mark(a, v, pos, in) ==
            IF a.intervals[v][b].live THEN a
            ELSE [intervals |-> [a.intervals EXCEPT ![v][b].live = TRUE, ![v][b].end = pos],
                  accumulated |-> IF in = null THEN a.accumulated \cup {v} ELSE a.accumulated,
                  phiInput |-> IF in = null THEN a.phiInput ELSE a.phiInput \cup {<< in, v >>}]
        step(a, pos) ==
            LET i == c.bb[b][pos + 1]
                args == IF c.ins[i].tag = "Phi" THEN c.ins[i].args ELSE liveArgs(c, i)
                m == FoldLeft(LAMBDA acc, k :
                                  mark(acc, args[k], pos,
                                       IF c.ins[i].tag = "Phi" THEN c.ins[i].input[k] ELSE null),
                              a, [k \in DOMAIN args |-> k])
            IN  IF i \notin m.accumulated THEN m
                ELSE [m EXCEPT !.intervals[i][b].begin = pos, !.accumulated = @ \ {i}]
        r == FoldLeft(step, [intervals |-> marked, accumulated |-> incoming, phiInput |-> {}],
                      [k \in 1..size |-> size - k])
        atEntry == r.accumulated \cup {p[2] : p \in r.phiInput}
    IN  [r EXCEPT !.intervals =
            [v \in ids |-> IF v \notin atEntry THEN @[v]
                           ELSE [@[v] EXCEPT ![b].liveAtEntry = TRUE, ![b].begin = 0]]]

mutantMerge(c, s, b) ==
    LET r == runBackwards(c, s, b)
        preds == predecessors(c.succ, b)
        out(p) == r.accumulated \cup {x[2] : x \in r.phiInput}
        new == {p \in preds : p \notin s.known \/ ~(out(p) \subseteq s.liveAtEnd[p])}
    IN  [intervals |-> r.intervals,
         liveAtEnd |-> [p \in Blocks(c.succ) |->
                           IF p \in preds THEN s.liveAtEnd[p] \cup out(p) ELSE s.liveAtEnd[p]],
         known |-> s.known \cup preds \cup {b},
         todo |-> (s.todo \ {b}) \cup new]

\* Merge what is live at the entry of b into its predecessors; the ones that
\* learn something new are processed again.
mergeIntoPredecessors(c, s, b) ==
    LET r == runBackwards(c, s, b)
        preds == predecessors(c.succ, b)
        out(p) == r.accumulated \cup {x[2] : x \in {y \in r.phiInput : y[1] = p}}
        new == {p \in preds : p \notin s.known \/ ~(out(p) \subseteq s.liveAtEnd[p])}
    IN  [intervals |-> r.intervals,
         liveAtEnd |-> [p \in Blocks(c.succ) |->
                           IF p \in preds THEN s.liveAtEnd[p] \cup out(p) ELSE s.liveAtEnd[p]],
         known |-> s.known \cup preds \cup {b},
         todo |-> (s.todo \ {b}) \cup new]

RECURSIVE backwards(_, _)
\* Until nothing is to do; then the blocks of endless loops are taken up, that
\* follow a known block and are not known themselves.
backwards(c, s) ==
    IF s.todo # {} THEN backwards(c, mergeIntoPredecessors(c, s, CHOOSE b \in s.todo : TRUE))
    ELSE LET more == {n \in Blocks(c.succ) : n \notin s.known /\
                         \E b \in s.known : n \in Succ(c.succ, b)}
         IN  IF more = {} THEN s.intervals ELSE backwards(c, [s EXCEPT !.todo = more])

LivenessIntervals(c) ==
    backwards(c, [intervals |-> [v \in DOMAIN c.ins |-> [b \in Blocks(c.succ) |-> Dead]],
                  liveAtEnd |-> [b \in Blocks(c.succ) |-> {}], known |-> {},
                  todo |-> {b \in Blocks(c.succ) : isExit(c.succ, b)}])

\* v has intervals if it is live somewhere.
count(intervals, v) == \E b \in DOMAIN intervals[v] : intervals[v][b].live

\* v is live after the instruction at index idx of block b.
live(intervals, b, idx, v) ==
    LET r == intervals[v][b] IN r.live /\ r.begin <= idx /\ idx < r.end

liveAtBBEntry(intervals, b, v) == intervals[v][b].live /\ intervals[v][b].liveAtEntry

overlap(x, y) ==
    /\ x.live /\ y.live
    /\ LET before == x.begin < y.end
           after == y.begin < x.end
       IN  IF x.begin <= x.end /\ y.begin <= y.end THEN before /\ after
           ELSE (x.begin > x.end /\ y.begin > y.end) \/ before \/ after

interfere(intervals, v, w) == \E b \in DOMAIN intervals[v] : overlap(intervals[v][b], intervals[w][b])

----------------------------------------------------------------------------
(* Copies around phis and slots *)

isPhi(c, i) == c.ins[i].tag = "Phi"
blockOf(c, i) == CHOOSE b \in DOMAIN c.bb : \E k \in DOMAIN c.bb[b] : c.bb[b][k] = i

\* Give the instruction i to the code, under a new name.
new(c) == Cardinality(DOMAIN c.ins) + 1
withInstr(c, i) == [c EXCEPT !.ins = [k \in DOMAIN @ \cup {new(c)} |-> IF k = new(c) THEN i ELSE @[k]]]

replaceUses(ins, old, rpl) ==
    [i \in DOMAIN ins |-> [ins[i] EXCEPT !.args = [k \in DOMAIN @ |-> IF @[k] = old THEN rpl ELSE @[k]]]]

\* Put a new block between from and to; the phis behind it learn about it.
splitEdge(c, from, to) ==
    LET split == Cardinality(Blocks(c.succ))
        at == CHOOSE k \in DOMAIN c.succ[from] :
                  c.succ[from][k] = to /\ \A j \in 1..(k - 1) : c.succ[from][j] # to
        succ == [b \in Blocks(c.succ) \cup {split} |->
                    IF b = split THEN << to >>
                    ELSE IF b = from THEN [c.succ[b] EXCEPT ![at] = split] ELSE c.succ[b]]
        behind == Range(breadthFirst(succ, split))
    IN  [succ |-> succ,
         bb |-> [b \in Blocks(succ) |-> IF b = split THEN << >> ELSE c.bb[b]],
         ins |-> [i \in DOMAIN c.ins |->
                     IF isPhi(c, i) /\ blockOf(c, i) \in behind
                     THEN [c.ins[i] EXCEPT !.input = [k \in DOMAIN @ |-> IF @[k] = from THEN split ELSE @[k]]]
                     ELSE c.ins[i]]]

\* Copy the k-th input of a phi at the end of the block it comes from.
copyInput(c, phi, k) ==
    LET pred == c.ins[phi].input[k]
        s == IF isBranch(c.succ, pred) THEN splitEdge(c, pred, blockOf(c, phi)) ELSE c
        n == withInstr(s, Instr("PirCopy", << c.ins[phi].args[k] >>))
    IN  [n EXCEPT !.bb[n.ins[phi].input[k]] = Append(@, new(c)), !.ins[phi].args[k] = new(c)]

\* Copies of all inputs, and a copy after the phi that takes over its uses.
copyPhi(c, phi) ==
    LET copied == FoldLeft(LAMBDA acc, k : copyInput(acc, phi, k), c,
                           [k \in DOMAIN c.ins[phi].args |-> k])
        used == [copied EXCEPT !.ins = replaceUses(@, phi, new(copied))]
        n == withInstr(used, Instr("PirCopy", << phi >>))
        b == blockOf(c, phi)
    IN  [n EXCEPT !.bb[b] = InsertAt(@, 1 + CHOOSE k \in DOMAIN @ : @[k] = phi, new(copied))]

toCSSA(c) ==
    FoldLeft(LAMBDA acc, b : FoldLeft(copyPhi, acc, SelectSeq(acc.bb[b], LAMBDA i : isPhi(acc, i))),
             c, breadthFirst(c.succ, entry))

----------------------------------------------------------------------------
unassignedSlot == 0

needsASlot(c, i) == ~isCompositeValue(c, i)

slotIsAvailable(intervals, a, slot, i) ==
    \A other \in DOMAIN a.allocation : a.allocation[other] = slot => ~interfere(intervals, other, i)

assign(a, i, slot) ==
    [a EXCEPT !.allocation = [j \in DOMAIN @ \cup {i} |-> IF j = i THEN slot ELSE @[j]]]

slots(c) == 1..(Cardinality(DOMAIN c.ins) + 1)

\* The first slot from 1 on that is good.
firstSlot(good) == CHOOSE s \in good : \A t \in good : s <= t

RECURSIVE hintBackwards(_, _, _, _)
\* The slot of a phi input is a hint for what it was computed from.
hintBackwards(c, a, i, slot) ==
    IF c.ins[i].args = << >> \/ c.ins[i].args[1] \in DOMAIN a.hints THEN a
    ELSE LET j == c.ins[i].args[1]
         IN  hintBackwards(c, [a EXCEPT !.hints = [k \in DOMAIN @ \cup {j} |-> IF k = j THEN slot ELSE @[k]]],
                           j, slot)

mutantPrecolorPhi(c, intervals, a, p) ==
    IF p \in DOMAIN a.allocation THEN a
    ELSE LET testSlot(s) == slotIsAvailable(intervals, a, s, p)
             slot == IF p \in DOMAIN a.hints /\ testSlot(a.hints[p]) THEN a.hints[p]
                     ELSE firstSlot({ s \in slots(c) : testSlot(s) })
         IN  FoldLeft(LAMBDA acc, j : hintBackwards(c, assign(acc, j, slot), j, slot),
                      assign(a, p, slot), c.ins[p].args)

\* A phi and all of its inputs get one slot.
precolorPhi(c, intervals, a, p) ==
    IF p \in DOMAIN a.allocation THEN a
    ELSE LET testSlot(s) == \A i \in {p} \cup Range(c.ins[p].args) : slotIsAvailable(intervals, a, s, i)
             slot == IF p \in DOMAIN a.hints /\ testSlot(a.hints[p]) THEN a.hints[p]
                     ELSE firstSlot({ s \in slots(c) : testSlot(s) })
         IN  FoldLeft(LAMBDA acc, j : hintBackwards(c, assign(acc, j, slot), j, slot),
                      assign(a, p, slot), c.ins[p].args)

\* Any other value takes the slot hinted at, or its first argument's, or the
\* first one that is free.
assignSlot(c, intervals, a, i) ==
    IF ~needsASlot(c, i) \/ i \in DOMAIN a.allocation \/ ~count(intervals, i) THEN a
    ELSE LET free(s) == slotIsAvailable(intervals, a, s, i)
             o == IF c.ins[i].args = << >> THEN null ELSE c.ins[i].args[1]
             hint == IF i \in DOMAIN a.hints THEN a.hints[i]
                     ELSE IF o \in DOMAIN a.allocation THEN a.allocation[o] ELSE unassignedSlot
         IN  assign(a, i, IF hint # unassignedSlot /\ free(hint) THEN hint
                     ELSE firstSlot({ s \in slots(c) : free(s) }))

\* The allocation when phis are visited in the given order of blocks.
compute(c, intervals, order) ==
    LET instrs(blocks) == FlattenSeq([k \in DOMAIN blocks |-> c.bb[blocks[k]]])
        phis == SelectSeq(instrs(order), LAMBDA i : isPhi(c, i))
        idom == DominanceGraph(c.succ)
        colored == FoldLeft(LAMBDA a, p : precolorPhi(c, intervals, a, p),
                            [allocation |-> << >>, hints |-> << >>], phis)
    IN  FoldLeft(LAMBDA a, i : assignSlot(c, intervals, a, i),
                 colored, instrs(DominatorTreeVisitor(c.succ, idom))).allocation

=============================================================================
