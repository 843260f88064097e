--------------------------------- MODULE Cfg ---------------------------------
(***************************************************************************)
(* The control flow graph of a PIR code object and what the compiler       *)
(* computes from it: visiting orders (util/visitor), transitive            *)
(* predecessors, dominators, dominance frontiers (analysis/cfg) and natural *)
(* loops (analysis/loop_detection).  A graph maps a block to the sequence of *)
(* its successors, next0 before next1; block 0 is the entry.               *)
(***************************************************************************)
EXTENDS Integers, FiniteSets, SequencesExt

null == -1          \* no block
entry == 0

Blocks(g) == DOMAIN g
Succ(g, b) == {g[b][i] : i \in DOMAIN g[b]}
predecessors(g, b) == {p \in Blocks(g) : b \in Succ(g, p)}
isExit(g, b) == g[b] = << >>
isBranch(g, b) == Len(g[b]) = 2
isMerge(g, b) == Cardinality(predecessors(g, b)) > 1

----------------------------------------------------------------------------
(* Visitors *)

\* The queues after bb was put into todo.
enqueue(order, todo, bb) ==
    {q \in {Append(todo, bb), << bb >> \o todo} :
        \/ order = "Breadth" /\ q = Append(todo, bb)
        \/ order = "Depth" /\ q = << bb >> \o todo
        \/ order = "Random"}

RECURSIVE schedule(_, _, _, _, _)
\* Schedule the blocks of next, of which the first may skip the queue: the
\* possible [next, todo, done] afterwards.
schedule(order, succs, next, todo, done) ==
    IF succs = << >> THEN {[next |-> next, todo |-> todo, done |-> done]}
    ELSE LET bb == Head(succs)
         IN  IF bb \in done THEN schedule(order, Tail(succs), next, todo, done)
             ELSE IF next = null /\ todo = << >>
             THEN schedule(order, Tail(succs), bb, todo, done \cup {bb})
             ELSE UNION {schedule(order, Tail(succs), next, q, done \cup {bb}) :
                            q \in enqueue(order, todo, bb)}

RECURSIVE visitFrom(_, _, _, _, _, _)
visitFrom(g, order, stop, cur, todo, done) ==
    UNION {LET next == IF s.next = null /\ s.todo # << >> THEN Head(s.todo) ELSE s.next
               rest == IF s.next = null /\ s.todo # << >> THEN Tail(s.todo) ELSE s.todo
           IN  IF next = null THEN {<< cur >>}
               ELSE {<< cur >> \o v : v \in visitFrom(g, order, stop, next, rest, s.done)} :
              s \in schedule(order, IF cur = stop THEN << >> ELSE g[cur], null, todo, done)}

\* The sequences of blocks a visitor may run its action on, from block bb.
genericRun(g, order, bb, stop) == visitFrom(g, order, stop, bb, << >>, {bb})

\* The breadth first order is the only one that is not left to chance.
breadthFirst(g, bb) == CHOOSE v \in genericRun(g, "Breadth", bb, null) : TRUE

----------------------------------------------------------------------------
(* Transitive predecessors *)

RECURSIVE predsFrom(_, _, _)
predsFrom(g, todo, preds) ==
    IF todo = << >> THEN preds
    ELSE LET new == SetToSeq(predecessors(g, Last(todo)) \ Range(preds))
         IN  predsFrom(g, Front(todo) \o SelectSeq(new, LAMBDA p : predecessors(g, p) # {}),
                       preds \o new)

computeTransitivePreds(g, bb) ==
    LET direct == SetToSeq(predecessors(g, bb))
    IN  SortSeq(predsFrom(g, SelectSeq(direct, LAMBDA p : predecessors(g, p) # {}), direct),
                LAMBDA a, b : a < b)

\* The sorted list is searched only up to the first id above a's.
isPredecessor(g, a, b) ==
    /\ predecessors(g, b) # {}
    /\ LET preds == computeTransitivePreds(g, b)
       IN  \E i \in DOMAIN preds : preds[i] = a /\ \A j \in 1..(i - 1) : preds[j] < a

----------------------------------------------------------------------------
(* Dominators: Lengauer and Tarjan's algorithm *)

RECURSIVE depthFirst(_, _, _)
\* Number the blocks in depth first order, with a stack of nodes and parents.
\* The number 0 means that the block was not seen.
depthFirst(g, stack, t) ==
    IF stack = << >> THEN t
    ELSE LET n == Last(stack)[1]
             p == Last(stack)[2]
         IN  IF t.dfnum[n] # 0 THEN depthFirst(g, Front(stack), t)
             ELSE depthFirst(g, Front(stack) \o [i \in DOMAIN g[n] |-> << g[n][i], n >>],
                             [dfnum |-> [t.dfnum EXCEPT ![n] = Len(t.vertex)],
                              vertex |-> Append(t.vertex, n),
                              parent |-> [t.parent EXCEPT ![n] = p]])

link(f, p, n) == [f EXCEPT !.ancestor[n] = p, !.best[n] = n]

RECURSIVE mutantAncestor(_, _, _)
mutantAncestor(dfnum, f, v) ==
    LET a == f.ancestor[v]
    IN  IF f.ancestor[a] = null THEN f
        ELSE LET h == mutantAncestor(dfnum, f, a)
             IN  [h EXCEPT !.ancestor[v] = h.ancestor[a]]

RECURSIVE ancestorWithLowestSemi(_, _, _)
\* The forest after the search upwards from v, which compresses the path; the
\* block searched for is then best[v].
ancestorWithLowestSemi(dfnum, f, v) ==
    LET a == f.ancestor[v]
    IN  IF f.ancestor[a] = null THEN f
        ELSE LET h == ancestorWithLowestSemi(dfnum, f, a)
                 b == h.best[a]
             IN  [h EXCEPT !.ancestor[v] = h.ancestor[a],
                           !.best[v] = IF dfnum[h.semi[b]] < dfnum[h.semi[@]] THEN b ELSE @]

\* The semidominator of n is the lowest candidate its predecessors give.
semidominator(g, dfnum, f, n, p) ==
    FoldLeft(LAMBDA acc, v :
                 LET h == IF dfnum[v] <= dfnum[n] THEN acc.f
                          ELSE ancestorWithLowestSemi(dfnum, acc.f, v)
                     s1 == IF dfnum[v] <= dfnum[n] THEN v ELSE h.semi[h.best[v]]
                 IN  [f |-> h, s |-> IF dfnum[s1] < dfnum[acc.s] THEN s1 ELSE acc.s],
             [f |-> f, s |-> p], SetToSeq(predecessors(g, n)))

\* With the path to p linked, the dominators of p's bucket are known or deferred.
emptyBucket(dfnum, f, p) ==
    LET h == FoldLeft(LAMBDA acc, v :
                          LET k == ancestorWithLowestSemi(dfnum, acc, v)
                              y == k.best[v]
                          IN  IF k.semi[y] = k.semi[v] THEN [k EXCEPT !.idom[v] = p]
                              ELSE [k EXCEPT !.samedom[v] = y],
                      f, SetToSeq(f.bucket[p]))
    IN  [h EXCEPT !.bucket[p] = {}]

RECURSIVE linkFrom(_, _, _)
\* Link the blocks of f.todo into the forest, those found last first.
linkFrom(g, t, f) ==
    IF f.todo = << >> THEN f
    ELSE LET n == Last(f.todo)
             p == t.parent[n]
             r == semidominator(g, t.dfnum, f, n, p)
             h == [r.f EXCEPT !.semi[n] = r.s, !.bucket[r.s] = @ \cup {n}, !.todo = Front(@)]
         IN  linkFrom(g, t, emptyBucket(t.dfnum, link(h, p, n), p))

\* The immediate dominator of every block, null for the entry.
DominanceGraph(g) ==
    LET no == [b \in Blocks(g) |-> null]
        t == depthFirst(g, << << entry, null >> >>,
                        [dfnum |-> [b \in Blocks(g) |-> 0], vertex |-> << >>, parent |-> no])
        f == linkFrom(g, t, [semi |-> no, bucket |-> [b \in Blocks(g) |-> {}], ancestor |-> no,
                             best |-> no, idom |-> no, samedom |-> no, todo |-> Tail(t.vertex)])
    IN  FoldLeft(LAMBDA idom, n : IF f.samedom[n] = null THEN idom
                                  ELSE [idom EXCEPT ![n] = idom[f.samedom[n]]],
                 f.idom, Tail(t.vertex))

RECURSIVE dominates(_, _, _)
dominates(idom, a, b) == b # null /\ (a = b \/ dominates(idom, a, idom[b]))

strictlyDominates(idom, a, b) == a # b /\ dominates(idom, a, b)

RECURSIVE dominators(_, _)
dominators(idom, b) == {b} \cup (IF idom[b] = null THEN {} ELSE dominators(idom, idom[b]))

\* The blocks bb immediately dominates, in breadth first order.
dominatorTreeNext(g, idom, bb) == SelectSeq(breadthFirst(g, bb), LAMBDA b : idom[b] = bb)

RECURSIVE treeFrom(_, _, _, _)
treeFrom(g, idom, todo, done) ==
    IF todo = << >> THEN << >>
    ELSE LET cur == Head(todo)
         IN  IF cur \in done THEN treeFrom(g, idom, Tail(todo), done)
             ELSE << cur >> \o treeFrom(g, idom, dominatorTreeNext(g, idom, cur) \o Tail(todo),
                                        done \cup {cur})

\* The order in which DominatorTreeVisitor runs its action.
DominatorTreeVisitor(g, idom) == treeFrom(g, idom, << entry >>, {})


RECURSIVE dominatedFrom(_, _, _, _, _)
dominatedFrom(g, input, todo, seen, result) ==
    IF todo = << >> THEN result
    ELSE LET cur == Last(todo)
             state == cur \in result \cup input
             res == IF cur \in input THEN result \cup {cur} ELSE result
             \* One child: [todo, seen, result].
             apply(acc, bb) ==
                 IF bb \notin acc.seen
                 THEN [todo |-> Append(acc.todo, bb), seen |-> acc.seen \cup {bb},
                       result |-> IF state THEN acc.result \cup {bb} ELSE acc.result]
                 ELSE IF ~state /\ bb \in acc.result
                 THEN [acc EXCEPT !.result = @ \ {bb}, !.todo = Append(@, bb)]
                 ELSE acc
             acc == FoldLeft(apply, [todo |-> Front(todo), seen |-> seen, result |-> res], g[cur])
         IN  dominatedFrom(g, input, acc.todo, acc.seen, acc.result)

\* The blocks every path to which meets the set input.
dominatedSet(g, input) == dominatedFrom(g, input, << entry >>, {}, {})

----------------------------------------------------------------------------
(* Dominance frontiers *)


RECURSIVE runners(_, _, _)
\* The blocks from r up the dominator tree, without stop.
runners(idom, stop, r) == IF r = stop THEN {} ELSE {r} \cup runners(idom, stop, idom[r])

DominanceFrontier(g, idom) ==
    [b \in Blocks(g) |->
        {n \in Blocks(g) : isMerge(g, n) /\ \E p \in predecessors(g, n) : b \in runners(idom, idom[n], p)}]

----------------------------------------------------------------------------
(* Loops *)

mutantTailNodes(g, idom, header) == {t \in predecessors(g, header) : isPredecessor(g, header, t)}

tailNodes(g, idom, header) == {t \in predecessors(g, header) : strictlyDominates(idom, header, t)}

RECURSIVE bodyFrom(_, _, _)
bodyFrom(g, todo, body) ==
    IF todo = << >> THEN body
    ELSE LET cur == Last(todo)
         IN  IF cur \in body THEN bodyFrom(g, Front(todo), body)
             ELSE bodyFrom(g, Front(todo) \o SetToSeq(predecessors(g, cur)), body \cup {cur})

Loops(g, idom) ==
    {[header |-> h, body |-> bodyFrom(g, SetToSeq(tailNodes(g, idom, h)), {h})] :
        h \in {b \in Blocks(g) : tailNodes(g, idom, b) # {}}}

\* Sorted by size, the first later loop with l's header in it is the outer one.
\* Loops of one size may come in any order.
outerLoops(loops, l) ==
    UNION {LET i == CHOOSE i \in DOMAIN s : s[i] = l
               outer == {j \in (i + 1)..Len(s) : l.header \in s[j].body}
           IN  IF outer = {} THEN {} ELSE {s[CHOOSE j \in outer : \A k \in outer : j <= k]} :
              s \in {q \in SetToSeqs(loops) :
                        \A i, j \in DOMAIN q : i < j => Cardinality(q[i].body) <= Cardinality(q[j].body)}}

\* The only predecessor of the header outside of the loop, if there is one.
preheader(g, l) ==
    LET outside == predecessors(g, l.header) \ l.body
    IN  IF Cardinality(outside) # 1 THEN null ELSE CHOOSE p \in outside : TRUE

----------------------------------------------------------------------------
(* Where a variable written in some blocks needs phis, and what their inputs *)
(* are (util/phi_placement).  The value of a write is named by its block.  An *)
(* input belongs to the phi of a block, comes from another block, and is    *)
(* another phi or a value.  dominatingPhi are pairs of a block and a phi.   *)

RECURSIVE phisFrom(_, _, _)
\* The iterated dominance frontier of the blocks in defs.
phisFrom(frontier, defs, phis) ==
    IF defs = {} THEN phis
    ELSE LET x == CHOOSE b \in defs : TRUE
             y == frontier[x] \ phis
         IN  phisFrom(frontier, (defs \ {x}) \cup y, phis \cup y)

Input(phi, from, otherPhi, aValue) ==
    [phi |-> phi, inputBlock |-> from, otherPhi |-> otherPhi, aValue |-> aValue]

\* What reaches the end of block cur and goes on to the phi of block to.
inputs(writes, phis, pending, cur, to) ==
    IF cur \in writes THEN {Input(to, cur, null, cur)}
    ELSE IF cur \in phis THEN {Input(to, cur, cur, null)}
    ELSE {Input(to, cur, i.otherPhi, i.aValue) : i \in {j \in pending : j.phi = cur}}

\* One block of the dominator tree: its successors learn what reaches them.
\* What is pending for a block without a phi is what was seen last.
visitBlock(g, writes, phis, s, cur) ==
    LET told == UNION {inputs(writes, phis, s.pendingInput, cur, b) : b \in Succ(g, cur)}
        here == inputs(writes, phis, s.pendingInput, cur, cur)
    IN  [placement |-> s.placement \cup {i \in told : i.phi \in phis},
         pendingInput |-> {i \in s.pendingInput : \A j \in told : j.phi # i.phi} \cup
                          {i \in told : i.phi \notin phis},
         dominatingPhi |-> s.dominatingPhi \cup
                           (IF cur \in phis THEN {<< cur, cur >>}
                            ELSE {<< cur, i.otherPhi >> : i \in {j \in here : j.otherPhi # null}})]

mutantDeletePhis(p, gone) == [p EXCEPT !.placement = {i \in @ : i.phi \notin gone}]

\* The phis of the blocks in gone are deleted, and no block is dominated by them.
deletePhis(p, gone) ==
    [placement |-> {i \in p.placement : i.phi \notin gone},
     dominatingPhi |-> {d \in p.dominatingPhi : d[2] \notin gone}]

RECURSIVE removeBrokenPhis(_)
\* A phi is broken when an input is a phi that no longer exists.
removeBrokenPhis(p) ==
    LET placed == {i.phi : i \in p.placement}
        broken == {i.phi : i \in {j \in p.placement : j.otherPhi # null /\ j.otherPhi \notin placed}}
    IN  IF broken = {} THEN p ELSE removeBrokenPhis(deletePhis(p, broken))

\* tree is the order of the dominator tree.
PhiPlacement(g, writes, tree, frontier) ==
    LET phis == phisFrom(frontier, writes, {})
        s == FoldLeft(LAMBDA acc, b : visitBlock(g, writes, phis, acc, b),
                      [placement |-> {}, pendingInput |-> {}, dominatingPhi |-> {}],
                      tree)
        illFormed == {b \in {i.phi : i \in s.placement} :
                         Cardinality({i \in s.placement : i.phi = b}) # Cardinality(predecessors(g, b))}
    IN  removeBrokenPhis(deletePhis([placement |-> s.placement, dominatingPhi |-> s.dominatingPhi],
                                    illFormed))

=============================================================================
