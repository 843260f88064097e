------------------------------- MODULE Ranges -------------------------------
(***************************************************************************)
(* The range analysis of the optimizing compiler beside the integers of    *)
(* one execution: arithmetic, tests with the arm that is taken and the one *)
(* that is not, and joins with their phis.  Ranges are those of the        *)
(* constants MAX, NEG, ABOVE0, POS, ZERO and ONE; NA has every range.  The *)
(* loop-carried inputs of phis are left out.                               *)
(***************************************************************************)
EXTENDS RValue, TLC

CONSTANTS Arg,     \* values the code starts with, with unknown range
          Temp,    \* values computed later
          MaxSteps

ASSUME NamesAssumption == (Arg \union Temp) \intersect {0, 1} = {}

VARIABLES pc,        \* straight code, or the arms of a test
          num,       \* the integers of the execution
          range,     \* RangeAnalysisState::range where the execution is
          other,     \* and at the end of the arm that was not taken
          steps,
          flawed     \* a rule was applied that does not hold of integers
vars == <<pc, num, range, other, steps, flawed>>

\* The integers the arguments start with: those at the ends of the ranges.
Ints == {-INT_MAX, -1, 0, 1, INT_MAX}

Range(a, b) == [begin |-> a, end |-> b]
MAX == Range(INT_MIN, INT_MAX)
NEG == Range(INT_MIN, -1)
ABOVE0 == Range(1, INT_MAX)
POS == Range(0, INT_MAX)
ZERO == Range(0, 0)
ONE == Range(1, 1)

(* The first of rs that includes [a, b], otherwise MAX. *)
within(r, a, b) == a >= r.begin /\ b <= r.end
firstOf(rs, a, b) ==
    LET fits == {i \in DOMAIN rs : within(rs[i], a, b)}
    IN IF fits = {} THEN MAX ELSE rs[CHOOSE i \in fits : \A j \in fits : i <= j]

get(a, b) == firstOf(<<ZERO, ONE, NEG, ABOVE0, POS>>, a, b)

mutantMergeRange(r, s) ==
    IF r = MAX THEN MAX
    ELSE IF s.begin <= r.begin THEN s
    ELSE IF within(r, s.begin, s.end) THEN r ELSE MAX

merge(r, s) ==
    IF r = MAX THEN MAX
    ELSE IF within(s, r.begin, r.end) THEN s
    ELSE IF within(r, s.begin, s.end) THEN r
    ELSE LET both(q) == within(q, r.begin, r.end) /\ within(q, s.begin, s.end)
         IN IF both(NEG) THEN NEG ELSE IF both(ABOVE0) THEN ABOVE0
            ELSE IF both(POS) THEN POS ELSE MAX

(* RangeAnalysisState::merge: a value with a range on one side only keeps it. *)
mergeState(m, o) ==
    [v \in DOMAIN m \union DOMAIN o |->
        IF v \notin DOMAIN o THEN m[v] ELSE IF v \notin DOMAIN m THEN o[v]
        ELSE merge(m[v], o[v])]

update(m, v, r) == [u \in DOMAIN m \union {v} |-> IF u = v THEN r ELSE m[u]]

(* A value is an argument or a temporary, or an integer constant. *)
Const(v) == v \notin Arg \union Temp
value(v) == IF Const(v) THEN v ELSE num[v]
known(m, v) == v \in DOMAIN m \/ Const(v)
getRange(m, v) == IF v \in DOMAIN m THEN m[v] ELSE get(v, v)
rangeOr(m, v) == IF known(m, v) THEN getRange(m, v) ELSE MAX

(* apply of Add, Sub and Mul. *)
exact(op, i, j) == IF op = "Add" THEN i + j ELSE IF op = "Sub" THEN i - j ELSE i * j
arith(op, i, j) == wrap(exact(op, i, j))
binop(op, a, b) ==
    get(IF a.begin = INT_MIN \/ b.begin = INT_MIN THEN INT_MIN ELSE arith(op, a.begin, b.begin),
        IF a.end = INT_MAX \/ b.begin = INT_MAX THEN INT_MAX ELSE arith(op, a.end, b.end))

(* apply of a phi, the first time: inputs without a range do not count *)
(* after one that has one.                                             *)
phi(m, v1, v2) ==
    IF ~known(m, v1) THEN MAX
    ELSE IF known(m, v2) THEN merge(getRange(m, v1), getRange(m, v2)) ELSE getRange(m, v1)

(* applyEntry: what a comparison says of its operands in the arm where it *)
(* holds; the operands are swapped in the other arm.                      *)
min(i, j) == IF i < j THEN i ELSE j
max(i, j) == IF i > j THEN i ELSE j
applyLess(tag, r, s) ==
    LET up == IF tag = "Lt" /\ s.begin = s.end THEN s.end - 1 ELSE s.end
        low == IF tag = "Lte" /\ r.begin = r.end THEN r.begin + 1 ELSE r.begin
    IN <<get(min(r.begin, up), min(r.end, up)), get(max(low, s.begin), max(low, s.end))>>
applyGreater(tag, r, s) ==
    LET low == IF tag = "Gt" /\ s.begin = s.end THEN s.begin + 1 ELSE s.begin
        up == IF tag = "Gte" /\ s.begin = s.end THEN r.end - 1 ELSE r.end
    IN <<get(max(r.begin, low), max(r.end, low)), get(min(up, s.begin), min(up, s.end))>>

narrowed(tag, r, s) ==
    IF tag \in {"Lt", "Lte"} THEN applyLess(tag, r, s) ELSE applyGreater(tag, r, s)
store(m, v, old, new) == IF old = new THEN m ELSE update(m, v, new)
applyEntry(m, tag, l, r) ==
    LET a == rangeOr(m, l)
        b == rangeOr(m, r)
        new == narrowed(tag, a, b)
    IN store(store(m, l, a, new[1]), r, b, new[2])

(* Where these rules do not hold of integers: arithmetic with a             *)
(* second operand that has no upper bound, tests with a constant, and a     *)
(* join that takes the range the value has in the other arm only.           *)
single(r) == r.begin = r.end
flawedArith(op, a, b) ==
    /\ b.end = INT_MAX
    /\ \/ op = "Add" /\ a = ONE
       \/ op = "Sub" /\ a # MAX
       \/ op = "Mul" /\ a = NEG /\ b # ABOVE0
flawedTest(tag, r, s, holds) ==
    \/ tag \in {"Lt", "Gt"} /\ ~holds /\ single(s)
    \/ tag = "Lte" /\ holds /\ single(r)
    \/ tag = "Gte" /\ holds /\ single(s)
flawedMerge(mine, theirs) == ~(DOMAIN theirs \subseteq DOMAIN mine)
flawedPhi(m, mine, theirs, first) == ~first /\ known(m, theirs) /\ ~known(m, mine)

truth(tag, i, j) ==
    \/ tag = "Lt" /\ i < j
    \/ tag = "Lte" /\ i <= j
    \/ tag = "Gt" /\ i > j
    \/ tag = "Gte" /\ i >= j
live == Arg \union (DOMAIN num \cap Temp)
Init ==
    /\ pc = "straight" /\ steps = 0 /\ flawed = FALSE
    /\ num \in [Arg -> Ints] /\ range = <<>> /\ other = <<>>

\* What follows such a rule is of no interest.
more == ~flawed /\ steps < MaxSteps /\ steps' = steps + 1

(* The range only changes when both operands have one. *)
Compute(op, t, l, r) ==
    LET n == exact(op, value(l), value(r))
    IN /\ pc = "straight" /\ more
       /\ t \notin DOMAIN num /\ n \in INT_MIN + 1 .. INT_MAX
       /\ num' = update(num, t, n)
       /\ IF known(range, l) /\ known(range, r)
          THEN /\ range' = update(range, t, binop(op, getRange(range, l), getRange(range, r)))
               /\ flawed' = (flawed \/ flawedArith(op, getRange(range, l), getRange(range, r)))
          ELSE UNCHANGED <<range, flawed>>
       /\ UNCHANGED <<pc, other>>

Branch(tag, l, r) ==
    LET holds == truth(tag, value(l), value(r))
        a == rangeOr(range, l)
        b == rangeOr(range, r)
    IN /\ pc = "straight" /\ more /\ pc' = "arms"
       /\ range' = IF holds THEN applyEntry(range, tag, l, r) ELSE applyEntry(range, tag, r, l)
       /\ other' = IF holds THEN applyEntry(range, tag, r, l) ELSE applyEntry(range, tag, l, r)
       /\ flawed' = (flawed \/ IF holds THEN flawedTest(tag, a, b, TRUE)
                               ELSE flawedTest(tag, b, a, FALSE))
       /\ UNCHANGED num

(* The arms meet, in either order, in a block that starts with a phi of *)
(* the value of this arm and one of the other arm.                      *)
Join(t, mine, theirs, first) ==
    LET m == IF first THEN mergeState(range, other) ELSE mergeState(other, range)
        v1 == IF first THEN mine ELSE theirs
        v2 == IF first THEN theirs ELSE mine
    IN /\ pc = "arms" /\ pc' = "straight" /\ t \notin DOMAIN num
       /\ flawed' = (flawed \/ flawedMerge(range, other) \/ flawedPhi(m, mine, theirs, first))
       /\ range' = update(m, t, phi(m, v1, v2))
       /\ num' = update(num, t, value(mine))
       /\ other' = <<>> /\ UNCHANGED steps

Operands == live \union {0, 1}
Next ==
    \/ \E op \in {"Add", "Sub", "Mul"}, t \in Temp, l, r \in Operands : Compute(op, t, l, r)
    \/ \E tag \in {"Lt", "Lte", "Gt", "Gte"}, l \in Operands, r \in Operands : Branch(tag, l, r)
    \/ \E t \in Temp, mine, theirs \in Operands, first \in BOOLEAN : Join(t, mine, theirs, first)
Spec == Init /\ [][Next]_vars

-----------------------------------------------------------------------------
(* But for the rules that do not hold, a value is within its range, on     *)
(* every path the execution can take.                                      *)
ValuesInRange ==
    flawed \/ \A v \in DOMAIN range : within(range[v], value(v), value(v))

\* The names of the intermediate values do not matter.
Temporaries == Permutations(Temp)

=============================================================================
