---------------------------- MODULE RangesProofs ----------------------------
(***************************************************************************)
(* The ranges that the analysis computes hold of the integers of every     *)
(* execution, whatever their width and however many steps it takes.        *)
(***************************************************************************)
EXTENDS Ranges, TLAPS

\* The provers of a leaf that names none, in the order they are tried.
USE SMTT(10), ZenonT(20), SMTT(90)

RangeSet == {MAX, NEG, ABOVE0, POS, ZERO, ONE}
MachineInt == INT_MIN .. INT_MAX
Covers(r, i) == r.begin <= i /\ i <= r.end

\* The values that have a number, and what is kept of them.
Named == DOMAIN num \union {0, 1}
NumbersOK == /\ Arg \subseteq DOMAIN num /\ DOMAIN num \subseteq Arg \union Temp
             /\ \A v \in DOMAIN num : num[v] \in MachineInt
RangesOK(m) == DOMAIN m \subseteq Named /\ \A v \in DOMAIN m : m[v] \in RangeSet
Sound(m) == \A v \in DOMAIN m : Covers(m[v], value(v))

\* The inductive invariant: the ranges of the arm that is not taken need not
\* hold of the numbers, but must be ranges, for the join merges them.
RInv == /\ flawed \in BOOLEAN
        /\ ~flawed => NumbersOK /\ RangesOK(range) /\ RangesOK(other) /\ Sound(range)

-----------------------------------------------------------------------------
\* The ends of the integers.
LEMMA Limits == /\ INT_MIN \in Int /\ INT_MAX \in Int
                /\ INT_MIN <= -4 /\ INT_MAX >= 3 /\ INT_MIN = -INT_MAX - 1
BY WidthAssumption DEF INT_MIN, INT_MAX

\* A sum that fits is not changed by the wrap-around of the machine.
LEMMA WrapFits == ASSUME NEW i \in MachineInt PROVE wrap(i) = i
<1>1. ASSUME NEW n \in Nat, NEW p \in Nat, n < p PROVE n % p = n
  BY <1>1
<1> DEFINE n == i - INT_MIN
           p == 2 ^ Width
<1>2. n \in Nat /\ p \in Nat /\ n < p
  BY WidthAssumption DEF INT_MIN, INT_MAX, MachineInt
<1>3. n % p = n
  BY <1>1, <1>2
<1> QED
  BY <1>3, Limits DEF wrap, MachineInt

\* The six ranges, by their ends.
LEMMA RangeCases ==
    ASSUME NEW r \in RangeSet
    PROVE  /\ r.begin \in {INT_MIN, 0, 1} /\ r.end \in {-1, 0, 1, INT_MAX}
           /\ r.begin \in MachineInt /\ r.end \in MachineInt
BY Limits DEF RangeSet, MAX, NEG, ABOVE0, POS, ZERO, ONE, Range, MachineInt

\* Range::get answers with one of the ranges, and it includes what was asked.
LEMMA GetIncludes ==
    ASSUME NEW a \in Int, NEW b \in Int
    PROVE  /\ get(a, b) \in RangeSet
           /\ a >= INT_MIN /\ b <= INT_MAX => get(a, b).begin <= a /\ b <= get(a, b).end
<1> DEFINE rs == <<ZERO, ONE, NEG, ABOVE0, POS>>
           fits == {i \in DOMAIN rs : within(rs[i], a, b)}
<1>1. DOMAIN rs = 1 .. 5 /\ \A i \in 1 .. 5 : rs[i] \in RangeSet
  BY DEF RangeSet
<1> HIDE DEF rs
<1>2. fits \subseteq 1 .. 5
  BY <1>1
<1>3. CASE fits = {}
  <2>1. get(a, b) = MAX
    BY <1>3 DEF get, firstOf, rs
  <2> QED
    BY <2>1 DEF MAX, Range, RangeSet
<1>4. CASE fits # {}
  <2> DEFINE k == CHOOSE i \in fits : \A j \in fits : i <= j
  <2>1. \E i \in fits : \A j \in fits : i <= j
    <3> HIDE DEF fits
    <3>1. PICK x \in fits : TRUE
      BY <1>4
    <3>2. 1 \in fits \/ 2 \in fits \/ 3 \in fits \/ 4 \in fits \/ 5 \in fits
      BY <3>1, <1>2
    <3> QED
      BY <3>2, <1>2
  <2>2. k \in fits
    BY <2>1
  <2>3. get(a, b) = rs[k]
    BY <1>4 DEF get, firstOf, rs
  <2>4. within(rs[k], a, b) /\ rs[k] \in RangeSet
    BY <2>2, <1>1
  <2> QED
    BY <2>3, <2>4, RangeCases, Limits DEF within, MachineInt
<1> QED
  BY <1>3, <1>4

\* Range::merge: the range at a join includes those of both sides.
LEMMA MergeIncludes ==
    ASSUME NEW r \in RangeSet, NEW s \in RangeSet
    PROVE  /\ merge(r, s) \in RangeSet
           /\ \A i \in MachineInt : Covers(r, i) \/ Covers(s, i) => Covers(merge(r, s), i)
BY Limits DEF RangeSet, MAX, NEG, ABOVE0, POS, ZERO, ONE, Range, MachineInt, merge, within,
              Covers

\* Range::get as the first of the ranges in their order.
LEMMA GetFirst ==
    ASSUME NEW a \in Int, NEW b \in Int, a >= INT_MIN
    PROVE  get(a, b) = IF a >= 0 /\ b <= 0 THEN ZERO
                       ELSE IF a >= 1 /\ b <= 1 THEN ONE
                       ELSE IF b <= -1 THEN NEG
                       ELSE IF a >= 1 /\ b <= INT_MAX THEN ABOVE0
                       ELSE IF a >= 0 /\ b <= INT_MAX THEN POS ELSE MAX
<1> DEFINE rs == <<ZERO, ONE, NEG, ABOVE0, POS>>
           fits == {i \in DOMAIN rs : within(rs[i], a, b)}
           k == CHOOSE i \in fits : \A j \in fits : i <= j
<1>1. /\ rs[1] = ZERO /\ rs[2] = ONE /\ rs[3] = NEG /\ rs[4] = ABOVE0 /\ rs[5] = POS
      /\ DOMAIN rs = 1 .. 5
  OBVIOUS
<1>2. get(a, b) = IF fits = {} THEN MAX ELSE rs[k]
  BY DEF get, firstOf
<1> HIDE DEF rs
<1>3. /\ 1 \in fits <=> a >= 0 /\ b <= 0
      /\ 2 \in fits <=> a >= 1 /\ b <= 1
      /\ 3 \in fits <=> b <= -1
      /\ 4 \in fits <=> a >= 1 /\ b <= INT_MAX
      /\ 5 \in fits <=> a >= 0 /\ b <= INT_MAX
      /\ fits \subseteq 1 .. 5
  BY <1>1, Limits DEF within, ZERO, ONE, NEG, ABOVE0, POS, Range
<1> HIDE DEF fits
<1>4. ASSUME NEW i \in fits, \A j \in fits : i <= j PROVE k = i
  <2>1. k \in fits /\ \A j \in fits : k <= j
    BY <1>4
  <2> HIDE DEF k
  <2> QED
    BY <2>1, <1>3, <1>4
<1> HIDE DEF k
<1>5. CASE fits = {}
  BY <1>2, <1>3, <1>5
<1>6. CASE 1 \in fits
  BY <1>1, <1>2, <1>3, <1>4, <1>6
<1>7. CASE 1 \notin fits /\ 2 \in fits
  BY <1>1, <1>2, <1>3, <1>4, <1>7
<1>8. CASE 1 \notin fits /\ 2 \notin fits /\ 3 \in fits
  BY <1>1, <1>2, <1>3, <1>4, <1>8
<1>9. CASE 1 \notin fits /\ 2 \notin fits /\ 3 \notin fits /\ 4 \in fits
  BY <1>1, <1>2, <1>3, <1>4, <1>9
<1>10. CASE 1 \notin fits /\ 2 \notin fits /\ 3 \notin fits /\ 4 \notin fits /\ 5 \in fits
  BY <1>1, <1>2, <1>3, <1>4, <1>10
<1>11. ASSUME NEW x \in fits
       PROVE  1 \in fits \/ 2 \in fits \/ 3 \in fits \/ 4 \in fits \/ 5 \in fits
  BY <1>3
<1> QED
  BY <1>5, <1>6, <1>7, <1>8, <1>9, <1>10, <1>11

\* Every operation answers with one of the ranges.
LEMMA BinopRange ==
    ASSUME NEW op \in {"Add", "Sub", "Mul"}, NEW r \in RangeSet, NEW s \in RangeSet
    PROVE  binop(op, r, s) \in RangeSet
<1>1. ASSUME NEW x \in Int PROVE wrap(x) \in Int
  BY <1>1, WidthAssumption, Limits DEF wrap
<1>2. ASSUME NEW x \in Int, NEW y \in Int PROVE arith(op, x, y) \in Int
  BY <1>1, <1>2 DEF arith, exact
<1>3. r.begin \in Int /\ r.end \in Int /\ s.begin \in Int /\ s.end \in Int
  BY RangeCases, Limits DEF MachineInt
<1> QED
  BY <1>2, <1>3, GetIncludes, Limits DEF binop

\* The products that bound a range.
LEMMA Products ==
    \A x \in {-1, 0, 1}, y \in Int : x * y = IF x = 0 THEN 0 ELSE IF x = 1 THEN y ELSE -y
OBVIOUS

LEMMA ExactFits ==
    ASSUME NEW op \in {"Add", "Sub", "Mul"}, NEW x \in {-1, 0, 1},
           NEW y \in {-1, 0, 1, INT_MAX}, op = "Add" /\ y = INT_MAX => x # 1
    PROVE  exact(op, x, y) \in MachineInt
<1>1. CASE op = "Add"
  BY <1>1, Limits DEF exact, MachineInt
<1>2. CASE op = "Sub"
  BY <1>2, Limits DEF exact, MachineInt
<1>3. CASE op = "Mul"
  <2>1. exact(op, x, y) = IF x = 0 THEN 0 ELSE IF x = 1 THEN y ELSE -y
    BY <1>3, Products, Limits DEF exact
  <2> QED
    BY <2>1, Limits DEF MachineInt
<1> QED
  BY <1>1, <1>2, <1>3

\* Without a flawed rule no bound wraps around.
LEMMA BinopBounds ==
    ASSUME NEW op \in {"Add", "Sub", "Mul"}, NEW r \in RangeSet, NEW s \in RangeSet,
           ~flawedArith(op, r, s)
    PROVE  binop(op, r, s) =
             get(IF r.begin = INT_MIN \/ s.begin = INT_MIN THEN INT_MIN
                 ELSE exact(op, r.begin, s.begin),
                 IF r.end = INT_MAX THEN INT_MAX ELSE exact(op, r.end, s.end))
<1>1. ASSUME NEW x \in Int, NEW y \in Int, exact(op, x, y) \in MachineInt
      PROVE  arith(op, x, y) = exact(op, x, y)
  BY <1>1, WrapFits DEF arith
<1>2. s.begin # INT_MAX
  BY RangeCases, Limits
<1>3. ASSUME r.begin # INT_MIN, s.begin # INT_MIN
      PROVE  arith(op, r.begin, s.begin) = exact(op, r.begin, s.begin)
  <2>1. r.begin \in {0, 1} /\ s.begin \in {0, 1}
    BY <1>3, RangeCases
  <2>2. exact(op, r.begin, s.begin) \in MachineInt
    BY <2>1, ExactFits, Limits
  <2> QED
    BY <2>1, <2>2, <1>1
<1>4. ASSUME r.end # INT_MAX
      PROVE  arith(op, r.end, s.end) = exact(op, r.end, s.end)
  <2>1. r.end \in {-1, 0, 1} /\ s.end \in {-1, 0, 1, INT_MAX}
    BY <1>4, RangeCases
  <2>2. op = "Add" /\ s.end = INT_MAX => r.end # 1
    BY Limits DEF flawedArith, RangeSet, MAX, NEG, ABOVE0, POS, ZERO, ONE, Range
  <2>3. exact(op, r.end, s.end) \in MachineInt
    BY <2>1, <2>2, ExactFits
  <2> QED
    BY <2>1, <2>3, <1>1, Limits
<1> QED
  BY <1>2, <1>3, <1>4 DEF binop

\* apply of Add, Sub and Mul: the number computed is within its range.
LEMMA BinopIncludes ==
    ASSUME NEW op \in {"Add", "Sub", "Mul"}, NEW r \in RangeSet, NEW s \in RangeSet,
           ~flawedArith(op, r, s), NEW i \in MachineInt, NEW j \in MachineInt,
           exact(op, i, j) \in MachineInt, Covers(r, i), Covers(s, j)
    PROVE  Covers(binop(op, r, s), exact(op, i, j))
<1> DEFINE low == IF r.begin = INT_MIN \/ s.begin = INT_MIN THEN INT_MIN
                  ELSE exact(op, r.begin, s.begin)
           high == IF r.end = INT_MAX THEN INT_MAX ELSE exact(op, r.end, s.end)
<1> USE Limits DEF MachineInt, Covers
<1>1. CASE op = "Add"
  <2>1. low \in Int /\ low >= INT_MIN /\ high \in Int
    BY <1>1, RangeCases DEF exact
  <2>2. low <= i + j /\ i + j <= high
    BY <1>1, RangeCases DEF exact
  <2> QED
    BY <1>1, <2>1, <2>2, BinopBounds, GetFirst DEF exact, RangeSet, MAX, NEG, ABOVE0,
       POS, ZERO, ONE, Range
<1>2. CASE op = "Sub"
  <2>1. CASE r = MAX \/ s = NEG
    <3>1. low = INT_MIN /\ high \in Int /\ high >= 0
      BY <1>2, <2>1, RangeCases DEF exact, MAX, NEG, Range, flawedArith
    <3> QED
      BY <1>2, <3>1, BinopBounds, GetFirst DEF exact, MAX, Range
  <2>2. CASE s = ZERO \/ s = ONE
    <3>1. low \in Int /\ low >= INT_MIN /\ high \in Int
      BY <1>2, <2>2, RangeCases DEF exact, ZERO, ONE, Range
    <3>2. low <= i - j /\ i - j <= high
      BY <1>2, <2>2, RangeCases DEF exact, ZERO, ONE, Range
    <3> QED
      BY <1>2, <3>1, <3>2, BinopBounds, GetFirst DEF exact, MAX, NEG, ABOVE0, POS, ZERO, ONE,
         Range
  <2> QED
    BY <1>2, <2>1, <2>2 DEF flawedArith, RangeSet, MAX, ABOVE0, POS, Range
<1>3. CASE op = "Mul"
  <2>1. binop(op, r, s) = get(low, high) /\ exact(op, i, j) = i * j
    BY <1>3, BinopBounds DEF exact
  <2>2. \A x \in {-1, 0, 1} : exact(op, x, s.end) = IF x = 0 THEN 0 ELSE IF x = 1 THEN s.end
                                                                        ELSE -s.end
    BY <1>3, Products, RangeCases DEF exact
  <2>3. \A x \in {0, 1} : exact(op, x, s.begin) = IF x = 0 THEN 0 ELSE s.begin
    BY <1>3, Products, RangeCases DEF exact
  <2>4. CASE r = ZERO
    <3>1. i = 0 /\ i * j = 0
      BY <2>4 DEF ZERO, Range
    <3>2. low \in {INT_MIN, 0} /\ high = 0
      BY <2>4, <2>2, <2>3 DEF ZERO, Range
    <3> QED
      BY <2>1, <3>1, <3>2, GetFirst DEF MAX, NEG, ABOVE0, POS, ZERO, ONE, Range
  <2>5. CASE r = ONE
    <3>1. i = 1 /\ i * j = j
      BY <2>5 DEF ONE, Range
    <3>2. low = s.begin /\ high = s.end
      BY <2>5, <2>2, <2>3 DEF ONE, Range
    <3> QED
      BY <2>1, <3>1, <3>2, GetFirst, RangeCases
         DEF MAX, NEG, ABOVE0, POS, ZERO, ONE, Range
  <2>6. CASE r \in {MAX, ABOVE0, POS}
    <3>1. high = INT_MAX
      BY <2>6 DEF MAX, ABOVE0, POS, Range
    <3>2. low \in Int /\ low >= INT_MIN /\ low <= i * j
      <4>1. CASE low = INT_MIN
        BY <4>1, <2>1
      <4>2. CASE low # INT_MIN
        <5>1. r.begin \in {0, 1} /\ s.begin \in {0, 1} /\ low = exact(op, r.begin, s.begin)
          BY <4>2, RangeCases
        <5>2. low = IF r.begin = 0 THEN 0 ELSE s.begin
          BY <5>1, <2>3
        <5>3. i * j >= 0 /\ (i >= 1 /\ j >= 1 => i * j >= 1)
          BY <5>1
        <5> QED
          BY <5>1, <5>2, <5>3
      <4> QED
        BY <4>1, <4>2
    <3> QED
      BY <2>1, <3>1, <3>2, GetFirst DEF MAX, NEG, ABOVE0, POS, ZERO, ONE, Range
  <2>7. CASE r = NEG
    <3>1. low = INT_MIN /\ high = -s.end /\ i <= -1
      BY <2>7, <2>2 DEF NEG, Range
    <3>2. s = ABOVE0 \/ s = ONE => j >= 1 /\ i * j <= -1
      BY <3>1 DEF ABOVE0, ONE, Range
    <3>3. s \in {ABOVE0, ONE, NEG, ZERO}
      BY <1>3, <2>7 DEF flawedArith, RangeSet, MAX, POS, Range
    <3> QED
      BY <2>1, <3>1, <3>2, <3>3, GetFirst, RangeCases DEF MAX, NEG, ABOVE0, POS, ZERO, ONE, Range
  <2> QED
    BY <2>4, <2>5, <2>6, <2>7 DEF RangeSet
<1> QED
  BY <1>1, <1>2, <1>3

\* Range::get of bounds that hold of a number.
LEMMA GetCovers ==
    ASSUME NEW a \in Int, NEW b \in Int, NEW i \in Int,
           a >= INT_MIN, b <= INT_MAX, a <= i, i <= b
    PROVE  Covers(get(a, b), i)
<1>1. /\ get(a, b) \in RangeSet /\ get(a, b).begin <= a /\ b <= get(a, b).end
  BY GetIncludes
<1> QED
  BY <1>1, RangeCases, Limits DEF Covers, MachineInt

\* applyEntry with Lt and Lte: in the arm that is taken both operands are
\* within what the comparison leaves of their ranges.
LEMMA LessIncludes ==
    ASSUME NEW tag \in {"Lt", "Lte"}, NEW r \in RangeSet, NEW s \in RangeSet,
           NEW i \in MachineInt, NEW j \in MachineInt, Covers(r, i), Covers(s, j),
           i <= j, tag = "Lt" /\ single(s) => i < j, tag = "Lte" /\ single(r) => i < j
    PROVE  Covers(applyLess(tag, r, s)[1], i) /\ Covers(applyLess(tag, r, s)[2], j)
<1> DEFINE up == IF tag = "Lt" /\ s.begin = s.end THEN s.end - 1 ELSE s.end
           low == IF tag = "Lte" /\ r.begin = r.end THEN r.begin + 1 ELSE r.begin
<1>1. /\ up \in Int /\ i <= up /\ low \in Int /\ low <= j
      /\ up <= INT_MAX /\ up >= INT_MIN /\ low <= INT_MAX /\ low >= INT_MIN
  BY RangeCases, Limits DEF Covers, MachineInt, single
<1>2. /\ applyLess(tag, r, s)[1] = get(min(r.begin, up), min(r.end, up))
      /\ applyLess(tag, r, s)[2] = get(max(low, s.begin), max(low, s.end))
  BY DEF applyLess
<1> HIDE DEF up, low
<1>3. /\ min(r.begin, up) \in Int /\ min(r.end, up) \in Int
      /\ min(r.begin, up) <= i /\ i <= min(r.end, up)
      /\ min(r.begin, up) >= INT_MIN /\ min(r.end, up) <= INT_MAX
  BY <1>1, RangeCases, Limits DEF Covers, MachineInt, min
<1>4. /\ max(low, s.begin) \in Int /\ max(low, s.end) \in Int
      /\ max(low, s.begin) <= j /\ j <= max(low, s.end)
      /\ max(low, s.begin) >= INT_MIN /\ max(low, s.end) <= INT_MAX
  BY <1>1, RangeCases, Limits DEF Covers, MachineInt, max
<1>5. Covers(get(min(r.begin, up), min(r.end, up)), i)
  BY <1>3, GetCovers, Limits DEF MachineInt
<1>6. Covers(get(max(low, s.begin), max(low, s.end)), j)
  BY <1>4, GetCovers, Limits DEF MachineInt
<1> QED
  BY <1>2, <1>5, <1>6

\* applyEntry with Gt and Gte.
LEMMA GreaterIncludes ==
    ASSUME NEW tag \in {"Gt", "Gte"}, NEW r \in RangeSet, NEW s \in RangeSet,
           NEW i \in MachineInt, NEW j \in MachineInt, Covers(r, i), Covers(s, j),
           i >= j, single(s) => i > j
    PROVE  Covers(applyGreater(tag, r, s)[1], i) /\ Covers(applyGreater(tag, r, s)[2], j)
<1> DEFINE low == IF tag = "Gt" /\ s.begin = s.end THEN s.begin + 1 ELSE s.begin
           up == IF tag = "Gte" /\ s.begin = s.end THEN r.end - 1 ELSE r.end
<1>1. /\ up \in Int /\ j <= up /\ low \in Int /\ low <= i
      /\ up <= INT_MAX /\ up >= INT_MIN /\ low <= INT_MAX /\ low >= INT_MIN
  BY RangeCases, Limits DEF Covers, MachineInt, single
<1>2. /\ applyGreater(tag, r, s)[1] = get(max(r.begin, low), max(r.end, low))
      /\ applyGreater(tag, r, s)[2] = get(min(up, s.begin), min(up, s.end))
  BY DEF applyGreater
<1> HIDE DEF up, low
<1>3. /\ max(r.begin, low) \in Int /\ max(r.end, low) \in Int
      /\ max(r.begin, low) <= i /\ i <= max(r.end, low)
      /\ max(r.begin, low) >= INT_MIN /\ max(r.end, low) <= INT_MAX
  BY <1>1, RangeCases, Limits DEF Covers, MachineInt, max
<1>4. /\ min(up, s.begin) \in Int /\ min(up, s.end) \in Int
      /\ min(up, s.begin) <= j /\ j <= min(up, s.end)
      /\ min(up, s.begin) >= INT_MIN /\ min(up, s.end) <= INT_MAX
  BY <1>1, RangeCases, Limits DEF Covers, MachineInt, min
<1>5. Covers(get(max(r.begin, low), max(r.end, low)), i)
  BY <1>3, GetCovers, Limits DEF MachineInt
<1>6. Covers(get(min(up, s.begin), min(up, s.end)), j)
  BY <1>4, GetCovers, Limits DEF MachineInt
<1> QED
  BY <1>2, <1>5, <1>6

\* What applyEntry computes are ranges.
LEMMA NarrowedRange ==
    ASSUME NEW tag, NEW r \in RangeSet, NEW s \in RangeSet
    PROVE  narrowed(tag, r, s)[1] \in RangeSet /\ narrowed(tag, r, s)[2] \in RangeSet
<1>1. r.begin \in Int /\ r.end \in Int /\ s.begin \in Int /\ s.end \in Int
  BY RangeCases, Limits DEF MachineInt
<1>2. applyLess(tag, r, s)[1] \in RangeSet /\ applyLess(tag, r, s)[2] \in RangeSet
  BY <1>1, GetIncludes DEF applyLess, min, max
<1>3. applyGreater(tag, r, s)[1] \in RangeSet /\ applyGreater(tag, r, s)[2] \in RangeSet
  BY <1>1, GetIncludes DEF applyGreater, min, max
<1> QED
  BY <1>2, <1>3 DEF narrowed

-----------------------------------------------------------------------------
\* Arguments, temporaries and constants have a number.
LEMMA ValueOK ==
    ASSUME NumbersOK, NEW v \in Named
    PROVE  value(v) \in MachineInt
BY NamesAssumption, Limits DEF NumbersOK, Named, value, Const, MachineInt

LEMMA OperandsNamed ==
    ASSUME NumbersOK
    PROVE  Operands \subseteq Named
BY DEF NumbersOK, Operands, live, Named

\* getRange: a value without a range of its own is a constant or unknown.
LEMMA RangeOrOK ==
    ASSUME NumbersOK, NEW m, RangesOK(m), NEW v \in Named
    PROVE  /\ rangeOr(m, v) \in RangeSet
           /\ known(m, v) => getRange(m, v) = rangeOr(m, v)
           /\ Sound(m) => Covers(rangeOr(m, v), value(v))
<1>1. CASE v \in DOMAIN m
  BY <1>1 DEF RangesOK, Sound, rangeOr, known, getRange
<1>2. CASE v \notin DOMAIN m /\ Const(v)
  <2>1. v \in {0, 1} /\ value(v) = v
    BY <1>2 DEF Named, Const, NumbersOK, value
  <2>2. rangeOr(m, v) = get(v, v) /\ getRange(m, v) = get(v, v)
    BY <1>2 DEF rangeOr, known, getRange
  <2>3. v \in Int /\ v >= INT_MIN /\ v <= INT_MAX
    BY <2>1, Limits
  <2> QED
    BY <2>1, <2>2, <2>3, GetIncludes, GetCovers
<1>3. CASE v \notin DOMAIN m /\ ~Const(v)
  <2>1. rangeOr(m, v) = MAX /\ ~known(m, v)
    BY <1>3 DEF rangeOr, known
  <2>2. value(v) \in MachineInt
    BY ValueOK
  <2> QED
    BY <2>1, <2>2, Limits DEF MAX, Range, RangeSet, Covers, MachineInt
<1> QED
  BY <1>1, <1>2, <1>3

\* An update of one range.
LEMMA StoreKeeps ==
    ASSUME NEW m, RangesOK(m), NEW v \in Named, NEW old, NEW new \in RangeSet
    PROVE  /\ RangesOK(store(m, v, old, new))
           /\ Sound(m) /\ Covers(new, value(v)) => Sound(store(m, v, old, new))
<1>1. CASE old = new
  BY <1>1 DEF store
<1>2. CASE old # new
  <2> DEFINE n == update(m, v, new)
  <2>1. store(m, v, old, new) = n
    BY <1>2 DEF store
  <2>2. DOMAIN n = {v} \union DOMAIN m /\ \A u \in DOMAIN n : n[u] = IF u = v THEN new ELSE m[u]
    BY DEF update
  <2> HIDE DEF n
  <2> QED
    BY <2>1, <2>2 DEF RangesOK, Sound
<1> QED
  BY <1>1, <1>2

\* applyEntry on the state of the analysis.
LEMMA EntryKeeps ==
    ASSUME NumbersOK, NEW m, RangesOK(m), NEW tag, NEW l \in Named, NEW r \in Named
    PROVE  /\ RangesOK(applyEntry(m, tag, l, r))
           /\ /\ Sound(m)
              /\ Covers(narrowed(tag, rangeOr(m, l), rangeOr(m, r))[1], value(l))
              /\ Covers(narrowed(tag, rangeOr(m, l), rangeOr(m, r))[2], value(r))
              => Sound(applyEntry(m, tag, l, r))
<1> DEFINE new == narrowed(tag, rangeOr(m, l), rangeOr(m, r))
           n == store(m, l, rangeOr(m, l), new[1])
<1>1. new[1] \in RangeSet /\ new[2] \in RangeSet
  BY RangeOrOK, NarrowedRange
<1>2. applyEntry(m, tag, l, r) = store(n, r, rangeOr(m, r), new[2])
  BY DEF applyEntry
<1> HIDE DEF new
<1>3. RangesOK(n) /\ (Sound(m) /\ Covers(new[1], value(l)) => Sound(n))
  BY <1>1, StoreKeeps
<1> HIDE DEF n
<1>4. /\ RangesOK(store(n, r, rangeOr(m, r), new[2]))
      /\ Sound(n) /\ Covers(new[2], value(r)) => Sound(store(n, r, rangeOr(m, r), new[2]))
  BY <1>1, <1>3, StoreKeeps
<1> QED
  BY <1>2, <1>3, <1>4 DEF new

\* A comparison that is made of two numbers, and what it leaves of their ranges
\* in the arm that is taken.
LEMMA NarrowedIncludes ==
    ASSUME NEW tag \in {"Lt", "Lte", "Gt", "Gte"}, NEW r \in RangeSet, NEW s \in RangeSet,
           NEW i \in MachineInt, NEW j \in MachineInt, Covers(r, i), Covers(s, j)
    PROVE  /\ truth(tag, i, j) /\ ~flawedTest(tag, r, s, TRUE)
              => Covers(narrowed(tag, r, s)[1], i) /\ Covers(narrowed(tag, r, s)[2], j)
           /\ ~truth(tag, j, i) /\ ~flawedTest(tag, r, s, FALSE)
              => Covers(narrowed(tag, r, s)[1], i) /\ Covers(narrowed(tag, r, s)[2], j)
<1>1. CASE tag \in {"Lt", "Lte"}
  <2>1. ASSUME truth(tag, i, j), ~flawedTest(tag, r, s, TRUE)
        PROVE  /\ i <= j /\ (tag = "Lt" /\ single(s) => i < j)
               /\ (tag = "Lte" /\ single(r) => i < j)
    BY <1>1, <2>1, Limits DEF truth, flawedTest, MachineInt
  <2>2. ASSUME ~truth(tag, j, i), ~flawedTest(tag, r, s, FALSE)
        PROVE  /\ i <= j /\ (tag = "Lt" /\ single(s) => i < j)
               /\ (tag = "Lte" /\ single(r) => i < j)
    BY <1>1, <2>2, Limits DEF truth, flawedTest, MachineInt
  <2>3. narrowed(tag, r, s) = applyLess(tag, r, s)
    BY <1>1 DEF narrowed
  <2> QED
    BY <1>1, <2>1, <2>2, <2>3, LessIncludes
<1>2. CASE tag \in {"Gt", "Gte"}
  <2>1. ASSUME truth(tag, i, j), ~flawedTest(tag, r, s, TRUE)
        PROVE  i >= j /\ (single(s) => i > j)
    BY <1>2, <2>1, Limits DEF truth, flawedTest, MachineInt
  <2>2. ASSUME ~truth(tag, j, i), ~flawedTest(tag, r, s, FALSE)
        PROVE  i >= j /\ (single(s) => i > j)
    BY <1>2, <2>2, Limits DEF truth, flawedTest, MachineInt
  <2>3. narrowed(tag, r, s) = applyGreater(tag, r, s)
    BY <1>2 DEF narrowed
  <2> QED
    BY <1>2, <2>1, <2>2, <2>3, GreaterIncludes
<1> QED
  BY <1>1, <1>2

-----------------------------------------------------------------------------
\* A temporary gets its number.
LEMMA NewNumber ==
    ASSUME NumbersOK, NEW t \in Temp, t \notin DOMAIN num, NEW n \in MachineInt,
           num' = update(num, t, n)
    PROVE  /\ NumbersOK' /\ t \notin Named /\ Named' = Named \union {t}
           /\ value(t)' = n /\ \A v \in Named : value(v)' = value(v)
<1>1. DOMAIN num' = DOMAIN num \union {t} /\ num'[t] = n /\ \A v \in DOMAIN num : num'[v] = num[v]
  BY DEF update
<1>2. NumbersOK'
  BY <1>1 DEF NumbersOK
<1>3. t \notin Named /\ Named' = Named \union {t}
  BY <1>1, NamesAssumption DEF Named
<1>4. value(t)' = n
  BY <1>1 DEF value, Const
<1>5. \A v \in Named : value(v)' = value(v)
  BY <1>1, NamesAssumption DEF value, Const, Named
<1> QED
  BY <1>2, <1>3, <1>4, <1>5

\* The ranges after that, with one for the temporary.
LEMMA NewRange ==
    ASSUME NumbersOK, NEW t \in Temp, t \notin DOMAIN num, NEW n \in MachineInt,
           num' = update(num, t, n), NEW m, RangesOK(m)
    PROVE  /\ RangesOK(m)'
           /\ Sound(m) => Sound(m)'
           /\ \A r \in RangeSet :
                /\ RangesOK(update(m, t, r))'
                /\ Sound(m) /\ Covers(r, n) => Sound(update(m, t, r))'
<1>1. /\ t \notin Named /\ Named' = Named \union {t}
      /\ value(t)' = n /\ \A v \in Named : value(v)' = value(v)
  BY NewNumber
<1>2. RangesOK(m)'
  BY <1>1 DEF RangesOK
<1>3. Sound(m) => Sound(m)'
  BY <1>1 DEF RangesOK, Sound
<1>4. ASSUME NEW r \in RangeSet
      PROVE  /\ RangesOK(update(m, t, r))'
             /\ Sound(m) /\ Covers(r, n) => Sound(update(m, t, r))'
  <2> DEFINE o == update(m, t, r)
  <2>1. DOMAIN o = {t} \union DOMAIN m /\ \A u \in DOMAIN o : o[u] = IF u = t THEN r ELSE m[u]
    BY DEF update
  <2> HIDE DEF o
  <2>2. RangesOK(o)'
    BY <2>1, <1>1 DEF RangesOK
  <2>3. Sound(m) /\ Covers(r, n) => Sound(o)'
    BY <2>1, <1>1 DEF Sound, RangesOK
  <2> QED
    BY <2>2, <2>3 DEF o
<1> QED
  BY <1>2, <1>3, <1>4

\* The first state: arguments without ranges.
LEMMA InitRanges == Init => RInv
<1> SUFFICES ASSUME Init PROVE RInv
  OBVIOUS
<1>1. NumbersOK
  BY Limits DEF Init, NumbersOK, Ints, MachineInt
<1>2. DOMAIN range = {} /\ DOMAIN other = {}
  BY DEF Init
<1>3. flawed \in BOOLEAN
  BY DEF Init
<1> QED
  BY <1>1, <1>2, <1>3 DEF RInv, RangesOK, Sound

\* Arithmetic.
LEMMA ComputeStep ==
    ASSUME RInv, NEW op \in {"Add", "Sub", "Mul"}, NEW t \in Temp,
           NEW l \in Operands, NEW r \in Operands, Compute(op, t, l, r), ~flawed'
    PROVE  NumbersOK' /\ RangesOK(range)' /\ RangesOK(other)' /\ Sound(range)'
<1> DEFINE n == exact(op, value(l), value(r))
           a == rangeOr(range, l)
           b == rangeOr(range, r)
<1>1. ~flawed
  BY DEF Compute, more
<1>2. NumbersOK /\ RangesOK(range) /\ RangesOK(other) /\ Sound(range)
  BY <1>1 DEF RInv
<1>3. l \in Named /\ r \in Named
  BY <1>2, OperandsNamed
<1>4. /\ value(l) \in MachineInt /\ value(r) \in MachineInt
      /\ a \in RangeSet /\ b \in RangeSet /\ Covers(a, value(l)) /\ Covers(b, value(r))
  BY <1>2, <1>3, ValueOK, RangeOrOK
<1>5. n \in MachineInt /\ t \notin DOMAIN num /\ num' = update(num, t, n) /\ other' = other
  BY Limits DEF Compute, MachineInt
<1> HIDE DEF n
<1>6. NumbersOK' /\ RangesOK(other)'
  BY <1>2, <1>5, NewNumber, NewRange
<1>7. CASE ~(known(range, l) /\ known(range, r))
  <2>1. range' = range
    BY <1>7 DEF Compute
  <2> QED
    BY <2>1, <1>2, <1>5, <1>6, NewRange
<1>8. CASE known(range, l) /\ known(range, r)
  <2>1. getRange(range, l) = a /\ getRange(range, r) = b
    BY <1>8, <1>2, <1>3, RangeOrOK
  <2>2. range' = update(range, t, binop(op, a, b)) /\ ~flawedArith(op, a, b)
    BY <1>8, <2>1 DEF Compute
  <2>3. binop(op, a, b) \in RangeSet
    BY <1>4, BinopRange
  <2>4. Covers(binop(op, a, b), n)
    BY <1>4, <1>5, <2>2, BinopIncludes DEF n
  <2> QED
    BY <2>2, <2>3, <2>4, <1>2, <1>5, <1>6, NewRange
<1> QED
  BY <1>7, <1>8

\* A test, and the arm that is taken.
LEMMA BranchStep ==
    ASSUME RInv, NEW tag \in {"Lt", "Lte", "Gt", "Gte"},
           NEW l \in Operands, NEW r \in Operands, Branch(tag, l, r), ~flawed'
    PROVE  NumbersOK' /\ RangesOK(range)' /\ RangesOK(other)' /\ Sound(range)'
<1> DEFINE holds == truth(tag, value(l), value(r))
           a == rangeOr(range, l)
           b == rangeOr(range, r)
<1>1. ~flawed
  BY DEF Branch, more
<1>2. NumbersOK /\ RangesOK(range) /\ RangesOK(other) /\ Sound(range)
  BY <1>1 DEF RInv
<1>3. l \in Named /\ r \in Named
  BY <1>2, OperandsNamed
<1>4. /\ value(l) \in MachineInt /\ value(r) \in MachineInt
      /\ a \in RangeSet /\ b \in RangeSet /\ Covers(a, value(l)) /\ Covers(b, value(r))
  BY <1>2, <1>3, ValueOK, RangeOrOK
<1>5. num' = num
  BY DEF Branch
<1>6. (holds => ~flawedTest(tag, a, b, TRUE)) /\ (~holds => ~flawedTest(tag, b, a, FALSE))
  BY Zenon DEF Branch
<1>7. RangesOK(applyEntry(range, tag, l, r)) /\ RangesOK(applyEntry(range, tag, r, l))
  BY <1>2, <1>3, EntryKeeps
<1>8. NumbersOK' /\ (\A m : RangesOK(m) => RangesOK(m)') /\ (\A m : Sound(m) => Sound(m)')
  BY <1>2, <1>5 DEF NumbersOK, RangesOK, Sound, Named, value
<1>9. CASE holds
  <2>1. range' = applyEntry(range, tag, l, r) /\ other' = applyEntry(range, tag, r, l)
    BY <1>9 DEF Branch
  <2>2. Covers(narrowed(tag, a, b)[1], value(l)) /\ Covers(narrowed(tag, a, b)[2], value(r))
    BY <1>4, <1>6, <1>9, NarrowedIncludes
  <2>3. Sound(applyEntry(range, tag, l, r))
    BY <2>2, <1>2, <1>3, EntryKeeps
  <2> QED
    BY <2>1, <2>3, <1>7, <1>8
<1>10. CASE ~holds
  <2>1. range' = applyEntry(range, tag, r, l) /\ other' = applyEntry(range, tag, l, r)
    BY <1>10 DEF Branch
  <2>2. Covers(narrowed(tag, b, a)[1], value(r)) /\ Covers(narrowed(tag, b, a)[2], value(l))
    BY <1>4, <1>6, <1>10, NarrowedIncludes
  <2>3. Sound(applyEntry(range, tag, r, l))
    BY <2>2, <1>2, <1>3, EntryKeeps
  <2> QED
    BY <2>1, <2>3, <1>7, <1>8
<1> QED
  BY <1>9, <1>10

\* The state where the arms meet: a value that has a range in the arm that was
\* taken is within the merged one.
LEMMA MergeStateKeeps ==
    ASSUME NumbersOK, NEW m, NEW o, RangesOK(m), RangesOK(o)
    PROVE  /\ RangesOK(mergeState(m, o))
           /\ Sound(m) /\ DOMAIN o \subseteq DOMAIN m => Sound(mergeState(m, o))
           /\ Sound(o) /\ DOMAIN m \subseteq DOMAIN o => Sound(mergeState(m, o))
<1> DEFINE q == mergeState(m, o)
<1>1. /\ DOMAIN q = DOMAIN m \union DOMAIN o
      /\ \A v \in DOMAIN q : q[v] = IF v \notin DOMAIN o THEN m[v]
                                    ELSE IF v \notin DOMAIN m THEN o[v] ELSE merge(m[v], o[v])
  BY DEF mergeState
<1> HIDE DEF q
<1>2. RangesOK(q)
  BY <1>1, MergeIncludes DEF RangesOK
<1>4. ASSUME NEW v \in DOMAIN m \union DOMAIN o PROVE value(v) \in MachineInt
  BY ValueOK DEF RangesOK
<1>5. Sound(m) /\ DOMAIN o \subseteq DOMAIN m => Sound(q)
  BY <1>1, <1>4, MergeIncludes DEF RangesOK, Sound
<1>6. Sound(o) /\ DOMAIN m \subseteq DOMAIN o => Sound(q)
  BY <1>1, <1>4, MergeIncludes DEF RangesOK, Sound
<1> QED
  BY <1>2, <1>5, <1>6 DEF q

\* A phi of the value the execution brings and of the one of the other arm.
LEMMA PhiKeeps ==
    ASSUME NumbersOK, NEW m, RangesOK(m), Sound(m), NEW v1 \in Named, NEW v2 \in Named
    PROVE  /\ phi(m, v1, v2) \in RangeSet
           /\ Covers(phi(m, v1, v2), value(v1))
           /\ known(m, v2) \/ ~known(m, v1) => Covers(phi(m, v1, v2), value(v2))
<1> DEFINE a == getRange(m, v1)
           b == getRange(m, v2)
<1>1. value(v1) \in MachineInt /\ value(v2) \in MachineInt
  BY ValueOK
<1>2. /\ known(m, v1) => a \in RangeSet /\ Covers(a, value(v1))
      /\ known(m, v2) => b \in RangeSet /\ Covers(b, value(v2))
  BY RangeOrOK
<1>3. \A i \in MachineInt : Covers(MAX, i)
  BY Limits DEF Covers, MAX, Range, MachineInt
<1>4. phi(m, v1, v2) = IF ~known(m, v1) THEN MAX ELSE IF known(m, v2) THEN merge(a, b) ELSE a
  BY DEF phi
<1>5. MAX \in RangeSet
  BY DEF RangeSet
<1> HIDE DEF a, b
<1>6. CASE ~known(m, v1)
  BY <1>1, <1>3, <1>4, <1>5, <1>6
<1>7. CASE known(m, v1) /\ known(m, v2)
  BY <1>1, <1>2, <1>4, <1>7, MergeIncludes
<1>8. CASE known(m, v1) /\ ~known(m, v2)
  BY <1>2, <1>4, <1>8
<1> QED
  BY <1>6, <1>7, <1>8

\* The join.
LEMMA JoinStep ==
    ASSUME RInv, NEW t \in Temp, NEW mine \in Operands, NEW theirs \in Operands,
           NEW first \in BOOLEAN, Join(t, mine, theirs, first), ~flawed'
    PROVE  NumbersOK' /\ RangesOK(range)' /\ RangesOK(other)' /\ Sound(range)'
<1> DEFINE m == IF first THEN mergeState(range, other) ELSE mergeState(other, range)
           v1 == IF first THEN mine ELSE theirs
           v2 == IF first THEN theirs ELSE mine
<1>1. ~flawed /\ ~flawedMerge(range, other) /\ ~flawedPhi(m, mine, theirs, first)
  BY Zenon DEF Join
<1>2. NumbersOK /\ RangesOK(range) /\ RangesOK(other) /\ Sound(range)
  BY <1>1 DEF RInv
<1>3. mine \in Named /\ theirs \in Named
  BY <1>2, OperandsNamed
<1>4. /\ t \notin DOMAIN num /\ num' = update(num, t, value(mine))
      /\ range' = update(m, t, phi(m, v1, v2)) /\ other' = <<>>
  BY Zenon DEF Join
<1>5. RangesOK(m) /\ Sound(m)
  <2>1. DOMAIN other \subseteq DOMAIN range
    BY <1>1 DEF flawedMerge
  <2>2. CASE first
    BY <2>1, <2>2, <1>2, MergeStateKeeps
  <2>3. CASE ~first
    BY <2>1, <2>3, <1>2, MergeStateKeeps
  <2> QED
    BY <2>2, <2>3
<1>6. first \/ known(m, mine) \/ ~known(m, theirs)
  BY <1>1, Zenon DEF flawedPhi
<1> HIDE DEF m
<1>7. phi(m, v1, v2) \in RangeSet /\ Covers(phi(m, v1, v2), value(mine))
  <2>1. CASE first
    BY <2>1, <1>2, <1>3, <1>5, PhiKeeps
  <2>2. CASE ~first
    BY <2>2, <1>2, <1>3, <1>5, <1>6, PhiKeeps
  <2> QED
    BY <2>1, <2>2
<1>8. value(mine) \in MachineInt
  BY <1>2, <1>3, ValueOK
<1>9. NumbersOK'
  BY <1>2, <1>4, <1>8, NewNumber
<1>10. RangesOK(range)' /\ Sound(range)'
  BY <1>2, <1>4, <1>5, <1>7, <1>8, NewRange
<1>11. RangesOK(other)'
  <2>1. DOMAIN other' = {}
    BY <1>4
  <2> QED
    BY <2>1 DEF RangesOK
<1> QED
  BY <1>9, <1>10, <1>11

\* Every step of an execution and of the analysis beside it keeps RInv.
LEMMA NextRanges == RInv /\ [Next]_vars => RInv'
<1> SUFFICES ASSUME RInv, [Next]_vars PROVE RInv'
  OBVIOUS
<1> DEFINE Good == NumbersOK /\ RangesOK(range) /\ RangesOK(other) /\ Sound(range)
<1>1. ASSUME NEW op \in {"Add", "Sub", "Mul"}, NEW t \in Temp, NEW l \in Operands,
             NEW r \in Operands, Compute(op, t, l, r)
      PROVE  flawed' \in BOOLEAN /\ (~flawed' => Good')
  <2>1. flawed' \in BOOLEAN
    BY <1>1, Zenon DEF Compute, RInv
  <2> QED
    BY <2>1, <1>1, ComputeStep
<1>2. ASSUME NEW tag \in {"Lt", "Lte", "Gt", "Gte"}, NEW l \in Operands, NEW r \in Operands,
             Branch(tag, l, r)
      PROVE  flawed' \in BOOLEAN /\ (~flawed' => Good')
  <2>1. flawed' \in BOOLEAN
    BY <1>2, Zenon DEF Branch
  <2> QED
    BY <2>1, <1>2, BranchStep
<1>3. ASSUME NEW t \in Temp, NEW mine \in Operands, NEW theirs \in Operands,
             NEW first \in BOOLEAN, Join(t, mine, theirs, first)
      PROVE  flawed' \in BOOLEAN /\ (~flawed' => Good')
  <2>1. flawed' \in BOOLEAN
    BY <1>3, Zenon DEF Join
  <2> QED
    BY <2>1, <1>3, JoinStep
<1>4. CASE UNCHANGED vars
  BY <1>4 DEF vars, RInv, NumbersOK, RangesOK, Sound, Named, value
<1>5. CASE Next
  <2>1. flawed' \in BOOLEAN /\ (~flawed' => Good')
    BY <1>5, <1>1, <1>2, <1>3 DEF Next
  <2> QED
    BY <2>1 DEF RInv
<1> QED
  BY <1>4, <1>5

(* RangeAnalysis: on every path of every execution, for integers of every  *)
(* width and any number of values, a value is within the range the         *)
(* analysis gives it, unless one of the rules that do not hold of integers *)
(* was applied before.                                                     *)
THEOREM ValuesInRangeHolds == Spec => []ValuesInRange
<1>1. RInv => ValuesInRange
  <2> SUFFICES ASSUME RInv, ~flawed, NEW v \in DOMAIN range
               PROVE  within(range[v], value(v), value(v))
    BY DEF ValuesInRange
  <2>1. Covers(range[v], value(v)) /\ range[v] \in RangeSet /\ v \in Named /\ NumbersOK
    BY DEF RInv, Sound, RangesOK
  <2>2. value(v) \in MachineInt
    BY <2>1, ValueOK
  <2> QED
    BY <2>1, <2>2, RangeCases, Limits DEF Covers, within, MachineInt
<1> QED
  BY <1>1, InitRanges, NextRanges, PTL DEF Spec
=============================================================================
