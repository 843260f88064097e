--------------------------- MODULE VersionsProofs ---------------------------
(***************************************************************************)
(* smaller is a preorder on contexts, and operator< is a strict total order *)
(* on the contexts of optimized versions: what makes the sorted dispatch    *)
(* table, and the std::map of versions in pir::Closure, well defined.  Then *)
(* what the operations on a dispatch table keep: the order of its entries,  *)
(* their contexts and deopt counts, and what dispatch finds in it.          *)
(***************************************************************************)
EXTENDS Versions, FiniteSetTheorems, TLAPS

\* The provers of a leaf that names none, in the order they are tried.
USE SMTT(10), ZenonT(20), SMTT(90)

-----------------------------------------------------------------------------
(* Sequences, and sets of their indices. *)

\* Sequences as functions: what Len, the elements and an update of one are.
LEMMA SeqDef == \A S : Seq(S) = UNION { [1 .. n -> S] : n \in Nat }
OBVIOUS

LEMMA SeqMonotonic ==
    ASSUME NEW S, NEW T, S \subseteq T, NEW s \in Seq(S)
    PROVE  s \in Seq(T)
OBVIOUS

LEMMA ElementOfSeq ==
    ASSUME NEW S, NEW s \in Seq(S), NEW i \in 1 .. Len(s)
    PROVE  s[i] \in S
OBVIOUS

LEMMA EmptySeq ==
    ASSUME NEW S
    PROVE  /\ <<>> \in Seq(S) /\ Len(<<>>) = 0
           /\ \A s \in Seq(S) : s # <<>> => Len(s) \in Nat \ {0}
OBVIOUS

LEMMA LenProperties ==
    ASSUME NEW S, NEW s \in Seq(S)
    PROVE  Len(s) \in Nat /\ DOMAIN s = 1 .. Len(s) /\ s \in [1 .. Len(s) -> S]
OBVIOUS

LEMMA ExceptSeq ==
    ASSUME NEW S, NEW s \in Seq(S), NEW i \in 1 .. Len(s), NEW e \in S
    PROVE  /\ [s EXCEPT ![i] = e] \in Seq(S)
           /\ Len([s EXCEPT ![i] = e]) = Len(s)
           /\ \A j \in 1 .. Len(s) :
                 [s EXCEPT ![i] = e][j] = IF j = i THEN e ELSE s[j]
OBVIOUS

\* The parts and the composition of sequences.
LEMMA ConcatProperties ==
    ASSUME NEW S, NEW s \in Seq(S), NEW t \in Seq(S)
    PROVE  /\ s \o t \in Seq(S) /\ Len(s \o t) = Len(s) + Len(t)
           /\ \A j \in 1 .. Len(s) + Len(t) :
                 (s \o t)[j] = IF j <= Len(s) THEN s[j] ELSE t[j - Len(s)]
OBVIOUS

LEMMA AppendProperties ==
    ASSUME NEW S, NEW s \in Seq(S), NEW e \in S
    PROVE  /\ Append(s, e) \in Seq(S) /\ Append(s, e) # <<>>
           /\ Len(Append(s, e)) = Len(s) + 1 /\ Append(s, e)[Len(s) + 1] = e
           /\ \A j \in 1 .. Len(s) : Append(s, e)[j] = s[j]
OBVIOUS

LEMMA SubSeqProperties ==
    ASSUME NEW S, NEW s, NEW i \in Int, NEW j \in Int, \A k \in i .. j : s[k] \in S
    PROVE  /\ SubSeq(s, i, j) \in Seq(S)
           /\ Len(SubSeq(s, i, j)) = IF i <= j THEN j - i + 1 ELSE 0
           /\ \A k \in 1 .. j - i + 1 : SubSeq(s, i, j)[k] = s[i + k - 1]
OBVIOUS

\* A non-empty set of natural numbers has a least element.
LEMMA LeastNatural ==
    ASSUME NEW T, T \subseteq Nat, T # {}
    PROVE  \E x \in T : \A y \in T : x <= y
<1> DEFINE R == OpToRel(<, Nat)
<1>1. IsWellFoundedOn(R, Nat)
  BY NatLessThanWellFounded
<1>2. PICK x \in T : \A y \in T : ~(<<y, x>> \in R)
  BY <1>1, WFMin
<1>3. \A y \in T : x <= y
  <2> SUFFICES ASSUME NEW y \in T, y < x
               PROVE  FALSE
    OBVIOUS
  <2>1. <<y, x>> \in Nat \X Nat /\ <<y, x>>[1] < <<y, x>>[2]
    OBVIOUS
  <2>2. <<y, x>> \in R
    BY <2>1 DEF OpToRel
  <2>3. QED
    BY <1>2, <2>2
<1>4. QED
  BY <1>3

\* A non-empty set of bits has a most significant one.
LEMMA GreatestBit ==
    ASSUME NEW n \in Nat, NEW D \in SUBSET (0 .. n), D # {}
    PROVE  \E x \in D : \A y \in D : y <= x
<1> DEFINE T == { n - z : z \in D }
<1>1. T \subseteq Nat /\ T # {}
  <2>1. \A z \in D : n - z \in Nat
    OBVIOUS
  <2>2. PICK z \in D : TRUE
    OBVIOUS
  <2>3. n - z \in T
    OBVIOUS
  <2>4. QED
    BY <2>1, <2>3
<1>2. PICK t \in T : \A y \in T : t <= y
  <2> HIDE DEF T
  <2> QED BY <1>1, LeastNatural
<1>3. PICK x \in D : t = n - x
  OBVIOUS
<1>4. \A y \in D : y <= x
  <2> TAKE y \in D
  <2>1. n - y \in T
    OBVIOUS
  <2>2. x \in Int /\ y \in Int
    OBVIOUS
  <2> HIDE DEF T
  <2>3. t <= n - y
    BY <1>2, <2>1
  <2>4. QED
    BY <1>3, <2>2, <2>3
<1>5. QED
  BY <1>4

-----------------------------------------------------------------------------
\* r is t with e inserted at position i, the tail shifted by one.
InsertedAt(r, t, i, e) ==
    /\ Len(r) = Len(t) + 1
    /\ \A j \in 1 .. Len(t) + 1 :
          r[j] = IF j < i THEN t[j] ELSE IF j = i THEN e ELSE t[j - 1]

\* Inserting at position i shifts the tail by one.
LEMMA InsertAtProperties ==
    ASSUME NEW S, NEW t \in Seq(S), NEW i \in 1 .. Len(t) + 1, NEW e \in S
    PROVE  /\ InsertAt(t, i, e) \in Seq(S)
           /\ InsertedAt(InsertAt(t, i, e), t, i, e)
<1> DEFINE l == SubSeq(t, 1, i - 1)
           r == SubSeq(t, i, Len(t))
<1>1. l \in Seq(S) /\ Len(l) = i - 1 /\ \A j \in 1 .. i - 1 : l[j] = t[j]
  BY SubSeqProperties
<1>2. /\ r \in Seq(S) /\ Len(r) = Len(t) - i + 1
      /\ \A j \in 1 .. Len(t) - i + 1 : r[j] = t[i + j - 1]
  BY SubSeqProperties
<1> HIDE DEF l, r
<1>3. <<e>> \in Seq(S) /\ Len(<<e>>) = 1 /\ <<e>>[1] = e
  OBVIOUS
<1>4. /\ l \o <<e>> \in Seq(S) /\ Len(l \o <<e>>) = i
      /\ \A j \in 1 .. i : (l \o <<e>>)[j] = IF j < i THEN t[j] ELSE e
  BY <1>1, <1>3, ConcatProperties
<1>5. /\ (l \o <<e>>) \o r \in Seq(S) /\ Len((l \o <<e>>) \o r) = Len(t) + 1
      /\ \A j \in 1 .. Len(t) + 1 :
            ((l \o <<e>>) \o r)[j] =
               IF j < i THEN t[j] ELSE IF j = i THEN e ELSE t[j - 1]
  <2>1. /\ (l \o <<e>>) \o r \in Seq(S) /\ Len((l \o <<e>>) \o r) = Len(t) + 1
        /\ \A j \in 1 .. Len(t) + 1 : ((l \o <<e>>) \o r)[j] =
              IF j <= i THEN (l \o <<e>>)[j] ELSE r[j - i]
    <3> DEFINE le == l \o <<e>>
    <3>0. le \in Seq(S) /\ Len(le) = i
      BY <1>4
    <3> HIDE DEF le
    <3>1. le \in Seq(S) /\ Len(le) = i /\ Len(le) + Len(r) = Len(t) + 1
      BY <1>2, <3>0
    <3>2. /\ le \o r \in Seq(S) /\ Len(le \o r) = Len(le) + Len(r)
          /\ \A j \in 1 .. Len(le) + Len(r) : (le \o r)[j] =
                IF j <= Len(le) THEN le[j] ELSE r[j - Len(le)]
      BY <1>2, <3>1, ConcatProperties, Zenon
    <3>3. QED
      BY <3>1, <3>2 DEF le
  <2>2. \A j \in 1 .. Len(t) + 1 : j > i => r[j - i] = t[j - 1]
    <3> SUFFICES ASSUME NEW j \in 1 .. Len(t) + 1, j > i
                 PROVE  r[j - i] = t[j - 1]
      OBVIOUS
    <3>1. j - i \in 1 .. Len(t) - i + 1 /\ i + (j - i) - 1 = j - 1
      OBVIOUS
    <3>2. QED
      BY <1>2, <3>1
  <2>3. QED
    BY <1>4, <2>1, <2>2
<1>6. QED
  BY <1>5, Zenon DEF InsertAt, InsertedAt, l, r

\* Removing position i closes the gap.
LEMMA RemoveAtProperties ==
    ASSUME NEW S, NEW t \in Seq(S), NEW i \in 1 .. Len(t)
    PROVE  /\ RemoveAt(t, i) \in Seq(S)
           /\ Len(RemoveAt(t, i)) = Len(t) - 1
           /\ \A j \in 1 .. Len(t) - 1 :
                 RemoveAt(t, i)[j] = IF j < i THEN t[j] ELSE t[j + 1]
<1> DEFINE l == SubSeq(t, 1, i - 1)
           r == SubSeq(t, i + 1, Len(t))
<1>1. l \in Seq(S) /\ Len(l) = i - 1 /\ \A j \in 1 .. i - 1 : l[j] = t[j]
  BY SubSeqProperties
<1>2. /\ r \in Seq(S) /\ Len(r) = Len(t) - i
      /\ \A j \in 1 .. Len(t) - i : r[j] = t[i + j]
  BY SubSeqProperties
<1> HIDE DEF l, r
<1>3. /\ l \o r \in Seq(S) /\ Len(l \o r) = Len(t) - 1
      /\ \A j \in 1 .. Len(t) - 1 :
            (l \o r)[j] = IF j < i THEN t[j] ELSE t[j + 1]
  <2>1. /\ l \o r \in Seq(S) /\ Len(l \o r) = Len(t) - 1
        /\ \A j \in 1 .. Len(t) - 1 :
              (l \o r)[j] = IF j <= i - 1 THEN l[j] ELSE r[j - (i - 1)]
    <3>1. Len(l) = i - 1 /\ Len(l) + Len(r) = Len(t) - 1
      BY <1>1, <1>2
    <3>2. /\ l \o r \in Seq(S) /\ Len(l \o r) = Len(l) + Len(r)
          /\ \A j \in 1 .. Len(l) + Len(r) : (l \o r)[j] =
                IF j <= Len(l) THEN l[j] ELSE r[j - Len(l)]
      BY <1>1, <1>2, ConcatProperties, Zenon
    <3>3. QED
      BY <3>1, <3>2
  <2>2. \A j \in 1 .. Len(t) - 1 : j >= i => r[j - (i - 1)] = t[j + 1]
    <3> SUFFICES ASSUME NEW j \in 1 .. Len(t) - 1, j >= i
                 PROVE  r[j - (i - 1)] = t[j + 1]
      OBVIOUS
    <3>1. j - (i - 1) \in 1 .. Len(t) - i /\ i + (j - (i - 1)) = j + 1
      OBVIOUS
    <3>2. QED
      BY <1>2, <3>1
  <2>3. QED
    BY <1>1, <2>1, <2>2
<1>4. QED
  BY <1>3, Zenon DEF RemoveAt, l, r

-----------------------------------------------------------------------------
(* The order of contexts. *)

\* Sets of bits are finite and have a cardinality that is monotone.
LEMMA BitSets ==
    ASSUME NEW n \in Nat, NEW S \in SUBSET (0 .. n), NEW T \in SUBSET S
    PROVE  /\ Cardinality(S) \in Nat /\ Cardinality(T) \in Nat
           /\ Cardinality(T) <= Cardinality(S)
           /\ Cardinality(S) = Cardinality(T) => S = T
<1>1. IsFiniteSet(0 .. n)
  BY FS_Interval
<1>2. IsFiniteSet(S) /\ IsFiniteSet(T)
  BY <1>1, FS_Subset
<1>3. QED
  BY <1>2, FS_Subset, FS_CardinalityType

\* Comparing bit sets as numbers is a strict total order.
LEMMA IntGreaterOrder ==
    ASSUME NEW n \in Nat, NEW S \in SUBSET (0 .. n), NEW T \in SUBSET (0 .. n),
           NEW U \in SUBSET (0 .. n)
    PROVE  /\ ~IntGreater(S, S)
           /\ S = T \/ IntGreater(S, T) \/ IntGreater(T, S)
           /\ ~(IntGreater(S, T) /\ IntGreater(T, S))
           /\ IntGreater(S, T) /\ IntGreater(T, U) => IntGreater(S, U)
<1>1. ~IntGreater(S, S)
  BY DEF IntGreater
<1>2. ASSUME S # T
      PROVE  IntGreater(S, T) \/ IntGreater(T, S)
  <2> DEFINE D == (S \ T) \cup (T \ S)
  <2>1. D \in SUBSET (0 .. n) /\ D # {}
    BY <1>2
  <2>2. PICK x \in D : \A y \in D : y <= x
    <3> HIDE DEF D
    <3> QED BY <2>1, GreatestBit
  <2>3. QED
    BY <2>2 DEF IntGreater
<1>3. ~(IntGreater(S, T) /\ IntGreater(T, S))
  BY DEF IntGreater
<1>4. ASSUME IntGreater(S, T), IntGreater(T, U)
      PROVE  IntGreater(S, U)
  <2>1. PICK x \in S \ T : \A z \in T \ S : z < x
    BY <1>4 DEF IntGreater
  <2>2. PICK y \in T \ U : \A z \in U \ T : z < y
    BY <1>4 DEF IntGreater
  <2>3. CASE y < x
    <3>1. x \in S \ U
      BY <2>1, <2>2, <2>3
    <3>2. \A z \in U \ S : z < x
      BY <2>1, <2>2, <2>3
    <3>3. QED
      BY <3>1, <3>2 DEF IntGreater
  <2>4. CASE x < y
    <3>1. y \in S \ U
      BY <2>1, <2>2, <2>4
    <3>2. \A z \in U \ S : z < y
      BY <2>1, <2>2, <2>4
    <3>3. QED
      BY <3>1, <3>2 DEF IntGreater
  <2>5. QED
    BY <2>1, <2>2, <2>3, <2>4
<1>5. QED
  BY <1>1, <1>2, <1>3, <1>4

-----------------------------------------------------------------------------
\* Context::smaller is reflexive and transitive on all contexts, whatever the
\* numbers of missing arguments are.
THEOREM SmallerPreorder ==
    ASSUME NEW a \in Context, NEW b \in Context, NEW c \in Context
    PROVE  /\ smaller(a, a)
           /\ smaller(a, b) /\ smaller(b, c) => smaller(a, c)
<1>1. a.missing \in Int /\ b.missing \in Int /\ c.missing \in Int
  BY DEF Context, MAX_MISSING
<1>2. smaller(a, a)
  BY <1>1 DEF smaller
<1>3. ASSUME smaller(a, b), smaller(b, c)
      PROVE  smaller(a, c)
  BY <1>1, <1>3 DEF smaller
<1>4. QED
  BY <1>2, <1>3

\* The facts on the fields of two contexts that the order depends on.
LEMMA ContextFields ==
    ASSUME NEW a \in Context, NEW b \in Context
    PROVE  /\ a.flags \in SUBSET (0 .. 3) /\ a.typeFlags \in SUBSET (0 .. 29)
           /\ a.missing \in Nat
           /\ Cardinality(a.flags) \in Nat /\ Cardinality(a.typeFlags) \in Nat
           /\ (a.flags = b.flags /\ a.typeFlags = b.typeFlags
                /\ a.missing = b.missing) => a = b
<1>1. a.flags \in SUBSET (0 .. 3) /\ a.typeFlags \in SUBSET (0 .. 29)
  BY DEF Context, Assumption, TypeAssumption, NUM_TYPED_ARGS
<1>2. a.missing \in Nat
  BY DEF Context, MAX_MISSING
<1>3. Cardinality(a.flags) \in Nat /\ Cardinality(a.typeFlags) \in Nat
  BY <1>1, BitSets
<1>4. (a.flags = b.flags /\ a.typeFlags = b.typeFlags
       /\ a.missing = b.missing) => a = b
  BY DEF Context
<1>5. QED
  BY <1>1, <1>2, <1>3, <1>4

\* The tie-break alone is a strict total order on all contexts.
LEMMA LexLessOrder ==
    ASSUME NEW a \in Context, NEW b \in Context, NEW c \in Context
    PROVE  /\ ~LexLess(a, a)
           /\ a = b \/ LexLess(a, b) \/ LexLess(b, a)
           /\ ~(LexLess(a, b) /\ LexLess(b, a))
           /\ LexLess(a, b) /\ LexLess(b, c) => LexLess(a, c)
<1> DEFINE cf(x) == Cardinality(x.flags)
           ct(x) == Cardinality(x.typeFlags)
           gf(x, y) == IntGreater(x.flags, y.flags)
           gt(x, y) == IntGreater(x.typeFlags, y.typeFlags)
<1>1. \A x, y \in {a, b, c} :
        /\ cf(x) \in Nat /\ ct(x) \in Nat /\ x.missing \in Nat
        /\ (x.flags = y.flags /\ x.typeFlags = y.typeFlags
             /\ x.missing = y.missing) => x = y
  BY ContextFields
<1>2. \A x, y, z \in {a, b, c} :
        /\ ~gf(x, x)
        /\ x.flags = y.flags \/ gf(x, y) \/ gf(y, x)
        /\ ~(gf(x, y) /\ gf(y, x))
        /\ gf(x, y) /\ gf(y, z) => gf(x, z)
  <2> TAKE x, y, z \in {a, b, c}
  <2>1. /\ x.flags \in SUBSET (0 .. 3) /\ y.flags \in SUBSET (0 .. 3)
        /\ z.flags \in SUBSET (0 .. 3)
    BY ContextFields
  <2>2. QED
    BY <2>1, IntGreaterOrder
<1>3. \A x, y, z \in {a, b, c} :
        /\ ~gt(x, x)
        /\ x.typeFlags = y.typeFlags \/ gt(x, y) \/ gt(y, x)
        /\ ~(gt(x, y) /\ gt(y, x))
        /\ gt(x, y) /\ gt(y, z) => gt(x, z)
  <2> TAKE x, y, z \in {a, b, c}
  <2>1. /\ x.typeFlags \in SUBSET (0 .. 29) /\ y.typeFlags \in SUBSET (0 .. 29)
        /\ z.typeFlags \in SUBSET (0 .. 29)
    BY ContextFields
  <2>2. QED
    BY <2>1, IntGreaterOrder
<1>4. \A x, y \in {a, b, c} :
        LexLess(x, y) <=>
          \/ cf(x) > cf(y)
          \/ cf(x) = cf(y) /\ ct(x) > ct(y)
          \/ cf(x) = cf(y) /\ ct(x) = ct(y) /\ x.missing > y.missing
          \/ /\ cf(x) = cf(y) /\ ct(x) = ct(y) /\ x.missing = y.missing
             /\ gf(x, y) \/ (x.flags = y.flags /\ gt(x, y))
  BY DEF LexLess
<1> HIDE DEF cf, ct, gf, gt
<1>5. ~LexLess(a, a) /\ (a = b \/ LexLess(a, b) \/ LexLess(b, a))
  BY <1>1, <1>2, <1>3, <1>4
<1>6. ~(LexLess(a, b) /\ LexLess(b, a))
  <2>1. /\ cf(a) \in Nat /\ ct(a) \in Nat /\ a.missing \in Nat
        /\ cf(b) \in Nat /\ ct(b) \in Nat /\ b.missing \in Nat
    BY <1>1
  <2>2. /\ ~gf(a, a) /\ ~(gf(a, b) /\ gf(b, a))
        /\ a.flags = b.flags => ~gf(a, b) /\ ~gf(b, a)
        /\ ~gt(a, a) /\ ~(gt(a, b) /\ gt(b, a))
    BY <1>2, <1>3, IntGreaterOrder DEF gf, IntGreater
  <2>3. QED
    BY <2>1, <2>2, <1>4
<1>7. ASSUME LexLess(a, b), LexLess(b, c)
      PROVE  LexLess(a, c)
  <2>1. /\ cf(a) \in Nat /\ ct(a) \in Nat /\ a.missing \in Nat
        /\ cf(b) \in Nat /\ ct(b) \in Nat /\ b.missing \in Nat
        /\ cf(c) \in Nat /\ ct(c) \in Nat /\ c.missing \in Nat
    BY <1>1
  <2>2. CASE cf(a) > cf(b) \/ cf(b) > cf(c)
    BY <1>7, <2>1, <2>2, <1>4
  <2>3. CASE /\ cf(a) = cf(b) /\ cf(b) = cf(c)
             /\ ct(a) > ct(b) \/ ct(b) > ct(c)
    BY <1>7, <2>1, <2>3, <1>4
  <2>4. CASE /\ cf(a) = cf(b) /\ cf(b) = cf(c) /\ ct(a) = ct(b) /\ ct(b) = ct(c)
             /\ a.missing > b.missing \/ b.missing > c.missing
    BY <1>7, <2>1, <2>4, <1>4
  <2>5. CASE /\ cf(a) = cf(b) /\ cf(b) = cf(c) /\ ct(a) = ct(b) /\ ct(b) = ct(c)
             /\ a.missing = b.missing /\ b.missing = c.missing
    <3>1. /\ gf(a, b) \/ (a.flags = b.flags /\ gt(a, b))
          /\ gf(b, c) \/ (b.flags = c.flags /\ gt(b, c))
      BY <1>7, <2>1, <2>5, <1>4
    <3>2. /\ gf(a, b) /\ gf(b, c) => gf(a, c)
          /\ gt(a, b) /\ gt(b, c) => gt(a, c)
      BY <1>2, <1>3
    <3>3. /\ a.flags = b.flags /\ gf(b, c) => gf(a, c)
          /\ gf(a, b) /\ b.flags = c.flags => gf(a, c)
      BY DEF gf
    <3>4. gf(a, c) \/ (a.flags = c.flags /\ gt(a, c))
      BY <3>1, <3>2, <3>3
    <3>5. QED
      BY <3>4, <2>5, <1>4
  <2>6. QED
    BY <1>7, <2>1, <2>2, <2>3, <2>4, <2>5, <1>4
<1>8. QED
  BY <1>5, <1>6, <1>7

\* Between contexts of optimized versions, smaller never contradicts the
\* tie-break.
LEMMA SmallerIsLex ==
    ASSUME NEW a \in ProperContext, NEW b \in ProperContext,
           smaller(a, b), a # b
    PROVE  LexLess(a, b)
<1>1. a \in Context /\ b \in Context /\ NotTooManyArguments \in b.flags
  BY DEF ProperContext
<1>2. /\ a.missing >= b.missing
      /\ b.flags \in SUBSET a.flags /\ b.typeFlags \in SUBSET a.typeFlags
  BY <1>1, ContextFields DEF smaller
<1>3. /\ Cardinality(b.flags) <= Cardinality(a.flags)
      /\ Cardinality(b.flags) = Cardinality(a.flags) => a.flags = b.flags
  BY <1>1, <1>2, ContextFields, BitSets
<1>4. /\ Cardinality(b.typeFlags) <= Cardinality(a.typeFlags)
      /\ Cardinality(b.typeFlags) = Cardinality(a.typeFlags)
            => a.typeFlags = b.typeFlags
  BY <1>1, <1>2, ContextFields, BitSets
<1>5. /\ Cardinality(a.flags) \in Nat /\ Cardinality(b.flags) \in Nat
      /\ Cardinality(a.typeFlags) \in Nat /\ Cardinality(b.typeFlags) \in Nat
      /\ a.missing \in Nat /\ b.missing \in Nat
      /\ ~(a.flags = b.flags /\ a.typeFlags = b.typeFlags
           /\ a.missing = b.missing)
  BY <1>1, ContextFields
<1>6. QED
  BY <1>2, <1>3, <1>4, <1>5 DEF LexLess

\* operator< coincides with the tie-break on contexts of optimized versions.
LEMMA LessIsLex ==
    ASSUME NEW a \in ProperContext, NEW b \in ProperContext
    PROVE  Less(a, b) <=> LexLess(a, b)
<1>1. a \in Context /\ b \in Context
  BY DEF ProperContext
<1>2. ~LexLess(a, a) /\ ~(LexLess(a, b) /\ LexLess(b, a))
  BY <1>1, LexLessOrder
<1>3. smaller(a, b) /\ a # b => LexLess(a, b)
  BY SmallerIsLex
<1>4. smaller(b, a) /\ a # b => LexLess(b, a)
  BY SmallerIsLex
<1>5. QED
  BY <1>2, <1>3, <1>4 DEF Less

\* Context::operator< is a strict total order on the contexts of optimized
\* versions, in which a context precedes every context it is smaller than.
THEOREM LessStrictTotalOrder ==
    ASSUME NEW a \in ProperContext, NEW b \in ProperContext,
           NEW c \in ProperContext
    PROVE  /\ ~Less(a, a)
           /\ a = b \/ Less(a, b) \/ Less(b, a)
           /\ ~(Less(a, b) /\ Less(b, a))
           /\ Less(a, b) /\ Less(b, c) => Less(a, c)
           /\ smaller(a, b) /\ a # b => Less(a, b)
<1>1. a \in Context /\ b \in Context /\ c \in Context
  BY DEF ProperContext
<1>2. /\ Less(a, b) <=> LexLess(a, b)
      /\ Less(b, a) <=> LexLess(b, a)
      /\ Less(b, c) <=> LexLess(b, c)
      /\ Less(a, c) <=> LexLess(a, c)
      /\ Less(a, a) <=> LexLess(a, a)
  BY LessIsLex
<1>3. smaller(a, b) /\ a # b => Less(a, b)
  BY DEF Less
<1>4. QED
  BY <1>1, <1>2, <1>3, LexLessOrder

-----------------------------------------------------------------------------
(* Tables of versions. *)

\* The scan of insert stops at the last version that c does not precede.
LEMMA ScanStop ==
    ASSUME NEW t \in Seq(Version), NEW c
    PROVE  /\ scanStop(t, c) \in 0 .. Len(t)
           /\ scanStop(t, c) # 0 => ~Less(c, t[scanStop(t, c)].context)
           /\ \A i \in scanStop(t, c) + 1 .. Len(t) : Less(c, t[i].context)
<1> DEFINE I == { i \in 1 .. Len(t) : ~Less(c, t[i].context) }
<1>1. scanStop(t, c) = IF I # {} THEN Max(I) ELSE 0
  BY DEF scanStop, SelectLastInSeq
<1>2. CASE I = {}
  BY <1>1, <1>2
<1>3. CASE I # {}
  <2>1. \E x \in I : \A y \in I : y <= x
    <3>1. I \in SUBSET (0 .. Len(t)) /\ Len(t) \in Nat
      OBVIOUS
    <3> HIDE DEF I
    <3>2. QED
      BY <1>3, <3>1, GreatestBit, Zenon
  <2>2. Max(I) \in I /\ \A y \in I : Max(I) >= y
    <3>1. I \subseteq Int
      OBVIOUS
    <3> HIDE DEF I
    <3>2. \E x \in I : \A y \in I : x >= y
      BY <2>1, <3>1
    <3>3. QED
      BY <3>2 DEF Max
  <2>3. PICK p \in I : scanStop(t, c) = p /\ \A y \in I : p >= y
    <3> HIDE DEF I
    <3> QED BY <1>1, <1>3, <2>2
  <2>4. p \in 1 .. Len(t) /\ ~Less(c, t[p].context)
    OBVIOUS
  <2>5. \A i \in p + 1 .. Len(t) : Less(c, t[i].context)
    BY <2>3, <2>4
  <2>6. QED
    BY <2>3, <2>4, <2>5
<1>4. QED
  BY <1>2, <1>3

-----------------------------------------------------------------------------
\* A table of optimized versions within udc.
VersionsFor(udc) ==
    { f \in Version : /\ minimalContext \subseteq f.context.flags
                      /\ smaller(f.context, udc) }

LEMMA VersionContexts ==
    ASSUME NEW udc, NEW f \in VersionsFor(udc)
    PROVE  f \in Version /\ f.context \in ProperContext
BY DEF VersionsFor, Version, ProperContext, minimalContext

LEMMA TableEntries ==
    ASSUME NEW udc, NEW t \in Seq(VersionsFor(udc))
    PROVE  /\ t \in Seq(Version) /\ DOMAIN t = 1 .. Len(t) /\ Len(t) \in Nat
           /\ \A i \in 1 .. Len(t) : /\ t[i] \in VersionsFor(udc)
                                     /\ t[i].context \in ProperContext
<1>1. DOMAIN t = 1 .. Len(t) /\ Len(t) \in Nat
  BY LenProperties
<1>2. \A i \in 1 .. Len(t) : t[i] \in VersionsFor(udc)
  BY ElementOfSeq
<1>3. t \in Seq(Version)
  <2>1. VersionsFor(udc) \subseteq Version
    BY DEF VersionsFor
  <2>2. QED
    BY <2>1, SeqMonotonic
<1>4. QED
  BY <1>1, <1>2, <1>3, VersionContexts

\* In a sorted table the scan of insert finds the version for c if there is one.
LEMMA HasVersion ==
    ASSUME NEW udc, NEW t \in Seq(VersionsFor(udc)), SortedTable(t),
           NEW c \in ProperContext
    PROVE  hasVersion(t, c) <=> \E i \in 1 .. Len(t) : t[i].context = c
<1> DEFINE p == scanStop(t, c)
<1>1. /\ p \in 0 .. Len(t)
      /\ p # 0 => ~Less(c, t[p].context)
      /\ \A i \in p + 1 .. Len(t) : Less(c, t[i].context)
  BY TableEntries, ScanStop
<1>2. hasVersion(t, c) <=> p # 0 /\ t[p].context = c
  BY DEF hasVersion
<1> HIDE DEF p
<1>3. ASSUME NEW i \in 1 .. Len(t), t[i].context = c
      PROVE  p # 0 /\ t[p].context = c
  <2>1. ~Less(c, c)
    BY LessStrictTotalOrder
  <2>2. i <= p
    BY <1>1, <1>3, <2>1, TableEntries
  <2>3. i < p => Less(c, t[p].context)
    BY <1>1, <1>3, TableEntries DEF SortedTable
  <2>4. QED
    BY <1>1, <1>3, <2>2, <2>3, TableEntries
<1>4. QED
  BY <1>1, <1>2, <1>3, TableEntries

\* Adding a version for a new context keeps the table sorted.
LEMMA AddVersionSorted ==
    ASSUME NEW udc, NEW t \in Seq(VersionsFor(udc)), SortedTable(t),
           NEW f \in VersionsFor(udc), ~hasVersion(t, f.context)
    PROVE  /\ addVersion(t, f) \in Seq(VersionsFor(udc))
           /\ Len(addVersion(t, f)) = Len(t) + 1
           /\ SortedTable(addVersion(t, f))
           /\ \A j \in 1 .. Len(t) + 1 :
                 \/ addVersion(t, f)[j] = f
                 \/ \E k \in 1 .. Len(t) : addVersion(t, f)[j] = t[k]
           /\ \E at \in 1 .. Len(t) + 1 : addVersion(t, f)[at] = f
<1> DEFINE c == f.context
           p == scanStop(t, c)
           r == addVersion(t, f)
<1>1. c \in ProperContext
  BY VersionContexts
<1>2. /\ p \in 0 .. Len(t)
      /\ p # 0 => ~Less(c, t[p].context)
      /\ \A i \in p + 1 .. Len(t) : Less(c, t[i].context)
  BY TableEntries, ScanStop
<1>3. p # 0 => t[p].context # c
  BY DEF hasVersion
<1>4. /\ r \in Seq(VersionsFor(udc)) /\ Len(r) = Len(t) + 1
      /\ \A j \in 1 .. Len(t) + 1 :
            r[j] = IF j < p + 1 THEN t[j] ELSE IF j = p + 1 THEN f ELSE t[j - 1]
  <2> DEFINE q == p + 1
  <2>1. q \in 1 .. Len(t) + 1
    BY <1>2, TableEntries
  <2>2. r = InsertAt(t, q, f)
    BY DEF addVersion
  <2> HIDE DEF p, q, r
  <2>3. /\ r \in Seq(VersionsFor(udc)) /\ Len(r) = Len(t) + 1
        /\ \A j \in 1 .. Len(t) + 1 :
              r[j] = IF j < q THEN t[j] ELSE IF j = q THEN f ELSE t[j - 1]
    <3> DEFINE V == VersionsFor(udc)
    <3>1. t \in Seq(V) /\ f \in V
      OBVIOUS
    <3> HIDE DEF V
    <3>2. InsertAt(t, q, f) \in Seq(V) /\ InsertedAt(InsertAt(t, q, f), t, q, f)
      BY <2>1, <3>1, InsertAtProperties, Zenon
    <3>3. r \in Seq(V) /\ InsertedAt(r, t, q, f)
      BY <2>2, <3>2
    <3>4. QED
      BY <3>3 DEF V, InsertedAt
  <2>4. QED
    BY <2>3 DEF q
<1> HIDE DEF p, r, c
<1>5. \A i \in 1 .. p : Less(t[i].context, c)
  <2> SUFFICES ASSUME NEW i \in 1 .. p
               PROVE  Less(t[i].context, c)
    OBVIOUS
  <2>1. /\ i \in 1 .. Len(t) /\ p \in 1 .. Len(t)
        /\ t[i].context \in ProperContext /\ t[p].context \in ProperContext
    BY <1>2, TableEntries
  <2>2. Less(t[p].context, c)
    BY <1>1, <1>2, <1>3, <2>1, LessStrictTotalOrder
  <2>3. i < p => Less(t[i].context, t[p].context)
    BY <2>1, TableEntries DEF SortedTable
  <2>4. QED
    BY <1>1, <2>1, <2>2, <2>3, LessStrictTotalOrder
<1>6. ASSUME NEW i \in 1 .. Len(t) + 1, NEW j \in 1 .. Len(t) + 1, i < j
      PROVE  Less(r[i].context, r[j].context)
  <2>1. \A k, l \in 1 .. Len(t) : k < l => Less(t[k].context, t[l].context)
    BY TableEntries DEF SortedTable
  <2>2. CASE j < p + 1
    BY <1>2, <1>4, <1>6, <2>1, <2>2, TableEntries
  <2>3. CASE j = p + 1
    <3>1. r[i] = t[i] /\ i \in 1 .. p /\ r[j] = f
      BY <1>2, <1>4, <1>6, <2>3, TableEntries
    <3>2. QED
      BY <1>5, <3>1 DEF c
  <2>4. CASE j > p + 1 /\ i = p + 1
    <3>1. r[i] = f /\ r[j] = t[j - 1] /\ j - 1 \in p + 1 .. Len(t)
      BY <1>2, <1>4, <1>6, <2>4, TableEntries
    <3>2. QED
      BY <1>2, <3>1 DEF c
  <2>5. CASE j > p + 1 /\ i < p + 1
    BY <1>2, <1>4, <1>6, <2>1, <2>5, TableEntries
  <2>6. CASE j > p + 1 /\ i > p + 1
    BY <1>2, <1>4, <1>6, <2>1, <2>6, TableEntries
  <2>7. QED
    BY <1>2, <2>2, <2>3, <2>4, <2>5, <2>6, TableEntries
<1>7. SortedTable(r)
  <2>1. DOMAIN r = 1 .. Len(t) + 1
    BY <1>4, LenProperties
  <2>2. QED
    BY <1>6, <2>1 DEF SortedTable
<1>8. ASSUME NEW j \in 1 .. Len(t) + 1
      PROVE  r[j] = f \/ \E k \in 1 .. Len(t) : r[j] = t[k]
  <2>1. CASE j < p + 1
    BY <1>2, <1>4, <2>1, TableEntries
  <2>2. CASE j = p + 1
    BY <1>2, <1>4, <2>2, TableEntries
  <2>3. CASE j > p + 1
    BY <1>2, <1>4, <2>3, TableEntries
  <2>4. QED
    BY <1>2, <2>1, <2>2, <2>3, TableEntries
<1>9. p + 1 \in 1 .. Len(t) + 1 /\ r[p + 1] = f
  BY <1>2, <1>4, TableEntries
<1>10. QED
  BY <1>4, <1>7, <1>8, <1>9 DEF r

\* Removing a version keeps the table sorted, and adds no context.
LEMMA RemoveSorted ==
    ASSUME NEW udc, NEW t \in Seq(VersionsFor(udc)), SortedTable(t),
           NEW pos \in 1 .. Len(t)
    PROVE  /\ RemoveAt(t, pos) \in Seq(VersionsFor(udc))
           /\ Len(RemoveAt(t, pos)) = Len(t) - 1
           /\ SortedTable(RemoveAt(t, pos))
           /\ \A i \in 1 .. Len(t) - 1 :
                 \E k \in 1 .. Len(t) : RemoveAt(t, pos)[i] = t[k]
<1> DEFINE V == VersionsFor(udc)
           r == RemoveAt(t, pos)
<1>1. t \in Seq(V) /\ Len(t) \in Nat
  BY LenProperties
<1>2. /\ r \in Seq(V) /\ Len(r) = Len(t) - 1
      /\ \A j \in 1 .. Len(t) - 1 : r[j] = IF j < pos THEN t[j] ELSE t[j + 1]
  <2> HIDE DEF V
  <2> QED BY <1>1, RemoveAtProperties
<1> HIDE DEF V, r
<1>3. DOMAIN r = 1 .. Len(t) - 1
  BY <1>2, LenProperties
<1>4. \A k, l \in 1 .. Len(t) : k < l => Less(t[k].context, t[l].context)
  BY TableEntries DEF SortedTable
<1>5. SortedTable(r)
  <2> SUFFICES ASSUME NEW i \in 1 .. Len(t) - 1, NEW j \in 1 .. Len(t) - 1,
                      i < j
               PROVE  Less(r[i].context, r[j].context)
    BY <1>3 DEF SortedTable
  <2>1. PICK k \in 1 .. Len(t) : r[i] = t[k] /\ k = IF i < pos THEN i ELSE i + 1
    BY <1>1, <1>2
  <2>2. PICK l \in 1 .. Len(t) : r[j] = t[l] /\ l = IF j < pos THEN j ELSE j + 1
    BY <1>1, <1>2
  <2>3. k < l
    BY <2>1, <2>2
  <2>4. QED
    BY <1>4, <2>1, <2>2, <2>3
<1>6. \A i \in 1 .. Len(t) - 1 : \E k \in 1 .. Len(t) : r[i] = t[k]
  BY <1>1, <1>2
<1>7. QED
  BY <1>2, <1>5, <1>6 DEF V, r

\* Changing the state of a version but not its context keeps the table sorted.
LEMMA UpdateSorted ==
    ASSUME NEW udc, NEW t \in Seq(VersionsFor(udc)), SortedTable(t),
           NEW i \in 1 .. Len(t), NEW f \in Version,
           f.context = t[i].context
    PROVE  /\ [t EXCEPT ![i] = f] \in Seq(VersionsFor(udc))
           /\ Len([t EXCEPT ![i] = f]) = Len(t)
           /\ SortedTable([t EXCEPT ![i] = f])
<1> DEFINE r == [t EXCEPT ![i] = f]
<1>1. f \in VersionsFor(udc)
  BY TableEntries DEF VersionsFor
<1>2. r \in Seq(VersionsFor(udc)) /\ Len(r) = Len(t)
  BY <1>1, ExceptSeq
<1>3. \A k \in 1 .. Len(t) : r[k].context = t[k].context
  BY TableEntries
<1>4. DOMAIN r = DOMAIN t /\ DOMAIN t = 1 .. Len(t)
  BY TableEntries
<1> HIDE DEF r
<1>5. SortedTable(r)
  BY <1>3, <1>4 DEF SortedTable
<1>6. QED
  BY <1>2, <1>5 DEF r

\* insert keeps the table sorted and within its capacity, whatever it evicts.
LEMMA InsertSorted ==
    ASSUME NEW udc, NEW t \in Seq(VersionsFor(udc)), SortedTable(t),
           Len(t) < Capacity,
           NEW f \in VersionsFor(udc), NEW r \in insert(t, f)
    PROVE  /\ r \in Seq(VersionsFor(udc))
           /\ Len(r) < Capacity
           /\ SortedTable(r)
<1>1. Len(t) \in Nat /\ Capacity \in Nat /\ f \in Version
  BY TableEntries, CapacityAssumption DEF VersionsFor
<1>2. CASE hasVersion(t, f.context)
  <2> DEFINE p == scanStop(t, f.context)
             g == addDeoptCount(f, t[p].deoptCount)
  <2>1. p \in 1 .. Len(t) /\ t[p].context = f.context
    BY <1>2, TableEntries, ScanStop DEF hasVersion
  <2>2. t[p].deoptCount \in 0 .. UINT_MAX /\ t[p] \in Version
    BY <2>1, TableEntries DEF VersionsFor, Version
  <2>3. r = [t EXCEPT ![p] = g]
    BY <1>2 DEF insert, replaceVersion
  <2> HIDE DEF p
  <2>4. g \in Version /\ g.context = f.context
    <3>1. f.deoptCount \in 0 .. UINT_MAX /\ UINT_MAX \in Nat
      BY <1>1, UintAssumption DEF Version
    <3>2. (f.deoptCount + t[p].deoptCount) % (UINT_MAX + 1) \in 0 .. UINT_MAX
      <4> DEFINE m == UINT_MAX + 1
                 x == f.deoptCount + t[p].deoptCount
      <4>1. m \in Nat /\ m > 0 /\ x \in Int /\ m - 1 = UINT_MAX
        BY <2>2, <3>1
      <4> HIDE DEF m, x
      <4>2. x % m \in 0 .. (m - 1)
        BY <4>1
      <4>3. QED
        BY <4>1, <4>2 DEF m, x
    <3>3. QED
      BY <1>1, <3>2 DEF addDeoptCount, Version
  <2> HIDE DEF g
  <2>5. r = [t EXCEPT ![p] = g]
    BY <2>3, TableEntries
  <2>6. QED
    BY <2>1, <2>4, <2>5, UpdateSorted, Zenon
<1>3. CASE ~hasVersion(t, f.context) /\ Len(t) + 1 = Capacity
  <2>1. PICK pos \in 1 .. Len(t) : r = addVersion(RemoveAt(t, pos), f)
    BY <1>3 DEF insert
  <2> DEFINE q == RemoveAt(t, pos)
  <2>2. /\ q \in Seq(VersionsFor(udc)) /\ Len(q) = Len(t) - 1 /\ SortedTable(q)
        /\ \A i \in 1 .. Len(t) - 1 : \E k \in 1 .. Len(t) : q[i] = t[k]
    BY RemoveSorted
  <2>3. f.context \in ProperContext
    BY VersionContexts
  <2> HIDE DEF q
  <2>4. ~hasVersion(q, f.context)
    <3>1. ~\E i \in 1 .. Len(t) : t[i].context = f.context
      BY <1>3, <2>3, HasVersion
    <3>2. ~\E i \in 1 .. Len(q) : q[i].context = f.context
      BY <2>2, <3>1
    <3>3. QED
      BY <2>2, <2>3, <3>2, HasVersion
  <2>5. r = addVersion(q, f)
    BY <2>1 DEF q
  <2>6. r \in Seq(VersionsFor(udc)) /\ Len(r) = Len(q) + 1 /\ SortedTable(r)
    BY <2>2, <2>4, <2>5, AddVersionSorted
  <2>7. QED
    BY <1>1, <1>3, <2>2, <2>6
<1>4. CASE ~hasVersion(t, f.context) /\ Len(t) + 1 # Capacity
  <2>1. r = addVersion(t, f)
    BY <1>4 DEF insert
  <2>2. QED
    BY <1>1, <1>4, <2>1, AddVersionSorted
<1>5. QED
  BY <1>2, <1>3, <1>4

\* The table after an insertion holds the new version, its deopt count aside,
\* and otherwise versions it held before.
LEMMA InsertNew ==
    ASSUME NEW udc, NEW t \in Seq(VersionsFor(udc)), SortedTable(t),
           NEW f \in VersionsFor(udc), NEW r \in insert(t, f)
    PROVE  /\ \E at \in 1 .. Len(r) :
                 r[at] = [f EXCEPT !.deoptCount = r[at].deoptCount]
           /\ \A j \in 1 .. Len(r) : r[j].context # f.context =>
                 \E k \in 1 .. Len(t) : r[j] = t[k]
<1>1. /\ Len(t) \in Nat /\ DOMAIN t = 1 .. Len(t)
      /\ f \in Version /\ f.context \in ProperContext
  BY TableEntries, VersionContexts
<1>2. f = [f EXCEPT !.deoptCount = f.deoptCount]
  BY <1>1, Zenon DEF Version
<1>3. CASE hasVersion(t, f.context)
  <2> DEFINE p == scanStop(t, f.context)
             g == addDeoptCount(f, t[p].deoptCount)
  <2>1. p \in 1 .. Len(t) /\ t[p].context = f.context
    BY <1>3, TableEntries, ScanStop DEF hasVersion
  <2>2. r = [t EXCEPT ![p] = g]
    BY <1>3 DEF insert, replaceVersion
  <2>3. g = [f EXCEPT !.deoptCount = g.deoptCount] /\ g.context = f.context
    <3>1. \A n : LET e == [f EXCEPT !.deoptCount = n]
                 IN  /\ e = [f EXCEPT !.deoptCount = e.deoptCount]
                     /\ e.context = f.context
      BY <1>1, Zenon DEF Version
    <3>2. QED
      BY <3>1, Zenon DEF addDeoptCount
  <2> HIDE DEF p, g
  <2>4. r = [t EXCEPT ![p] = g]
    BY <2>2, <1>1
  <2>5. /\ Len(r) = Len(t)
        /\ \A j \in 1 .. Len(t) : r[j] = IF j = p THEN g ELSE t[j]
    BY <1>1, <2>1, <2>4
  <2>6. r[p] = g
    BY <2>1, <2>5
  <2>7. r[p] = [f EXCEPT !.deoptCount = r[p].deoptCount] /\ p \in 1 .. Len(r)
    BY <2>1, <2>3, <2>5, <2>6, Zenon
  <2>8. \A j \in 1 .. Len(r) : r[j].context # f.context =>
           \E k \in 1 .. Len(t) : r[j] = t[k]
    BY <2>3, <2>5, Zenon
  <2>9. QED
    BY <2>7, <2>8, Zenon
<1>4. ASSUME NEW q \in Seq(VersionsFor(udc)), SortedTable(q),
             ~hasVersion(q, f.context), r = addVersion(q, f),
             \A i \in 1 .. Len(q) : \E k \in 1 .. Len(t) : q[i] = t[k]
      PROVE  /\ \E at \in 1 .. Len(r) :
                   r[at] = [f EXCEPT !.deoptCount = r[at].deoptCount]
             /\ \A j \in 1 .. Len(r) : r[j].context # f.context =>
                   \E k \in 1 .. Len(t) : r[j] = t[k]
  <2> DEFINE a == addVersion(q, f)
  <2>0. /\ Len(a) = Len(q) + 1
        /\ \A j \in 1 .. Len(q) + 1 :
              a[j] = f \/ \E k \in 1 .. Len(q) : a[j] = q[k]
        /\ \E at \in 1 .. Len(q) + 1 : a[at] = f
    BY <1>4, AddVersionSorted
  <2> HIDE DEF a
  <2>1. /\ Len(r) = Len(q) + 1
        /\ \A j \in 1 .. Len(r) :
              r[j] = f \/ \E k \in 1 .. Len(q) : r[j] = q[k]
        /\ \E at \in 1 .. Len(r) : r[at] = f
    BY <1>4, <2>0 DEF a
  <2>2. PICK at \in 1 .. Len(r) : r[at] = f
    BY <2>1, Zenon
  <2>3. r[at] = [f EXCEPT !.deoptCount = r[at].deoptCount]
    BY <1>2, <2>2, Zenon
  <2>4. \A j \in 1 .. Len(r) : r[j].context # f.context =>
           \E k \in 1 .. Len(t) : r[j] = t[k]
    <3> SUFFICES ASSUME NEW j \in 1 .. Len(r), r[j] # f
                 PROVE  \E k \in 1 .. Len(t) : r[j] = t[k]
      OBVIOUS
    <3>1. PICK i \in 1 .. Len(q) : r[j] = q[i]
      BY <2>1
    <3>2. QED
      BY <1>4, <3>1
  <2>5. QED
    BY <2>3, <2>4, Zenon
<1>5. CASE ~hasVersion(t, f.context) /\ Len(t) + 1 = Capacity
  <2>1. PICK pos \in 1 .. Len(t) : r = addVersion(RemoveAt(t, pos), f)
    BY <1>5 DEF insert
  <2> DEFINE q == RemoveAt(t, pos)
  <2>2. /\ q \in Seq(VersionsFor(udc)) /\ Len(q) = Len(t) - 1 /\ SortedTable(q)
        /\ \A i \in 1 .. Len(t) - 1 : \E k \in 1 .. Len(t) : q[i] = t[k]
    BY RemoveSorted
  <2> HIDE DEF q
  <2>3. ~hasVersion(q, f.context)
    <3>1. ~\E i \in 1 .. Len(t) : t[i].context = f.context
      BY <1>1, <1>5, HasVersion
    <3>2. ~\E i \in 1 .. Len(q) : q[i].context = f.context
      BY <2>2, <3>1
    <3>3. QED
      BY <1>1, <2>2, <3>2, HasVersion
  <2>4. r = addVersion(q, f)
    BY <2>1 DEF q
  <2>5. QED
    BY <1>4, <2>2, <2>3, <2>4, Zenon
<1>6. CASE ~hasVersion(t, f.context) /\ Len(t) + 1 # Capacity
  <2>1. r = addVersion(t, f)
    BY <1>6 DEF insert
  <2>2. QED
    BY <1>4, <1>6, <2>1, Zenon
<1>7. QED
  BY <1>3, <1>5, <1>6, Zenon

-----------------------------------------------------------------------------
\* A forward scan returns the first index that passes its test.
LEMMA FirstIndex ==
    ASSUME NEW n \in Nat, NEW I \in SUBSET (1 .. n), NEW p,
           p = IF I # {} THEN Min(I) ELSE 0
    PROVE  /\ I = {} => p = 0
           /\ I # {} => p \in I /\ \A y \in I : p <= y
<1>1. CASE I = {}
  BY <1>1
<1>2. CASE I # {}
  <2>1. \E x \in I : \A y \in I : x <= y
    <3>1. I \subseteq Nat
      OBVIOUS
    <3>2. QED
      BY <1>2, <3>1, LeastNatural, Zenon
  <2>2. QED
    BY <1>2, <2>1, Zenon DEF Min
<1>3. QED
  BY <1>1, <1>2

\* dispatch finds the first enabled version that the call satisfies.
LEMMA DispatchFirst ==
    ASSUME NEW t \in Seq(Version), NEW a, NEW i \in 1 .. Len(t),
           smaller(a, t[i].context), ~disabled(t[i])
    PROVE  /\ dispatchIndex(t, a, TRUE) \in 1 .. Len(t)
           /\ dispatchIndex(t, a, TRUE) <= i
           /\ smaller(a, t[dispatchIndex(t, a, TRUE)].context)
<1> DEFINE I == { k \in 1 .. Len(t) : smaller(a, t[k].context) /\ ~disabled(t[k]) }
           p == dispatchIndex(t, a, TRUE)
<1>1. p = IF I # {} THEN Min(I) ELSE 0
  BY DEF dispatchIndex, SelectInSeq
<1>2. Len(t) \in Nat
  BY LenProperties
<1>3. i \in I /\ I \in SUBSET (1 .. Len(t))
  OBVIOUS
<1>4. \A k \in I : k \in 1 .. Len(t) /\ smaller(a, t[k].context)
  OBVIOUS
<1> HIDE DEF I, p
<1>5. p \in I /\ p <= i
  BY <1>1, <1>2, <1>3, FirstIndex, Zenon
<1>6. QED
  BY <1>4, <1>5, Zenon DEF p

\* What dispatch finds is enabled, and the call satisfies its assumptions.
LEMMA DispatchEnabled ==
    ASSUME NEW t \in Seq(Version), NEW a
    PROVE  \/ dispatchIndex(t, a, TRUE) = 0
           \/ /\ dispatchIndex(t, a, TRUE) \in 1 .. Len(t)
              /\ smaller(a, t[dispatchIndex(t, a, TRUE)].context)
              /\ ~disabled(t[dispatchIndex(t, a, TRUE)])
<1> DEFINE I == { k \in 1 .. Len(t) : smaller(a, t[k].context) /\ ~disabled(t[k]) }
           p == dispatchIndex(t, a, TRUE)
<1>1. p = IF I # {} THEN Min(I) ELSE 0
  BY DEF dispatchIndex, SelectInSeq
<1>2. Len(t) \in Nat /\ I \in SUBSET (1 .. Len(t))
  BY LenProperties
<1>3. \A k \in I : /\ k \in 1 .. Len(t) /\ smaller(a, t[k].context)
                   /\ ~disabled(t[k])
  OBVIOUS
<1> HIDE DEF I, p
<1>4. p = 0 \/ p \in I
  BY <1>1, <1>2, FirstIndex, Zenon
<1>5. QED
  BY <1>3, <1>4, Zenon DEF p

\* In a sorted table an earlier entry is never implied by a later one, and a
\* context occurs once.
LEMMA SortedEntries ==
    ASSUME NEW udc, NEW t \in Seq(VersionsFor(udc)), SortedTable(t),
           NEW i \in 1 .. Len(t), NEW j \in 1 .. Len(t)
    PROVE  /\ i < j => ~smaller(t[j].context, t[i].context)
           /\ t[i].context = t[j].context => i = j
<1>1. t[i].context \in ProperContext /\ t[j].context \in ProperContext
  BY TableEntries
<1>2. /\ i < j => Less(t[i].context, t[j].context)
      /\ j < i => Less(t[j].context, t[i].context)
  BY TableEntries DEF SortedTable
<1>3. ~Less(t[i].context, t[i].context)
      /\ ~(Less(t[i].context, t[j].context) /\ Less(t[j].context, t[i].context))
  BY <1>1, LessStrictTotalOrder
<1>4. t[i].context = t[j].context => i = j
  <2>1. t[i].context = t[j].context => ~(i < j) /\ ~(j < i)
    BY <1>2, <1>3
  <2>2. QED
    BY <2>1, TableEntries
<1>5. i < j => ~smaller(t[j].context, t[i].context)
  <2> SUFFICES ASSUME i < j, smaller(t[j].context, t[i].context)
               PROVE  FALSE
    OBVIOUS
  <2>1. t[i].context # t[j].context
    BY <1>4
  <2>2. Less(t[j].context, t[i].context)
    BY <2>1 DEF Less
  <2>3. QED
    BY <1>2, <1>3, <2>2
<1>6. QED
  BY <1>4, <1>5

=============================================================================
