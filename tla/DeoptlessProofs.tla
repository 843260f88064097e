-------------------------- MODULE DeoptlessProofs --------------------------
(***************************************************************************)
(* Deoptless continuations are sound although insert replaces values under  *)
(* keys that are equal only in part: what a table maps a key to, and what   *)
(* the activations run, always takes for granted no more than holds.        *)
(***************************************************************************)
EXTENDS Deoptless, WellFoundedInduction, TLAPS

\* The provers of a leaf that names none, in the order they are tried.
USE SMTT(10), ZenonT(20), SMTT(90)

-----------------------------------------------------------------------------
(* Sequences, and sets of their indices. *)

\* The parts and the composition of sequences.
LEMMA ConcatProperties ==
    ASSUME NEW S, NEW s \in Seq(S), NEW t \in Seq(S)
    PROVE  /\ s \o t \in Seq(S) /\ Len(s \o t) = Len(s) + Len(t)
           /\ \A j \in 1 .. Len(s) + Len(t) :
                 (s \o t)[j] = IF j <= Len(s) THEN s[j] ELSE t[j - Len(s)]
OBVIOUS

LEMMA SubSeqProperties ==
    ASSUME NEW S, NEW s, NEW i \in Int, NEW j \in Int, \A k \in i .. j : s[k] \in S
    PROVE  /\ SubSeq(s, i, j) \in Seq(S)
           /\ Len(SubSeq(s, i, j)) = IF i <= j THEN j - i + 1 ELSE 0
           /\ \A k \in 1 .. j - i + 1 : SubSeq(s, i, j)[k] = s[i + k - 1]
OBVIOUS

\* A non-empty set of natural numbers has a least element.
LEMMA LeastNatural ==
    ASSUME NEW T, T \subseteq Nat, T # {}
    PROVE  \E x \in T : \A y \in T : x <= y
<1> DEFINE R == OpToRel(<, Nat)
<1>1. IsWellFoundedOn(R, Nat)
  BY NatLessThanWellFounded
<1>2. PICK x \in T : \A y \in T : ~(<<y, x>> \in R)
  BY <1>1, WFMin
<1>3. \A y \in T : x <= y
  <2> SUFFICES ASSUME NEW y \in T, y < x
               PROVE  FALSE
    OBVIOUS
  <2>1. <<y, x>> \in Nat \X Nat /\ <<y, x>>[1] < <<y, x>>[2]
    OBVIOUS
  <2>2. <<y, x>> \in R
    BY <2>1 DEF OpToRel
  <2>3. QED
    BY <1>2, <2>2
<1>4. QED
  BY <1>3

\* A non-empty set of bits has a most significant one.
LEMMA GreatestBit ==
    ASSUME NEW n \in Nat, NEW D \in SUBSET (0 .. n), D # {}
    PROVE  \E x \in D : \A y \in D : y <= x
<1> DEFINE T == { n - z : z \in D }
<1>1. T \subseteq Nat /\ T # {}
  <2>1. \A z \in D : n - z \in Nat
    OBVIOUS
  <2>2. PICK z \in D : TRUE
    OBVIOUS
  <2>3. n - z \in T
    OBVIOUS
  <2>4. QED
    BY <2>1, <2>3
<1>2. PICK t \in T : \A y \in T : t <= y
  <2> HIDE DEF T
  <2> QED BY <1>1, LeastNatural
<1>3. PICK x \in D : t = n - x
  OBVIOUS
<1>4. \A y \in D : y <= x
  <2> TAKE y \in D
  <2>1. n - y \in T
    OBVIOUS
  <2>2. x \in Int /\ y \in Int
    OBVIOUS
  <2> HIDE DEF T
  <2>3. t <= n - y
    BY <1>2, <2>1
  <2>4. QED
    BY <1>3, <2>2, <2>3
<1>5. QED
  BY <1>4

\* The greatest and the least of a set of indices.
LEMMA ExtremeIndices ==
    ASSUME NEW n \in Nat, NEW D \in SUBSET (0 .. n), D # {}
    PROVE  /\ Max(D) \in D /\ \A y \in D : y <= Max(D)
           /\ Min(D) \in D /\ \A y \in D : Min(D) <= y
<1>1. \A x \in D, y \in D : x >= y <=> y <= x
  OBVIOUS
<1>2. \E x \in D : \A y \in D : x >= y
  BY <1>1, GreatestBit
<1>3. D \subseteq Nat
  OBVIOUS
<1>4. \E x \in D : \A y \in D : x <= y
  BY <1>3, LeastNatural, Zenon
<1>5. Max(D) \in D /\ \A y \in D : Max(D) >= y
  BY <1>2 DEF Max
<1>6. Min(D) \in D /\ \A y \in D : Min(D) <= y
  BY <1>4 DEF Min
<1>7. QED
  BY <1>1, <1>5, <1>6

\* r is t with e inserted at position i, the tail shifted by one.
InsertedAt(r, t, i, e) ==
    /\ Len(r) = Len(t) + 1
    /\ \A j \in 1 .. Len(t) + 1 :
          r[j] = IF j < i THEN t[j] ELSE IF j = i THEN e ELSE t[j - 1]

\* Inserting at position i shifts the tail by one.
LEMMA InsertAtProperties ==
    ASSUME NEW S, NEW t \in Seq(S), NEW i \in 1 .. Len(t) + 1, NEW e \in S
    PROVE  /\ InsertAt(t, i, e) \in Seq(S)
           /\ InsertedAt(InsertAt(t, i, e), t, i, e)
<1> DEFINE l == SubSeq(t, 1, i - 1)
           r == SubSeq(t, i, Len(t))
<1>1. l \in Seq(S) /\ Len(l) = i - 1 /\ \A j \in 1 .. i - 1 : l[j] = t[j]
  BY SubSeqProperties
<1>2. /\ r \in Seq(S) /\ Len(r) = Len(t) - i + 1
      /\ \A j \in 1 .. Len(t) - i + 1 : r[j] = t[i + j - 1]
  BY SubSeqProperties
<1> HIDE DEF l, r
<1>3. <<e>> \in Seq(S) /\ Len(<<e>>) = 1 /\ <<e>>[1] = e
  OBVIOUS
<1>4. /\ l \o <<e>> \in Seq(S) /\ Len(l \o <<e>>) = i
      /\ \A j \in 1 .. i : (l \o <<e>>)[j] = IF j < i THEN t[j] ELSE e
  BY <1>1, <1>3, ConcatProperties
<1>5. /\ (l \o <<e>>) \o r \in Seq(S) /\ Len((l \o <<e>>) \o r) = Len(t) + 1
      /\ \A j \in 1 .. Len(t) + 1 :
            ((l \o <<e>>) \o r)[j] =
               IF j < i THEN t[j] ELSE IF j = i THEN e ELSE t[j - 1]
  <2>1. /\ (l \o <<e>>) \o r \in Seq(S) /\ Len((l \o <<e>>) \o r) = Len(t) + 1
        /\ \A j \in 1 .. Len(t) + 1 : ((l \o <<e>>) \o r)[j] =
              IF j <= i THEN (l \o <<e>>)[j] ELSE r[j - i]
    <3> DEFINE le == l \o <<e>>
    <3>0. le \in Seq(S) /\ Len(le) = i
      BY <1>4
    <3> HIDE DEF le
    <3>1. le \in Seq(S) /\ Len(le) = i /\ Len(le) + Len(r) = Len(t) + 1
      BY <1>2, <3>0
    <3>2. /\ le \o r \in Seq(S) /\ Len(le \o r) = Len(le) + Len(r)
          /\ \A j \in 1 .. Len(le) + Len(r) : (le \o r)[j] =
                IF j <= Len(le) THEN le[j] ELSE r[j - Len(le)]
      BY <1>2, <3>1, ConcatProperties, Zenon
    <3>3. QED
      BY <3>1, <3>2 DEF le
  <2>2. \A j \in 1 .. Len(t) + 1 : j > i => r[j - i] = t[j - 1]
    <3> SUFFICES ASSUME NEW j \in 1 .. Len(t) + 1, j > i
                 PROVE  r[j - i] = t[j - 1]
      OBVIOUS
    <3>1. j - i \in 1 .. Len(t) - i + 1 /\ i + (j - i) - 1 = j - 1
      OBVIOUS
    <3>2. QED
      BY <1>2, <3>1
  <2>3. QED
    BY <1>4, <2>1, <2>2
<1>6. QED
  BY <1>5, Zenon DEF InsertAt, InsertedAt, l, r

Entry(n) == [key : Keys, code : 1 .. n]
Code(n) == [cls : 1 .. Closures, compiledFor : Keys \cup {NoContext},
            disabled : BOOLEAN, table : Seq(Entry(n))]
Activation(n) == [code : 1 .. n, native : BOOLEAN, deoptContext : Keys \cup {NoContext}]

\* Code f may be run by code of closure cls that deoptimizes in context k.
Serves(f, cls, k) ==
    f.cls = cls /\ f.compiledFor \in Keys /\ assumes(k, f.compiledFor)

\* The inductive invariant.  ContinuationSound alone is not inductive: the next
\* deopt runs what some table maps its context to.
CodesOK(cs) ==
    /\ cs \in Seq(Code(Len(cs))) /\ Closures <= Len(cs)
    /\ \A c \in 1 .. Len(cs) : \A i \in 1 .. Len(cs[c].table) :
         Serves(cs[cs[c].table[i].code], cs[c].cls, cs[c].table[i].key)

FramesOK(cs, fs) ==
    /\ fs \in Seq(Activation(Len(cs)))
    /\ fs # <<>> => fs[1].deoptContext = NoContext
    /\ \A i \in 2 .. Len(fs) : fs[i].deoptContext # NoContext =>
         Serves(cs[fs[i].code], cs[fs[i - 1].code].cls, fs[i].deoptContext)

DInv ==
    CodesOK(codes) /\ FramesOK(codes, frames) /\ deoptlessRecursion \in 0 .. Closures

-----------------------------------------------------------------------------
\* assumes is a preorder on the contexts of deopts, and equal as well as smaller
\* contexts are related by it.
LEMMA AssumesOrder ==
    ASSUME NEW k \in Keys, NEW q \in Keys, NEW r \in Keys
    PROVE  /\ assumes(k, k)
           /\ smaller(k, q) => assumes(k, q)
           /\ Equal(k, q) => assumes(k, q)
           /\ assumes(k, q) /\ assumes(q, r) => assumes(k, r)
<1>1. /\ k.stack \in Seq(SUBSET Nat) /\ q.stack \in Seq(SUBSET Nat)
      /\ r.stack \in Seq(SUBSET Nat)
  BY KeysAssumption
<1> DEFINE Bound == [name : Nat, type : SUBSET Nat, missing : BOOLEAN]
<1>2. k.env \in Seq(Bound) /\ q.env \in Seq(Bound) /\ r.env \in Seq(Bound)
  BY KeysAssumption
<1> HIDE DEF Bound
<1>3. /\ DOMAIN k.stack = 1 .. Len(k.stack) /\ DOMAIN q.stack = 1 .. Len(q.stack)
      /\ DOMAIN k.env = 1 .. Len(k.env) /\ DOMAIN q.env = 1 .. Len(q.env)
  BY <1>1, <1>2
<1>4. assumes(k, k)
  BY Zenon DEF assumes
<1>5. smaller(k, q) => assumes(k, q)
  BY Zenon DEF assumes, smaller, isA
<1>6. Equal(k, q) => assumes(k, q)
  <2> SUFFICES ASSUME Equal(k, q)
               PROVE  assumes(k, q)
    OBVIOUS
  <2>1. k.pc = q.pc /\ k.stack = q.stack /\ k.env = q.env /\ k.leaked = q.leaked
    BY DEF Equal
  <2>2. QED
    BY <2>1, Zenon DEF assumes
<1>7. ASSUME assumes(k, q), assumes(q, r)
      PROVE  assumes(k, r)
  <2>1. /\ k.pc = r.pc /\ k.leaked = r.leaked
        /\ Len(k.stack) = Len(r.stack) /\ Len(k.env) = Len(r.env)
    BY <1>7, Zenon DEF assumes
  <2>2. DOMAIN k.stack = DOMAIN q.stack /\ DOMAIN k.env = DOMAIN q.env
    BY <1>3, <1>7, Zenon DEF assumes
  <2>3. \A i \in DOMAIN k.stack : k.stack[i] \subseteq r.stack[i]
    BY <1>7, <2>2, Zenon DEF assumes
  <2>4. \A i \in DOMAIN k.env :
          /\ k.env[i].name = r.env[i].name /\ k.env[i].missing = r.env[i].missing
          /\ k.env[i].type \subseteq r.env[i].type
    BY <1>7, <2>2, Zenon DEF assumes
  <2>5. QED
    BY <2>1, <2>3, <2>4, Zenon DEF assumes
<1>8. QED
  BY <1>4, <1>5, <1>6, <1>7

\* Dispatch finds an enabled continuation that can be called in context k.
LEMMA Dispatched ==
    ASSUME NEW n, NEW t \in Seq(Entry(n)), NEW k
    PROVE  /\ dispatch(t, k) \in 0 .. Len(t)
           /\ dispatch(t, k) # 0 =>
                /\ smaller(k, t[dispatch(t, k)].key)
                /\ ~codes[t[dispatch(t, k)].code].disabled
<1> DEFINE I == { i \in 1 .. Len(t) :
                    smaller(k, t[i].key) /\ ~codes[t[i].code].disabled }
<1>1. dispatch(t, k) = IF I # {} THEN Min(I) ELSE 0
  BY DEF dispatch, SelectInSeq
<1>2. I \in SUBSET (0 .. Len(t)) /\ Len(t) \in Nat
  OBVIOUS
<1>3. I # {} => Min(I) \in I
  <2> HIDE DEF I
  <2> QED BY <1>2, ExtremeIndices
<1>4. dispatch(t, k) = 0 \/ dispatch(t, k) \in I
  <2> HIDE DEF I
  <2> QED BY <1>1, <1>3
<1>5. CASE dispatch(t, k) = 0
  BY <1>2, <1>5
<1>6. CASE dispatch(t, k) \in I
  <2>1. dispatch(t, k) \in 1 .. Len(t)
    BY <1>6
  <2>2. /\ smaller(k, t[dispatch(t, k)].key)
        /\ ~codes[t[dispatch(t, k)].code].disabled
    BY <1>6, Zenon
  <2>3. QED
    BY <2>1, <2>2
<1>7. QED
  BY <1>4, <1>5, <1>6

\* What insert does to a table with room: the value of an equal key is replaced,
\* or an entry is added; every other entry stays.
Inserts(u, t, k, c) ==
    /\ \A j \in 1 .. Len(u) :
         \/ \E i \in 1 .. Len(t) : u[j] = t[i]
         \/ u[j] = [key |-> k, code |-> c]
         \/ \E i \in 1 .. Len(t) : /\ Equal(t[i].key, k)
                                   /\ u[j] = [key |-> t[i].key, code |-> c]
    /\ \A i \in 1 .. Len(t) : \E j \in 1 .. Len(u) : u[j].key = t[i].key

LEMMA Replaced ==
    ASSUME NEW n \in Nat, NEW t \in Seq(Entry(n)), NEW k \in Keys, NEW c \in 1 .. n,
           NEW s \in 1 .. Len(t), Equal(t[s].key, k)
    PROVE  LET u == [t EXCEPT ![s].code = c]
           IN  u \in Seq(Entry(n)) /\ Inserts(u, t, k, c)
<1> DEFINE e == [t[s] EXCEPT !.code = c]
           u == [t EXCEPT ![s] = e]
<1>1. t[s] \in Entry(n)
  OBVIOUS
<1>2. e = [key |-> t[s].key, code |-> c] /\ e \in Entry(n) /\ e.key = t[s].key
  BY <1>1 DEF Entry
<1> HIDE DEF e
<1>3. /\ u \in Seq(Entry(n)) /\ Len(u) = Len(t)
      /\ \A j \in 1 .. Len(t) : u[j] = IF j = s THEN e ELSE t[j]
  BY <1>2
<1> HIDE DEF u
<1>4. \A j \in 1 .. Len(u) :
         \/ \E i \in 1 .. Len(t) : u[j] = t[i]
         \/ \E i \in 1 .. Len(t) : /\ Equal(t[i].key, k)
                                   /\ u[j] = [key |-> t[i].key, code |-> c]
  BY <1>2, <1>3, Zenon
<1>5. \A i \in 1 .. Len(t) : \E j \in 1 .. Len(u) : u[j].key = t[i].key
  BY <1>2, <1>3, Zenon
<1>6. Inserts(u, t, k, c)
  BY <1>4, <1>5, Zenon DEF Inserts
<1>7. QED
  BY <1>3, <1>6, Zenon DEF u, e

LEMMA Added ==
    ASSUME NEW n \in Nat, NEW t \in Seq(Entry(n)), NEW k \in Keys, NEW c \in 1 .. n,
           NEW p \in 1 .. Len(t) + 1
    PROVE  LET u == InsertAt(t, p, [key |-> k, code |-> c])
           IN  u \in Seq(Entry(n)) /\ Inserts(u, t, k, c)
<1> DEFINE e == [key |-> k, code |-> c]
           u == InsertAt(t, p, e)
<1>1. e \in Entry(n)
  BY DEF Entry
<1> HIDE DEF e
<1>2. /\ u \in Seq(Entry(n)) /\ Len(u) = Len(t) + 1
      /\ \A j \in 1 .. Len(t) + 1 :
           u[j] = IF j < p THEN t[j] ELSE IF j = p THEN e ELSE t[j - 1]
  <2>1. u \in Seq(Entry(n)) /\ InsertedAt(u, t, p, e)
    BY <1>1, InsertAtProperties, Zenon
  <2> HIDE DEF u
  <2>2. QED
    BY <2>1, Zenon DEF InsertedAt
<1> HIDE DEF u
<1>3. ASSUME NEW j \in 1 .. Len(u)
      PROVE  (\E i \in 1 .. Len(t) : u[j] = t[i]) \/ u[j] = e
  <2>1. CASE j < p
    BY <1>2, <2>1
  <2>2. CASE j > p
    <3>1. j - 1 \in 1 .. Len(t) /\ u[j] = t[j - 1]
      BY <1>2, <2>2
    <3>2. QED
      BY <3>1
  <2>3. CASE j = p
    BY <1>2, <2>3
  <2>4. QED
    BY <1>2, <2>1, <2>2, <2>3
<1>4. ASSUME NEW i \in 1 .. Len(t)
      PROVE  \E j \in 1 .. Len(u) : u[j].key = t[i].key
  <2>1. CASE i < p
    <3>1. i \in 1 .. Len(u) /\ u[i] = t[i]
      BY <1>2, <2>1
    <3>2. QED
      BY <3>1, Zenon
  <2>2. CASE i >= p
    <3>1. i + 1 \in 1 .. Len(u) /\ (i + 1) - 1 = i /\ ~(i + 1 < p) /\ i + 1 # p
      BY <1>2, <2>2
    <3>2. u[i + 1] = t[i]
      BY <1>2, <3>1
    <3>3. QED
      BY <3>1, <3>2, Zenon
  <2>3. QED
    BY <2>1, <2>2
<1>5. Inserts(u, t, k, c)
  BY <1>3, <1>4, Zenon DEF Inserts, e
<1>6. QED
  BY <1>2, <1>5, Zenon DEF u, e

LEMMA InsertKeeps ==
    ASSUME NEW n \in Nat, NEW t \in Seq(Entry(n)), NEW k \in Keys, NEW c \in 1 .. n,
           Len(t) < CAPACITY, NEW u \in insert(t, k, c)
    PROVE  u \in Seq(Entry(n)) /\ Inserts(u, t, k, c)
<1> DEFINE I == { i \in 1 .. Len(t) : Equal(t[i].key, k) \/ ~Less(k, t[i].key) }
           s == scanStop(t, k)
<1>1. s = IF I # {} THEN Max(I) ELSE 0
  BY DEF scanStop, SelectLastInSeq
<1>2. I \in SUBSET (0 .. Len(t)) /\ Len(t) \in Nat
  OBVIOUS
<1>3. I # {} => Max(I) \in I
  <2> HIDE DEF I
  <2> QED BY <1>2, ExtremeIndices
<1>4. s \in 0 .. Len(t)
  <2>1. s = 0 \/ s \in I
    <3> HIDE DEF I
    <3> QED BY <1>1, <1>3
  <2> HIDE DEF s
  <2>2. QED
    BY <1>2, <2>1
<1>5. u = IF s > 1 /\ Equal(t[s].key, k)
          THEN [t EXCEPT ![s].code = c]
          ELSE InsertAt(t, IF s > 1 THEN s + 1 ELSE 1, [key |-> k, code |-> c])
  <2>1. u = place(t, k, c)
    BY DEF insert
  <2>2. QED
    BY <2>1, Zenon DEF place
<1> HIDE DEF s
<1>6. CASE s > 1 /\ Equal(t[s].key, k)
  <2>1. s \in 1 .. Len(t)
    BY <1>4, <1>6
  <2>2. QED
    BY <1>5, <1>6, <2>1, Replaced, Zenon
<1>7. CASE ~(s > 1 /\ Equal(t[s].key, k))
  <2> DEFINE p == IF s > 1 THEN s + 1 ELSE 1
  <2>1. p \in 1 .. Len(t) + 1
    BY <1>2, <1>4
  <2>2. u = InsertAt(t, p, [key |-> k, code |-> c])
    BY <1>5, <1>7, Zenon
  <2> HIDE DEF p
  <2>3. QED
    BY <2>1, <2>2, Added, Zenon
<1>8. QED
  BY <1>6, <1>7

-----------------------------------------------------------------------------
(* Code objects. *)

LEMMA MoreCodes ==
    ASSUME NEW n \in Nat, NEW m \in Nat, n <= m
    PROVE  /\ Seq(Entry(n)) \subseteq Seq(Entry(m)) /\ Code(n) \subseteq Code(m)
           /\ Activation(n) \subseteq Activation(m)
           /\ Seq(Activation(n)) \subseteq Seq(Activation(m))
<1>1. 1 .. n \subseteq 1 .. m
  OBVIOUS
<1>2. Entry(n) \subseteq Entry(m) /\ Activation(n) \subseteq Activation(m)
  BY <1>1, Zenon DEF Entry, Activation
<1>3. Seq(Entry(n)) \subseteq Seq(Entry(m)) /\ Seq(Activation(n)) \subseteq Seq(Activation(m))
  BY <1>2
<1>4. QED
  BY <1>2, <1>3, Zenon DEF Code

\* f is code g but for its table and its being disabled.
SameCode(f, g) == f.cls = g.cls /\ f.compiledFor = g.compiledFor

LEMMA TableUpdate ==
    ASSUME NEW n \in Nat, NEW m \in Nat, n <= m, NEW r \in Code(n),
           NEW u \in Seq(Entry(m)), NEW f, f = [r EXCEPT !.table = u]
    PROVE  f \in Code(m) /\ SameCode(f, r) /\ f.table = u
<1>1. r \in Code(m)
  BY MoreCodes
<1>2. f \in Code(m)
  BY <1>1, Zenon DEF Code
<1>3. f.cls = r.cls /\ f.compiledFor = r.compiledFor /\ f.table = u
  BY <1>1 DEF Code
<1>4. QED
  BY <1>2, <1>3 DEF SameCode

LEMMA Disabled ==
    ASSUME NEW n \in Nat, NEW r \in Code(n), NEW f, f = [r EXCEPT !.disabled = TRUE]
    PROVE  f \in Code(n) /\ SameCode(f, r) /\ f.table = r.table
<1>1. f \in Code(n)
  BY Zenon DEF Code
<1>2. f.cls = r.cls /\ f.compiledFor = r.compiledFor /\ f.table = r.table
  BY DEF Code
<1>3. QED
  BY <1>1, <1>2 DEF SameCode

LEMMA CodesFacts ==
    ASSUME NEW cs, CodesOK(cs)
    PROVE  /\ Len(cs) \in Nat /\ DOMAIN cs = 1 .. Len(cs)
           /\ \A c \in 1 .. Len(cs) :
                /\ cs[c] \in Code(Len(cs)) /\ cs[c].table \in Seq(Entry(Len(cs)))
                /\ cs[c].cls \in 1 .. Closures
                /\ \A i \in 1 .. Len(cs[c].table) :
                     /\ cs[c].table[i].key \in Keys
                     /\ cs[c].table[i].code \in 1 .. Len(cs)
                     /\ Serves(cs[cs[c].table[i].code], cs[c].cls, cs[c].table[i].key)
<1>1. Len(cs) \in Nat /\ DOMAIN cs = 1 .. Len(cs)
  BY DEF CodesOK
<1> SUFFICES ASSUME NEW c \in 1 .. Len(cs)
             PROVE  /\ cs[c] \in Code(Len(cs)) /\ cs[c].table \in Seq(Entry(Len(cs)))
                    /\ cs[c].cls \in 1 .. Closures
                    /\ \A i \in 1 .. Len(cs[c].table) :
                         /\ cs[c].table[i].key \in Keys
                         /\ cs[c].table[i].code \in 1 .. Len(cs)
                         /\ Serves(cs[cs[c].table[i].code], cs[c].cls, cs[c].table[i].key)
  BY <1>1
<1>2. cs[c] \in Code(Len(cs))
  BY DEF CodesOK
<1>3. cs[c].table \in Seq(Entry(Len(cs))) /\ cs[c].cls \in 1 .. Closures
  BY <1>2 DEF Code
<1>4. \A i \in 1 .. Len(cs[c].table) : cs[c].table[i] \in Entry(Len(cs))
  BY <1>3
<1>5. QED
  BY <1>2, <1>3, <1>4, Zenon DEF Entry, CodesOK

\* Code stays what it was compiled for, and goes on serving what it did.
LEMMA ServesSame ==
    ASSUME NEW f, NEW g, SameCode(f, g), NEW cls, NEW k, Serves(g, cls, k)
    PROVE  Serves(f, cls, k)
BY Zenon DEF Serves, SameCode

\* A compilation enters its continuation into the table of the code that
\* deoptimizes: under k, or in place of the value of a key equal to k.
Compiled(cs, x, k, u) ==
    Append([cs EXCEPT ![x].table = u], NewCode(cs[x].cls, k))

LEMMA CompiledCodes ==
    ASSUME NEW cs, CodesOK(cs), NEW x \in 1 .. Len(cs), NEW k \in Keys,
           Len(cs[x].table) < CAPACITY, NEW u \in insert(cs[x].table, k, Len(cs) + 1)
    PROVE  /\ Compiled(cs, x, k, u) \in Seq(Code(Len(cs) + 1))
           /\ Len(Compiled(cs, x, k, u)) = Len(cs) + 1
           /\ Compiled(cs, x, k, u)[Len(cs) + 1] = NewCode(cs[x].cls, k)
           /\ \A c \in 1 .. Len(cs) :
                /\ SameCode(Compiled(cs, x, k, u)[c], cs[c])
                /\ Compiled(cs, x, k, u)[c].table = IF c = x THEN u ELSE cs[c].table
           /\ u \in Seq(Entry(Len(cs) + 1)) /\ Inserts(u, cs[x].table, k, Len(cs) + 1)
<1> DEFINE n == Len(cs)
           m == Len(cs) + 1
           f == [cs[x] EXCEPT !.table = u]
           new == NewCode(cs[x].cls, k)
<1>1. /\ n \in Nat /\ m \in Nat /\ n <= m /\ m \in 1 .. m
      /\ DOMAIN cs = 1 .. n /\ cs \in Seq(Code(n))
  BY CodesFacts DEF CodesOK
<1>2. /\ cs[x] \in Code(n) /\ cs[x].table \in Seq(Entry(n)) /\ cs[x].cls \in 1 .. Closures
  BY CodesFacts
<1>3. cs[x].table \in Seq(Entry(m)) /\ cs \in Seq(Code(m))
  <2>1. Code(n) \subseteq Code(m) /\ Seq(Entry(n)) \subseteq Seq(Entry(m))
    BY <1>1, MoreCodes
  <2> HIDE DEF m
  <2>2. QED
    BY <1>1, <1>2, <2>1
<1>4. u \in Seq(Entry(m)) /\ Inserts(u, cs[x].table, k, m)
  BY <1>1, <1>3, InsertKeeps
<1>5. f \in Code(m) /\ SameCode(f, cs[x]) /\ f.table = u
  <2>1. f = [cs[x] EXCEPT !.table = u]
    OBVIOUS
  <2> HIDE DEF n, m, f
  <2>2. QED
    BY <1>1, <1>2, <1>4, <2>1, TableUpdate
<1>6. new \in Code(m)
  <2>1. <<>> \in Seq(Entry(m))
    OBVIOUS
  <2>2. QED
    BY <1>2, <2>1, Zenon DEF NewCode, Code
<1> DEFINE fs == [cs EXCEPT ![x] = f]
<1>7. /\ fs \in Seq(Code(m)) /\ Len(fs) = n
      /\ \A c \in 1 .. n : fs[c] = IF c = x THEN f ELSE cs[c]
  <2> HIDE DEF f, m
  <2> QED BY <1>1, <1>3, <1>5
<1>8. Compiled(cs, x, k, u) = Append(fs, new)
  BY Zenon DEF Compiled
<1> HIDE DEF fs, f, new
<1>9. /\ Append(fs, new) \in Seq(Code(m)) /\ Len(Append(fs, new)) = m
      /\ Append(fs, new)[m] = new /\ \A c \in 1 .. n : Append(fs, new)[c] = fs[c]
  BY <1>1, <1>6, <1>7
<1>10. \A c \in 1 .. n : SameCode(cs[c], cs[c])
  BY Zenon DEF SameCode
<1>11. \A c \in 1 .. n :
         /\ SameCode(Append(fs, new)[c], cs[c])
         /\ Append(fs, new)[c].table = IF c = x THEN u ELSE cs[c].table
  BY <1>5, <1>7, <1>9, <1>10, Zenon
<1>12. QED
  BY <1>4, <1>8, <1>9, <1>11, Zenon DEF new

\* A new continuation serves its own context, and those equal to it.
LEMMA NewServes ==
    ASSUME NEW cls, NEW k \in Keys, NEW q \in Keys, q = k \/ Equal(q, k)
    PROVE  Serves(NewCode(cls, k), cls, q)
<1>1. assumes(q, k)
  BY AssumesOrder, Zenon
<1>2. NewCode(cls, k).cls = cls /\ NewCode(cls, k).compiledFor = k
  BY DEF NewCode
<1>3. QED
  BY <1>1, <1>2 DEF Serves

LEMMA CompiledOK ==
    ASSUME NEW cs, CodesOK(cs), NEW x \in 1 .. Len(cs), NEW k \in Keys,
           Len(cs[x].table) < CAPACITY, NEW u \in insert(cs[x].table, k, Len(cs) + 1)
    PROVE  CodesOK(Compiled(cs, x, k, u))
<1> DEFINE n == Len(cs)
           m == Len(cs) + 1
           ds == Compiled(cs, x, k, u)
           new == NewCode(cs[x].cls, k)
<1>1. /\ ds \in Seq(Code(m)) /\ Len(ds) = m /\ ds[m] = new
      /\ \A c \in 1 .. n : /\ SameCode(ds[c], cs[c])
                           /\ ds[c].table = IF c = x THEN u ELSE cs[c].table
      /\ u \in Seq(Entry(m)) /\ Inserts(u, cs[x].table, k, m)
  BY CompiledCodes
<1>2. /\ n \in Nat /\ DOMAIN cs = 1 .. n /\ cs[x].table \in Seq(Entry(n))
      /\ \A c \in 1 .. n : \A i \in 1 .. Len(cs[c].table) :
           /\ cs[c].table[i].key \in Keys /\ cs[c].table[i].code \in 1 .. n
           /\ Serves(cs[cs[c].table[i].code], cs[c].cls, cs[c].table[i].key)
  BY CodesFacts, Zenon
<1>3. Closures <= Len(ds)
  <2> HIDE DEF ds
  <2> QED BY <1>1, <1>2, DeoptlessAssumption DEF CodesOK
<1> HIDE DEF ds, new
<1>4. \A c \in 1 .. n : ds[c].cls = cs[c].cls
  BY <1>1, Zenon DEF SameCode
\* What served before the compilation still does.
<1>5. ASSUME NEW c \in 1 .. n, NEW i \in 1 .. Len(cs[c].table)
      PROVE  Serves(ds[cs[c].table[i].code], ds[c].cls, cs[c].table[i].key)
  <2>1. /\ SameCode(ds[cs[c].table[i].code], cs[cs[c].table[i].code])
        /\ Serves(cs[cs[c].table[i].code], ds[c].cls, cs[c].table[i].key)
    BY <1>1, <1>2, <1>4, <1>5, Zenon
  <2>2. QED
    BY <2>1, ServesSame, Zenon
<1>6. ASSUME NEW q \in Keys, q = k \/ Equal(q, k)
      PROVE  Serves(ds[m], ds[x].cls, q)
  BY <1>1, <1>4, <1>6, NewServes, Zenon DEF new
<1>7. ASSUME NEW j \in 1 .. Len(u)
      PROVE  Serves(ds[u[j].code], ds[x].cls, u[j].key)
  <2>1. CASE \E i \in 1 .. Len(cs[x].table) : u[j] = cs[x].table[i]
    BY <1>5, <2>1, Zenon
  <2>2. CASE u[j] = [key |-> k, code |-> m]
    <3>1. u[j].key = k /\ u[j].code = m
      BY <2>2
    <3>2. QED
      BY <1>6, <3>1, Zenon
  <2>3. ASSUME NEW i \in 1 .. Len(cs[x].table), Equal(cs[x].table[i].key, k),
               u[j] = [key |-> cs[x].table[i].key, code |-> m]
        PROVE  Serves(ds[u[j].code], ds[x].cls, u[j].key)
    <3>1. u[j].key = cs[x].table[i].key /\ u[j].code = m
      BY <2>3
    <3>2. cs[x].table[i].key \in Keys
      BY <1>2, <2>3, Zenon
    <3>3. QED
      BY <1>6, <2>3, <3>1, <3>2, Zenon
  <2>4. QED
    BY <1>1, <1>7, <2>1, <2>2, <2>3, Zenon DEF Inserts
<1>8. ASSUME NEW c \in 1 .. Len(ds), NEW i \in 1 .. Len(ds[c].table)
      PROVE  Serves(ds[ds[c].table[i].code], ds[c].cls, ds[c].table[i].key)
  <2>1. CASE c = m
    <3>1. ds[c].table = <<>>
      BY <1>1, <2>1 DEF new, NewCode
    <3>2. QED
      BY <1>8, <3>1
  <2>2. CASE c = x
    <3>1. ds[c].table = u
      BY <1>1, <2>2, Zenon
    <3>2. QED
      BY <1>7, <1>8, <2>2, <3>1, Zenon
  <2>3. CASE c \in 1 .. n /\ c # x
    <3>1. ds[c].table = cs[c].table
      BY <1>1, <2>3, Zenon
    <3>2. QED
      BY <1>5, <1>8, <2>3, <3>1, Zenon
  <2>4. c \in 1 .. n \/ c = m
    BY <1>1, <1>2
  <2>5. QED
    BY <2>1, <2>2, <2>3, <2>4
<1>9. ds \in Seq(Code(Len(ds)))
  BY <1>1, Zenon
<1>10. CodesOK(ds)
  BY <1>3, <1>8, <1>9, Zenon DEF CodesOK
<1>11. QED
  BY <1>10 DEF ds

-----------------------------------------------------------------------------
(* Activations. *)

LEMMA FramesFacts ==
    ASSUME NEW cs, CodesOK(cs), NEW fs, FramesOK(cs, fs)
    PROVE  /\ fs \in Seq(Activation(Len(cs))) /\ Len(fs) \in Nat /\ DOMAIN fs = 1 .. Len(fs)
           /\ \A i \in 1 .. Len(fs) :
                /\ fs[i] \in Activation(Len(cs)) /\ fs[i].code \in 1 .. Len(cs)
                /\ fs[i].deoptContext \in Keys \cup {NoContext}
           /\ fs # <<>> => Last(fs) = fs[Len(fs)] /\ Len(fs) \in 1 .. Len(fs)
<1>1. fs \in Seq(Activation(Len(cs))) /\ Len(fs) \in Nat /\ DOMAIN fs = 1 .. Len(fs)
  BY DEF FramesOK
<1>2. \A i \in 1 .. Len(fs) : fs[i] \in Activation(Len(cs))
  BY <1>1
<1>3. fs # <<>> => Last(fs) = fs[Len(fs)] /\ Len(fs) \in 1 .. Len(fs)
  BY <1>1 DEF Last
<1>4. QED
  BY <1>1, <1>2, <1>3, Zenon DEF Activation

\* Activations stay sound while code is disabled or compiled.
LEMMA FramesKept ==
    ASSUME NEW cs, CodesOK(cs), NEW fs, FramesOK(cs, fs), NEW ds, Len(ds) \in Nat,
           Len(cs) <= Len(ds), \A c \in 1 .. Len(cs) : SameCode(ds[c], cs[c])
    PROVE  FramesOK(ds, fs)
<1>1. /\ Len(cs) \in Nat /\ Len(fs) \in Nat
      /\ \A i \in 1 .. Len(fs) : fs[i].code \in 1 .. Len(cs)
      /\ fs \in Seq(Activation(Len(cs)))
  BY CodesFacts, FramesFacts, Zenon
<1>2. fs \in Seq(Activation(Len(ds)))
  <2> DEFINE n == Len(cs)
             m == Len(ds)
  <2> HIDE DEF n, m
  <2>1. n \in Nat /\ m \in Nat /\ n <= m /\ fs \in Seq(Activation(n))
    BY <1>1 DEF n, m
  <2>2. fs \in Seq(Activation(m))
    BY <2>1, MoreCodes, Zenon
  <2>3. QED
    BY <2>2 DEF m
<1>3. ASSUME NEW i \in 2 .. Len(fs), fs[i].deoptContext # NoContext
      PROVE  Serves(ds[fs[i].code], ds[fs[i - 1].code].cls, fs[i].deoptContext)
  <2>1. i \in 1 .. Len(fs) /\ i - 1 \in 1 .. Len(fs)
    BY <1>1
  <2>2. /\ SameCode(ds[fs[i].code], cs[fs[i].code])
        /\ SameCode(ds[fs[i - 1].code], cs[fs[i - 1].code])
    BY <1>1, <2>1, Zenon
  <2>3. Serves(cs[fs[i].code], cs[fs[i - 1].code].cls, fs[i].deoptContext)
    BY <1>3, Zenon DEF FramesOK
  <2>4. Serves(cs[fs[i].code], ds[fs[i - 1].code].cls, fs[i].deoptContext)
    BY <2>2, <2>3, Zenon DEF SameCode
  <2>5. QED
    BY <2>2, <2>4, ServesSame, Zenon
<1>4. QED
  BY <1>2, <1>3, Zenon DEF FramesOK

LEMMA Pushed ==
    ASSUME NEW cs, CodesOK(cs), NEW fs, FramesOK(cs, fs), NEW f \in Activation(Len(cs)),
           f.deoptContext # NoContext =>
             fs # <<>> /\ Serves(cs[f.code], cs[Last(fs).code].cls, f.deoptContext)
    PROVE  FramesOK(cs, Append(fs, f))
<1> DEFINE r == Append(fs, f)
           n == Len(fs)
<1>1. fs \in Seq(Activation(Len(cs))) /\ n \in Nat
  BY FramesFacts
<1>2. /\ r \in Seq(Activation(Len(cs))) /\ Len(r) = n + 1
      /\ \A i \in 1 .. n : r[i] = fs[i]
      /\ r[n + 1] = f /\ r # <<>>
  BY <1>1
<1> HIDE DEF r
<1>3. r[1].deoptContext = NoContext
  <2>1. CASE fs = <<>>
    BY <1>2, <2>1
  <2>2. CASE fs # <<>>
    <3>1. 1 \in 1 .. n
      BY <1>1, <2>2
    <3>2. QED
      BY <1>2, <2>2, <3>1, Zenon DEF FramesOK
  <2>3. QED
    BY <2>1, <2>2
<1>4. ASSUME NEW i \in 2 .. Len(r), r[i].deoptContext # NoContext
      PROVE  Serves(cs[r[i].code], cs[r[i - 1].code].cls, r[i].deoptContext)
  <2>1. CASE i = n + 1
    <3>1. r[i] = f /\ fs # <<>>
      BY <1>2, <1>4, <2>1, Zenon
    <3>2. i - 1 = n /\ n \in 1 .. n
      BY <1>1, <1>4, <2>1
    <3>3. r[i - 1] = Last(fs)
      BY <1>2, <3>1, <3>2, FramesFacts
    <3>4. QED
      BY <1>4, <3>1, <3>3, Zenon
  <2>2. CASE i # n + 1
    <3>1. i \in 2 .. n /\ i \in 1 .. n /\ i - 1 \in 1 .. n
      BY <1>1, <1>2, <1>4, <2>2
    <3>2. r[i] = fs[i] /\ r[i - 1] = fs[i - 1]
      BY <1>2, <3>1
    <3>3. QED
      BY <1>4, <3>1, <3>2, Zenon DEF FramesOK
  <2>3. QED
    BY <2>1, <2>2
<1>5. FramesOK(cs, r)
  BY <1>2, <1>3, <1>4, Zenon DEF FramesOK
<1>6. QED
  BY <1>5 DEF r

\* What is left of the activations after some returned, or went on in the interpreter.
LEMMA Shrunk ==
    ASSUME NEW cs, CodesOK(cs), NEW fs, FramesOK(cs, fs), NEW r \in Seq(Activation(Len(cs))),
           Len(r) <= Len(fs),
           \A i \in 1 .. Len(r) : /\ r[i].code = fs[i].code
                                  /\ r[i].deoptContext = fs[i].deoptContext
    PROVE  FramesOK(cs, r)
<1>1. Len(r) \in Nat /\ Len(fs) \in Nat
  BY FramesFacts
<1>2. r # <<>> => r[1].deoptContext = NoContext
  <2> SUFFICES ASSUME r # <<>>
               PROVE  r[1].deoptContext = NoContext
    OBVIOUS
  <2>1. 1 \in 1 .. Len(r) /\ fs # <<>>
    BY <1>1
  <2>2. QED
    BY <2>1, Zenon DEF FramesOK
<1>3. ASSUME NEW i \in 2 .. Len(r), r[i].deoptContext # NoContext
      PROVE  Serves(cs[r[i].code], cs[r[i - 1].code].cls, r[i].deoptContext)
  <2>1. i \in 2 .. Len(fs) /\ i \in 1 .. Len(r) /\ i - 1 \in 1 .. Len(r)
    BY <1>1, <1>3
  <2>2. /\ r[i].code = fs[i].code /\ r[i - 1].code = fs[i - 1].code
        /\ r[i].deoptContext = fs[i].deoptContext
    BY <2>1
  <2>3. QED
    BY <1>3, <2>1, <2>2, Zenon DEF FramesOK
<1>4. QED
  BY <1>2, <1>3, Zenon DEF FramesOK

\* An activation that returns ends itself and every continuation below it, down
\* to the call.
LEMMA ReturnedSome ==
    ASSUME NEW n, n = Len(frames), frames # <<>>, n \in Nat \ {0},
           frames[1].deoptContext = NoContext
    PROVE  Returned \in 1 .. n
<1> DEFINE P(i) == /\ ~isContinuation(frames[n - i])
                   /\ \A j \in 0 .. i - 1 : isContinuation(frames[n - j])
           I == { i \in 0 .. n - 1 : ~isContinuation(frames[n - i]) }
<1>1. n - 1 \in I
  <2>1. n - 1 \in 0 .. n - 1 /\ n - (n - 1) = 1
    OBVIOUS
  <2>2. ~isContinuation(frames[n - (n - 1)])
    BY <2>1 DEF isContinuation
  <2>3. QED
    BY <2>1, <2>2
<1>2. I \in SUBSET (0 .. n) /\ n \in Nat /\ I # {}
  <2>1. 0 .. n - 1 \subseteq 0 .. n
    OBVIOUS
  <2>2. I \subseteq 0 .. n - 1
    BY Zenon
  <2> HIDE DEF I
  <2>3. QED
    BY <1>1, <2>1, <2>2
<1>3. Min(I) \in I /\ \A y \in I : Min(I) <= y
  <2> HIDE DEF I
  <2> QED BY <1>2, ExtremeIndices
<1>4. PICK a \in I : \A y \in I : a <= y
  BY <1>3, Zenon
<1>5. a \in 0 .. n /\ P(a)
  <2>1. a \in 0 .. n - 1 /\ ~isContinuation(frames[n - a])
    OBVIOUS
  <2>2. ASSUME NEW j \in 0 .. a - 1
        PROVE  isContinuation(frames[n - j])
    <3>1. j \in 0 .. n - 1 /\ ~(a <= j)
      BY <2>1
    <3>2. j \notin I
      <4> HIDE DEF I
      <4> QED BY <1>4, <3>1
    <3>3. QED
      BY <3>1, <3>2
  <2>3. QED
    BY <2>1, <2>2
<1> DEFINE b == CHOOSE i \in 0 .. n : P(i)
<1>6. b \in 0 .. n /\ P(b)
  <2> HIDE DEF P
  <2> QED BY <1>5, Zenon
<1>7. Returned = 1 + b
  BY Zenon DEF Returned
<1> HIDE DEF b
<1>8. b # n
  <2> SUFFICES ASSUME b = n
               PROVE  FALSE
    OBVIOUS
  <2>1. n - 1 \in 0 .. b - 1 /\ n - (n - 1) = 1
    OBVIOUS
  <2>2. isContinuation(frames[n - (n - 1)])
    BY <1>6, <2>1, Zenon
  <2>3. QED
    BY <2>1, <2>2 DEF isContinuation
<1>9. b \in 0 .. n
  BY <1>6
<1> HIDE DEF P
<1>10. QED
  BY <1>7, <1>8, <1>9

-----------------------------------------------------------------------------
(* The steps. *)

LEMMA DInvInit == Init => DInv
<1> SUFFICES ASSUME Init
             PROVE  DInv
  OBVIOUS
<1>1. /\ codes = [c \in 1 .. Closures |-> NewCode(c, NoContext)]
      /\ frames = <<>> /\ deoptlessRecursion = 0 /\ Closures \in Nat
  BY DeoptlessAssumption DEF Init
<1>2. \A c \in 1 .. Closures : NewCode(c, NoContext) \in Code(Closures)
  <2>1. <<>> \in Seq(Entry(Closures))
    OBVIOUS
  <2>2. QED
    BY <2>1, Zenon DEF NewCode, Code
<1>3. Len(codes) = Closures /\ codes \in Seq(Code(Closures))
  BY <1>1, <1>2
<1>4. \A c \in 1 .. Closures : codes[c].table = <<>>
  BY <1>1 DEF NewCode
<1>5. CodesOK(codes)
  BY <1>1, <1>3, <1>4 DEF CodesOK
<1>6. FramesOK(codes, frames)
  BY <1>1 DEF FramesOK
<1>7. QED
  BY <1>1, <1>5, <1>6 DEF DInv

\* The activation that runs, and its code.
LEMMA Running ==
    ASSUME DInv, frames # <<>>
    PROVE  /\ Len(frames) \in Nat \ {0} /\ Top = frames[Len(frames)]
           /\ Top \in Activation(Len(codes)) /\ Top.code \in 1 .. Len(codes)
           /\ codes[Top.code].cls \in 1 .. Closures
           /\ codes[Top.code].table \in Seq(Entry(Len(codes)))
<1>1. CodesOK(codes) /\ FramesOK(codes, frames)
  BY DEF DInv
<1>2. /\ Len(frames) \in Nat /\ Len(frames) \in 1 .. Len(frames)
      /\ Top = frames[Len(frames)]
      /\ frames[Len(frames)] \in Activation(Len(codes))
      /\ frames[Len(frames)].code \in 1 .. Len(codes)
  BY <1>1, FramesFacts DEF Top
<1>3. /\ codes[Top.code].cls \in 1 .. Closures
      /\ codes[Top.code].table \in Seq(Entry(Len(codes)))
  BY <1>1, <1>2, CodesFacts, Zenon
<1>4. QED
  BY <1>2, <1>3

LEMMA NewFrame ==
    ASSUME NEW n, NEW c \in 1 .. n, NEW k \in Keys \cup {NoContext}
    PROVE  /\ Frame(c, k) \in Activation(n)
           /\ Frame(c, k).code = c /\ Frame(c, k).deoptContext = k
<1>1. Frame(c, k) \in Activation(n)
  BY Zenon DEF Frame, Activation
<1>2. Frame(c, k).code = c /\ Frame(c, k).deoptContext = k
  BY DEF Frame
<1>3. QED
  BY <1>1, <1>2

LEMMA CallInv ==
    ASSUME DInv, NEW cls \in 1 .. Closures, Call(cls)
    PROVE  DInv' /\ frames' = Append(frames, Frame(cls, NoContext)) /\ codes' = codes
<1>1. CodesOK(codes) /\ FramesOK(codes, frames)
  BY DEF DInv
<1>2. cls \in 1 .. Len(codes)
  <2>1. Closures <= Len(codes) /\ Len(codes) \in Nat /\ Closures \in Nat
    BY <1>1, CodesFacts, DeoptlessAssumption DEF CodesOK
  <2>2. QED
    BY <2>1
<1> DEFINE f == Frame(cls, NoContext)
<1>3. f \in Activation(Len(codes)) /\ f.deoptContext = NoContext
  BY <1>2, NewFrame, Zenon
<1>4. frames' = Append(frames, f) /\ codes' = codes /\ deoptlessRecursion' = deoptlessRecursion
  BY DEF Call
<1> HIDE DEF f
<1>5. FramesOK(codes, Append(frames, f))
  BY <1>1, <1>3, Pushed
<1>6. QED
  BY <1>1, <1>4, <1>5 DEF DInv, f

\* What a table maps the context of a deopt to may run in that context.
LEMMA ReusedServes ==
    ASSUME DInv, frames # <<>>, NEW k \in Keys, reuses(codes[Top.code].table, k)
    PROVE  LET e == codes[Top.code].table[dispatch(codes[Top.code].table, k)]
           IN  /\ e.code \in 1 .. Len(codes) /\ ~codes[e.code].disabled
               /\ Serves(codes[e.code], codes[Top.code].cls, k)
<1> DEFINE x == Top.code
           t == codes[x].table
           i == dispatch(t, k)
           e == t[i]
<1>1. CodesOK(codes)
  BY DEF DInv
<1>2. x \in 1 .. Len(codes) /\ t \in Seq(Entry(Len(codes)))
  BY Running
<1>3. i # 0
  BY Zenon DEF reuses
<1>4. i \in 0 .. Len(t) /\ smaller(k, t[i].key) /\ ~codes[t[i].code].disabled
  <2> HIDE DEF x
  <2> QED BY <1>2, <1>3, Dispatched
<1> HIDE DEF i, x
<1>5. i \in 1 .. Len(t)
  <2> HIDE DEF t
  <2> QED BY <1>3, <1>4
<1>6. /\ e.key \in Keys /\ e.code \in 1 .. Len(codes)
      /\ Serves(codes[e.code], codes[x].cls, e.key)
  BY <1>1, <1>2, <1>5, CodesFacts, Zenon
<1>7. Serves(codes[e.code], codes[x].cls, k)
  <2> HIDE DEF e, t
  <2>1. smaller(k, e.key)
    BY <1>4 DEF e
  <2>2. assumes(k, e.key)
    BY <1>6, <2>1, AssumesOrder, Zenon
  <2>3. assumes(e.key, codes[e.code].compiledFor) /\ codes[e.code].compiledFor \in Keys
    BY <1>6, Zenon DEF Serves
  <2>4. assumes(k, codes[e.code].compiledFor)
    BY <1>6, <2>2, <2>3, AssumesOrder
  <2>5. QED
    BY <1>6, <2>3, <2>4, Zenon DEF Serves
<1>8. QED
  BY <1>4, <1>6, <1>7, Zenon DEF x, i

LEMMA DeoptReuseInv ==
    ASSUME DInv, NEW k \in Keys, DeoptReuse(k)
    PROVE  /\ DInv' /\ codes' = codes
           /\ \E c \in 1 .. Len(codes) : /\ frames' = Append(frames, Frame(c, k))
                                         /\ ~codes[c].disabled
<1>1. CodesOK(codes) /\ FramesOK(codes, frames) /\ frames # <<>>
  BY DEF DInv, DeoptReuse
<1> DEFINE t == codes[Top.code].table
           c == t[dispatch(t, k)].code
<1>2. /\ c \in 1 .. Len(codes) /\ ~codes[c].disabled
      /\ Serves(codes[c], codes[Top.code].cls, k)
  BY <1>1, ReusedServes, Zenon DEF DeoptReuse
<1>3. /\ frames' = Append(frames, Frame(c, k)) /\ codes' = codes
      /\ deoptlessRecursion' = codes[Top.code].cls
  BY Zenon DEF DeoptReuse, Continue
<1> HIDE DEF c
<1> DEFINE f == Frame(c, k)
<1>4. f \in Activation(Len(codes)) /\ f.deoptContext = k /\ f.code = c
  BY <1>2, NewFrame
<1> HIDE DEF f
<1>5. FramesOK(codes, Append(frames, f))
  BY <1>1, <1>2, <1>4, Pushed DEF Top
<1>6. codes[Top.code].cls \in 0 .. Closures
  BY <1>1, Running, DeoptlessAssumption
<1>7. DInv'
  BY <1>1, <1>3, <1>5, <1>6 DEF DInv, f
<1>8. QED
  BY <1>2, <1>3, <1>7, Zenon

\* Every key of table t is one of u.
KeysKept(t, u) == \A i \in 1 .. Len(t) : \E j \in 1 .. Len(u) : u[j].key = t[i].key

LEMMA DeoptCompileInv ==
    ASSUME DInv, NEW k \in Keys, DeoptCompile(k)
    PROVE  /\ DInv'
           /\ \E c \in 1 .. Len(codes') : /\ frames' = Append(frames, Frame(c, k))
                                          /\ ~codes'[c].disabled
           /\ Len(codes) <= Len(codes')
           /\ \A c \in 1 .. Len(codes) : KeysKept(codes[c].table, codes'[c].table)
<1>1. CodesOK(codes) /\ FramesOK(codes, frames) /\ frames # <<>>
  BY DEF DInv, DeoptCompile
<1> DEFINE x == Top.code
           n == Len(codes)
           c == n + 1
<1>2. /\ x \in 1 .. n /\ n \in Nat /\ codes[x].cls \in 1 .. Closures
      /\ Len(codes[x].table) < CAPACITY
  BY <1>1, Running, CodesFacts DEF DeoptCompile
<1>3. PICK u \in insert(codes[x].table, k, c) : codes' = Compiled(codes, x, k, u)
  BY Zenon DEF DeoptCompile, Compile, Compiled
<1>4. frames' = Append(frames, Frame(c, k)) /\ deoptlessRecursion' = codes[x].cls
  BY Zenon DEF DeoptCompile, Compile, Continue
<1> HIDE DEF x
<1>5. CodesOK(codes')
  BY <1>1, <1>2, <1>3, CompiledOK
<1>6. /\ Len(codes') = c /\ codes'[c] = NewCode(codes[x].cls, k)
      /\ \A d \in 1 .. n : /\ SameCode(codes'[d], codes[d])
                           /\ codes'[d].table = IF d = x THEN u ELSE codes[d].table
      /\ Inserts(u, codes[x].table, k, c)
  BY <1>1, <1>2, <1>3, CompiledCodes
<1>7. n <= c /\ c \in Nat /\ c \in 1 .. c
  BY <1>2
<1> HIDE DEF c
<1>8. FramesOK(codes', frames)
  BY <1>1, <1>6, <1>7, FramesKept, Zenon
<1> DEFINE f == Frame(c, k)
<1>9. f \in Activation(Len(codes')) /\ f.deoptContext = k /\ f.code = c
  <2>1. f \in Activation(c) /\ f.deoptContext = k /\ f.code = c
    BY <1>7, NewFrame
  <2>2. QED
    BY <1>6, <2>1
<1>10. Serves(codes'[c], codes'[Last(frames).code].cls, k)
  <2>1. codes'[x].cls = codes[x].cls
    BY <1>2, <1>6, Zenon DEF SameCode
  <2>2. Serves(codes'[c], codes[x].cls, k)
    BY <1>6, NewServes, Zenon
  <2>3. QED
    BY <2>1, <2>2 DEF x, Top
<1> HIDE DEF f
<1>11. FramesOK(codes', Append(frames, f))
  <2> DEFINE ds == codes'
  <2>1. CodesOK(ds) /\ FramesOK(ds, frames) /\ f \in Activation(Len(ds))
    BY <1>5, <1>8, <1>9
  <2>2. Serves(ds[f.code], ds[Last(frames).code].cls, f.deoptContext)
    BY <1>9, <1>10
  <2> HIDE DEF ds
  <2>3. FramesOK(ds, Append(frames, f))
    BY <1>1, <2>1, <2>2, Pushed
  <2>4. QED
    BY <2>3 DEF ds
<1>12. deoptlessRecursion' \in 0 .. Closures
  BY <1>2, <1>4, DeoptlessAssumption
<1>13. DInv'
  BY <1>4, <1>5, <1>11, <1>12 DEF DInv, f
<1>14. ~codes'[c].disabled
  BY <1>6 DEF NewCode
<1>15. ASSUME NEW d \in 1 .. n
       PROVE  KeysKept(codes[d].table, codes'[d].table)
  <2>1. CASE d = x
    <3>1. codes'[d].table = u
      BY <1>6, <2>1, Zenon
    <3>2. QED
      BY <1>6, <2>1, <3>1, Zenon DEF Inserts, KeysKept
  <2>2. CASE d # x
    <3>1. codes'[d].table = codes[d].table
      BY <1>6, <2>2, Zenon
    <3>2. QED
      BY <3>1, Zenon DEF KeysKept
  <2>3. QED
    BY <2>1, <2>2
<1>16. QED
  BY <1>4, <1>6, <1>7, <1>13, <1>14, <1>15, Zenon

DisabledAt(cs, x) == [cs EXCEPT ![x].disabled = TRUE]

LEMMA DisabledOK ==
    ASSUME NEW cs, CodesOK(cs), NEW x \in 1 .. Len(cs), NEW ds, ds = DisabledAt(cs, x)
    PROVE  /\ CodesOK(ds) /\ Len(ds) = Len(cs)
           /\ \A c \in 1 .. Len(cs) : SameCode(ds[c], cs[c]) /\ ds[c].table = cs[c].table
<1> DEFINE f == [cs[x] EXCEPT !.disabled = TRUE]
           n == Len(cs)
<1>1. n \in Nat /\ cs \in Seq(Code(n)) /\ cs[x] \in Code(n) /\ DOMAIN cs = 1 .. n
  BY CodesFacts DEF CodesOK
<1>2. f = [cs[x] EXCEPT !.disabled = TRUE] /\ ds = [cs EXCEPT ![x] = f]
  BY Zenon DEF DisabledAt
<1> HIDE DEF f
<1>3. f \in Code(n) /\ SameCode(f, cs[x]) /\ f.table = cs[x].table
  BY <1>1, <1>2, Disabled
<1>4. /\ ds \in Seq(Code(n)) /\ Len(ds) = n
      /\ \A c \in 1 .. n : ds[c] = IF c = x THEN f ELSE cs[c]
  BY <1>1, <1>2, <1>3
<1>5. \A c \in 1 .. n : SameCode(ds[c], cs[c]) /\ ds[c].table = cs[c].table
  <2>1. \A c \in 1 .. n : SameCode(cs[c], cs[c])
    BY Zenon DEF SameCode
  <2>2. QED
    BY <1>3, <1>4, <2>1, Zenon
<1>6. ASSUME NEW c \in 1 .. n, NEW i \in 1 .. Len(ds[c].table)
      PROVE  Serves(ds[ds[c].table[i].code], ds[c].cls, ds[c].table[i].key)
  <2>1. ds[c].table = cs[c].table /\ ds[c].cls = cs[c].cls
    BY <1>5, <1>6, Zenon DEF SameCode
  <2>2. /\ cs[c].table[i].code \in 1 .. n
        /\ Serves(cs[cs[c].table[i].code], cs[c].cls, cs[c].table[i].key)
    BY <1>6, <2>1, CodesFacts, Zenon
  <2>3. SameCode(ds[cs[c].table[i].code], cs[cs[c].table[i].code])
    BY <1>5, <2>2, Zenon
  <2>4. QED
    BY <2>1, <2>2, <2>3, ServesSame, Zenon
<1>7. Closures <= n
  BY DEF CodesOK
<1>8. QED
  BY <1>4, <1>5, <1>6, <1>7, Zenon DEF CodesOK

LEMMA DeoptFullInv ==
    ASSUME DInv, DeoptFull
    PROVE  /\ DInv' /\ Len(frames') = Len(frames) /\ Len(codes') = Len(codes)
           /\ \A c \in 1 .. Len(codes) : codes'[c].table = codes[c].table
<1>1. CodesOK(codes) /\ FramesOK(codes, frames) /\ frames # <<>>
  BY DEF DInv, DeoptFull
<1> DEFINE n == Len(frames)
           f == [frames[n] EXCEPT !.native = FALSE]
<1>2. /\ codes' = [codes EXCEPT ![Top.code].disabled = TRUE]
      /\ frames' = [frames EXCEPT ![n] = f] /\ deoptlessRecursion' = deoptlessRecursion
  BY Zenon DEF DeoptFull
<1>3. Top.code \in 1 .. Len(codes) /\ n \in 1 .. n /\ frames[n] \in Activation(Len(codes))
  BY <1>1, Running, FramesFacts
<1>4. /\ CodesOK(codes') /\ Len(codes') = Len(codes)
      /\ \A c \in 1 .. Len(codes) : SameCode(codes'[c], codes[c]) /\ codes'[c].table = codes[c].table
  <2> DEFINE ds == codes'
             x == Top.code
  <2>1. x \in 1 .. Len(codes) /\ ds = DisabledAt(codes, x)
    BY <1>2, <1>3, Zenon DEF DisabledAt
  <2> HIDE DEF ds, x
  <2>2. /\ CodesOK(ds) /\ Len(ds) = Len(codes)
        /\ \A c \in 1 .. Len(codes) : SameCode(ds[c], codes[c]) /\ ds[c].table = codes[c].table
    BY <1>1, <2>1, DisabledOK
  <2>3. QED
    BY <2>2, Zenon DEF ds
<1>5. f \in Activation(Len(codes))
  BY <1>3, Zenon DEF Activation
<1>6. f.code = frames[n].code /\ f.deoptContext = frames[n].deoptContext
  BY <1>3 DEF Activation
<1> HIDE DEF f
<1>7. /\ frames' \in Seq(Activation(Len(codes))) /\ Len(frames') = n
      /\ \A i \in 1 .. n : frames'[i] = IF i = n THEN f ELSE frames[i]
  <2>1. frames \in Seq(Activation(Len(codes)))
    BY <1>1, FramesFacts
  <2>2. QED
    BY <1>2, <1>3, <1>5, <2>1
<1>8. \A i \in 1 .. n : /\ frames'[i].code = frames[i].code
                        /\ frames'[i].deoptContext = frames[i].deoptContext
  BY <1>6, <1>7, Zenon
<1>9. n \in Nat /\ Len(codes) \in Nat
  BY <1>1, FramesFacts, CodesFacts
<1>10. FramesOK(codes, frames')
  <2>1. Len(frames') <= n
    BY <1>7, <1>9
  <2>2. QED
    BY <1>1, <1>7, <1>8, <2>1, Shrunk
<1>11. FramesOK(codes', frames')
  <2>1. Len(codes') \in Nat /\ Len(codes) <= Len(codes')
    BY <1>4, <1>9
  <2>2. QED
    BY <1>1, <1>4, <1>10, <2>1, FramesKept
<1>12. QED
  BY <1>2, <1>4, <1>7, <1>11 DEF DInv

LEMMA ReturnInv ==
    ASSUME DInv, Return \/ Error
    PROVE  DInv' /\ Len(frames') <= Len(frames) /\ codes' = codes
<1>1. /\ CodesOK(codes) /\ FramesOK(codes, frames) /\ frames # <<>> /\ codes' = codes
      /\ deoptlessRecursion \in 0 .. Closures
  BY DEF DInv, Return, Error
<1>2. deoptlessRecursion' \in 0 .. Closures
  BY <1>1, DeoptlessAssumption DEF Return, Error
<1> DEFINE n == Len(frames)
<1>3. n \in Nat \ {0} /\ frames \in Seq(Activation(Len(codes)))
  BY <1>1, Running, FramesFacts
<1>4. PICK m \in 0 .. n : frames' = SubSeq(frames, 1, m)
  <2>1. CASE Return
    <3>1. frames[1].deoptContext = NoContext
      BY <1>1 DEF FramesOK
    <3>2. Returned \in 1 .. n
      BY <1>1, <1>3, <3>1, ReturnedSome
    <3>3. n - Returned \in 0 .. n
      BY <1>3, <3>2
    <3>4. QED
      BY <2>1, <3>3, Zenon DEF Return
  <2>2. CASE Error
    <3>1. frames' = <<>> /\ 0 \in 0 .. n
      BY <1>3, <2>2 DEF Error
    <3>2. SubSeq(frames, 1, 0) = <<>>
      BY <1>3
    <3>3. QED
      BY <3>1, <3>2, Zenon
  <2>3. QED
    BY <2>1, <2>2
<1>5. /\ frames' \in Seq(Activation(Len(codes))) /\ Len(frames') = m
      /\ \A i \in 1 .. m : frames'[i] = frames[i]
  BY <1>3, <1>4, SubSeqProperties
<1>6. Len(frames') <= Len(frames)
  BY <1>3, <1>5
<1>7. FramesOK(codes, frames')
  BY <1>1, <1>5, <1>6, Shrunk
<1>8. QED
  BY <1>1, <1>2, <1>6, <1>7 DEF DInv

LEMMA DInvStep == DInv /\ [Next]_vars => DInv'
<1> SUFFICES ASSUME DInv, [Next]_vars
             PROVE  DInv'
  OBVIOUS
<1>1. CASE UNCHANGED vars
  BY <1>1 DEF vars, DInv
<1>2. CASE Next
  BY <1>2, CallInv, DeoptReuseInv, DeoptCompileInv, DeoptFullInv, ReturnInv, Zenon DEF Next
<1>3. QED
  BY <1>1, <1>2

LEMMA DInvMeaning ==
    ASSUME DInv
    PROVE  TypeOK /\ ContinuationSound
<1>1. CodesOK(codes) /\ FramesOK(codes, frames) /\ deoptlessRecursion \in 0 .. Closures
  BY DEF DInv
<1>2. DOMAIN codes = 1 .. Len(codes) /\ codes \in Seq(Code(Len(codes)))
  BY <1>1, CodesFacts DEF CodesOK
<1>3. frames \in Seq(Activation(Len(codes)))
  BY <1>1, FramesFacts
<1>4. TypeOK
  BY <1>1, <1>2, <1>3, Zenon DEF TypeOK, Code, Entry, Activation
<1>5. ContinuationSound
  BY <1>1, Zenon DEF FramesOK, Serves, ContinuationSound, isContinuation
<1>6. QED
  BY <1>4, <1>5

-----------------------------------------------------------------------------
\* Tables hold continuations, and activations run code, that exist.
THEOREM TypeCorrect == Spec => []TypeOK
<1>1. DInv => TypeOK
  BY DInvMeaning
<1>2. QED
  BY <1>1, DInvInit, DInvStep, PTL DEF Spec

\* Deoptimizing code only ever goes on in a continuation of its closure that
\* assumes no more than the context of the deopt provides, for tables of any
\* capacity and contexts of any shape, although DeoptContext::operator== leaves
\* out the call target and insert never looks at the first entry.
THEOREM ContinuationSoundAlways == Spec => []ContinuationSound
<1>1. DInv => ContinuationSound
  BY DInvMeaning
<1>2. QED
  BY <1>1, DInvInit, DInvStep, PTL DEF Spec

LEMMA PushedLast ==
    ASSUME DInv, NEW f, frames' = Append(frames, f)
    PROVE  Last(frames') = f
<1>1. frames \in Seq(Activation(Len(codes)))
  BY DEF DInv, FramesOK
<1>2. Len(Append(frames, f)) = Len(frames) + 1 /\ Append(frames, f)[Len(frames) + 1] = f
  BY <1>1
<1>3. QED
  BY <1>2 DEF Last

\* deoptlessDispatch never runs a continuation that was disabled before.
THEOREM NeverContinuesDisabledHolds == Spec => NeverContinuesDisabled
<1>1. ASSUME DInv, Next, Len(frames') > Len(frames), isContinuation(Last(frames'))
      PROVE  ~codes'[Last(frames').code].disabled
  <2>1. Len(frames) \in Nat
    BY <1>1 DEF DInv, FramesOK
  <2>2. ASSUME NEW cls \in 1 .. Closures, Call(cls)
        PROVE  FALSE
    <3>1. Last(frames') = Frame(cls, NoContext)
      BY <1>1, <2>2, CallInv, PushedLast, Zenon
    <3>2. QED
      BY <1>1, <3>1 DEF Frame, isContinuation
  <2>3. ASSUME NEW k \in Keys, DeoptReuse(k) \/ DeoptCompile(k)
        PROVE  ~codes'[Last(frames').code].disabled
    <3>1. PICK c : frames' = Append(frames, Frame(c, k)) /\ ~codes'[c].disabled
      BY <1>1, <2>3, DeoptReuseInv, DeoptCompileInv, Zenon
    <3>2. Last(frames') = Frame(c, k)
      BY <1>1, <3>1, PushedLast, Zenon
    <3>3. Last(frames').code = c
      BY <3>2 DEF Frame
    <3>4. QED
      BY <3>1, <3>3, Zenon
  <2>4. ASSUME DeoptFull \/ Return \/ Error
        PROVE  FALSE
    <3>1. Len(frames') = Len(frames) \/ Len(frames') <= Len(frames)
      BY <1>1, <2>4, DeoptFullInv, ReturnInv, Zenon
    <3>2. QED
      BY <1>1, <2>1, <3>1 DEF DInv, FramesOK
  <2>5. QED
    BY <1>1, <2>2, <2>3, <2>4, Zenon DEF Next
<1>2. DInv /\ [Next]_vars =>
        [Len(frames') > Len(frames) /\ isContinuation(Last(frames')) =>
           ~codes'[Last(frames').code].disabled]_vars
  BY <1>1
<1>3. QED
  BY <1>2, DInvInit, DInvStep, PTL DEF Spec, NeverContinuesDisabled

\* The capacity check of deoptlessDispatch keeps insert from ever evicting: the
\* key of a continuation stays in its table.
THEOREM NeverEvictsHolds == Spec => NeverEvicts
<1> DEFINE Kept == \A c \in DOMAIN codes :
                     {e.key : e \in Range(codes[c].table)} \subseteq
                         {e.key : e \in Range(codes'[c].table)}
<1>1. ASSUME DInv, Next
      PROVE  /\ CodesOK(codes')
             /\ Len(codes) <= Len(codes')
             /\ \A c \in 1 .. Len(codes) : KeysKept(codes[c].table, codes'[c].table)
  <2>1. \A c \in 1 .. Len(codes) : KeysKept(codes[c].table, codes[c].table)
    BY Zenon DEF KeysKept
  <2>2. Len(codes) <= Len(codes)
    BY <1>1 DEF DInv, CodesOK
  <2>3. CodesOK(codes)'
    BY <1>1, DInvStep DEF DInv
  <2>4. QED
    BY <1>1, <2>1, <2>2, <2>3, CallInv, DeoptReuseInv, DeoptCompileInv, DeoptFullInv,
       ReturnInv, Zenon DEF Next
<1>2. ASSUME DInv, Next
      PROVE  Kept
  <2> SUFFICES ASSUME NEW c \in DOMAIN codes, NEW e \in Range(codes[c].table)
               PROVE  e.key \in {d.key : d \in Range(codes'[c].table)}
    BY Zenon
  <2>1. c \in 1 .. Len(codes) /\ c \in 1 .. Len(codes')
    <3>1. DOMAIN codes = 1 .. Len(codes) /\ Len(codes) \in Nat /\ Len(codes') \in Nat
      BY <1>1, <1>2, CodesFacts DEF DInv
    <3>2. QED
      BY <1>1, <1>2, <3>1
  <2>2. codes[c].table \in Seq(Entry(Len(codes)))
    BY <1>2, <2>1, CodesFacts DEF DInv
  <2>3. codes'[c].table \in Seq(Entry(Len(codes')))
    BY <1>1, <1>2, <2>1, CodesFacts
  <2>4. /\ DOMAIN codes[c].table = 1 .. Len(codes[c].table)
        /\ DOMAIN codes'[c].table = 1 .. Len(codes'[c].table)
    BY <2>2, <2>3
  <2>5. PICK i \in 1 .. Len(codes[c].table) : e = codes[c].table[i]
    BY <2>4, Zenon DEF Range
  <2>6. PICK j \in 1 .. Len(codes'[c].table) : codes'[c].table[j].key = e.key
    BY <1>1, <1>2, <2>1, <2>5, Zenon DEF KeysKept
  <2>7. codes'[c].table[j] \in Range(codes'[c].table)
    BY <2>4, Zenon DEF Range
  <2>8. QED
    BY <2>6, <2>7, Zenon
<1>3. DInv /\ [Next]_vars => [Kept]_vars
  BY <1>2
<1>4. QED
  BY <1>3, DInvInit, DInvStep, PTL DEF Spec, NeverEvicts

=============================================================================
