------------------------ MODULE DispatchTableProofs ------------------------
(***************************************************************************)
(* The dispatch table stays strictly sorted under every operation, so that  *)
(* dispatch is exact and picks the most specialized version.                *)
(***************************************************************************)
EXTENDS DispatchTable, VersionsProofs

\* The provers of a leaf that names none, in the order they are tried.
USE SMTT(10), ZenonT(20), SMTT(90)

-----------------------------------------------------------------------------
(* What the operations on a table keep. *)

LEMMA RemoveEntries ==
    ASSUME NEW udc, NEW t \in Seq(VersionsFor(udc)), SortedTable(t),
           NEW pos \in 1 .. Len(t)
    PROVE  \A j \in DOMAIN RemoveAt(t, pos) :
              \E k \in 1 .. Len(t) : RemoveAt(t, pos)[j] = t[k]
<1> DEFINE r == RemoveAt(t, pos)
<1>1. /\ r \in Seq(VersionsFor(udc))
      /\ Len(r) = Len(t) - 1
      /\ \A i \in 1 .. Len(t) - 1 : \E k \in 1 .. Len(t) : r[i] = t[k]
  BY RemoveSorted
<1> HIDE DEF r
<1>2. DOMAIN r = 1 .. Len(t) - 1
  BY <1>1, LenProperties
<1>3. QED
  BY <1>1, <1>2 DEF r

\* How many entries newWithUserContext has copied after the first i.
LEMMA KeptUpTo ==
    ASSUME NEW t, NEW udc, NEW n \in Nat
    PROVE  /\ \A i \in 0 .. n : Cardinality(keptUpTo(t, udc, i)) \in Nat
           /\ Cardinality(keptUpTo(t, udc, 0)) = 0
           /\ \A i \in 1 .. n : i \notin keptUpTo(t, udc, n) =>
                 Cardinality(keptUpTo(t, udc, i)) =
                    Cardinality(keptUpTo(t, udc, i - 1))
           /\ \A i \in 1 .. n : i \in keptUpTo(t, udc, n) =>
                 Cardinality(keptUpTo(t, udc, i)) =
                    Cardinality(keptUpTo(t, udc, i - 1)) + 1
           /\ \A i, k \in 0 .. n : i <= k =>
                 Cardinality(keptUpTo(t, udc, i)) <=
                    Cardinality(keptUpTo(t, udc, k))
           /\ Cardinality(keptUpTo(t, udc, n)) <= n
<1> DEFINE K(i) == keptUpTo(t, udc, i)
<1>1. \A i \in 0 .. n : K(i) \subseteq 1 .. i /\ IsFiniteSet(K(i))
  <2> SUFFICES ASSUME NEW i \in 0 .. n
               PROVE  K(i) \subseteq 1 .. i /\ IsFiniteSet(K(i))
    OBVIOUS
  <2>1. K(i) \subseteq 1 .. i
    BY DEF keptUpTo
  <2>2. IsFiniteSet(1 .. i)
    BY FS_Interval
  <2>3. QED
    BY <2>1, <2>2, FS_Subset
<1>2. \A i \in 0 .. n : Cardinality(K(i)) \in Nat
  BY <1>1, FS_CardinalityType
<1>3. Cardinality(K(0)) = 0
  <2>1. K(0) = {}
    BY DEF keptUpTo
  <2>2. QED
    BY <2>1, FS_EmptySet
<1>4. ASSUME NEW i \in 1 .. n, i \notin K(n)
      PROVE  Cardinality(K(i)) = Cardinality(K(i - 1))
  <2>1. K(i) = K(i - 1)
    BY <1>4 DEF keptUpTo
  <2>2. QED
    BY <2>1
<1>5. ASSUME NEW i \in 1 .. n, i \in K(n)
      PROVE  Cardinality(K(i)) = Cardinality(K(i - 1)) + 1
  <2>1. K(i) = K(i - 1) \cup {i} /\ i \notin K(i - 1)
    BY <1>5 DEF keptUpTo
  <2>2. IsFiniteSet(K(i - 1))
    BY <1>1
  <2> HIDE DEF K
  <2>3. QED
    BY <2>1, <2>2, FS_AddElement
<1>6. ASSUME NEW i \in 0 .. n, NEW k \in 0 .. n, i <= k
      PROVE  Cardinality(K(i)) <= Cardinality(K(k))
  <2>1. K(i) \subseteq K(k)
    BY <1>6 DEF keptUpTo
  <2>2. QED
    BY <1>1, <2>1, FS_Subset
<1>7. Cardinality(K(n)) <= n
  <2>1. K(n) \subseteq 1 .. n
    BY <1>1
  <2>2. IsFiniteSet(1 .. n) /\ Cardinality(1 .. n) = n
    BY FS_Interval
  <2>3. Cardinality(K(n)) <= Cardinality(1 .. n)
    BY <2>1, <2>2, FS_Subset
  <2>4. QED
    BY <2>2, <2>3
<1>8. QED
  BY <1>2, <1>3, <1>4, <1>5, <1>6, <1>7

\* Each of the positions 1 .. Cardinality(K(n)) of the copy receives an entry.
LEMMA CopiedEntry ==
    ASSUME NEW t, NEW udc, NEW n \in Nat,
           NEW j \in 1 .. Cardinality(keptUpTo(t, udc, n))
    PROVE  \E i \in keptUpTo(t, udc, n) :
              Cardinality(keptUpTo(t, udc, i)) = j
<1> DEFINE C(i) == Cardinality(keptUpTo(t, udc, i))
           T == { i \in 0 .. n : C(i) >= j }
<1>1. T \subseteq Nat /\ n \in T
  BY KeptUpTo
<1>2. PICK x \in T : \A y \in T : x <= y
  BY <1>1, LeastNatural, Zenon
<1>3. x \in 1 .. n /\ C(x) >= j
  BY <1>2, KeptUpTo
<1>4. C(x - 1) < j /\ C(x - 1) \in Nat /\ C(x) \in Nat
  <2>1. x - 1 \in 0 .. n /\ x - 1 \notin T
    BY <1>2, <1>3
  <2>2. C(x - 1) \in Nat /\ C(x) \in Nat /\ C(n) \in Nat
    BY <1>3, <2>1, KeptUpTo
  <2> HIDE DEF C
  <2>3. QED
    BY <2>1, <2>2
<1>5. x \in keptUpTo(t, udc, n) => C(x) = C(x - 1) + 1
  BY <1>3, KeptUpTo
<1>6. x \notin keptUpTo(t, udc, n) => C(x) = C(x - 1)
  BY <1>3, KeptUpTo
<1> HIDE DEF C
<1>7. x \in keptUpTo(t, udc, n) /\ C(x) = j
  BY <1>3, <1>4, <1>5, <1>6
<1>8. QED
  BY <1>7 DEF C

\* The table rirSetUserContext installs is sorted and within the new context.
LEMMA WithUserContextSorted ==
    ASSUME NEW udc, NEW t \in Seq(VersionsFor(udc)), SortedTable(t), NEW new
    PROVE  /\ withUserContext(t, new) \in Seq(VersionsFor(new))
           /\ Len(withUserContext(t, new)) <= Len(t)
           /\ SortedTable(withUserContext(t, new))
           /\ \A j \in 1 .. Len(withUserContext(t, new)) :
                 \E k \in 1 .. Len(t) : withUserContext(t, new)[j] = t[k]
<1> DEFINE n == Len(t)
           C(i) == Cardinality(keptUpTo(t, new, i))
           e(j) == CHOOSE i \in keptUpTo(t, new, n) : C(i) = j
           r == withUserContext(t, new)
<1>1. n \in Nat
  BY TableEntries
<1>2. C(n) \in Nat /\ C(n) <= n
  BY <1>1, KeptUpTo
<1>3. \A j \in 1 .. C(n) : e(j) \in keptUpTo(t, new, n) /\ C(e(j)) = j
  BY <1>1, CopiedEntry
<1>4. keptUpTo(t, new, n) = { k \in 1 .. n : smaller(t[k].context, new) }
  BY DEF keptUpTo
<1>5. r = [j \in 1 .. C(n) |-> t[e(j)]]
  BY DEF withUserContext
<1>6. \A i, k \in 0 .. n : i <= k => C(i) <= C(k)
  BY <1>1, KeptUpTo
<1> HIDE DEF n, C, e, r
<1>7. \A j \in 1 .. C(n) : /\ e(j) \in 1 .. n /\ C(e(j)) = j
                           /\ smaller(t[e(j)].context, new)
  BY <1>3, <1>4
<1>8. \A j \in 1 .. C(n) : t[e(j)] \in VersionsFor(new)
  <2> SUFFICES ASSUME NEW j \in 1 .. C(n)
               PROVE  t[e(j)] \in VersionsFor(new)
    OBVIOUS
  <2>1. t[e(j)] \in VersionsFor(udc)
    BY <1>7, TableEntries DEF n
  <2>2. QED
    BY <1>7, <2>1 DEF VersionsFor
<1>9. r \in Seq(VersionsFor(new)) /\ Len(r) = C(n) /\ DOMAIN r = 1 .. C(n)
  <2> DEFINE V == VersionsFor(new)
  <2>1. r \in [1 .. C(n) -> V]
    BY <1>5, <1>8
  <2> HIDE DEF V
  <2>2. r \in Seq(V)
    BY <1>2, <2>1, SeqDef
  <2>3. QED
    BY <1>2, <2>1, <2>2, LenProperties DEF V
<1>10. \A i, j \in 1 .. C(n) : i < j => e(i) < e(j)
  <2> SUFFICES ASSUME NEW i \in 1 .. C(n), NEW j \in 1 .. C(n), i < j
               PROVE  e(i) < e(j)
    OBVIOUS
  <2>1. /\ e(i) \in 0 .. n /\ e(j) \in 0 .. n
        /\ C(e(i)) = i /\ C(e(j)) = j
    BY <1>1, <1>7
  <2>2. e(j) <= e(i) => j <= i
    BY <1>6, <2>1
  <2>3. QED
    BY <1>1, <1>2, <2>1, <2>2
<1>11. SortedTable(r)
  <2> SUFFICES ASSUME NEW i \in 1 .. C(n), NEW j \in 1 .. C(n), i < j
               PROVE  Less(r[i].context, r[j].context)
    BY <1>9 DEF SortedTable
  <2>1. /\ r[i] = t[e(i)] /\ r[j] = t[e(j)] /\ e(i) < e(j)
        /\ e(i) \in 1 .. n /\ e(j) \in 1 .. n
    BY <1>5, <1>7, <1>10
  <2>2. QED
    BY <2>1, TableEntries DEF SortedTable, n
<1>12. \A j \in 1 .. Len(r) : \E k \in 1 .. n : r[j] = t[k]
  BY <1>5, <1>7, <1>9, Zenon
<1>13. QED
  BY <1>2, <1>9, <1>11, <1>12 DEF n, r

LEMMA WithUserContextEntries ==
    ASSUME NEW udc, NEW t \in Seq(VersionsFor(udc)), SortedTable(t), NEW new
    PROVE  \A j \in DOMAIN withUserContext(t, new) :
              \E k \in 1 .. Len(t) : withUserContext(t, new)[j] = t[k]
<1> DEFINE r == withUserContext(t, new)
<1>1. /\ r \in Seq(VersionsFor(new))
      /\ \A j \in 1 .. Len(r) : \E k \in 1 .. Len(t) : r[j] = t[k]
  BY WithUserContextSorted
<1> HIDE DEF r
<1>2. DOMAIN r = 1 .. Len(r)
  BY <1>1, LenProperties
<1>3. QED
  BY <1>1, <1>2 DEF r

\* The version pirCompile inserts is within the user defined context.
LEMMA NewVersionWithin ==
    ASSUME NEW udc \in Context, NEW given \in Context, Joinable(udc, given),
           Includes(Join(udc, given), minimalContext)
    PROVE  NewVersion(Join(udc, given)) \in VersionsFor(udc)
<1> DEFINE c == Join(udc, given)
<1>1. c \in Context
  BY DEF Join, Context, MAX_MISSING
<1>2. smaller(c, udc)
  <2>1. /\ c.flags = udc.flags \cup given.flags
        /\ c.typeFlags = udc.typeFlags \cup given.typeFlags
        /\ c.missing = IF given.missing > udc.missing
                       THEN given.missing ELSE udc.missing
    BY DEF Join
  <2>2. given.missing \in Int /\ udc.missing \in Int
    BY DEF Context, MAX_MISSING
  <2> HIDE DEF c
  <2>3. QED
    BY <2>1, <2>2 DEF Joinable, smaller
<1>3. minimalContext \subseteq c.flags
  BY DEF Includes
<1> HIDE DEF c
<1>4. NewVersion(c) \in Version /\ NewVersion(c).context = c
  BY <1>1, UintAssumption DEF NewVersion, Version
<1>5. QED
  BY <1>2, <1>3, <1>4 DEF VersionsFor, c

\* An entry whose flags or counters change stays the version it was.
LEMMA VersionUpdates ==
    ASSUME NEW f \in Version
    PROVE  /\ [f EXCEPT !.pendingCompilation = FALSE] \in Version
           /\ [f EXCEPT !.pendingCompilation = FALSE].context = f.context
           /\ [f EXCEPT !.pendingCompilation = FALSE].deoptCount = f.deoptCount
           /\ registerDeopt(f) \in Version
           /\ registerDeopt(f).context = f.context
           /\ registerDeopt(f).deoptCount >= f.deoptCount
<1>1. UINT_MAX \in Nat
  BY UintAssumption
<1>2. f.deoptCount \in 0 .. UINT_MAX
  BY DEF Version
<1> DEFINE d == IF f.deoptCount < UINT_MAX THEN f.deoptCount + 1
                                           ELSE f.deoptCount
<1>3. d \in 0 .. UINT_MAX /\ d >= f.deoptCount
  BY <1>1, <1>2
<1> HIDE DEF d
<1>4. registerDeopt(f) = [f EXCEPT !.flags = @ \cup {"Deopt"}, !.deoptCount = d]
  BY DEF registerDeopt, d
<1>5. QED
  BY <1>3, <1>4, Zenon DEF Version

LEMMA EmptyTable ==
    ASSUME NEW udc
    PROVE  /\ <<>> \in Seq(VersionsFor(udc)) /\ Len(<<>>) = 0
           /\ SortedTable(<<>>)
<1>1. <<>> \in Seq(VersionsFor(udc)) /\ Len(<<>>) = 0 /\ DOMAIN <<>> = {}
  BY EmptySeq, LenProperties
<1>2. QED
  BY <1>1 DEF SortedTable

\* The count of a version that insert replaces carries over to the new one.
LEMMA InsertCounts ==
    ASSUME NEW udc, NEW t \in Seq(VersionsFor(udc)), SortedTable(t),
           NEW c \in ProperContext, NewVersion(c) \in VersionsFor(udc),
           NEW r \in insert(t, NewVersion(c)),
           NEW i \in 1 .. Len(t), NEW j \in DOMAIN r,
           t[i].context = r[j].context
    PROVE  r[j].deoptCount >= t[i].deoptCount
<1> DEFINE f == NewVersion(c)
           p == scanStop(t, c)
<1>1. f.context = c /\ f.deoptCount = 0
  BY DEF NewVersion
<1>2. /\ Len(t) \in Nat /\ DOMAIN t = 1 .. Len(t)
      /\ \A k \in 1 .. Len(t) : /\ t[k] \in Version
                                /\ t[k].deoptCount \in 0 .. UINT_MAX
  BY TableEntries DEF VersionsFor, Version
<1>3. \A k \in 1 .. Len(t) : t[k].context = t[i].context => k = i
  BY SortedEntries
<1>4. CASE hasVersion(t, c)
  <2> DEFINE g == addDeoptCount(f, t[p].deoptCount)
  <2>1. p \in 1 .. Len(t) /\ t[p].context = c
    BY <1>4, TableEntries, ScanStop DEF hasVersion
  <2>2. r = [t EXCEPT ![p] = g]
    BY <1>1, <1>4 DEF insert, replaceVersion
  <2>3. g.deoptCount = t[p].deoptCount /\ g.context = c
    <3>1. (0 + t[p].deoptCount) % (UINT_MAX + 1) = t[p].deoptCount
      <4> DEFINE m == UINT_MAX + 1
                 x == t[p].deoptCount
      <4>1. m \in Nat /\ m > 0 /\ x \in 0 .. (m - 1)
        BY <1>2, <2>1, UintAssumption
      <4> HIDE DEF m, x
      <4>2. (0 + x) % m = x
        BY <4>1
      <4>3. QED
        BY <4>2 DEF m, x
    <3>2. QED
      BY <3>1 DEF addDeoptCount, NewVersion
  <2> HIDE DEF p, g, f
  <2>4. r = [t EXCEPT ![p] = g]
    BY <1>2, <2>2
  <2>5. j \in 1 .. Len(t) /\ r[j] = IF j = p THEN g ELSE t[j]
    BY <1>2, <2>1, <2>4
  <2>6. CASE j = p
    <3>1. p = i
      BY <1>3, <2>1, <2>3, <2>5, <2>6
    <3>2. QED
      BY <1>2, <2>3, <2>5, <2>6, <3>1
  <2>7. CASE j # p
    BY <1>2, <1>3, <2>5, <2>7
  <2>8. QED
    BY <2>6, <2>7
<1>5. CASE ~hasVersion(t, c)
  <2>1. \A k \in 1 .. Len(t) : t[k].context # c
    BY <1>5, HasVersion
  <2>2. ASSUME NEW k \in 1 .. Len(t), r[j] = t[k]
        PROVE  r[j].deoptCount >= t[i].deoptCount
    BY <1>2, <1>3, <2>2
  <2>3. r[j] # f
    BY <1>1, <2>1
  <2>4. CASE Len(t) + 1 = Capacity
    <3>1. PICK pos \in 1 .. Len(t) : r = addVersion(RemoveAt(t, pos), f)
      BY <1>1, <1>5, <2>4 DEF insert
    <3> DEFINE q == RemoveAt(t, pos)
    <3>2. /\ q \in Seq(VersionsFor(udc)) /\ Len(q) = Len(t) - 1 /\ SortedTable(q)
          /\ \A l \in 1 .. Len(t) - 1 : \E k \in 1 .. Len(t) : q[l] = t[k]
      BY RemoveSorted
    <3>3. r = addVersion(q, f) /\ f \in VersionsFor(udc) /\ f.context = c
      BY <1>1, <3>1
    <3> HIDE DEF q, f
    <3>4. ~hasVersion(q, c)
      <4>1. ~\E l \in 1 .. Len(q) : q[l].context = c
        BY <2>1, <3>2
      <4>2. QED
        BY <3>2, <4>1, HasVersion
    <3>5. /\ r \in Seq(VersionsFor(udc)) /\ Len(r) = Len(q) + 1
          /\ \A l \in 1 .. Len(q) + 1 :
                r[l] = f \/ \E k \in 1 .. Len(q) : r[l] = q[k]
      BY <3>2, <3>3, <3>4, AddVersionSorted
    <3>6. j \in 1 .. Len(q) + 1
      BY <3>5, LenProperties
    <3>7. PICK l \in 1 .. Len(q) : r[j] = q[l]
      BY <2>3, <3>5, <3>6
    <3>8. \E k \in 1 .. Len(t) : r[j] = t[k]
      BY <3>2, <3>7
    <3>9. QED
      BY <2>2, <3>8
  <2>5. CASE Len(t) + 1 # Capacity
    <3>1. r = addVersion(t, f) /\ f \in VersionsFor(udc) /\ f.context = c
      BY <1>1, <1>5, <2>5 DEF insert
    <3> HIDE DEF f
    <3>2. /\ r \in Seq(VersionsFor(udc)) /\ Len(r) = Len(t) + 1
          /\ \A l \in 1 .. Len(t) + 1 :
                r[l] = f \/ \E k \in 1 .. Len(t) : r[l] = t[k]
      BY <1>5, <3>1, AddVersionSorted
    <3>3. j \in 1 .. Len(t) + 1
      BY <3>2, LenProperties
    <3>4. QED
      BY <2>2, <2>3, <3>2, <3>3
  <2>6. QED
    BY <2>4, <2>5
<1>6. QED
  BY <1>4, <1>5

-----------------------------------------------------------------------------
\* The inductive invariant.  The order of the entries alone is not inductive:
\* operator< orders only contexts with NotTooManyArguments, so every entry
\* must be known to have the minimal context.
IInv ==
    /\ userDefinedContext \in Context
    /\ table \in Seq(VersionsFor(userDefinedContext))
    /\ Len(table) < Capacity
    /\ SortedTable(table)

LEMMA IInvMeaning ==
    ASSUME IInv
    PROVE  TypeOK /\ Sorted /\ WithinUserContext
<1>1. /\ table \in Seq(Version) /\ DOMAIN table = 1 .. Len(table)
      /\ \A i \in 1 .. Len(table) : table[i] \in VersionsFor(userDefinedContext)
  BY TableEntries DEF IInv
<1>2. TypeOK /\ Sorted
  BY <1>1 DEF IInv, TypeOK, Sorted
<1>3. WithinUserContext
  BY <1>1 DEF WithinUserContext, VersionsFor
<1>4. QED
  BY <1>2, <1>3

LEMMA IInvInit == Init => IInv
<1>1. EmptyContext \in Context
  BY DEF EmptyContext, Context, MAX_MISSING
<1>2. Capacity > 0
  BY CapacityAssumption
<1>3. QED
  BY <1>1, <1>2, EmptyTable DEF Init, IInv

\* Every operation on the table preserves the invariant.
LEMMA IInvStep == IInv /\ [Next]_vars => IInv'
<1> SUFFICES ASSUME IInv, [Next]_vars
             PROVE  IInv'
  OBVIOUS
<1> DEFINE udc == userDefinedContext
           n == Len(table)
<1>1. /\ udc \in Context /\ table \in Seq(VersionsFor(udc))
      /\ n < Capacity /\ SortedTable(table)
  BY DEF IInv
<1>2. n \in Nat /\ DOMAIN table = 1 .. n /\ Capacity \in Nat
      /\ \A i \in 1 .. n : table[i] \in Version
  BY <1>1, TableEntries, CapacityAssumption DEF VersionsFor
<1>3. ASSUME NEW given \in CallContexts, Insert(given)
      PROVE  IInv'
  <2> DEFINE f == NewVersion(Join(udc, given))
  <2>1. f \in VersionsFor(udc)
    BY <1>1, <1>3, NewVersionWithin, CallContextsAssumption DEF Insert
  <2>2. table' \in insert(table, f) /\ udc' = udc
    BY <1>3 DEF Insert
  <2> HIDE DEF f
  <2>3. /\ table' \in Seq(VersionsFor(udc)) /\ Len(table') < Capacity
        /\ SortedTable(table')
    BY <1>1, <2>1, <2>2, InsertSorted
  <2>4. QED
    BY <1>1, <2>2, <2>3 DEF IInv
<1>4. ASSUME NEW i \in DOMAIN table, FinishCompilation(i)
      PROVE  IInv'
  <2> DEFINE f == [table[i] EXCEPT !.pendingCompilation = FALSE]
  <2>1. table' = [table EXCEPT ![i] = f] /\ udc' = udc
    BY <1>4 DEF FinishCompilation
  <2>2. f \in Version /\ f.context = table[i].context
    BY <1>2, VersionUpdates, Zenon
  <2> HIDE DEF f
  <2>3. QED
    BY <1>1, <1>2, <2>1, <2>2, UpdateSorted, ZenonT(60) DEF IInv
<1>5. ASSUME NEW i \in DOMAIN table, Deopt(i)
      PROVE  IInv'
  <2> DEFINE f == registerDeopt(table[i])
  <2>1. table' = [table EXCEPT ![i] = f] /\ udc' = udc
    BY <1>5 DEF Deopt
  <2>2. f \in Version /\ f.context = table[i].context
    BY <1>2, VersionUpdates, Zenon
  <2> HIDE DEF f
  <2>3. QED
    BY <1>1, <1>2, <2>1, <2>2, UpdateSorted, ZenonT(60) DEF IInv
<1>6. ASSUME NEW i \in DOMAIN table, RemoveVersion(i)
      PROVE  IInv'
  <2>1. table' = RemoveAt(table, i) /\ udc' = udc
    BY <1>6 DEF RemoveVersion
  <2>2. /\ table' \in Seq(VersionsFor(udc)) /\ Len(table') = n - 1
        /\ SortedTable(table')
    BY <1>1, <1>2, <2>1, RemoveSorted, Zenon
  <2>3. QED
    BY <1>1, <1>2, <2>1, <2>2 DEF IInv
<1>7. ASSUME NEW new \in UserContexts, SetUserContext(new)
      PROVE  IInv'
  <2>1. table' = withUserContext(table, new) /\ udc' = new
    BY <1>7 DEF SetUserContext
  <2>2. /\ table' \in Seq(VersionsFor(new)) /\ Len(table') <= n
        /\ SortedTable(table')
    BY <1>1, <2>1, WithUserContextSorted
  <2>3. Len(table') \in Nat
    BY <2>2, LenProperties
  <2>4. new \in Context
    BY UserContextsAssumption
  <2>5. QED
    BY <1>1, <1>2, <2>1, <2>2, <2>3, <2>4 DEF IInv
<1>8. CASE Reload
  <2>1. EmptyContext \in Context
    BY DEF EmptyContext, Context, MAX_MISSING
  <2>2. Capacity > 0
    BY CapacityAssumption
  <2>3. QED
    BY <1>8, <2>1, <2>2, EmptyTable DEF Reload, IInv
<1>9. CASE UNCHANGED vars
  BY <1>9 DEF vars, IInv
<1>10. QED
  BY <1>3, <1>4, <1>5, <1>6, <1>7, <1>8, <1>9 DEF Next

\* The dispatch table is always well typed and within its capacity.
THEOREM TypeCorrect == Spec => []TypeOK
<1>1. IInv => TypeOK
  BY IInvMeaning
<1>2. QED
  BY <1>1, IInvInit, IInvStep, PTL DEF Spec

\* The entries are always strictly sorted by operator<, what insert, dispatch
\* and remove rely on when they stop scanning.
THEOREM SortedAlways == Spec => []Sorted
<1>1. IInv => Sorted
  BY IInvMeaning
<1>2. QED
  BY <1>1, IInvInit, IInvStep, PTL DEF Spec

\* No version is more general than the context the user gave the function,
\* also after a reload or a change of that context.
THEOREM WithinUserContextHolds == Spec => []WithinUserContext
<1>1. IInv => WithinUserContext
  BY IInvMeaning
<1>2. QED
  BY <1>1, IInvInit, IInvStep, PTL DEF Spec

-----------------------------------------------------------------------------
LEMMA IInvDispatchExact == IInv => DispatchExact
<1> SUFFICES ASSUME IInv, NEW c \in CallContexts, c # EmptyContext,
                    contains(table, c)
             PROVE  /\ dispatchIndex(table, c, TRUE) # 0
                    /\ table[dispatchIndex(table, c, TRUE)].context = c
  BY Zenon DEF DispatchExact
<1> DEFINE t == table
           I == { k \in 1 .. Len(t) : t[k].context = c }
           i == SelectInSeq(t, LAMBDA e : e.context = c)
           d == dispatchIndex(t, c, TRUE)
<1>1. i # 0 /\ ~disabled(t[i])
  BY DEF contains
<1>2. i = IF I # {} THEN Min(I) ELSE 0
  BY DEF SelectInSeq
<1>3. /\ t \in Seq(VersionsFor(userDefinedContext)) /\ SortedTable(t)
      /\ t \in Seq(Version) /\ Len(t) \in Nat
  BY TableEntries DEF IInv
<1>4. I \in SUBSET (1 .. Len(t)) /\ \A k \in I : t[k].context = c
  OBVIOUS
<1> HIDE DEF i, I, d
<1>5. i \in 1 .. Len(t) /\ t[i].context = c
  <2>1. i \in I
    BY <1>1, <1>2, <1>3, <1>4, FirstIndex, Zenon
  <2>2. QED
    BY <1>4, <2>1
<1>6. c \in Context /\ smaller(c, c)
  BY CallContextsAssumption, SmallerPreorder
<1>7. d \in 1 .. Len(t) /\ d <= i /\ smaller(c, t[d].context)
  BY <1>1, <1>3, <1>5, <1>6, DispatchFirst, Zenon DEF d
<1>8. ~(d < i)
  BY <1>3, <1>5, <1>7, SortedEntries
<1>9. d = i
  BY <1>5, <1>7, <1>8
<1>10. d # 0 /\ t[d].context = c
  BY <1>5, <1>9
<1>11. QED
  BY <1>10, Zenon DEF d

LEMMA IInvDispatchMostSpecific == IInv => DispatchMostSpecific
<1> SUFFICES ASSUME IInv, NEW a \in CallContexts, NEW i \in DOMAIN table,
                    smaller(a, table[i].context), ~disabled(table[i])
             PROVE  LET d == dispatchIndex(table, a, TRUE)
                    IN  /\ d # 0
                        /\ i # d => ~smaller(table[i].context, table[d].context)
  BY Zenon DEF DispatchMostSpecific
<1> DEFINE t == table
           d == dispatchIndex(t, a, TRUE)
<1>1. /\ t \in Seq(VersionsFor(userDefinedContext)) /\ SortedTable(t)
      /\ t \in Seq(Version) /\ i \in 1 .. Len(t) /\ Len(t) \in Nat
  BY TableEntries DEF IInv
<1>2. d \in 1 .. Len(t) /\ d <= i
  BY <1>1, DispatchFirst, Zenon
<1> HIDE DEF d
<1>3. d < i => ~smaller(t[i].context, t[d].context)
  BY <1>1, <1>2, SortedEntries
<1>4. d # 0 /\ (i # d => ~smaller(t[i].context, t[d].context))
  BY <1>1, <1>2, <1>3
<1>5. QED
  BY <1>4, Zenon DEF d

\* Dispatch on a context the table contains returns that version, as pirCompile
\* asserts (api.cpp:336).
THEOREM DispatchExactHolds == Spec => []DispatchExact
<1>1. IInv => DispatchExact
  BY IInvDispatchExact
<1>2. QED
  BY <1>1, IInvInit, IInvStep, PTL DEF Spec

\* Dispatch never overlooks a better version: no other applicable version
\* refines the one it returns.
THEOREM DispatchMostSpecificHolds == Spec => []DispatchMostSpecific
<1>1. IInv => DispatchMostSpecific
  BY IInvDispatchMostSpecific
<1>2. QED
  BY <1>1, IInvInit, IInvStep, PTL DEF Spec

-----------------------------------------------------------------------------
\* The step DeoptCountsKept allows.
CountsKept ==
    \A i \in DOMAIN table : \A j \in DOMAIN table' :
        table[i].context = table'[j].context =>
            table'[j].deoptCount >= table[i].deoptCount

\* A table made of entries of the old one keeps all their counts.
LEMMA SameEntries ==
    ASSUME IInv, NEW i \in DOMAIN table, NEW e,
           e.context = table[i].context,
           \E k \in 1 .. Len(table) : e = table[k]
    PROVE  e.deoptCount >= table[i].deoptCount
<1>1. /\ table \in Seq(VersionsFor(userDefinedContext)) /\ SortedTable(table)
      /\ DOMAIN table = 1 .. Len(table)
  BY TableEntries DEF IInv
<1>2. PICK k \in 1 .. Len(table) : e = table[k]
  OBVIOUS
<1>3. k = i
  BY <1>1, <1>2, SortedEntries
<1>4. table[i].deoptCount \in 0 .. UINT_MAX /\ UINT_MAX \in Nat
  BY <1>1, TableEntries, UintAssumption DEF VersionsFor, Version
<1>5. QED
  BY <1>2, <1>3, <1>4

\* An update of one entry that keeps its context and does not lower its count.
LEMMA UpdateCounts ==
    ASSUME IInv, NEW i \in DOMAIN table, NEW f,
           table' = [table EXCEPT ![i] = f],
           f.context = table[i].context,
           f.deoptCount >= table[i].deoptCount
    PROVE  CountsKept
<1> SUFFICES ASSUME NEW k \in DOMAIN table, NEW j \in DOMAIN table',
                    table[k].context = table'[j].context
             PROVE  table'[j].deoptCount >= table[k].deoptCount
  BY DEF CountsKept
<1>1. /\ table \in Seq(VersionsFor(userDefinedContext)) /\ SortedTable(table)
      /\ DOMAIN table = 1 .. Len(table) /\ DOMAIN table' = DOMAIN table
  BY TableEntries DEF IInv
<1>2. table'[j] = IF j = i THEN f ELSE table[j]
  BY <1>1
<1>3. CASE j = i
  <2>1. i = k
    BY <1>1, <1>2, <1>3, SortedEntries
  <2>2. QED
    BY <1>2, <1>3, <2>1
<1>4. CASE j # i
  <2>1. \E l \in 1 .. Len(table) : table'[j] = table[l]
    BY <1>1, <1>2, <1>4
  <2>2. QED
    BY <2>1, SameEntries
<1>5. QED
  BY <1>3, <1>4

LEMMA CountsStep == IInv /\ [Next]_vars => [CountsKept]_vars
<1> SUFFICES ASSUME IInv, Next
             PROVE  CountsKept
  OBVIOUS
<1> DEFINE udc == userDefinedContext
<1>1. /\ udc \in Context /\ table \in Seq(VersionsFor(udc)) /\ SortedTable(table)
      /\ DOMAIN table = 1 .. Len(table) /\ Len(table) \in Nat
      /\ \A i \in 1 .. Len(table) :
            table[i] \in Version /\ table[i].deoptCount \in Int
  BY TableEntries, UintAssumption DEF IInv, VersionsFor, Version
<1>2. ASSUME NEW given \in CallContexts, Insert(given)
      PROVE  CountsKept
  <2> DEFINE c == Join(udc, given)
  <2>1. NewVersion(c) \in VersionsFor(udc)
    BY <1>1, <1>2, NewVersionWithin, CallContextsAssumption DEF Insert
  <2>2. table' \in insert(table, NewVersion(c))
    BY <1>2 DEF Insert
  <2> HIDE DEF c
  <2>3. c \in ProperContext
    <3>1. NewVersion(c).context = c
      BY DEF NewVersion
    <3>2. QED
      BY <2>1, <3>1, VersionContexts
  <2>4. QED
    BY <1>1, <2>1, <2>2, <2>3, InsertCounts DEF CountsKept
<1>3. ASSUME NEW i \in DOMAIN table, FinishCompilation(i)
      PROVE  CountsKept
  <2> DEFINE f == [table[i] EXCEPT !.pendingCompilation = FALSE]
  <2>1. table' = [table EXCEPT ![i] = f]
    BY <1>3 DEF FinishCompilation
  <2>2. f.context = table[i].context /\ f.deoptCount >= table[i].deoptCount
    BY <1>1, VersionUpdates
  <2> HIDE DEF f
  <2>3. QED
    BY <2>1, <2>2, UpdateCounts, Zenon
<1>4. ASSUME NEW i \in DOMAIN table, Deopt(i)
      PROVE  CountsKept
  <2> DEFINE f == registerDeopt(table[i])
  <2>1. table' = [table EXCEPT ![i] = f]
    BY <1>4 DEF Deopt
  <2>2. f.context = table[i].context /\ f.deoptCount >= table[i].deoptCount
    BY <1>1, VersionUpdates, Zenon
  <2> HIDE DEF f
  <2>3. QED
    BY <2>1, <2>2, UpdateCounts, Zenon
<1>5. ASSUME \A j \in DOMAIN table' :
                \E k \in 1 .. Len(table) : table'[j] = table[k]
      PROVE  CountsKept
  BY <1>5, SameEntries DEF CountsKept
<1>6. ASSUME NEW i \in DOMAIN table, RemoveVersion(i)
      PROVE  CountsKept
  <2>1. table' = RemoveAt(table, i)
    BY <1>6 DEF RemoveVersion
  <2>2. i \in 1 .. Len(table)
    BY <1>1
  <2>3. ASSUME NEW t, t = table
        PROVE  \A j \in DOMAIN RemoveAt(t, i) :
                  \E k \in 1 .. Len(t) : RemoveAt(t, i)[j] = t[k]
    <3>1. t \in Seq(VersionsFor(udc))
      BY <1>1, <2>3
    <3>2. SortedTable(t) /\ i \in 1 .. Len(t)
      BY <1>1, <2>2, <2>3
    <3>3. QED
      BY <3>1, <3>2, RemoveEntries
  <2>4. \A j \in DOMAIN RemoveAt(table, i) :
           \E k \in 1 .. Len(table) : RemoveAt(table, i)[j] = table[k]
    BY <2>3, Zenon
  <2>5. QED
    BY <1>5, <2>1, <2>4, Zenon
<1>7. ASSUME NEW new \in UserContexts, SetUserContext(new)
      PROVE  CountsKept
  <2>1. table' = withUserContext(table, new)
    BY <1>7 DEF SetUserContext
  <2>2. ASSUME NEW t, t = table
        PROVE  \A j \in DOMAIN withUserContext(t, new) :
                  \E k \in 1 .. Len(t) : withUserContext(t, new)[j] = t[k]
    <3>1. t \in Seq(VersionsFor(udc)) /\ SortedTable(t)
      BY <1>1, <2>2
    <3>2. QED
      BY <3>1, WithUserContextEntries
  <2>3. \A j \in DOMAIN withUserContext(table, new) :
           \E k \in 1 .. Len(table) : withUserContext(table, new)[j] = table[k]
    BY <2>2, Zenon
  <2>4. QED
    BY <1>5, <2>1, <2>3, Zenon
<1>8. CASE Reload
  <2>1. DOMAIN table' = {}
    BY <1>8 DEF Reload
  <2>2. QED
    BY <2>1 DEF CountsKept
<1>9. QED
  BY <1>2, <1>3, <1>4, <1>6, <1>7, <1>8 DEF Next

\* Whatever is inserted, removed or evicted, the deopt count recorded for a
\* context never drops while the table holds a version for it.
THEOREM DeoptCountsKeptHolds == Spec => DeoptCountsKept
<1>1. Init => IInv
  BY IInvInit
<1>2. IInv /\ [Next]_vars => IInv'
  BY IInvStep
<1>3. IInv /\ [Next]_vars => [CountsKept]_vars
  BY CountsStep
<1>4. Spec => [][CountsKept]_vars
  BY <1>1, <1>2, <1>3, PTL DEF Spec
<1>5. QED
  BY <1>4 DEF DeoptCountsKept, CountsKept

=============================================================================
