---------------------------- MODULE SummaryProofs ---------------------------
(***************************************************************************)
(* The validation error summary is exact for any jobs and errors: the      *)
(* loops of reports.go, folds over finite sets here, count every recorded  *)
(* error once and keep the extremes of its group.                          *)
(***************************************************************************)
EXTENDS MetadataProofs, WellFoundedInduction

-----------------------------------------------------------------------------
(* Folds over finite sets.  The loops differ in their step, so a step is a *)
(* function here and not an operator.                                      *)

\* The element a fold takes next.
Any(S) == CHOOSE x \in S : TRUE

LEMMA AnyIn == ASSUME NEW S, S # {} PROVE Any(S) \in S
  BY DEF Any

LEMMA LeastNat ==
    ASSUME NEW S \in SUBSET Nat, S # {}
    PROVE  \E m \in S : \A k \in S : m <= k
<1> DEFINE Less == {p \in Nat \X Nat : p[1] < p[2]}
<1>1. OpToRel(<, Nat) = Less
  BY DEF OpToRel
<1>2. IsWellFoundedOn(Less, Nat)
  BY <1>1, NatLessThanWellFounded
<1> HIDE DEF Less
<1>3. PICK m \in S : \A k \in S : ~(<<k, m>> \in Less)
  BY <1>2, WFMin
<1>4. ASSUME NEW k \in S, ~(m <= k) PROVE FALSE
  <2>1. k \in Nat /\ m \in Nat /\ k < m
    BY <1>4
  <2>2. <<k, m>> \in Less
    BY <2>1 DEF Less
  <2> QED
    BY <1>3, <2>2
<1> QED
  BY <1>4

\* Taking an element out of a nonempty part of a finite set.
LEMMA OneLess ==
    ASSUME NEW T, IsFiniteSet(T), NEW S \in SUBSET T, S # {}
    PROVE  /\ Any(S) \in S /\ S \ {Any(S)} \in SUBSET T
           /\ Cardinality(S) \in Nat \ {0}
           /\ Cardinality(S \ {Any(S)}) = Cardinality(S) - 1
<1>1. Any(S) \in S
  BY AnyIn
<1>2. IsFiniteSet(S)
  BY FS_Subset
<1>3. Cardinality(S) \in Nat /\ Cardinality(S) # 0
  BY <1>2, FS_CardinalityType, FS_EmptySet
<1>4. Cardinality(S \ {Any(S)}) = Cardinality(S) - 1
  BY <1>1, <1>2, FS_RemoveElement
<1> QED
  BY <1>1, <1>3, <1>4

\* What holds of the empty set, and of a set if it holds with one element
\* less, holds of every part of a finite set.
LEMMA SubsetInduction ==
    ASSUME NEW T, IsFiniteSet(T), NEW Good, {} \in Good,
           \A S \in SUBSET T : S # {} /\ S \ {Any(S)} \in Good => S \in Good
    PROVE  \A S \in SUBSET T : S \in Good
<1> DEFINE Bad == {n \in Nat : \E S \in SUBSET T : S \notin Good /\ Cardinality(S) = n}
<1>1. Bad = {}
  <2> SUFFICES ASSUME Bad # {} PROVE FALSE
    OBVIOUS
  <2>1. PICK n \in Bad : \A k \in Bad : n <= k
    <3>1. Bad \in SUBSET Nat
      OBVIOUS
    <3> HIDE DEF Bad
    <3> QED
      BY <3>1, LeastNat
  <2>2. PICK S \in SUBSET T : S \notin Good /\ Cardinality(S) = n
    OBVIOUS
  <2>3. S # {}
    BY <2>2
  <2>4. /\ S \ {Any(S)} \in SUBSET T /\ n \in Nat \ {0}
        /\ Cardinality(S \ {Any(S)}) = n - 1
    BY <2>2, <2>3, OneLess
  <2>5. S \ {Any(S)} \notin Good
    BY <2>2, <2>3
  <2>6. n - 1 \in Nat
    BY <2>4
  <2>7. n - 1 \in Bad
    BY <2>4, <2>5, <2>6
  <2> QED
    BY <2>1, <2>4, <2>7
<1>2. ASSUME NEW S \in SUBSET T, S \notin Good PROVE FALSE
  <2>1. Cardinality(S) \in Nat
    BY FS_Subset, FS_CardinalityType
  <2> QED
    BY <1>1, <1>2, <2>1
<1> QED
  BY <1>2

\* One step of the fold of st from base, on the set S, where g is the fold of
\* the smaller sets.
FoldStep(g, base, st, S) == IF S = {} THEN base ELSE st[<<g[S \ {Any(S)}], Any(S)>>]

\* g is the fold of st from base on the parts of T, with values in A.
IsFold(g, T, A, base, st) ==
    /\ g \in [SUBSET T -> A]
    /\ \A S \in SUBSET T : g[S] = FoldStep(g, base, st, S)

LEMMA FoldExists ==
    ASSUME NEW T, IsFiniteSet(T), NEW A, NEW base, base \in A,
           NEW st, st \in [A \X T -> A]
    PROVE  \E g : IsFold(g, T, A, base, st)
<1> DEFINE Upto(n) == {S \in SUBSET T : Cardinality(S) <= n}
           Part(g, n) == /\ g \in [Upto(n) -> A]
                         /\ \A S \in Upto(n) : g[S] = FoldStep(g, base, st, S)
           Bad == {n \in Nat : ~\E g : Part(g, n)}
<1>1. Bad = {}
  <2> SUFFICES ASSUME Bad # {} PROVE FALSE
    OBVIOUS
  <2>1. PICK n \in Bad : \A k \in Bad : n <= k
    <3>1. Bad \in SUBSET Nat
      OBVIOUS
    <3> HIDE DEF Bad
    <3> QED
      BY <3>1, LeastNat
  <2>2. n # 0
    <3> DEFINE g == [S \in Upto(0) |-> base]
    <3>1. ASSUME NEW S \in Upto(0) PROVE S = {}
      <4>1. S # {} => Cardinality(S) \in Nat \ {0}
        BY OneLess
      <4> QED
        BY <4>1
    <3>2. Part(g, 0)
      BY <3>1 DEF FoldStep
    <3> HIDE DEF g, Part
    <3> QED
      BY <3>2
  <2>3. n - 1 \in Nat /\ n - 1 \notin Bad
    <3>1. n \in Nat
      OBVIOUS
    <3> HIDE DEF Bad
    <3> QED
      BY <2>1, <2>2, <3>1
  <2>4. PICK g : Part(g, n - 1)
    <3> HIDE DEF Part
    <3> QED
      BY <2>3
  <2> DEFINE f == [S \in Upto(n) |-> FoldStep(g, base, st, S)]
  <2>5. ASSUME NEW S \in Upto(n), S # {}
        PROVE  S \ {Any(S)} \in Upto(n - 1) /\ S \ {Any(S)} \in Upto(n) /\ Any(S) \in T
    <3>1. /\ S \ {Any(S)} \in SUBSET T /\ Cardinality(S) \in Nat /\ Any(S) \in S
          /\ Cardinality(S \ {Any(S)}) = Cardinality(S) - 1
      BY <2>5, OneLess
    <3>2. Cardinality(S) <= n
      OBVIOUS
    <3> QED
      BY <2>3, <3>1, <3>2
  <2>6. ASSUME NEW S \in Upto(n) PROVE f[S] \in A
    <3>1. f[S] = FoldStep(g, base, st, S)
      OBVIOUS
    <3>2. S # {} => <<g[S \ {Any(S)}], Any(S)>> \in A \X T
      BY <2>4, <2>5
    <3> HIDE DEF f, Upto
    <3> QED
      BY <3>1, <3>2 DEF FoldStep
  <2>7. ASSUME NEW S \in Upto(n - 1) PROVE f[S] = g[S]
    <3>1. S \in Upto(n)
      <4>1. Cardinality(S) \in Nat
        BY FS_Subset, FS_CardinalityType
      <4> QED
        BY <2>3, <4>1
    <3> QED
      BY <2>4, <3>1
  <2>8. ASSUME NEW S \in Upto(n) PROVE f[S] = FoldStep(f, base, st, S)
    <3>1. f[S] = FoldStep(g, base, st, S)
      OBVIOUS
    <3>2. S # {} => f[S \ {Any(S)}] = g[S \ {Any(S)}]
      BY <2>5, <2>7
    <3> HIDE DEF f, Upto
    <3> QED
      BY <3>1, <3>2 DEF FoldStep
  <2>9. f \in [Upto(n) -> A]
    BY <2>6
  <2>10. Part(f, n)
    <3> HIDE DEF f, Upto
    <3> QED
      BY <2>8, <2>9
  <2> QED
    BY <2>10
<1>2. Cardinality(T) \in Nat /\ Upto(Cardinality(T)) = SUBSET T
  <2>1. Cardinality(T) \in Nat
    BY FS_CardinalityType
  <2>2. \A S \in SUBSET T : Cardinality(S) <= Cardinality(T)
    BY FS_Subset
  <2> QED
    BY <2>1, <2>2
<1>3. PICK g : Part(g, Cardinality(T))
  BY <1>1, <1>2
<1> QED
  BY <1>2, <1>3 DEF IsFold

-----------------------------------------------------------------------------
(* Summaries and the errors they stand for *)

Items == [count : Nat, firstLine : Nat \ {0}, lastLine : Nat \ {0},
          firstSeen : Nat, lastSeen : Nat]

\* Summaries under keys of KS.
Sums(KS) == UNION {[K -> Items] : K \in SUBSET KS}

\* What MergeItem makes of two items.
Merged(x, y) ==
    [count     |-> x.count + y.count,
     firstLine |-> IF y.firstLine < x.firstLine \/ x.firstLine = 0
                   THEN y.firstLine ELSE x.firstLine,
     lastLine  |-> IF y.lastLine > x.lastLine THEN y.lastLine ELSE x.lastLine,
     firstSeen |-> IF y.firstSeen < x.firstSeen THEN y.firstSeen ELSE x.firstSeen,
     lastSeen  |-> IF y.lastSeen > x.lastSeen THEN y.lastSeen ELSE x.lastSeen]

\* The item of one error.
Single(e) == [count |-> 1, firstLine |-> e.line, lastLine |-> e.line,
              firstSeen |-> e.at, lastSeen |-> e.at]

\* The item counts the errors of G and has their extremes.
Fits(item, G) ==
    /\ item \in Items
    /\ item.count = Cardinality(G)
    /\ \E e \in G : e.line = item.firstLine
    /\ \E e \in G : e.line = item.lastLine
    /\ \E e \in G : e.at = item.firstSeen
    /\ \E e \in G : e.at = item.lastSeen
    /\ \A e \in G : /\ item.firstLine <= e.line /\ e.line <= item.lastLine
                    /\ item.firstSeen <= e.at /\ e.at <= item.lastSeen

\* s sums up the errors of E under their keys.
Exact(s, E, key) ==
    /\ DOMAIN s = {key[e] : e \in E}
    /\ \A k \in DOMAIN s : Fits(s[k], {e \in E : key[e] = k})

LEMMA MergeIsPut ==
    ASSUME NEW s, NEW k, NEW item
    PROVE  R!MergeItem(s, k, item) =
             R!Put(s, k, IF k \in DOMAIN s THEN Merged(s[k], item) ELSE item)
  BY DEF R!MergeItem, Merged

LEMMA MergedType == ASSUME NEW x \in Items, NEW y \in Items PROVE Merged(x, y) \in Items
  BY DEF Items, Merged

LEMMA PutType ==
    ASSUME NEW KS, NEW s \in Sums(KS), NEW k \in KS, NEW v \in Items
    PROVE  R!Put(s, k, v) \in Sums(KS)
<1>1. PICK K \in SUBSET KS : s \in [K -> Items]
  BY DEF Sums
<1>2. R!Put(s, k, v) \in [K \cup {k} -> Items]
  BY <1>1 DEF R!Put
<1> QED
  BY <1>2 DEF Sums

LEMMA MergeType ==
    ASSUME NEW KS, NEW s \in Sums(KS), NEW k \in KS, NEW item \in Items
    PROVE  R!MergeItem(s, k, item) \in Sums(KS)
<1>1. k \in DOMAIN s => s[k] \in Items
  BY DEF Sums
<1>2. (IF k \in DOMAIN s THEN Merged(s[k], item) ELSE item) \in Items
  BY <1>1, MergedType
<1> QED
  BY <1>2, MergeIsPut, PutType

LEMMA MergedFits ==
    ASSUME NEW G \in SUBSET ErrorRows, NEW H \in SUBSET ErrorRows, IsFiniteSet(G), IsFiniteSet(H),
           G \cap H = {}, NEW x, NEW y, Fits(x, G), Fits(y, H)
    PROVE  Fits(Merged(x, y), G \cup H)
<1>1. x \in Items /\ y \in Items /\ Merged(x, y) \in Items
  BY MergedType DEF Fits
<1>2. Merged(x, y).count = Cardinality(G \cup H)
  <2>1. Cardinality(G \cup H) = Cardinality(G) + Cardinality(H) - Cardinality({})
    BY FS_Union
  <2>2. Cardinality({}) = 0
    BY FS_EmptySet
  <2>3. Merged(x, y).count = x.count + y.count /\ x.count \in Nat /\ y.count \in Nat
    BY <1>1 DEF Merged, Items
  <2>4. x.count = Cardinality(G) /\ y.count = Cardinality(H)
    BY DEF Fits
  <2> QED
    BY <2>1, <2>2, <2>3, <2>4
<1>3. /\ Merged(x, y).firstLine \in {x.firstLine, y.firstLine}
      /\ Merged(x, y).lastLine \in {x.lastLine, y.lastLine}
      /\ Merged(x, y).firstSeen \in {x.firstSeen, y.firstSeen}
      /\ Merged(x, y).lastSeen \in {x.lastSeen, y.lastSeen}
  BY DEF Merged
<1>4. /\ Merged(x, y).firstLine <= x.firstLine /\ Merged(x, y).firstLine <= y.firstLine
      /\ x.lastLine <= Merged(x, y).lastLine /\ y.lastLine <= Merged(x, y).lastLine
      /\ Merged(x, y).firstSeen <= x.firstSeen /\ Merged(x, y).firstSeen <= y.firstSeen
      /\ x.lastSeen <= Merged(x, y).lastSeen /\ y.lastSeen <= Merged(x, y).lastSeen
  BY <1>1 DEF Merged, Items
<1> DEFINE z == Merged(x, y)
<1> HIDE DEF z
<1>5. /\ \E e \in G \cup H : e.line = z.firstLine
      /\ \E e \in G \cup H : e.line = z.lastLine
      /\ \E e \in G \cup H : e.at = z.firstSeen
      /\ \E e \in G \cup H : e.at = z.lastSeen
  BY <1>3 DEF Fits, z
<1>6. ASSUME NEW e \in G \cup H
      PROVE  /\ z.firstLine <= e.line /\ e.line <= z.lastLine
             /\ z.firstSeen <= e.at /\ e.at <= z.lastSeen
  <2>1. e.line \in Int /\ e.at \in Int
    BY DEF ErrorRows
  <2>2. /\ z.firstLine \in Int /\ z.lastLine \in Int /\ z.firstSeen \in Int /\ z.lastSeen \in Int
        /\ x.firstLine \in Int /\ x.lastLine \in Int /\ x.firstSeen \in Int /\ x.lastSeen \in Int
        /\ y.firstLine \in Int /\ y.lastLine \in Int /\ y.firstSeen \in Int /\ y.lastSeen \in Int
    BY <1>1 DEF Items, z
  <2>3. \/ /\ x.firstLine <= e.line /\ e.line <= x.lastLine
           /\ x.firstSeen <= e.at /\ e.at <= x.lastSeen
        \/ /\ y.firstLine <= e.line /\ e.line <= y.lastLine
           /\ y.firstSeen <= e.at /\ e.at <= y.lastSeen
    BY DEF Fits
  <2> QED
    BY <1>4, <2>1, <2>2, <2>3 DEF z
<1> QED
  BY <1>1, <1>2, <1>5, <1>6 DEF Fits, z

\* A new group of errors, merged under its key, joins the ones summed up.
LEMMA MergeExact ==
    ASSUME NEW E \in SUBSET ErrorRows, NEW G \in SUBSET ErrorRows, IsFiniteSet(E), IsFiniteSet(G),
           E \cap G = {}, G # {}, NEW key, NEW k, \A e \in G : key[e] = k,
           NEW s, Exact(s, E, key), NEW item, Fits(item, G)
    PROVE  Exact(R!MergeItem(s, k, item), E \cup G, key)
<1> DEFINE v == IF k \in DOMAIN s THEN Merged(s[k], item) ELSE item
           t == R!Put(s, k, v)
           F(l) == {e \in E : key[e] = l}
           U(l) == {e \in E \cup G : key[e] = l}
<1>1. R!MergeItem(s, k, item) = t
  BY MergeIsPut
<1>2. DOMAIN t = DOMAIN s \cup {k} /\ t[k] = v /\ \A l \in DOMAIN s \ {k} : t[l] = s[l]
  BY DEF R!Put
<1>3. DOMAIN t = {key[e] : e \in E \cup G}
  <2>1. DOMAIN s = {key[e] : e \in E}
    BY DEF Exact
  <2>2. {key[e] : e \in G} = {k}
    OBVIOUS
  <2> HIDE DEF t
  <2> QED
    BY <1>2, <2>1, <2>2
<1>4. U(k) = F(k) \cup G /\ \A l : l # k => U(l) = F(l)
  OBVIOUS
<1>5. Fits(v, U(k))
  <2>1. CASE k \in DOMAIN s
    <3>1. Fits(s[k], F(k)) /\ v = Merged(s[k], item)
      BY <2>1 DEF Exact
    <3>2. F(k) \in SUBSET ErrorRows /\ IsFiniteSet(F(k)) /\ F(k) \cap G = {}
      <4>1. F(k) \in SUBSET E
        OBVIOUS
      <4> HIDE DEF F
      <4> QED
        BY <4>1, FS_Subset
    <3> HIDE DEF F, U, v
    <3> QED
      BY <1>4, <3>1, <3>2, MergedFits
  <2>2. CASE k \notin DOMAIN s
    <3>1. F(k) = {}
      BY <2>2 DEF Exact
    <3>2. U(k) = G /\ v = item
      <4> HIDE DEF F, U
      <4> QED
        BY <1>4, <2>2, <3>1
    <3> QED
      BY <3>2
  <2> QED
    BY <2>1, <2>2
<1>6. ASSUME NEW l \in DOMAIN s \ {k} PROVE Fits(t[l], U(l))
  <2>1. Fits(s[l], F(l))
    BY DEF Exact
  <2> HIDE DEF F, U, t
  <2> QED
    BY <1>2, <1>4, <2>1
<1> HIDE DEF t, v
<1>7. \A l \in DOMAIN t : Fits(t[l], U(l))
  <2> HIDE DEF U
  <2> QED
    BY <1>2, <1>5, <1>6
<1> QED
  BY <1>1, <1>3, <1>7 DEF Exact

-----------------------------------------------------------------------------
(* summarizeValidationErrors: the errors of one job *)

\* The type, symbol and day of an error.
Kind == [e \in ErrorRows |-> <<e.type, e.symbol, R!Day(e.at)>>]

LEMMA SingleFits ==
    ASSUME NEW e \in ErrorRows
    PROVE  Single(e) \in Items /\ Fits(Single(e), {e})
<1>1. e.line \in Nat \ {0} /\ e.at \in Nat
  BY DEF ErrorRows
<1>2. Single(e) \in Items
  BY <1>1 DEF Items, Single
<1>3. Cardinality({e}) = 1
  BY FS_Singleton
<1> QED
  BY <1>1, <1>2, <1>3 DEF Fits, Single

\* Adding an error is merging the item of that error.
LEMMA AddIsMerge ==
    ASSUME NEW KS, NEW s \in Sums(KS), NEW e \in ErrorRows
    PROVE  R!AddError(s, e) = R!MergeItem(s, Kind[e], Single(e))
<1> DEFINE k == <<e.type, e.symbol, R!Day(e.at)>>
           old == IF k \in DOMAIN s THEN s[k]
                  ELSE [count |-> 0, firstLine |-> e.line, lastLine |-> e.line,
                        firstSeen |-> e.at, lastSeen |-> e.at]
           new == [count     |-> old.count + 1,
                   firstLine |-> IF e.line < old.firstLine \/ old.firstLine = 0
                                 THEN e.line ELSE old.firstLine,
                   lastLine  |-> IF e.line > old.lastLine THEN e.line ELSE old.lastLine,
                   firstSeen |-> IF e.at < old.firstSeen THEN e.at ELSE old.firstSeen,
                   lastSeen  |-> IF e.at > old.lastSeen THEN e.at ELSE old.lastSeen]
           v == IF k \in DOMAIN s THEN Merged(s[k], Single(e)) ELSE Single(e)
<1>1. e.line \in Nat \ {0} /\ e.at \in Nat
  BY DEF ErrorRows
<1>2. Kind[e] = k
  BY DEF Kind
<1>3. R!AddError(s, e) = R!Put(s, k, new)
  BY Zenon DEF R!AddError
<1> HIDE DEF k
<1>4. new = v
  <2>1. CASE k \in DOMAIN s
    BY <2>1 DEF Merged, Single
  <2>2. CASE k \notin DOMAIN s
    BY <1>1, <2>2 DEF Single
  <2> QED
    BY <2>1, <2>2
<1> HIDE DEF new, v
<1>5. R!MergeItem(s, k, Single(e)) = R!Put(s, k, v)
  BY MergeIsPut DEF v
<1> QED
  BY <1>2, <1>3, <1>4, <1>5

LEMMA NothingExact == ASSUME NEW key PROVE Exact(<<>>, {}, key)
  BY DEF Exact

LEMMA NoSums == ASSUME NEW KS PROVE <<>> \in Sums(KS)
<1>1. <<>> \in [{} -> Items]
  OBVIOUS
<1> QED
  BY <1>1 DEF Sums

LEMMA SummarizeExact ==
    ASSUME NEW T \in SUBSET ErrorRows, IsFiniteSet(T)
    PROVE  /\ R!summarizeValidationErrors(T) \in Sums({Kind[e] : e \in ErrorRows})
           /\ Exact(R!summarizeValidationErrors(T), T, Kind)
<1> DEFINE KS == {Kind[e] : e \in ErrorRows}
           A == Sums(KS)
           Body(it) == [S \in SUBSET T |-> IF S = {} THEN <<>>
                                           ELSE R!AddError(it[S \ {Any(S)}], Any(S))]
           st == [p \in A \X T |-> R!MergeItem(p[1], Kind[p[2]], Single(p[2]))]
           f == CHOOSE it : it = Body(it)
<1>1. R!summarizeValidationErrors(T) = f[T]
  BY Zenon DEF R!summarizeValidationErrors, R!FoldSet, R!MapThenFoldSet, Any
<1>2. st \in [A \X T -> A]
  <2>1. ASSUME NEW p \in A \X T PROVE R!MergeItem(p[1], Kind[p[2]], Single(p[2])) \in A
    <3>1. p[1] \in A /\ p[2] \in ErrorRows /\ Kind[p[2]] \in KS /\ Single(p[2]) \in Items
      BY SingleFits
    <3> HIDE DEF KS
    <3> QED
      BY <3>1, MergeType
  <2> HIDE DEF A
  <2> QED
    BY <2>1
<1>3. PICK g : IsFold(g, T, A, <<>>, st)
  <2> DEFINE base == <<>>
  <2>1. base \in A
    BY NoSums
  <2> HIDE DEF A, st, base
  <2>2. \E g : IsFold(g, T, A, base, st)
    BY <1>2, <2>1, FoldExists
  <2> QED
    BY <2>2 DEF base
<1>4. ASSUME NEW S \in SUBSET T, S # {}, NEW r \in A
      PROVE  /\ Any(S) \in S /\ S \ {Any(S)} \in SUBSET T /\ Any(S) \in ErrorRows
             /\ st[<<r, Any(S)>>] = R!AddError(r, Any(S))
             /\ R!AddError(r, Any(S)) = R!MergeItem(r, Kind[Any(S)], Single(Any(S)))
  <2>1. Any(S) \in S /\ Any(S) \in T /\ Any(S) \in ErrorRows
    BY <1>4, AnyIn
  <2>2. R!AddError(r, Any(S)) = R!MergeItem(r, Kind[Any(S)], Single(Any(S)))
    <3> HIDE DEF KS
    <3> QED
      BY <2>1, AddIsMerge
  <2>3. st[<<r, Any(S)>>] = R!MergeItem(r, Kind[Any(S)], Single(Any(S)))
    <3> HIDE DEF A
    <3>1. <<r, Any(S)>> \in A \X T
      BY <2>1
    <3> QED
      BY <3>1
  <2> QED
    BY <2>1, <2>2, <2>3
<1>5. g = Body(g)
  <2>1. ASSUME NEW S \in SUBSET T PROVE g[S] = Body(g)[S]
    <3>1. CASE S = {}
      BY <1>3, <3>1 DEF IsFold, FoldStep
    <3>2. CASE S # {}
      <4>1. g[S] = st[<<g[S \ {Any(S)}], Any(S)>>]
        <5> HIDE DEF st, A
        <5> QED
          BY <1>3, <3>2 DEF IsFold, FoldStep
      <4>2. S \ {Any(S)} \in SUBSET T
        OBVIOUS
      <4> HIDE DEF st, A
      <4>3. g[S \ {Any(S)}] \in A
        BY <1>3, <4>2 DEF IsFold
      <4>4. g[S] = R!AddError(g[S \ {Any(S)}], Any(S))
        BY <1>4, <3>2, <4>1, <4>3
      <4> QED
        BY <3>2, <4>4
    <3> QED
      BY <3>1, <3>2
  <2>2. DOMAIN g = SUBSET T /\ DOMAIN Body(g) = SUBSET T /\ g = [S \in SUBSET T |-> g[S]]
    <3> HIDE DEF A, st
    <3> QED
      BY <1>3 DEF IsFold
  <2> HIDE DEF A, st
  <2> QED
    BY <2>1, <2>2
<1>6. f = Body(f)
  <2> HIDE DEF Body
  <2> QED
    BY <1>5
<1> HIDE DEF f, st
<1>7. f[{}] = <<>> /\ \A S \in SUBSET T : S # {} => f[S] = R!AddError(f[S \ {Any(S)}], Any(S))
  BY <1>6
<1> DEFINE Good == {S \in SUBSET T : f[S] \in A /\ Exact(f[S], S, Kind)}
<1> HIDE DEF Body
<1>8. {} \in Good
  BY <1>7, NoSums, NothingExact
<1>9. ASSUME NEW S \in SUBSET T, S # {}, S \ {Any(S)} \in Good PROVE S \in Good
  <2> DEFINE e == Any(S)
             S1 == S \ {Any(S)}
  <2>1. S1 \in SUBSET T /\ f[S1] \in A /\ Exact(f[S1], S1, Kind)
    BY <1>9
  <2>2. /\ e \in S /\ e \in ErrorRows
        /\ f[S] = R!MergeItem(f[S1], Kind[e], Single(e))
    <3> HIDE DEF A
    <3> QED
      BY <1>4, <1>7, <1>9, <2>1
  <2>3. Fits(Single(e), {e}) /\ Single(e) \in Items /\ Kind[e] \in KS
    BY <2>2, SingleFits
  <2>4. f[S] \in A
    <3> HIDE DEF KS, e, S1
    <3> QED
      BY <2>1, <2>2, <2>3, MergeType
  <2>5. /\ S1 \in SUBSET ErrorRows /\ {e} \in SUBSET ErrorRows /\ IsFiniteSet(S1)
        /\ IsFiniteSet({e}) /\ S1 \cap {e} = {} /\ S = S1 \cup {e}
    <3>1. IsFiniteSet(S1) /\ IsFiniteSet({e})
      BY <2>1, FS_Subset, FS_Singleton
    <3> QED
      BY <2>1, <2>2, <3>1
  <2>6. Exact(f[S], S, Kind)
    <3> HIDE DEF e, S1
    <3>1. {e} # {} /\ \A x \in {e} : Kind[x] = Kind[e]
      OBVIOUS
    <3>2. Exact(R!MergeItem(f[S1], Kind[e], Single(e)), S1 \cup {e}, Kind)
      BY <2>1, <2>3, <2>5, <3>1, MergeExact
    <3> QED
      BY <2>2, <2>5, <3>2
  <2> QED
    BY <2>4, <2>6
<1> HIDE DEF Good
<1>10. T \in Good
  BY <1>8, <1>9, SubsetInduction
<1> QED
  BY <1>1, <1>10 DEF Good

-----------------------------------------------------------------------------
(* MergeItems: the summary of one job joins the one of the jobs before it *)

InFile(k, f) == <<k[1], k[2], k[3], f>>

\* h goes through the items of a job and merges each into s.
MergesItems(h, KS, s, items, f) ==
    /\ h \in [SUBSET (DOMAIN items) -> Sums(KS)]
    /\ h[{}] = s
    /\ \A S \in SUBSET (DOMAIN items) : S # {} =>
          h[S] = R!MergeItem(h[S \ {Any(S)}], InFile(Any(S), f), items[Any(S)])

LEMMA MergeItemsSteps ==
    ASSUME NEW KS, NEW s, s \in Sums(KS), NEW LS, NEW items, items \in Sums(LS), NEW f,
           IsFiniteSet(DOMAIN items), \A k \in DOMAIN items : InFile(k, f) \in KS
    PROVE  \E h : /\ MergesItems(h, KS, s, items, f)
                  /\ R!MergeItems(s, items, f) = h[DOMAIN items]
<1> DEFINE T == DOMAIN items
           A == Sums(KS)
           Body(it) == [S \in SUBSET T |-> IF S = {} THEN s
                           ELSE R!MergeItem(it[S \ {Any(S)}], InFile(Any(S), f), items[Any(S)])]
           st == [p \in A \X T |-> R!MergeItem(p[1], InFile(p[2], f), items[p[2]])]
           h == CHOOSE it : it = Body(it)
<1>1. R!MergeItems(s, items, f) = h[T]
  BY Zenon DEF R!MergeItems, R!FoldSet, R!MapThenFoldSet, Any, InFile
<1>2. ASSUME NEW k \in T PROVE items[k] \in Items /\ InFile(k, f) \in KS
  <2>1. items[k] \in Items
    BY DEF Sums
  <2> QED
    BY <2>1
<1> HIDE DEF T
<1>3. ASSUME NEW r \in A, NEW k \in T
      PROVE  /\ R!MergeItem(r, InFile(k, f), items[k]) \in A
             /\ st[<<r, k>>] = R!MergeItem(r, InFile(k, f), items[k])
  <2>1. R!MergeItem(r, InFile(k, f), items[k]) \in A
    BY <1>2, MergeType
  <2>2. <<r, k>> \in A \X T
    OBVIOUS
  <2> HIDE DEF A
  <2> QED
    BY <2>1, <2>2
<1>4. st \in [A \X T -> A]
  <2> HIDE DEF A
  <2>1. ASSUME NEW p \in A \X T PROVE R!MergeItem(p[1], InFile(p[2], f), items[p[2]]) \in A
    BY <1>3
  <2> QED
    BY <2>1
<1> HIDE DEF st
<1>5. PICK g : IsFold(g, T, A, s, st)
  <2>1. s \in A /\ IsFiniteSet(T)
    BY DEF T
  <2> HIDE DEF A
  <2> QED
    BY <1>4, <2>1, FoldExists
<1> HIDE DEF A
<1>6. /\ g \in [SUBSET T -> A] /\ g[{}] = s
      /\ \A S \in SUBSET T : S # {} => g[S] = st[<<g[S \ {Any(S)}], Any(S)>>]
  BY <1>5 DEF IsFold, FoldStep
<1>7. g = Body(g)
  <2>1. ASSUME NEW S \in SUBSET T, S # {}
        PROVE  g[S] = R!MergeItem(g[S \ {Any(S)}], InFile(Any(S), f), items[Any(S)])
    <3>1. Any(S) \in T /\ S \ {Any(S)} \in SUBSET T
      BY <2>1, AnyIn
    <3>2. g[S \ {Any(S)}] \in A
      BY <1>6, <3>1
    <3> QED
      BY <1>3, <1>6, <2>1, <3>1, <3>2
  <2>2. ASSUME NEW S \in SUBSET T PROVE g[S] = Body(g)[S]
    BY <1>6, <2>1
  <2>3. g = [S \in SUBSET T |-> g[S]]
    BY <1>6
  <2>4. DOMAIN Body(g) = SUBSET T /\ Body(g) = [S \in SUBSET T |-> Body(g)[S]]
    OBVIOUS
  <2> HIDE DEF Body
  <2> QED
    BY <2>2, <2>3, <2>4
<1>8. h = Body(h)
  <2> HIDE DEF Body
  <2> QED
    BY <1>7
<1> HIDE DEF h
<1>9. /\ h[{}] = s
      /\ \A S \in SUBSET T : S # {} =>
            h[S] = R!MergeItem(h[S \ {Any(S)}], InFile(Any(S), f), items[Any(S)])
  BY <1>8
<1> HIDE DEF Body
<1> DEFINE Good == {S \in SUBSET T : h[S] \in A}
<1>10. {} \in Good
  BY <1>9 DEF A
<1>11. ASSUME NEW S \in SUBSET T, S # {}, S \ {Any(S)} \in Good PROVE S \in Good
  <2>1. Any(S) \in T
    BY <1>11, AnyIn
  <2> QED
    BY <1>3, <1>9, <1>11, <2>1
<1>12. \A S \in SUBSET T : S \in Good
  <2>1. IsFiniteSet(T)
    BY DEF T
  <2> HIDE DEF Good
  <2> QED
    BY <1>10, <1>11, <2>1, SubsetInduction
<1>13. h \in [SUBSET T -> A]
  <2>1. h = [S \in SUBSET T |-> h[S]]
    <3>1. Body(h) = [S \in SUBSET T |-> Body(h)[S]]
      BY DEF Body
    <3> QED
      BY <1>8, <3>1
  <2> QED
    BY <1>12, <2>1
<1>14. MergesItems(h, KS, s, items, f)
  BY <1>9, <1>13 DEF MergesItems, A, T
<1> QED
  BY <1>1, <1>14 DEF T

LEMMA MergeItemsExact ==
    ASSUME NEW KS, NEW s, s \in Sums(KS), NEW LS, NEW items, items \in Sums(LS), NEW f,
           IsFiniteSet(DOMAIN items), \A k \in DOMAIN items : InFile(k, f) \in KS,
           NEW E \in SUBSET ErrorRows, NEW G \in SUBSET ErrorRows, IsFiniteSet(E), IsFiniteSet(G),
           E \cap G = {}, NEW key, NEW kind, \A e \in G : key[e] = InFile(kind[e], f),
           Exact(s, E, key), Exact(items, G, kind)
    PROVE  Exact(R!MergeItems(s, items, f), E \cup G, key)
<1> DEFINE T == DOMAIN items
<1>1. PICK h : MergesItems(h, KS, s, items, f) /\ R!MergeItems(s, items, f) = h[T]
  BY MergeItemsSteps
<1>2. /\ h[{}] = s
      /\ \A S \in SUBSET T : S # {} =>
            h[S] = R!MergeItem(h[S \ {Any(S)}], InFile(Any(S), f), items[Any(S)])
  BY <1>1 DEF MergesItems
<1> HIDE DEF T
<1> DEFINE Of(S) == {e \in G : kind[e] \in S}
           Good == {S \in SUBSET T : Exact(h[S], E \cup Of(S), key)}
<1>3. {} \in Good
  <2>1. E \cup Of({}) = E
    OBVIOUS
  <2> QED
    BY <1>2, <2>1
<1>4. ASSUME NEW S \in SUBSET T, S # {}, S \ {Any(S)} \in Good PROVE S \in Good
  <2> DEFINE k == Any(S)
             S1 == S \ {Any(S)}
             H == {e \in G : kind[e] = k}
  <2>1. S1 \in SUBSET T /\ Exact(h[S1], E \cup Of(S1), key)
    BY <1>4
  <2>2. k \in S /\ k \in T /\ h[S] = R!MergeItem(h[S1], InFile(k, f), items[k])
    BY <1>2, <1>4, AnyIn
  <2>4. Fits(items[k], H) /\ H # {}
    BY <2>2 DEF Exact, T
  <2>5. \A e \in H : key[e] = InFile(k, f)
    OBVIOUS
  <2>6. /\ E \cup Of(S1) \in SUBSET ErrorRows /\ H \in SUBSET ErrorRows
        /\ (E \cup Of(S1)) \cap H = {} /\ E \cup Of(S) = (E \cup Of(S1)) \cup H
    BY <2>2
  <2>7. IsFiniteSet(E \cup Of(S1)) /\ IsFiniteSet(H)
    <3>1. Of(S1) \in SUBSET G /\ H \in SUBSET G
      OBVIOUS
    <3> HIDE DEF Of, H
    <3>2. IsFiniteSet(Of(S1)) /\ IsFiniteSet(H)
      BY <3>1, FS_Subset
    <3> QED
      BY <3>2, FS_Union
  <2> HIDE DEF Of, H, k, S1
  <2>8. Exact(R!MergeItem(h[S1], InFile(k, f), items[k]), (E \cup Of(S1)) \cup H, key)
    BY <2>1, <2>4, <2>5, <2>6, <2>7, MergeExact
  <2> QED
    BY <2>2, <2>6, <2>8
<1>5. T \in Good
  <2>1. IsFiniteSet(T)
    BY DEF T
  <2> HIDE DEF Good
  <2> QED
    BY <1>3, <1>4, <2>1, SubsetInduction
<1>6. Of(T) = G
  BY DEF Exact, T
<1> QED
  BY <1>1, <1>5, <1>6

-----------------------------------------------------------------------------
(* BuildValidationErrorSummary: all jobs *)

\* The errors of every job are rows of T that name the job, and key is their
\* kind with the file of their job.
Filed(repo, T, key) ==
    \A j \in DOMAIN repo.jobs :
       /\ repo.errors[j] \in SUBSET T
       /\ \A e \in repo.errors[j] : /\ e.job = j
                                    /\ key[e] = InFile(Kind[e], repo.jobs[j].file)

LEMMA BuildExact ==
    ASSUME NEW repo, IsFiniteSet(DOMAIN repo.jobs), NEW T \in SUBSET ErrorRows, IsFiniteSet(T),
           NEW key, Filed(repo, T, key)
    PROVE  Exact(R!BuildValidationErrorSummary(repo),
                 UNION {repo.errors[j] : j \in DOMAIN repo.jobs}, key)
<1> DEFINE D == DOMAIN repo.jobs
           file(j) == repo.jobs[j].file
           Kinds == {Kind[e] : e \in ErrorRows}
           KS == {InFile(k, file(j)) : k \in Kinds, j \in D}
           A == Sums(KS)
           items(j) == R!summarizeValidationErrors(repo.errors[j])
           Body(it) == [S \in SUBSET D |-> IF S = {} THEN <<>>
                           ELSE R!MergeItems(it[S \ {Any(S)}], items(Any(S)), file(Any(S)))]
           st == [p \in A \X D |-> R!MergeItems(p[1], items(p[2]), file(p[2]))]
           h == CHOOSE it : it = Body(it)
<1>1. R!BuildValidationErrorSummary(repo) = h[D]
  BY Zenon DEF R!BuildValidationErrorSummary, R!FoldSet, R!MapThenFoldSet, Any
<1>2. ASSUME NEW j \in D
      PROVE  /\ repo.errors[j] \in SUBSET ErrorRows /\ IsFiniteSet(repo.errors[j])
             /\ items(j) \in Sums(Kinds) /\ Exact(items(j), repo.errors[j], Kind)
             /\ IsFiniteSet(DOMAIN items(j))
             /\ \A k \in DOMAIN items(j) : InFile(k, file(j)) \in KS
             /\ \A e \in repo.errors[j] : e.job = j /\ key[e] = InFile(Kind[e], file(j))
  <2>1. /\ repo.errors[j] \in SUBSET T
        /\ \A e \in repo.errors[j] : e.job = j /\ key[e] = InFile(Kind[e], file(j))
    BY DEF Filed
  <2>2. repo.errors[j] \in SUBSET ErrorRows /\ IsFiniteSet(repo.errors[j])
    BY <2>1, FS_Subset
  <2>3. items(j) \in Sums(Kinds) /\ Exact(items(j), repo.errors[j], Kind)
    BY <2>2, SummarizeExact
  <2> DEFINE K == {Kind[e] : e \in repo.errors[j]}
  <2>4. DOMAIN items(j) = K /\ K \in SUBSET Kinds
    BY <2>2, <2>3 DEF Exact
  <2>5. IsFiniteSet(K)
    <3> DEFINE F == [e \in repo.errors[j] |-> Kind[e]]
    <3>1. F \in Surjection(repo.errors[j], K)
      BY DEF Surjection
    <3> HIDE DEF F, K
    <3> QED
      BY <2>2, <3>1, FS_Surjection, Zenon
  <2>6. \A k \in Kinds : InFile(k, file(j)) \in KS
    OBVIOUS
  <2> HIDE DEF K, KS, Kinds, items, file
  <2> QED
    BY <2>1, <2>2, <2>3, <2>4, <2>5, <2>6
<1> HIDE DEF KS, Kinds, items, file, D
<1>3. ASSUME NEW r \in A, NEW j \in D
      PROVE  /\ R!MergeItems(r, items(j), file(j)) \in A
             /\ st[<<r, j>>] = R!MergeItems(r, items(j), file(j))
  <2>1. PICK g : /\ MergesItems(g, KS, r, items(j), file(j))
                 /\ R!MergeItems(r, items(j), file(j)) = g[DOMAIN items(j)]
    BY <1>2, MergeItemsSteps
  <2>2. R!MergeItems(r, items(j), file(j)) \in A
    BY <2>1 DEF MergesItems
  <2>3. <<r, j>> \in A \X D
    OBVIOUS
  <2> HIDE DEF A
  <2> QED
    BY <2>2, <2>3
<1>4. st \in [A \X D -> A]
  <2> HIDE DEF A
  <2>1. ASSUME NEW p \in A \X D PROVE R!MergeItems(p[1], items(p[2]), file(p[2])) \in A
    BY <1>3
  <2> QED
    BY <2>1
<1> HIDE DEF st
<1>5. PICK g : IsFold(g, D, A, <<>>, st)
  <2> DEFINE base == <<>>
  <2>1. base \in A /\ IsFiniteSet(D)
    BY NoSums DEF D
  <2> HIDE DEF A, base
  <2>2. \E g : IsFold(g, D, A, base, st)
    BY <1>4, <2>1, FoldExists
  <2> QED
    BY <2>2 DEF base
<1> HIDE DEF A
<1>6. /\ g \in [SUBSET D -> A] /\ g[{}] = <<>>
      /\ \A S \in SUBSET D : S # {} => g[S] = st[<<g[S \ {Any(S)}], Any(S)>>]
  BY <1>5 DEF IsFold, FoldStep
<1>7. g = Body(g)
  <2>1. ASSUME NEW S \in SUBSET D, S # {}
        PROVE  g[S] = R!MergeItems(g[S \ {Any(S)}], items(Any(S)), file(Any(S)))
    <3>1. Any(S) \in D /\ S \ {Any(S)} \in SUBSET D
      BY <2>1, AnyIn
    <3>2. g[S \ {Any(S)}] \in A
      BY <1>6, <3>1
    <3> QED
      BY <1>3, <1>6, <2>1, <3>1, <3>2
  <2>2. ASSUME NEW S \in SUBSET D PROVE g[S] = Body(g)[S]
    BY <1>6, <2>1
  <2>3. g = [S \in SUBSET D |-> g[S]]
    BY <1>6
  <2>4. Body(g) = [S \in SUBSET D |-> Body(g)[S]]
    OBVIOUS
  <2> HIDE DEF Body
  <2> QED
    BY <2>2, <2>3, <2>4
<1>8. h = Body(h)
  <2> HIDE DEF Body
  <2> QED
    BY <1>7
<1> HIDE DEF h
<1>9. /\ h[{}] = <<>>
      /\ \A S \in SUBSET D : S # {} =>
            h[S] = R!MergeItems(h[S \ {Any(S)}], items(Any(S)), file(Any(S)))
  BY <1>8
<1> HIDE DEF Body
<1> DEFINE Of(S) == UNION {repo.errors[j] : j \in S}
           Good == {S \in SUBSET D : h[S] \in A /\ Exact(h[S], Of(S), key)}
<1>10. {} \in Good
  <2>1. Of({}) = {}
    OBVIOUS
  <2> QED
    BY <1>9, <2>1, NoSums, NothingExact DEF A
<1>11. ASSUME NEW S \in SUBSET D, S # {}, S \ {Any(S)} \in Good PROVE S \in Good
  <2> DEFINE j == Any(S)
             S1 == S \ {Any(S)}
             G == repo.errors[j]
  <2>1. S1 \in SUBSET D /\ h[S1] \in A /\ Exact(h[S1], Of(S1), key)
    BY <1>11
  <2>2. j \in S /\ j \in D /\ j \notin S1 /\ S = S1 \cup {j}
    BY <1>11, AnyIn
  <2>3. h[S] = R!MergeItems(h[S1], items(j), file(j))
    BY <1>9, <1>11
  <2>4. h[S] \in A
    <3> HIDE DEF j, S1
    <3> QED
      BY <1>3, <2>1, <2>2, <2>3
  <2>5. Of(S1) \in SUBSET T /\ G \in SUBSET T
    BY <2>1, <2>2 DEF Filed, D
  <2>6. Of(S1) \cap G = {}
    <3>1. ASSUME NEW e \in Of(S1), e \in G PROVE FALSE
      <4>1. PICK i \in S1 : e \in repo.errors[i]
        OBVIOUS
      <4>2. e.job = i /\ e.job = j
        BY <1>2, <2>1, <2>2, <3>1, <4>1
      <4> QED
        BY <2>2, <4>2
    <3> HIDE DEF Of, G
    <3> QED
      BY <3>1
  <2>7. Of(S) = Of(S1) \cup G
    <3>1. {repo.errors[i] : i \in S} = {repo.errors[i] : i \in S1} \cup {repo.errors[j]}
      <4> HIDE DEF j, S1
      <4> QED
        BY <2>2
    <3> QED
      BY <3>1
  <2>8. IsFiniteSet(Of(S1)) /\ IsFiniteSet(G)
    <3> HIDE DEF Of, G
    <3> QED
      BY <2>5, FS_Subset
  <2>9. Of(S1) \in SUBSET ErrorRows /\ G \in SUBSET ErrorRows
    <3> HIDE DEF Of, G
    <3> QED
      BY <2>5
  <2>10. /\ items(j) \in Sums(Kinds) /\ Exact(items(j), G, Kind)
         /\ IsFiniteSet(DOMAIN items(j))
         /\ \A k \in DOMAIN items(j) : InFile(k, file(j)) \in KS
         /\ \A e \in G : key[e] = InFile(Kind[e], file(j))
    <3> HIDE DEF j
    <3> QED
      BY <1>2, <2>2
  <2>11. h[S1] \in Sums(KS)
    BY <2>1 DEF A
  <2> HIDE DEF Of, G, j, S1
  <2>12. Exact(R!MergeItems(h[S1], items(j), file(j)), Of(S1) \cup G, key)
    BY <2>1, <2>6, <2>8, <2>9, <2>10, <2>11, MergeItemsExact
  <2> QED
    BY <2>3, <2>4, <2>7, <2>12
<1>12. D \in Good
  <2>1. IsFiniteSet(D)
    BY DEF D
  <2> HIDE DEF Good
  <2> QED
    BY <1>10, <1>11, <2>1, SubsetInduction
<1> QED
  BY <1>1, <1>12 DEF D

-----------------------------------------------------------------------------
(* The summary of the rows in Postgres *)

LEMMA ExtremesAre ==
    ASSUME NEW N \in SUBSET Nat, NEW lo \in N, NEW hi \in N,
           \A n \in N : lo <= n /\ n <= hi
    PROVE  Min(N) = lo /\ Max(N) = hi
<1>1. \A x \in N : (\A y \in N : x =< y) => x = lo
  OBVIOUS
<1>2. \A x \in N : (\A y \in N : x >= y) => x = hi
  OBVIOUS
<1>3. Min(N) \in N /\ \A y \in N : Min(N) =< y
  BY DEF Min
<1>4. Max(N) \in N /\ \A y \in N : Max(N) >= y
  BY DEF Max
<1> QED
  BY <1>1, <1>2, <1>3, <1>4

LEMMA FitsExactly ==
    ASSUME NEW G \in SUBSET ErrorRows, NEW item, Fits(item, G)
    PROVE  item = [count     |-> Cardinality(G),
                   firstLine |-> Min({e.line : e \in G}),
                   lastLine  |-> Max({e.line : e \in G}),
                   firstSeen |-> Min({e.at : e \in G}),
                   lastSeen  |-> Max({e.at : e \in G})]
<1> DEFINE Lines == {e.line : e \in G}
           Times == {e.at : e \in G}
<1>1. Lines \in SUBSET Nat /\ Times \in SUBSET Nat
  BY DEF ErrorRows
<1>2. /\ item.firstLine \in Lines /\ item.lastLine \in Lines
      /\ \A n \in Lines : item.firstLine <= n /\ n <= item.lastLine
  BY DEF Fits
<1>3. /\ item.firstSeen \in Times /\ item.lastSeen \in Times
      /\ \A n \in Times : item.firstSeen <= n /\ n <= item.lastSeen
  BY DEF Fits
<1>4. item.count = Cardinality(G)
  BY DEF Fits
<1>5. item = [count |-> item.count, firstLine |-> item.firstLine, lastLine |-> item.lastLine,
              firstSeen |-> item.firstSeen, lastSeen |-> item.lastSeen]
  BY DEF Fits, Items
<1> HIDE DEF Lines, Times
<1>6. Min(Lines) = item.firstLine /\ Max(Lines) = item.lastLine
  BY <1>1, <1>2, ExtremesAre
<1>7. Min(Times) = item.firstSeen /\ Max(Times) = item.lastSeen
  BY <1>1, <1>3, ExtremesAre
<1> QED
  BY <1>4, <1>5, <1>6, <1>7 DEF Lines, Times

-----------------------------------------------------------------------------
(* Every row of validation_errors is a row of its own: at says in which    *)
(* completion it was recorded, n where in it.                              *)

Stamped(rows, t) ==
    /\ \A i \in DOMAIN rows : rows[i].at < t
    /\ \A i, k \in DOMAIN rows :
          rows[i].at = rows[k].at /\ rows[i].n = rows[k].n => i = k

StampInv == Stamped(pg.errors, now)

LEMMA StampedLater ==
    ASSUME NEW rows \in Seq(ErrorRows), NEW t \in Nat, NEW u \in Nat, t <= u, Stamped(rows, t)
    PROVE  Stamped(rows, u)
<1>1. ASSUME NEW i \in DOMAIN rows PROVE rows[i].at < u
  <2>1. rows[i] \in ErrorRows
    OBVIOUS
  <2>2. rows[i].at \in Nat
    BY <2>1 DEF ErrorRows
  <2> QED
    BY <2>2 DEF Stamped
<1> QED
  BY <1>1 DEF Stamped

LEMMA StampedConcat ==
    ASSUME NEW rows \in Seq(ErrorRows), NEW t \in Nat, Stamped(rows, t),
           NEW j \in Nat, NEW errors \in Seq(FailureRows)
    PROVE  Stamped(rows \o ErrorsOf(j, errors, t), t + 1)
<1> DEFINE E == ErrorsOf(j, errors, t)
           L == Len(rows)
           all == rows \o E
<1>1. /\ E \in Seq(ErrorRows) /\ Len(E) = Len(errors)
      /\ \A i \in 1 .. Len(errors) : E[i].at = t /\ E[i].n = i
  <2>1. E \in Seq(ErrorRows)
    BY ErrorsOfTyped
  <2>2. DOMAIN errors = 1 .. Len(errors) /\ Len(errors) \in Nat
    OBVIOUS
  <2>3. DOMAIN E = 1 .. Len(errors) /\ \A i \in 1 .. Len(errors) : E[i].at = t /\ E[i].n = i
    BY <2>2 DEF ErrorsOf
  <2> HIDE DEF E
  <2> QED
    BY <2>1, <2>2, <2>3
<1> HIDE DEF E
<1>2. /\ L \in Nat /\ Len(errors) \in Nat /\ DOMAIN all = 1 .. L + Len(errors)
      /\ \A i \in 1 .. L : all[i] = rows[i] /\ i \in DOMAIN rows
      /\ \A i \in (L + 1) .. (L + Len(errors)) : all[i] = E[i - L] /\ i - L \in 1 .. Len(errors)
  <2>1. L \in Nat /\ Len(errors) \in Nat /\ DOMAIN rows = 1 .. L
    OBVIOUS
  <2>2. /\ DOMAIN all = 1 .. L + Len(E)
        /\ \A i \in 1 .. L : all[i] = rows[i]
        /\ \A i \in 1 .. Len(E) : all[L + i] = E[i]
    <3>1. E \in Seq(ErrorRows)
      BY <1>1
    <3> QED
      BY <3>1
  <2> HIDE DEF all, L
  <2>3. ASSUME NEW i \in (L + 1) .. (L + Len(errors))
        PROVE  all[i] = E[i - L] /\ i - L \in 1 .. Len(errors)
    <3>1. i - L \in 1 .. Len(E) /\ i = L + (i - L)
      BY <1>1, <2>1
    <3>2. all[L + (i - L)] = E[i - L]
      BY <2>2, <3>1
    <3> QED
      BY <1>1, <3>1, <3>2
  <2> QED
    BY <1>1, <2>1, <2>2, <2>3
<1> HIDE DEF all, L
<1>3. \A i \in 1 .. L : all[i].at \in Nat /\ all[i].at < t
  <2> SUFFICES ASSUME NEW i \in 1 .. L PROVE all[i].at \in Nat /\ all[i].at < t
    OBVIOUS
  <2>1. all[i] = rows[i] /\ i \in DOMAIN rows
    BY <1>2
  <2>2. rows[i] \in ErrorRows
    BY <2>1
  <2> QED
    BY <2>1, <2>2 DEF Stamped, ErrorRows
<1>4. \A i \in (L + 1) .. (L + Len(errors)) : all[i].at = t /\ all[i].n = i - L
  BY <1>1, <1>2
<1>5. \A i \in DOMAIN all : i \in 1 .. L \/ i \in (L + 1) .. (L + Len(errors))
  BY <1>2
<1>6. ASSUME NEW i \in DOMAIN all PROVE all[i].at < t + 1
  BY <1>3, <1>4, <1>5
<1>7. ASSUME NEW i \in DOMAIN all, NEW k \in DOMAIN all,
             all[i].at = all[k].at, all[i].n = all[k].n
      PROVE  i = k
  <2>1. CASE i \in 1 .. L /\ k \in 1 .. L
    BY <1>2, <1>7, <2>1 DEF Stamped
  <2>2. CASE i \in (L + 1) .. (L + Len(errors)) /\ k \in (L + 1) .. (L + Len(errors))
    BY <1>2, <1>4, <1>7, <2>2
  <2>3. CASE i \in 1 .. L /\ k \in (L + 1) .. (L + Len(errors))
    BY <1>3, <1>4, <1>7, <2>3
  <2>4. CASE k \in 1 .. L /\ i \in (L + 1) .. (L + Len(errors))
    BY <1>3, <1>4, <1>7, <2>4
  <2> QED
    BY <1>5, <2>1, <2>2, <2>3, <2>4
<1> QED
  BY <1>6, <1>7 DEF Stamped, all, E

\* Only a completion writes to validation_errors.
LEMMA OthersKeepErrors ==
    ASSUME NEW p \in Dbs
    PROVE  /\ \A name : P!CreateDataset(p, name).db.errors = p.errors
           /\ \A d, rows : P!CreateEventFile(p, d, rows).db.errors = p.errors
           /\ \A key : P!GetReplayJobByIdempotencyKey(p, key).db = p
           /\ \A d, f, key : P!InsertReplayJob(p, d, f, key).db.errors = p.errors
           /\ \A id, at : P!CancelReplayJob(p, id, at).db.errors = p.errors
           /\ \A id, s, e, at : P!UpdateReplayJobStatus(p, id, s, e, at).db.errors = p.errors
           /\ \A id, line : P!UpdateReplayCheckpoint(p, id, line).db.errors = p.errors
           /\ \A f, rows : P!UpdateEventFileStats(p, f, rows).db.errors = p.errors
           /\ \A id, m : P!UpdateReplayManifest(p, id, m).db.errors = p.errors
<1> USE DEF P!Mapped, P!q!Done, P!q!Err, Dbs
<1>1. \A name : P!CreateDataset(p, name).db.errors = p.errors
  BY DEF P!CreateDataset, P!q!CreateDataset
<1>2. \A d, rows : P!CreateEventFile(p, d, rows).db.errors = p.errors
  BY DEF P!CreateEventFile, P!q!CreateEventFile
<1>3. \A key : P!GetReplayJobByIdempotencyKey(p, key).db = p
  BY DEF P!GetReplayJobByIdempotencyKey, P!q!GetReplayJobByIdempotencyKey
<1>4. ASSUME NEW d, NEW f, NEW key PROVE P!InsertReplayJob(p, d, f, key).db.errors = p.errors
  <2> DEFINE got == P!GetReplayJobByIdempotencyKey(p, key)
             r == P!q!CreateReplayJob(p, d, f, key)
  <2>1. got.db = p
    BY <1>3
  <2>2. r.db.errors = p.errors
    BY DEF P!q!CreateReplayJob
  <2>3. [got EXCEPT !.err = IF @ = "nil" THEN "exists" ELSE @].db = got.db
    BY DEF P!GetReplayJobByIdempotencyKey, P!q!GetReplayJobByIdempotencyKey
  <2>4. P!Mapped(r).db = r.db
    BY DEF P!q!CreateReplayJob
  <2> HIDE DEF got, r
  <2> QED
    BY <2>1, <2>2, <2>3, <2>4 DEF P!InsertReplayJob, got, r
<1>5. \A id, at : P!CancelReplayJob(p, id, at).db.errors = p.errors
  BY DEF P!CancelReplayJob, P!q!CancelReplayJob
<1>6. \A id, s, e, at : P!UpdateReplayJobStatus(p, id, s, e, at).db.errors = p.errors
  BY DEF P!UpdateReplayJobStatus, P!q!UpdateReplayJobStatus
<1>7. \A id, line : P!UpdateReplayCheckpoint(p, id, line).db.errors = p.errors
  BY DEF P!UpdateReplayCheckpoint, P!q!UpdateReplayCheckpoint, P!Affected
<1>8. \A f, rows : P!UpdateEventFileStats(p, f, rows).db.errors = p.errors
  BY DEF P!UpdateEventFileStats, P!q!UpdateEventFileStats
<1>9. \A id, m : P!UpdateReplayManifest(p, id, m).db.errors = p.errors
  BY DEF P!UpdateReplayManifest, P!q!UpdateReplayManifest
<1> QED
  BY <1>1, <1>2, <1>3, <1>4, <1>5, <1>6, <1>7, <1>8, <1>9

LEMMA StampStep == MetadataInv /\ StampInv /\ [Next]_vars => StampInv'
<1> SUFFICES ASSUME MetadataInv, StampInv, [Next]_vars PROVE StampInv'
  OBVIOUS
<1>1. pg \in Dbs /\ pg.errors \in Seq(ErrorRows) /\ now \in Nat
  BY DEF MetadataInv, Agree, Dbs
<1>2. ASSUME pg'.errors = pg.errors, now' = now \/ now' = now + 1 PROVE StampInv'
  BY <1>1, <1>2, StampedLater DEF StampInv
<1>3. CASE UNCHANGED vars
  BY <1>2, <1>3 DEF vars
<1>4. CASE createDataset
  BY <1>1, <1>2, <1>4, OthersKeepErrors DEF createDataset, Both
<1>5. ASSUME NEW d \in Datasets, createEventFile(d) PROVE StampInv'
  BY <1>1, <1>2, <1>5, OthersKeepErrors DEF createEventFile, Both
<1>6. ASSUME NEW c \in Clients, NEW d \in Datasets, NEW f \in Files, NEW key \in Keys \cup {NoKey},
             createReplayJob(c, d, f, key)
      PROVE  StampInv'
  <2> DEFINE found == P!GetReplayJobByIdempotencyKey(pg, key)
             exists == [found EXCEPT !.err = "exists"]
  <2>1. found.db = pg
    BY <1>1, OthersKeepErrors
  <2>2. exists.db = found.db
    BY DEF P!GetReplayJobByIdempotencyKey, P!q!GetReplayJobByIdempotencyKey, P!Mapped, P!q!Done,
           P!q!Err
  <2>3. pg' = exists.db \/ UNCHANGED pg
    BY <1>6 DEF createReplayJob, Answer
  <2>4. now' = now + 1
    BY <1>6 DEF createReplayJob, Call
  <2> HIDE DEF found, exists
  <2> QED
    BY <1>2, <2>1, <2>2, <2>3, <2>4
<1>7. ASSUME NEW c \in Clients, insertReplayJob(c) PROVE StampInv'
  BY <1>1, <1>2, <1>7, OthersKeepErrors DEF insertReplayJob, Answer
<1>8. ASSUME NEW j \in Jobs, cancelReplayJob(j) PROVE StampInv'
  BY <1>1, <1>2, <1>8, OthersKeepErrors DEF cancelReplayJob, Both, Call
<1>9. ASSUME NEW j \in Jobs, NEW status \in {"running", "failed", "dlq"},
             UpdateReplayJobStatus(j, status)
      PROVE  StampInv'
  <2>1. PICK e : pg' = P!UpdateReplayJobStatus(pg, j, status, e, now).db
    BY <1>9 DEF UpdateReplayJobStatus, Both
  <2>2. now' = now + 1
    BY <1>9 DEF UpdateReplayJobStatus, Call
  <2> QED
    BY <1>1, <1>2, <2>1, <2>2, OthersKeepErrors
<1>10. ASSUME NEW j \in Jobs, NEW line \in 1 .. LastLine, UpdateReplayCheckpoint(j, line)
       PROVE  StampInv'
  BY <1>1, <1>2, <1>10, OthersKeepErrors DEF UpdateReplayCheckpoint, Both, Call
<1>11. ASSUME NEW j \in Jobs, UpdateEventFileStats(pg.jobs[j].file) PROVE StampInv'
  BY <1>1, <1>2, <1>11, OthersKeepErrors DEF UpdateEventFileStats, Both, Call
<1>12. ASSUME NEW j \in Jobs, NEW errors \in Failures, UpdateReplayManifest(j, errors)
       PROVE  StampInv'
  BY <1>1, <1>2, <1>12, OthersKeepErrors DEF UpdateReplayManifest, Both, Call
<1>13. ASSUME NEW j \in Jobs, NEW errors \in Failures, CompleteReplayJob(j, errors)
       PROVE  StampInv'
  <2> DEFINE p2 == [PutJob(pg, j, Completed(pg.jobs[j], now)) EXCEPT
                      !.metrics = Append(pg.metrics, [job |-> j, at |-> now]),
                      !.errors = pg.errors \o ErrorsOf(j, errors, now)]
  <2>1. j \in DOMAIN pg.jobs /\ j \in Nat /\ errors \in Seq(FailureRows)
    BY JobFacts, MetadataAssumption DEF FailureRows
  <2>2. P!CompleteReplayJob(pg, j, errors, now) = Ok(p2, j)
    BY <1>1, <2>1, PgComplete, Zenon
  <2>3. p2.errors = pg.errors \o ErrorsOf(j, errors, now)
    BY <1>1 DEF PutJob, Dbs
  <2> HIDE DEF p2
  <2>4. pg' = p2 /\ now' = now + 1
    BY <1>13, <2>2 DEF CompleteReplayJob, Both, Ok, Call
  <2> QED
    BY <1>1, <2>1, <2>3, <2>4, StampedConcat DEF StampInv
<1>14. ASSUME NEW j \in Jobs, ReadJob(j) PROVE StampInv'
  BY <1>2, <1>14 DEF ReadJob
<1>15. CASE ReadMetrics \/ ReadErrors
  BY <1>2, <1>15 DEF ReadMetrics, ReadErrors
<1> QED
  BY <1>3, <1>4, <1>5, <1>6, <1>7, <1>8, <1>9, <1>10, <1>11, <1>12, <1>13, <1>14, <1>15 DEF Next

LEMMA StampHolds == Spec => []StampInv
<1>1. Init => StampInv
  BY DEF Init, P!q!EmptyDb, StampInv, Stamped
<1> QED
  BY <1>1, InvHolds, StampStep, PTL DEF Spec

\* A group of rows is as large as the set of their places in the table, and
\* has the same lines and times.
LEMMA RowsAndPlaces ==
    ASSUME NEW rows \in Seq(ErrorRows), NEW t, Stamped(rows, t), NEW I \in SUBSET DOMAIN rows
    PROVE  LET G == {rows[i] : i \in I} IN
           /\ Cardinality(G) = Cardinality(I)
           /\ {e.line : e \in G} = {rows[i].line : i \in I}
           /\ {e.at : e \in G} = {rows[i].at : i \in I}
<1> DEFINE G == {rows[i] : i \in I}
           f == [i \in I |-> rows[i]]
<1>1. f \in Bijection(I, G)
  <2>1. ASSUME NEW i \in I, NEW k \in I, f[i] = f[k] PROVE i = k
    BY <2>1 DEF Stamped
  <2>2. f \in [I -> G] /\ \A e \in G : \E i \in I : f[i] = e
    OBVIOUS
  <2> HIDE DEF f, G
  <2> QED
    BY <2>1, <2>2 DEF Bijection, Injection, IsInjective, Surjection
<1>2. IsFiniteSet(I)
  BY FS_Interval, FS_Subset
<1>3. Cardinality(G) = Cardinality(I)
  <2> HIDE DEF f, G
  <2> QED
    BY <1>1, <1>2, FS_Bijection DEF ExistsBijection
<1> QED
  BY <1>3

LEMMA InvSummary == MetadataInv /\ StampInv => SummaryExact
<1> SUFFICES ASSUME MetadataInv, StampInv PROVE SummaryExact
  OBVIOUS
<1> DEFINE view == PgView
           T == {pg.errors[i] : i \in DOMAIN pg.errors}
           all == UNION {view.errors[j] : j \in Jobs}
           KeyOf(e) == <<e.type, e.symbol, R!Day(e.at), pg.jobs[e.job].file>>
           key == [e \in ErrorRows |-> KeyOf(e)]
           sums == R!BuildValidationErrorSummary(view)
<1>1. pg \in Dbs /\ Jobs = 1 .. Len(pg.jobs) /\ Len(pg.jobs) \in Nat
  BY DEF MetadataInv, Agree, Dbs, Jobs
<1>2. /\ DOMAIN view.jobs = Jobs
      /\ \A j \in Jobs : view.errors[j] = RowsOf(pg.errors, j) /\ view.jobs[j].file = pg.jobs[j].file
  <2>1. /\ view.jobs = [j \in DOMAIN P!ListReplayJobs(pg) |->
                          [dataset |-> P!ListReplayJobs(pg)[j].dataset,
                           file |-> P!ListReplayJobs(pg)[j].file]]
        /\ view.errors = [j \in Jobs |-> P!ListValidationErrors(pg, j)]
    BY DEF PgView, View
  <2>2. DOMAIN P!ListReplayJobs(pg) = Jobs
    BY DEF P!ListReplayJobs, P!q!ListReplayJobs, Jobs
  <2>3. ASSUME NEW j \in Jobs PROVE P!ListReplayJobs(pg)[j].file = pg.jobs[j].file
    <3>1. pg.jobs[j] \in PgJobs
      BY <1>1, JobFacts
    <3> QED
      BY <3>1 DEF P!ListReplayJobs, P!q!ListReplayJobs, P!convertReplayJob, PgJobs, JobRows, Jobs
  <2> HIDE DEF view
  <2> QED
    BY <2>1, <2>2, <2>3, ReadsAreRows
<1>3. IsFiniteSet(Jobs)
  BY <1>1, FS_Interval
<1>4. T \in SUBSET ErrorRows /\ IsFiniteSet(T)
  <2>1. pg.errors \in Seq(ErrorRows)
    BY <1>1 DEF Dbs
  <2>2. T \in SUBSET ErrorRows
    BY <2>1
  <2>3. pg.errors \in Surjection(1 .. Len(pg.errors), T) /\ Len(pg.errors) \in Nat
    BY <2>1 DEF Surjection
  <2>4. IsFiniteSet(1 .. Len(pg.errors))
    BY <2>3, FS_Interval
  <2> HIDE DEF T
  <2>5. IsFiniteSet(T)
    BY <2>3, <2>4, FS_Surjection, Zenon
  <2> QED
    BY <2>2, <2>5
<1>5. ASSUME NEW j \in Jobs
      PROVE  /\ view.errors[j] \in SUBSET T
             /\ \A e \in view.errors[j] :
                   e.job = j /\ key[e] = InFile(Kind[e], view.jobs[j].file)
  <2>1. view.errors[j] \in SUBSET T /\ \A e \in view.errors[j] : e.job = j
    <3> HIDE DEF view
    <3> QED
      BY <1>2 DEF RowsOf
  <2>2. ASSUME NEW e \in view.errors[j] PROVE key[e] = InFile(Kind[e], view.jobs[j].file)
    <3> HIDE DEF view, T
    <3>1. e \in ErrorRows /\ e.job = j
      BY <1>4, <2>1
    <3>2. key[e] = KeyOf(e) /\ Kind[e] = <<e.type, e.symbol, R!Day(e.at)>>
      BY <3>1 DEF Kind
    <3> QED
      BY <1>2, <3>1, <3>2 DEF InFile
  <2> QED
    BY <2>1, <2>2
<1> HIDE DEF view, T, key
<1>6. Filed(view, T, key)
  BY <1>2, <1>5 DEF Filed
<1>7. Exact(sums, all, key)
  BY <1>2, <1>3, <1>4, <1>6, BuildExact
<1>8. all = T
  <2>1. ASSUME NEW e \in T PROVE e \in all
    <3>1. PICK i \in DOMAIN pg.errors : e = pg.errors[i]
      BY DEF T
    <3>2. pg.errors \in Seq(ErrorRows) /\ TablesAgree(pg, mem)
      BY DEF MetadataInv, Agree, Dbs
    <3>3. e.job \in Jobs
      BY <1>1, <3>1, <3>2 DEF TablesAgree
    <3>4. e \in view.errors[e.job]
      BY <1>2, <3>1, <3>3 DEF RowsOf
    <3> QED
      BY <3>3, <3>4
  <2> QED
    BY <1>5, <2>1
<1> HIDE DEF all, sums
<1>9. \A e \in T : key[e] = KeyOf(e)
  BY <1>4 DEF key
<1> DEFINE Places(k) == {i \in DOMAIN pg.errors : KeyOf(pg.errors[i]) = k}
<1>10. DOMAIN sums = {KeyOf(pg.errors[i]) : i \in DOMAIN pg.errors}
  <2>1. DOMAIN sums = {KeyOf(e) : e \in T}
    <3>1. DOMAIN sums = {key[e] : e \in T}
      BY <1>7, <1>8, Zenon DEF Exact
    <3> HIDE DEF KeyOf
    <3> QED
      BY <1>9, <3>1
  <2> QED
    BY <2>1 DEF T
<1>11. ASSUME NEW k \in DOMAIN sums
       PROVE  sums[k] = [count     |-> Cardinality(Places(k)),
                         firstLine |-> Min({pg.errors[i].line : i \in Places(k)}),
                         lastLine  |-> Max({pg.errors[i].line : i \in Places(k)}),
                         firstSeen |-> Min({pg.errors[i].at : i \in Places(k)}),
                         lastSeen  |-> Max({pg.errors[i].at : i \in Places(k)})]
  <2> DEFINE I == Places(k)
             G == {pg.errors[i] : i \in I}
  <2>1. {e \in T : key[e] = k} = G
    BY <1>9 DEF T
  <2>2. Fits(sums[k], {e \in all : key[e] = k})
    BY <1>7 DEF Exact
  <2>3. Fits(sums[k], G) /\ G \in SUBSET ErrorRows
    BY <1>4, <1>8, <2>1, <2>2
  <2>4. pg.errors \in Seq(ErrorRows) /\ I \in SUBSET DOMAIN pg.errors /\ Stamped(pg.errors, now)
    BY <1>1 DEF Dbs, StampInv
  <2> HIDE DEF I
  <2>5. /\ Cardinality(G) = Cardinality(I)
        /\ {e.line : e \in G} = {pg.errors[i].line : i \in I}
        /\ {e.at : e \in G} = {pg.errors[i].at : i \in I}
    BY <2>4, RowsAndPlaces
  <2> HIDE DEF G
  <2>6. sums[k] = [count     |-> Cardinality(G),
                   firstLine |-> Min({e.line : e \in G}),
                   lastLine  |-> Max({e.line : e \in G}),
                   firstSeen |-> Min({e.at : e \in G}),
                   lastSeen  |-> Max({e.at : e \in G})]
    BY <2>3, FitsExactly
  <2> QED
    BY <2>5, <2>6, Zenon DEF I
<1> QED
  BY <1>10, <1>11, Zenon DEF SummaryExact, sums, view

(***************************************************************************)
(* The error summary counts every row of validation_errors once, under its *)
(* type, symbol, day and file, with the first and last line and time of    *)
(* its group, for any jobs and failures (two of one line may be equal in   *)
(* type) and whatever order the loops of summarizeValidationErrors and     *)
(* BuildValidationErrorSummary take.                                       *)
(***************************************************************************)
THEOREM SummaryIsExact == Spec => []SummaryExact
  BY InvHolds, StampHolds, InvSummary, PTL
=============================================================================
