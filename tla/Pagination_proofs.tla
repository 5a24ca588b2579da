---------------------------- MODULE Pagination_proofs ----------------------------
(***************************************************************************)
(* What iter_all of Pagination delivers of a table that changes under it,  *)
(* for tables and pages of any size: a row can be missed only after a      *)
(* deletion and repeated only after an insertion, and none is missed or    *)
(* repeated while nobody changes the table.                                *)
(*                                                                         *)
(* Other clients only shift the rows of a table, which keep their order:   *)
(* so that the place of a row among the rows that the filter keeps can     *)
(* only move up by an insertion and down by a deletion.                    *)
(***************************************************************************)
EXTENDS Pagination, FiniteSetTheorems, FunctionTheorems, SequenceTheorems, TLAPS

(* Counting.                                                               *)

\* Counting a set of positions up to a point finds no more than all of them.
LEMMA RankType ==
    ASSUME NEW S, IsFiniteSet(S), NEW i
    PROVE  /\ IsFiniteSet({j \in S : j <= i})
           /\ Rank(S, i) \in Nat /\ Cardinality(S) \in Nat
           /\ Rank(S, i) <= Cardinality(S)
  <1>1. {j \in S : j <= i} \in SUBSET S
    OBVIOUS
  <1>2. IsFiniteSet({j \in S : j <= i}) /\ Cardinality({j \in S : j <= i}) <= Cardinality(S)
    BY <1>1, FS_Subset
  <1>3. Cardinality({j \in S : j <= i}) \in Nat /\ Cardinality(S) \in Nat
    BY <1>2, FS_CardinalityType
  <1> QED BY <1>2, <1>3 DEF Rank

\* Positions further on count for more.
LEMMA RankIncreases ==
    ASSUME NEW S \in SUBSET Nat, IsFiniteSet(S), NEW i \in S, NEW j \in S, i < j
    PROVE  Rank(S, i) < Rank(S, j)
  <1> DEFINE A == {n \in S : n <= i}
             B == {n \in S : n <= j}
  <1>1. \A n \in S : n \in Nat
    OBVIOUS
  <1>2. A \in SUBSET B
    <2> SUFFICES ASSUME NEW n \in S, n <= i PROVE n <= j
      OBVIOUS
    <2> QED BY <1>1
  <1>3. j \in B /\ j \notin A
    BY <1>1
  <1>4. IsFiniteSet(B)
    BY RankType
  <1>5. Cardinality(A) <= Cardinality(B) /\ Cardinality(A) # Cardinality(B)
    BY <1>2, <1>3, <1>4, FS_Subset
  <1>6. Rank(S, i) = Cardinality(A) /\ Rank(S, j) = Cardinality(B)
    BY DEF Rank
  <1>7. Rank(S, i) \in Nat /\ Rank(S, j) \in Nat
    BY RankType
  <1> QED BY <1>5, <1>6, <1>7

\* Every position of a set counts for something.
LEMMA RankPositive ==
    ASSUME NEW S \in SUBSET Nat, IsFiniteSet(S), NEW i \in S
    PROVE  Rank(S, i) \in 1 .. Cardinality(S)
  <1>1. i \in {j \in S : j <= i} /\ IsFiniteSet({j \in S : j <= i})
    BY RankType
  <1>2. Cardinality({j \in S : j <= i}) # 0
    BY <1>1, FS_EmptySet
  <1>3. Rank(S, i) # 0
    BY <1>2 DEF Rank
  <1>4. Rank(S, i) \in Nat /\ Cardinality(S) \in Nat /\ Rank(S, i) <= Cardinality(S)
    BY RankType
  <1> QED BY <1>3, <1>4

\* There is a k-th position for every k up to their number, and only one.
LEMMA NthExists ==
    ASSUME NEW S \in SUBSET Nat, IsFiniteSet(S), NEW k \in 1 .. Cardinality(S)
    PROVE  /\ Nth(S, k) \in S /\ Rank(S, Nth(S, k)) = k
           /\ \A i \in S : Rank(S, i) = k => i = Nth(S, k)
  <1> DEFINE T == 1 .. Cardinality(S)
             f == [i \in S |-> Rank(S, i)]
  <1>1. Cardinality(S) \in Nat
    BY FS_CardinalityType
  <1>2. f \in [S -> T]
    BY RankPositive
  <1>3. \A a, b \in S : a # b => Rank(S, a) # Rank(S, b)
    <2> SUFFICES ASSUME NEW a \in S, NEW b \in S, a < b
                 PROVE  Rank(S, a) # Rank(S, b)
      OBVIOUS
    <2>1. Rank(S, a) < Rank(S, b)
      BY RankIncreases
    <2>2. Rank(S, a) \in Nat /\ Rank(S, b) \in Nat
      BY RankType
    <2> QED BY <2>1, <2>2
  <1>4. f \in Injection(S, T)
    BY <1>2, <1>3, Fun_IsInj
  <1>5. IsFiniteSet(T) /\ Cardinality(T) = Cardinality(S)
    BY <1>1, FS_Interval
  <1>6. f \in Surjection(S, T)
    BY <1>4, <1>5, FS_Injection
  <1>7. \A t \in T : \E i \in S : f[i] = t
    BY <1>6 DEF Surjection
  <1>8. \E i \in S : Rank(S, i) = k
    BY <1>7
  <1>9. Nth(S, k) \in S /\ Rank(S, Nth(S, k)) = k
    BY <1>8 DEF Nth
  <1> QED BY <1>3, <1>9

\* Moving positions apart in order can only add to what is counted before one of them.
LEMMA RankMoves ==
    ASSUME NEW S \in SUBSET Nat, IsFiniteSet(S), NEW T \in SUBSET Nat, IsFiniteSet(T),
           NEW g \in [S -> T], \A a, b \in S : a < b => g[a] < g[b],
           NEW i \in S
    PROVE  Rank(S, i) <= Rank(T, g[i])
  <1> DEFINE A == {n \in S : n <= i}
             B == {n \in T : n <= g[i]}
             h == [n \in A |-> g[n]]
  <1>1. IsFiniteSet(A) /\ IsFiniteSet(B)
    BY RankType
  <1>2. \A n \in A : g[n] \in B
    <2> SUFFICES ASSUME NEW n \in A PROVE g[n] \in B
      OBVIOUS
    <2>1. n \in S /\ i \in S /\ n \in Nat /\ i \in Nat /\ g[n] \in Nat /\ g[i] \in Nat
      OBVIOUS
    <2>2. n = i \/ g[n] < g[i]
      BY <2>1
    <2> QED BY <2>1, <2>2
  <1>3. \A a, b \in A : g[a] = g[b] => a = b
    <2> SUFFICES ASSUME NEW a \in A, NEW b \in A, a < b
                 PROVE  g[a] # g[b]
      OBVIOUS
    <2>1. g[a] < g[b] /\ g[a] \in Nat /\ g[b] \in Nat
      OBVIOUS
    <2> QED BY <2>1
  <1>4. h \in Injection(A, B)
    BY <1>2, <1>3, Fun_IsInj
  <1>5. Cardinality(A) <= Cardinality(B)
    BY <1>1, <1>4, FS_Injection
  <1> QED BY <1>5 DEF Rank

-----------------------------------------------------------------------------
(* The rows that the filter keeps.                                         *)

\* The positions that the filter keeps are finitely many positions of the list.
LEMMA KeptType ==
    ASSUME NEW s \in Seq(Rows)
    PROVE  /\ Len(s) \in Nat /\ DOMAIN s = 1 .. Len(s)
           /\ Kept(s) \in SUBSET (1 .. Len(s)) /\ Kept(s) \in SUBSET Nat
           /\ IsFiniteSet(Kept(s)) /\ Cardinality(Kept(s)) \in Nat
  <1>1. Len(s) \in Nat /\ DOMAIN s = 1 .. Len(s)
    OBVIOUS
  <1>2. Kept(s) \in SUBSET (1 .. Len(s)) /\ Kept(s) \in SUBSET Nat
    BY <1>1 DEF Kept
  <1>3. IsFiniteSet(1 .. Len(s))
    BY <1>1, FS_Interval
  <1>4. IsFiniteSet(Kept(s))
    BY <1>2, <1>3, FS_Subset
  <1> QED BY <1>1, <1>2, <1>4, FS_CardinalityType

\* The filter selects wanted rows, each from the position of its place.
LEMMA SelectedType ==
    ASSUME NEW s \in Seq(Rows)
    PROVE  /\ Selected(s) \in Seq(Wanted)
           /\ Len(Selected(s)) = Cardinality(Kept(s))
           /\ DOMAIN Selected(s) = 1 .. Cardinality(Kept(s))
           /\ \A k \in 1 .. Cardinality(Kept(s)) :
                 /\ Nth(Kept(s), k) \in Kept(s)
                 /\ Rank(Kept(s), Nth(Kept(s), k)) = k
                 /\ Selected(s)[k] = s[Nth(Kept(s), k)]
  <1> DEFINE n == Cardinality(Kept(s))
  <1>1. n \in Nat
    BY KeptType
  <1>2. \A k \in 1 .. n : /\ Nth(Kept(s), k) \in Kept(s)
                          /\ Rank(Kept(s), Nth(Kept(s), k)) = k
    BY KeptType, NthExists
  <1>3. \A k \in 1 .. n : s[Nth(Kept(s), k)] \in Wanted
    BY <1>2 DEF Kept
  <1>4. Selected(s) = [k \in 1 .. n |-> s[Nth(Kept(s), k)]]
    BY DEF Selected
  <1>5. Selected(s) \in [1 .. n -> Wanted]
    BY <1>3, <1>4
  <1>6. Selected(s) \in Seq(Wanted) /\ Len(Selected(s)) = n
    BY <1>1, <1>5
  <1> QED BY <1>2, <1>4, <1>6

\* A wanted row is selected from wherever it stands.
LEMMA SelectedFrom ==
    ASSUME NEW s \in Seq(Rows), NEW i \in 1 .. Len(s), s[i] \in Wanted
    PROVE  /\ i \in Kept(s)
           /\ Rank(Kept(s), i) \in 1 .. Cardinality(Kept(s))
           /\ Selected(s)[Rank(Kept(s), i)] = s[i]
  <1>1. i \in Kept(s)
    BY DEF Kept
  <1>2. Rank(Kept(s), i) \in 1 .. Cardinality(Kept(s))
    BY <1>1, KeptType, RankPositive
  <1>3. i = Nth(Kept(s), Rank(Kept(s), i))
    BY <1>1, <1>2, KeptType, NthExists
  <1> QED BY <1>1, <1>2, <1>3, SelectedType

\* The rows selected are the wanted ones of the list, and none is selected twice from a
\* list that holds none twice.
LEMMA SelectedExact ==
    ASSUME NEW s \in Seq(Rows)
    PROVE  /\ ToSet(Selected(s)) = ToSet(s) \cap Wanted
           /\ IsInjective(s) => IsInjective(Selected(s))
  <1> DEFINE n == Cardinality(Kept(s))
  <1>1. ASSUME NEW k \in 1 .. n
        PROVE  Selected(s)[k] \in ToSet(s) \cap Wanted
    <2>1. Nth(Kept(s), k) \in Kept(s) /\ Selected(s)[k] = s[Nth(Kept(s), k)]
      BY SelectedType
    <2> QED BY <2>1 DEF Kept, ToSet
  <1>2. ASSUME NEW i \in 1 .. Len(s), s[i] \in Wanted
        PROVE  s[i] \in ToSet(Selected(s))
    BY <1>2, SelectedFrom, SelectedType DEF ToSet
  <1>3. ToSet(Selected(s)) = ToSet(s) \cap Wanted
    <2>1. ToSet(Selected(s)) \subseteq ToSet(s) \cap Wanted
      BY <1>1, SelectedType DEF ToSet
    <2>2. ToSet(s) \cap Wanted \subseteq ToSet(Selected(s))
      BY <1>2, KeptType DEF ToSet
    <2> QED BY <2>1, <2>2
  <1>4. ASSUME IsInjective(s), NEW j \in 1 .. n, NEW k \in 1 .. n,
               Selected(s)[j] = Selected(s)[k]
        PROVE  j = k
    <2>1. Nth(Kept(s), j) \in DOMAIN s /\ Nth(Kept(s), k) \in DOMAIN s
      BY SelectedType DEF Kept
    <2>2. s[Nth(Kept(s), j)] = s[Nth(Kept(s), k)]
      BY <1>4, SelectedType
    <2>3. Nth(Kept(s), j) = Nth(Kept(s), k)
      BY <1>4, <2>1, <2>2 DEF IsInjective
    <2>4. /\ Rank(Kept(s), Nth(Kept(s), j)) = j
          /\ Rank(Kept(s), Nth(Kept(s), k)) = k
      BY SelectedType
    <2> QED BY <2>3, <2>4
  <1>5. IsInjective(s) => IsInjective(Selected(s))
    BY <1>4, SelectedType DEF IsInjective
  <1> QED BY <1>3, <1>5

\* When a list is spread over a longer one in the same order, every row selected of it
\* is selected of the longer one, no earlier than before.
LEMMA SelectedMoves ==
    ASSUME NEW s \in Seq(Rows), NEW t \in Seq(Rows),
           NEW g \in [1 .. Len(s) -> 1 .. Len(t)],
           \A i, j \in 1 .. Len(s) : i < j => g[i] < g[j],
           \A i \in 1 .. Len(s) : t[g[i]] = s[i],
           NEW k \in 1 .. Cardinality(Kept(s))
    PROVE  \E m \in 1 .. Cardinality(Kept(t)) : m >= k /\ Selected(t)[m] = Selected(s)[k]
  <1> DEFINE S == Kept(s)
             T == Kept(t)
             i == Nth(S, k)
             h == [j \in S |-> g[j]]
  <1>1. i \in S /\ Rank(S, i) = k /\ Selected(s)[k] = s[i]
    BY SelectedType
  <1>2. S \in SUBSET (1 .. Len(s)) /\ T \in SUBSET (1 .. Len(t))
    BY KeptType
  <1>3. \A j \in S : g[j] \in T
    BY <1>2, KeptType DEF Kept
  <1>4. h \in [S -> T]
    BY <1>3
  <1>5. \A a, b \in S : a < b => h[a] < h[b]
    BY <1>2
  <1>6. Rank(S, i) <= Rank(T, h[i])
    BY <1>1, <1>4, <1>5, KeptType, RankMoves
  <1>7. /\ g[i] \in 1 .. Len(t) /\ t[g[i]] = s[i] /\ s[i] \in Wanted
        /\ h[i] = g[i]
    BY <1>1, <1>2 DEF Kept
  <1>8. Rank(T, g[i]) \in 1 .. Cardinality(T) /\ Selected(t)[Rank(T, g[i])] = t[g[i]]
    BY <1>7, SelectedFrom
  <1> QED BY <1>1, <1>6, <1>7, <1>8

-----------------------------------------------------------------------------
(* The strengthening: which rows the pages fetched so far account for.     *)

Delivered(r) == yielded[r] > 0 \/ r \in ToSet(batch)

\* Without insertions no row delivered has its place ahead of the iteration, and none is
\* in line to be delivered again.
NoneAhead == /\ IsInjective(batch)
             /\ \A r \in Rows : yielded[r] < 2
             /\ \A r \in ToSet(batch) : yielded[r] = 0
             /\ \A k \in DOMAIN Selected(table) : Delivered(Selected(table)[k]) => k <= offset

\* Without deletions every row that was there all along and has its place behind the
\* iteration has been delivered; behind the last page are all rows.
NoneBehind == \A k \in DOMAIN Selected(table) :
                 Selected(table)[k] \in stable /\ (k <= offset \/ last)
                    => Delivered(Selected(table)[k])

\* Without either only what is in the table is delivered.
NoneElse == /\ stable = ToSet(table)
            /\ \A r \in Rows : Delivered(r) => r \in ToSet(table) \cap Wanted

IInv == /\ TypeOK
        /\ done => last /\ batch = <<>>
        /\ inserted = 0 => NoneAhead
        /\ deleted = 0 => NoneBehind
        /\ inserted + deleted = 0 => NoneElse

-----------------------------------------------------------------------------
(* A page, and a change of the table.                                      *)

\* A page holds the rows after the offset, as many as there are up to its limit, and only
\* a page that reaches the end of the list is short.
LEMMA WindowOf ==
    ASSUME NEW S, NEW s \in Seq(S), NEW from \in Nat, NEW limit \in Nat
    PROVE  /\ Window(s, from, limit) \in Seq(S)
           /\ \A k \in DOMAIN Window(s, from, limit) :
                 /\ from + k \in 1 .. Len(s) /\ k \in 1 .. limit
                 /\ Window(s, from, limit)[k] = s[from + k]
           /\ \A k \in 1 .. Len(s) :
                 k > from /\ k <= from + limit
                    => /\ k - from \in DOMAIN Window(s, from, limit)
                       /\ Window(s, from, limit)[k - from] = s[k]
           /\ Len(Window(s, from, limit)) < limit => Len(s) < from + limit
  <1> DEFINE w == Window(s, from, limit)
             m == Shortest(limit, Len(s) - from)
             n == IF m < 0 THEN 0 ELSE m
  <1>1. Len(s) \in Nat /\ DOMAIN s = 1 .. Len(s) /\ \A i \in 1 .. Len(s) : s[i] \in S
    OBVIOUS
  <1>2. /\ m \in Int /\ n \in Nat /\ 1 .. m = 1 .. n /\ n <= limit
        /\ \A k \in 1 .. n : from + k \in 1 .. Len(s)
        /\ \A k \in 1 .. Len(s) : k > from /\ k <= from + limit => k - from \in 1 .. n
        /\ n < limit => Len(s) < from + limit
    BY <1>1 DEF Shortest
  <1>3. w = [i \in 1 .. n |-> s[from + i]]
    BY <1>2 DEF Window
  <1>4. w \in [1 .. n -> S]
    BY <1>1, <1>2, <1>3
  <1>5. w \in Seq(S) /\ Len(w) = n /\ DOMAIN w = 1 .. n
    BY <1>2, <1>4
  <1>6. \A k \in 1 .. n : w[k] = s[from + k]
    BY <1>3
  <1>7. \A k \in 1 .. n : from + k \in 1 .. Len(s) /\ k \in 1 .. limit
    BY <1>2
  <1>8. \A k \in 1 .. Len(s) : k > from /\ k <= from + limit => w[k - from] = s[k]
    <2> SUFFICES ASSUME NEW k \in 1 .. Len(s), k > from, k <= from + limit
                 PROVE  w[k - from] = s[k]
      OBVIOUS
    <2>1. k - from \in 1 .. n /\ from + (k - from) = k
      BY <1>1, <1>2
    <2> QED BY <1>6, <2>1
  <1> HIDE DEF w, n
  <1> QED BY <1>2, <1>5, <1>6, <1>7, <1>8 DEF w

\* Deleting a row closes the gap.
LEMMA Removed ==
    ASSUME NEW s \in Seq(Rows), NEW i \in 1 .. Len(s)
    PROVE  /\ RemoveAt(s, i) \in Seq(Rows)
           /\ Len(RemoveAt(s, i)) = Len(s) - 1
           /\ \A j \in 1 .. Len(s) - 1 :
                 RemoveAt(s, i)[j] = IF j < i THEN s[j] ELSE s[j + 1]
  <1> DEFINE a == SubSeq(s, 1, i - 1)
             b == SubSeq(s, i + 1, Len(s))
  <1>1. /\ a \in Seq(Rows) /\ Len(a) = i - 1
        /\ \A j \in 1 .. i - 1 : a[j] = s[j]
    OBVIOUS
  <1>2. /\ b \in Seq(Rows) /\ Len(b) = Len(s) - i
        /\ \A j \in 1 .. Len(s) - i : b[j] = s[i + j]
    OBVIOUS
  <1>3. RemoveAt(s, i) = a \o b
    BY DEF RemoveAt
  <1> HIDE DEF a, b
  <1> QED BY <1>1, <1>2, <1>3

\* Inserting a row moves the rows from its position on by one.
LEMMA Inserted ==
    ASSUME NEW s \in Seq(Rows), NEW i \in 1 .. Len(s) + 1, NEW r \in Rows
    PROVE  /\ InsertAt(s, i, r) \in Seq(Rows)
           /\ Len(InsertAt(s, i, r)) = Len(s) + 1
           /\ InsertAt(s, i, r)[i] = r
           /\ \A j \in 1 .. Len(s) :
                 InsertAt(s, i, r)[IF j < i THEN j ELSE j + 1] = s[j]
  <1> DEFINE a == SubSeq(s, 1, i - 1)
             b == SubSeq(s, i, Len(s))
  <1>1. /\ a \in Seq(Rows) /\ Len(a) = i - 1
        /\ \A j \in 1 .. i - 1 : a[j] = s[j]
    OBVIOUS
  <1>2. /\ b \in Seq(Rows) /\ Len(b) = Len(s) - i + 1
        /\ \A j \in 1 .. Len(s) - i + 1 : b[j] = s[i + j - 1]
    OBVIOUS
  <1> DEFINE d == a \o <<r>>
  <1>3. InsertAt(s, i, r) = d \o b
    BY DEF InsertAt
  <1> HIDE DEF a, b
  <1>4. /\ d \in Seq(Rows) /\ Len(d) = i /\ d[i] = r
        /\ \A j \in 1 .. i - 1 : d[j] = s[j]
    BY <1>1
  <1> HIDE DEF d
  <1>5. d \o b \in Seq(Rows) /\ Len(d \o b) = Len(s) + 1 /\ (d \o b)[i] = r
    <2>1. Len(s) \in Nat /\ i \in Nat \ {0}
      OBVIOUS
    <2>2. d \o b \in Seq(Rows) /\ Len(d \o b) = Len(d) + Len(b)
      BY <1>2, <1>4, ConcatProperties
    <2>3. (d \o b)[i] = d[i]
      BY <1>2, <1>4, <2>1
    <2> QED BY <1>2, <1>4, <2>1, <2>2, <2>3
  <1>6. ASSUME NEW j \in 1 .. Len(s), j < i
        PROVE  (d \o b)[j] = s[j]
    BY <1>2, <1>4, <1>6
  <1>7. ASSUME NEW j \in 1 .. Len(s), ~(j < i)
        PROVE  (d \o b)[j + 1] = s[j]
    <2>1. j - i + 1 \in 1 .. Len(b) /\ j + 1 = Len(d) + (j - i + 1)
      BY <1>2, <1>4, <1>7
    <2>2. (d \o b)[j + 1] = b[j - i + 1]
      BY <1>2, <1>4, <2>1
    <2>3. b[j - i + 1] = s[j]
      BY <1>2, <2>1
    <2> QED BY <2>2, <2>3
  <1> QED BY <1>3, <1>5, <1>6, <1>7

\* What is left after a deletion are the other rows.
LEMMA RemovedRows ==
    ASSUME NEW s \in Seq(Rows), NEW i \in 1 .. Len(s)
    PROVE  /\ ToSet(RemoveAt(s, i)) \subseteq ToSet(s)
           /\ ToSet(s) \ {s[i]} \subseteq ToSet(RemoveAt(s, i))
           /\ IsInjective(s) => IsInjective(RemoveAt(s, i))
  <1> DEFINE t == RemoveAt(s, i)
             g(j) == IF j < i THEN j ELSE j + 1
  <1>1. /\ Len(s) \in Nat /\ DOMAIN s = 1 .. Len(s)
        /\ t \in Seq(Rows) /\ Len(t) = Len(s) - 1 /\ DOMAIN t = 1 .. Len(s) - 1
    BY Removed
  <1>2. \A j \in 1 .. Len(s) - 1 : g(j) \in 1 .. Len(s) /\ t[j] = s[g(j)]
    <2>1. \A j \in 1 .. Len(s) - 1 : t[j] = s[g(j)]
      BY Removed
    <2>2. \A j \in 1 .. Len(s) - 1 : g(j) \in 1 .. Len(s)
      BY <1>1
    <2> QED BY <2>1, <2>2
  <1>3. \A j, k \in 1 .. Len(s) - 1 : g(j) = g(k) => j = k
    BY <1>1
  <1>4. \A k \in 1 .. Len(s) : k # i => \E j \in 1 .. Len(s) - 1 : g(j) = k
    <2> SUFFICES ASSUME NEW k \in 1 .. Len(s), k # i
                 PROVE  \E j \in 1 .. Len(s) - 1 : g(j) = k
      OBVIOUS
    <2>1. CASE k < i
      <3>1. k \in 1 .. Len(s) - 1 /\ g(k) = k
        BY <1>1, <2>1
      <3> QED BY <3>1
    <2>2. CASE k > i
      <3>1. k - 1 \in 1 .. Len(s) - 1 /\ g(k - 1) = k
        BY <1>1, <2>2
      <3> QED BY <3>1
    <2> QED BY <2>1, <2>2
  <1> HIDE DEF t, g
  <1>5. ToSet(t) \subseteq ToSet(s)
    BY <1>1, <1>2 DEF ToSet
  <1>6. ToSet(s) \ {s[i]} \subseteq ToSet(t)
    <2> SUFFICES ASSUME NEW k \in 1 .. Len(s), k # i PROVE s[k] \in ToSet(t)
      BY <1>1 DEF ToSet
    <2>1. PICK j \in 1 .. Len(s) - 1 : g(j) = k
      BY <1>4
    <2>2. t[j] = s[k]
      BY <1>2, <2>1
    <2> QED BY <1>1, <2>2 DEF ToSet
  <1>7. IsInjective(s) => IsInjective(t)
    BY <1>1, <1>2, <1>3 DEF IsInjective
  <1> QED BY <1>5, <1>6, <1>7 DEF t

\* What is there after an insertion are the rows of before and the new one.
LEMMA InsertedRows ==
    ASSUME NEW s \in Seq(Rows), NEW i \in 1 .. Len(s) + 1, NEW r \in Rows
    PROVE  /\ ToSet(InsertAt(s, i, r)) = ToSet(s) \cup {r}
           /\ IsInjective(s) /\ r \notin ToSet(s) => IsInjective(InsertAt(s, i, r))
  <1> DEFINE t == InsertAt(s, i, r)
             g(j) == IF j < i THEN j ELSE j + 1
  <1>1. /\ Len(s) \in Nat /\ DOMAIN s = 1 .. Len(s)
        /\ t \in Seq(Rows) /\ Len(t) = Len(s) + 1 /\ DOMAIN t = 1 .. Len(s) + 1
        /\ i \in 1 .. Len(s) + 1 /\ t[i] = r
    BY Inserted
  <1>2. \A j \in 1 .. Len(s) : g(j) \in 1 .. Len(s) + 1 /\ t[g(j)] = s[j]
    <2>1. \A j \in 1 .. Len(s) : t[g(j)] = s[j]
      BY Inserted
    <2>2. \A j \in 1 .. Len(s) : g(j) \in 1 .. Len(s) + 1
      BY <1>1
    <2> QED BY <2>1, <2>2
  <1>3. \A k \in 1 .. Len(s) + 1 : k # i => \E j \in 1 .. Len(s) : g(j) = k
    <2> SUFFICES ASSUME NEW k \in 1 .. Len(s) + 1, k # i
                 PROVE  \E j \in 1 .. Len(s) : g(j) = k
      OBVIOUS
    <2>1. CASE k < i
      BY <1>1, <2>1
    <2>2. CASE k > i
      <3>1. k - 1 \in 1 .. Len(s) /\ g(k - 1) = k
        BY <1>1, <2>2
      <3> QED BY <3>1
    <2> QED BY <2>1, <2>2
  <1> HIDE DEF t, g
  <1>4. ToSet(t) = ToSet(s) \cup {r}
    <2>1. ToSet(t) \subseteq ToSet(s) \cup {r}
      <3> SUFFICES ASSUME NEW k \in 1 .. Len(s) + 1, k # i PROVE t[k] \in ToSet(s)
        BY <1>1 DEF ToSet
      <3>1. PICK j \in 1 .. Len(s) : g(j) = k
        BY <1>3
      <3>2. t[k] = s[j]
        BY <1>2, <3>1
      <3> QED BY <1>1, <3>2 DEF ToSet
    <2>2. ToSet(s) \cup {r} \subseteq ToSet(t)
      BY <1>1, <1>2 DEF ToSet
    <2> QED BY <2>1, <2>2
  <1>5. ASSUME IsInjective(s), r \notin ToSet(s),
               NEW a \in 1 .. Len(s) + 1, NEW b \in 1 .. Len(s) + 1, t[a] = t[b]
        PROVE  a = b
    <2>1. \A k \in 1 .. Len(s) + 1 : k # i => t[k] \in ToSet(s)
      BY <1>1, <1>2, <1>3 DEF ToSet
    <2>2. CASE a = i \/ b = i
      BY <1>1, <1>5, <2>1, <2>2
    <2>3. CASE a # i /\ b # i
      <3>1. PICK j \in 1 .. Len(s) : g(j) = a
        BY <1>3, <2>3
      <3>2. PICK k \in 1 .. Len(s) : g(k) = b
        BY <1>3, <2>3
      <3>3. s[j] = s[k]
        BY <1>2, <1>5, <3>1, <3>2
      <3>4. j = k
        BY <1>1, <1>5, <3>3 DEF IsInjective
      <3> QED BY <3>1, <3>2, <3>4
    <2> QED BY <2>2, <2>3
  <1>6. IsInjective(s) /\ r \notin ToSet(s) => IsInjective(t)
    BY <1>1, <1>5 DEF IsInjective
  <1> QED BY <1>4, <1>6 DEF t

\* A deletion moves no selected row to a later place.
LEMMA DeletionMovesDown ==
    ASSUME NEW s \in Seq(Rows), NEW i \in 1 .. Len(s),
           NEW k \in DOMAIN Selected(RemoveAt(s, i))
    PROVE  \E m \in DOMAIN Selected(s) :
              m >= k /\ Selected(s)[m] = Selected(RemoveAt(s, i))[k]
  <1> DEFINE t == RemoveAt(s, i)
             g == [j \in 1 .. Len(t) |-> IF j < i THEN j ELSE j + 1]
  <1>1. /\ Len(s) \in Nat /\ t \in Seq(Rows) /\ Len(t) = Len(s) - 1
        /\ \A j \in 1 .. Len(t) : t[j] = IF j < i THEN s[j] ELSE s[j + 1]
    BY Removed
  <1> HIDE DEF t
  <1>2. g \in [1 .. Len(t) -> 1 .. Len(s)]
    BY <1>1
  <1>3. \A a, b \in 1 .. Len(t) : a < b => g[a] < g[b]
    BY <1>1
  <1>4. \A j \in 1 .. Len(t) : s[g[j]] = t[j]
    BY <1>1
  <1>5. k \in 1 .. Cardinality(Kept(t))
    BY <1>1, SelectedType DEF t
  <1> HIDE DEF g
  <1>6. \E m \in 1 .. Cardinality(Kept(s)) : m >= k /\ Selected(s)[m] = Selected(t)[k]
    BY <1>1, <1>2, <1>3, <1>4, <1>5, SelectedMoves
  <1> QED BY <1>6, SelectedType DEF t

\* An insertion moves no selected row to an earlier place.
LEMMA InsertionMovesUp ==
    ASSUME NEW s \in Seq(Rows), NEW i \in 1 .. Len(s) + 1, NEW r \in Rows,
           NEW k \in DOMAIN Selected(s)
    PROVE  \E m \in DOMAIN Selected(InsertAt(s, i, r)) :
              m >= k /\ Selected(InsertAt(s, i, r))[m] = Selected(s)[k]
  <1> DEFINE t == InsertAt(s, i, r)
             g == [j \in 1 .. Len(s) |-> IF j < i THEN j ELSE j + 1]
  <1>1. /\ Len(s) \in Nat /\ t \in Seq(Rows) /\ Len(t) = Len(s) + 1
        /\ \A j \in 1 .. Len(s) : t[IF j < i THEN j ELSE j + 1] = s[j]
    BY Inserted
  <1> HIDE DEF t
  <1>2. g \in [1 .. Len(s) -> 1 .. Len(t)]
    BY <1>1
  <1>3. \A a, b \in 1 .. Len(s) : a < b => g[a] < g[b]
    BY <1>1
  <1>4. \A j \in 1 .. Len(s) : t[g[j]] = s[j]
    BY <1>1
  <1>5. k \in 1 .. Cardinality(Kept(s))
    BY SelectedType
  <1> HIDE DEF g
  <1>6. \E m \in 1 .. Cardinality(Kept(t)) : m >= k /\ Selected(t)[m] = Selected(s)[k]
    BY <1>1, <1>2, <1>3, <1>4, <1>5, SelectedMoves
  <1> QED BY <1>1, <1>6, SelectedType DEF t

-----------------------------------------------------------------------------
(* Types.                                                                  *)

\* The kinds of list() return wanted rows of the table.
LEMMA PageType ==
    ASSUME TypeOK
    PROVE  Page(offset) \in Seq(Wanted)
  <1>1. table \in Seq(Rows) /\ offset \in Nat /\ PageSize \in Nat
    BY PageAssumption DEF TypeOK
  <1>2. PagedList(offset) \in Seq(Wanted)
    BY <1>1, SelectedType, WindowOf DEF PagedList
  <1>3. PostfilteredList(offset) \in Seq(Wanted)
    BY <1>1, SelectedType, WindowOf DEF PostfilteredList
  <1>4. UnpagedList(offset) \in Seq(Wanted)
    BY <1>1, SelectedType DEF UnpagedList
  <1> QED BY <1>2, <1>3, <1>4, ListingAssumption DEF Page

\* Every step preserves the types.
LEMMA NextType == TypeOK /\ [Next]_vars => TypeOK'
  <1> SUFFICES ASSUME TypeOK, [Next]_vars PROVE TypeOK'
    OBVIOUS
  <1> USE DEF TypeOK
  <1>1. CASE Fetch
    <2>1. batch' \in Seq(Wanted)
      BY <1>1, PageType DEF Fetch
    <2>2. offset' \in Nat /\ last' \in BOOLEAN
      BY <1>1, PageAssumption DEF Fetch, Advanced, IsLast
    <2> QED BY <1>1, <2>1, <2>2 DEF Fetch
  <1>2. CASE Yield
    <2>1. batch' \in Seq(Wanted) /\ Head(batch) \in Rows
      BY <1>2, WantedAssumption DEF Yield
    <2>2. yielded' \in [Rows -> 0 .. 2]
      BY <1>2, <2>1 DEF Yield
    <2> QED BY <1>2, <2>1, <2>2 DEF Yield
  <1>3. CASE Stop
    BY <1>3 DEF Stop
  <1>4. ASSUME NEW r \in Rows, NEW i \in 1 .. Len(table) + 1, Insert(r, i)
        PROVE  TypeOK'
    <2>1. table' \in Seq(Rows)
      BY <1>4, Inserted DEF Insert
    <2>2. IsInjective(table') /\ ToSet(table) \subseteq ToSet(table')
      BY <1>4, InsertedRows DEF Insert
    <2> QED BY <1>4, <2>1, <2>2 DEF Insert, iterator
  <1>5. ASSUME NEW i \in DOMAIN table, Delete(i)
        PROVE  TypeOK'
    <2>1. i \in 1 .. Len(table)
      OBVIOUS
    <2>2. table' \in Seq(Rows)
      BY <1>5, <2>1, Removed DEF Delete
    <2>3. IsInjective(table') /\ ToSet(table) \ {table[i]} \subseteq ToSet(table')
      BY <1>5, <2>1, RemovedRows DEF Delete
    <2> QED BY <1>5, <2>2, <2>3 DEF Delete, iterator
  <1>6. CASE UNCHANGED vars
    BY <1>6 DEF vars, iterator
  <1> QED BY <1>1, <1>2, <1>3, <1>4, <1>5, <1>6 DEF Next, Iterate

\* An iteration starts on a well-typed table.
LEMMA InitType == Init => TypeOK
  <1> SUFFICES ASSUME Init PROVE TypeOK
    OBVIOUS
  <1>1. PICK S \in SUBSET Rows : table \in SetToSeqs(S)
    BY DEF Init
  <1>2. IsFiniteSet(S) /\ Cardinality(S) \in Nat
    BY RowsAssumption, FS_Subset, FS_CardinalityType
  <1>3. /\ table \in [1 .. Cardinality(S) -> S]
        /\ \A i, j \in 1 .. Cardinality(S) : i # j => table[i] # table[j]
    BY <1>1 DEF SetToSeqs
  <1>4. table \in Seq(Rows)
    BY <1>2, <1>3
  <1>5. IsInjective(table)
    BY <1>3 DEF IsInjective
  <1>6. /\ batch \in Seq(Wanted) /\ offset \in Nat /\ inserted \in Nat /\ deleted \in Nat
        /\ stable \subseteq ToSet(table)
    BY DEF Init
  <1>7. yielded \in [Rows -> 0 .. 2]
    BY DEF Init
  <1>8. last \in BOOLEAN /\ done \in BOOLEAN
    BY Zenon DEF Init
  <1> QED BY <1>4, <1>5, <1>6, <1>7, <1>8 DEF TypeOK

\* TypeOK is an invariant of the iteration, whatever the kind of list().
THEOREM PaginationTypes == Spec => []TypeOK
  BY InitType, NextType, PTL DEF Spec

-----------------------------------------------------------------------------
(* One step of the strengthening, by action.                               *)

\* The sets that the rows selected, the page and the batch make up.
LEMMA Places ==
    ASSUME TypeOK
    PROVE  /\ table \in Seq(Rows) /\ offset \in Nat /\ PageSize \in Nat \ {0}
           /\ batch \in Seq(Wanted) /\ yielded \in [Rows -> 0 .. 2]
           /\ Selected(table) \in Seq(Wanted) /\ IsInjective(Selected(table))
           /\ DOMAIN Selected(table) = 1 .. Len(Selected(table))
           /\ Len(Selected(table)) \in Nat
           /\ ToSet(Selected(table)) = ToSet(table) \cap Wanted
  <1>1. /\ table \in Seq(Rows) /\ offset \in Nat /\ PageSize \in Nat \ {0}
        /\ batch \in Seq(Wanted) /\ yielded \in [Rows -> 0 .. 2] /\ IsInjective(table)
    BY PageAssumption DEF TypeOK
  <1> QED BY <1>1, SelectedType, SelectedExact

\* The page fetched is made up of the rows selected that have their places between the
\* old offset and the new one.
LEMMA FetchedPage ==
    ASSUME TypeOK, Listing = "paged", Fetch
    PROVE  /\ offset' = offset + PageSize
           /\ \A j \in DOMAIN batch' :
                 /\ offset + j \in DOMAIN Selected(table)
                 /\ offset + j > offset /\ offset + j <= offset'
                 /\ batch'[j] = Selected(table)[offset + j]
           /\ \A k \in DOMAIN Selected(table) :
                 k > offset /\ k <= offset' => Selected(table)[k] \in ToSet(batch')
           /\ last' => \A k \in DOMAIN Selected(table) : k <= offset'
  <1> DEFINE sel == Selected(table)
             page == Window(sel, offset, PageSize)
  <1>1. batch' = page /\ offset' = offset + PageSize /\ (last' => Len(page) < PageSize)
    BY DEF Fetch, Page, PagedList, Advanced, IsLast
  <1>2. /\ sel \in Seq(Wanted) /\ offset \in Nat /\ PageSize \in Nat \ {0}
        /\ DOMAIN sel = 1 .. Len(sel) /\ Len(sel) \in Nat
    BY Places
  <1> HIDE DEF sel
  <1>3. /\ \A k \in DOMAIN page : /\ offset + k \in 1 .. Len(sel) /\ k \in 1 .. PageSize
                                  /\ page[k] = sel[offset + k]
        /\ \A k \in 1 .. Len(sel) :
              k > offset /\ k <= offset + PageSize
                 => /\ k - offset \in DOMAIN page
                    /\ page[k - offset] = sel[k]
        /\ Len(page) < PageSize => Len(sel) < offset + PageSize
    BY <1>2, WindowOf
  <1> HIDE DEF page
  <1>4. \A j \in DOMAIN batch' :
                 /\ offset + j \in DOMAIN sel
                 /\ offset + j > offset /\ offset + j <= offset'
                 /\ batch'[j] = sel[offset + j]
    <2> SUFFICES ASSUME NEW j \in DOMAIN page
                 PROVE  offset + j > offset /\ offset + j <= offset + PageSize
      BY <1>1, <1>2, <1>3
    <2>1. j \in 1 .. PageSize
      BY <1>3
    <2> QED BY <1>2, <2>1
  <1>5. \A k \in DOMAIN sel : k > offset /\ k <= offset' => sel[k] \in ToSet(batch')
    <2> SUFFICES ASSUME NEW k \in 1 .. Len(sel), k > offset, k <= offset + PageSize
                 PROVE  sel[k] \in ToSet(page)
      BY <1>1, <1>2
    <2>1. k - offset \in DOMAIN page /\ page[k - offset] = sel[k]
      BY <1>3
    <2> QED BY <2>1 DEF ToSet
  <1>6. last' => \A k \in DOMAIN sel : k <= offset'
    <2> SUFFICES ASSUME last', NEW k \in 1 .. Len(sel) PROVE k <= offset + PageSize
      BY <1>1, <1>2
    <2>1. Len(sel) < offset + PageSize
      BY <1>1, <1>3
    <2> QED BY <1>2, <2>1
  <1> QED BY <1>1, <1>4, <1>5, <1>6 DEF sel

\* Taking the head of a batch leaves the other rows in it.
LEMMA HeadOfBatch ==
    ASSUME NEW b \in Seq(Wanted), b # <<>>
    PROVE  /\ Head(b) \in Wanted
           /\ ToSet(b) = {Head(b)} \cup ToSet(Tail(b))
           /\ IsInjective(b) => IsInjective(Tail(b)) /\ Head(b) \notin ToSet(Tail(b))
  <1>1. /\ Len(b) \in Nat \ {0} /\ DOMAIN b = 1 .. Len(b) /\ Head(b) = b[1]
        /\ DOMAIN Tail(b) = 1 .. Len(b) - 1
        /\ \A j \in 1 .. Len(b) - 1 : Tail(b)[j] = b[j + 1]
    OBVIOUS
  <1>2. \A j \in 1 .. Len(b) - 1 : j + 1 \in 1 .. Len(b) /\ j + 1 # 1
    BY <1>1
  <1>3. \A j \in 1 .. Len(b) : j = 1 \/ (j - 1 \in 1 .. Len(b) - 1 /\ (j - 1) + 1 = j)
    BY <1>1
  <1>4. ToSet(b) \subseteq {Head(b)} \cup ToSet(Tail(b))
    <2> SUFFICES ASSUME NEW j \in 1 .. Len(b), j # 1
                 PROVE  b[j] \in ToSet(Tail(b))
      BY <1>1 DEF ToSet
    <2>1. j - 1 \in 1 .. Len(b) - 1 /\ Tail(b)[j - 1] = b[j]
      BY <1>1, <1>3
    <2> QED BY <1>1, <2>1 DEF ToSet
  <1>5. {Head(b)} \cup ToSet(Tail(b)) \subseteq ToSet(b)
    <2>1. b[1] \in ToSet(b)
      BY <1>1 DEF ToSet
    <2>2. \A j \in 1 .. Len(b) - 1 : Tail(b)[j] \in ToSet(b)
      BY <1>1, <1>2 DEF ToSet
    <2> QED BY <1>1, <2>1, <2>2 DEF ToSet
  <1>6. ASSUME IsInjective(b)
        PROVE  IsInjective(Tail(b)) /\ Head(b) \notin ToSet(Tail(b))
    <2>1. \A j, k \in 1 .. Len(b) - 1 : Tail(b)[j] = Tail(b)[k] => j = k
      <3> SUFFICES ASSUME NEW j \in 1 .. Len(b) - 1, NEW k \in 1 .. Len(b) - 1,
                          b[j + 1] = b[k + 1]
                   PROVE  j = k
        BY <1>1
      <3>1. j + 1 = k + 1
        BY <1>1, <1>2, <1>6 DEF IsInjective
      <3> QED BY <1>1, <3>1
    <2>2. \A j \in 1 .. Len(b) - 1 : b[j + 1] # b[1]
      BY <1>1, <1>2, <1>6 DEF IsInjective
    <2> QED BY <1>1, <2>1, <2>2 DEF IsInjective, ToSet
  <1> QED BY <1>1, <1>4, <1>5, <1>6

\* Yielding a row changes nothing about which rows are delivered.
LEMMA YieldKeepsDelivered ==
    ASSUME TypeOK, Yield
    PROVE  \A r \in Rows : Delivered(r)' <=> Delivered(r)
  <1> DEFINE h == Head(batch)
  <1>1. /\ batch \in Seq(Wanted) /\ batch # <<>> /\ batch' = Tail(batch)
        /\ yielded \in [Rows -> 0 .. 2]
        /\ yielded' = [yielded EXCEPT ![h] = IF @ = 2 THEN 2 ELSE @ + 1]
    BY DEF TypeOK, Yield
  <1>2. ToSet(batch) = {h} \cup ToSet(Tail(batch)) /\ h \in Rows
    BY <1>1, HeadOfBatch, WantedAssumption
  <1>3. yielded'[h] > 0
    BY <1>1, <1>2
  <1>4. \A r \in Rows : r # h => yielded'[r] = yielded[r]
    BY <1>1
  <1> HIDE DEF h
  <1>5. ToSet(batch)' = ToSet(Tail(batch))
    BY <1>1 DEF ToSet
  <1> QED BY <1>2, <1>3, <1>4, <1>5 DEF Delivered

\* Fetching delivers the rows of the page, besides those delivered before.
LEMMA FetchDelivers ==
    ASSUME TypeOK, Fetch
    PROVE  /\ \A r : Delivered(r) => yielded[r] > 0
           /\ \A r : Delivered(r)' <=> Delivered(r) \/ r \in ToSet(batch')
  <1>1. yielded' = yielded /\ batch = <<>> /\ ToSet(batch) = {}
    BY DEF Fetch, ToSet
  <1>2. \A r : ToSet(batch)' = ToSet(batch')
    BY DEF ToSet
  <1> QED BY <1>1, <1>2 DEF Delivered

\* Where the iteration does not move, neither does what it delivered.
LEMMA SameDelivered ==
    ASSUME UNCHANGED <<batch, yielded>>
    PROVE  \A r : Delivered(r)' <=> Delivered(r)
  BY DEF Delivered, ToSet

-----------------------------------------------------------------------------
(* The strengthening is inductive.                                         *)

\* The steps that move neither the iteration nor the table.
LEMMA StepsOfTheWorld ==
    [Next]_vars => \/ Fetch \/ Yield
                   \/ UNCHANGED <<table, offset, batch, last, yielded, stable, inserted, deleted>>
                   \/ \E r \in Rows, i \in 1 .. Len(table) + 1 : Insert(r, i)
                   \/ \E i \in DOMAIN table : Delete(i)
  BY DEF Next, Iterate, Stop, vars, iterator

\* A page fetched is of rows not delivered before, each once.
LEMMA FetchAhead ==
    ASSUME TypeOK, Listing = "paged", NoneAhead, Fetch
    PROVE  NoneAhead'
  <1> DEFINE sel == Selected(table)
  <1>1. /\ offset \in Nat /\ PageSize \in Nat /\ IsInjective(sel) /\ DOMAIN sel = 1 .. Len(sel)
        /\ Len(sel) \in Nat /\ yielded \in [Rows -> 0 .. 2] /\ sel \in Seq(Wanted)
    BY Places
  <1>2. /\ offset' = offset + PageSize
        /\ \A j \in DOMAIN batch' : /\ offset + j \in DOMAIN sel
                                    /\ offset + j > offset /\ offset + j <= offset'
                                    /\ batch'[j] = sel[offset + j]
    BY FetchedPage
  <1>3. table' = table /\ yielded' = yielded /\ batch' \in Seq(Wanted)
    BY PageType DEF Fetch
  <1>4. \A k \in DOMAIN sel : yielded[sel[k]] > 0 => k <= offset
    BY DEF NoneAhead, Delivered
  <1> HIDE DEF sel
  <1>5. ASSUME NEW i \in DOMAIN batch', NEW j \in DOMAIN batch', batch'[i] = batch'[j]
        PROVE  i = j
    <2>1. offset + i = offset + j
      BY <1>1, <1>2, <1>5 DEF IsInjective
    <2>2. i \in Nat /\ j \in Nat
      BY <1>3
    <2> QED BY <1>1, <2>1, <2>2
  <1>6. ASSUME NEW j \in DOMAIN batch'
        PROVE  yielded[batch'[j]] = 0
    <2>1. /\ offset + j \in DOMAIN sel /\ batch'[j] = sel[offset + j]
          /\ offset + j > offset /\ j \in Nat
      BY <1>2, <1>3
    <2>2. ~(yielded[sel[offset + j]] > 0)
      BY <1>1, <1>4, <2>1
    <2>3. sel[offset + j] \in Rows
      BY <1>1, <2>1, WantedAssumption
    <2> QED BY <1>1, <2>1, <2>2, <2>3
  <1>7. ASSUME NEW k \in DOMAIN sel, yielded'[sel[k]] > 0 \/ sel[k] \in ToSet(batch')
        PROVE  k <= offset'
    <2>1. CASE yielded[sel[k]] > 0
      BY <1>1, <1>2, <1>4, <2>1
    <2>2. CASE sel[k] \in ToSet(batch')
      <3>1. PICK j \in DOMAIN batch' : batch'[j] = sel[k]
        BY <2>2 DEF ToSet
      <3>2. k = offset + j
        BY <1>1, <1>2, <3>1 DEF IsInjective
      <3> QED BY <1>2, <3>2
    <2> QED BY <1>3, <1>7, <2>1, <2>2
  <1>8. IsInjective(batch')
    BY <1>5 DEF IsInjective
  <1>9. \A r \in ToSet(batch') : yielded'[r] = 0
    BY <1>3, <1>6 DEF ToSet
  <1>10. \A r \in Rows : yielded'[r] < 2
    BY <1>3 DEF NoneAhead
  <1>11. \A k \in DOMAIN Selected(table)' :
            Delivered(Selected(table)[k])' => k <= offset'
    <2>1. sel = Selected(table) /\ Selected(table)' = Selected(table)
      BY <1>3 DEF sel
    <2> QED BY <1>7, <2>1 DEF Delivered
  <1> QED BY <1>8, <1>9, <1>10, <1>11 DEF NoneAhead

\* Yielding a row keeps what is to come clear of what was yielded.
LEMMA YieldAhead ==
    ASSUME TypeOK, NoneAhead, Yield
    PROVE  NoneAhead'
  <1> DEFINE h == Head(batch)
  <1>1. /\ batch \in Seq(Wanted) /\ batch # <<>> /\ batch' = Tail(batch)
        /\ yielded \in [Rows -> 0 .. 2] /\ UNCHANGED <<table, offset>>
        /\ yielded' = [yielded EXCEPT ![h] = IF @ = 2 THEN 2 ELSE @ + 1]
    BY DEF TypeOK, Yield
  <1>2. /\ ToSet(batch) = {h} \cup ToSet(batch') /\ h \in Rows
        /\ IsInjective(batch') /\ h \notin ToSet(batch')
    BY <1>1, HeadOfBatch, WantedAssumption DEF NoneAhead
  <1>3. yielded[h] = 0
    BY <1>2 DEF NoneAhead
  <1> HIDE DEF h
  <1>4. \A r \in Rows : yielded'[r] < 2
    BY <1>1, <1>2, <1>3 DEF NoneAhead
  <1>5. \A r \in ToSet(batch') : r \in Rows
    BY <1>1, WantedAssumption DEF ToSet
  <1>6. \A r \in ToSet(batch') : yielded'[r] = 0
    BY <1>1, <1>2, <1>5 DEF NoneAhead
  <1>7. Selected(table)' = Selected(table)
    BY <1>1
  <1>8. \A k \in DOMAIN Selected(table) : Selected(table)[k] \in Rows
    BY Places, WantedAssumption
  <1>9. \A k \in DOMAIN Selected(table) : Delivered(Selected(table)[k]) => k <= offset
    BY DEF NoneAhead
  <1>10. \A k \in DOMAIN Selected(table)' : Delivered(Selected(table)[k])' => k <= offset'
    <2> SUFFICES ASSUME NEW k \in DOMAIN Selected(table), Delivered(Selected(table)[k])'
                 PROVE  k <= offset
      BY <1>1, <1>7
    <2> DEFINE r == Selected(table)[k]
    <2>1. r \in Rows /\ r' = r
      BY <1>1, <1>8
    <2>2. Delivered(r)
      BY <2>1, YieldKeepsDelivered DEF Delivered
    <2> QED BY <1>9, <2>2
  <1> QED BY <1>2, <1>4, <1>6, <1>10 DEF NoneAhead

\* Without insertions nothing delivered comes back ahead of the iteration.
LEMMA NextAhead ==
    ASSUME TypeOK, Listing = "paged", inserted = 0 => NoneAhead, [Next]_vars
    PROVE  inserted' = 0 => NoneAhead'
  <1>1. CASE Fetch
    BY <1>1, FetchAhead DEF Fetch
  <1>2. CASE Yield
    BY <1>2, YieldAhead DEF Yield
  <1>3. CASE UNCHANGED <<table, offset, batch, last, yielded, stable, inserted, deleted>>
    <2>1. UNCHANGED <<inserted, batch, yielded, offset>> /\ Selected(table)' = Selected(table)
      BY <1>3
    <2> QED BY <2>1 DEF NoneAhead, Delivered
  <1>4. ASSUME NEW r \in Rows, NEW i \in 1 .. Len(table) + 1, Insert(r, i)
        PROVE  inserted' # 0
    BY <1>4 DEF Insert, TypeOK
  <1>5. ASSUME NEW i \in DOMAIN table, Delete(i), inserted' = 0
        PROVE  NoneAhead'
    <2>1. /\ UNCHANGED <<batch, yielded, offset>> /\ table' = RemoveAt(table, i)
          /\ NoneAhead
      BY <1>5 DEF Delete, iterator
    <2>2. table \in Seq(Rows) /\ i \in 1 .. Len(table) /\ offset \in Nat
      BY DEF TypeOK
    <2>3. Selected(table)' = Selected(RemoveAt(table, i))
      BY <2>1
    <2>4. ASSUME NEW k \in DOMAIN Selected(RemoveAt(table, i)),
                 Delivered(Selected(RemoveAt(table, i))[k])
          PROVE  k <= offset
      <3>1. PICK m \in DOMAIN Selected(table) :
                    m >= k /\ Selected(table)[m] = Selected(RemoveAt(table, i))[k]
        BY <2>2, DeletionMovesDown
      <3>2. m <= offset
        BY <2>1, <2>4, <3>1 DEF NoneAhead
      <3>3. m \in Nat
        BY Places
      <3>4. k \in Nat
        BY <2>2, Removed, SelectedType
      <3> QED BY <2>2, <3>1, <3>2, <3>3, <3>4
    <2>5. \A k \in DOMAIN Selected(table)' : Delivered(Selected(table)[k])' => k <= offset'
      BY <2>1, <2>3, <2>4 DEF Delivered
    <2> QED BY <2>1, <2>5 DEF NoneAhead
  <1> QED BY <1>1, <1>2, <1>3, <1>4, <1>5, StepsOfTheWorld

\* Without deletions nothing is left behind the iteration.
LEMMA NextBehind ==
    ASSUME TypeOK, Listing = "paged", deleted = 0 => NoneBehind, [Next]_vars
    PROVE  deleted' = 0 => NoneBehind'
  <1> DEFINE sel == Selected(table)
  <1>1. CASE Fetch
    <2> SUFFICES ASSUME deleted' = 0 PROVE NoneBehind'
      OBVIOUS
    <2>1. /\ NoneBehind /\ UNCHANGED <<table, stable, yielded>> /\ ~last
      BY <1>1 DEF Fetch
    <2>2. /\ offset' = offset + PageSize
          /\ \A k \in DOMAIN sel : k > offset /\ k <= offset' => sel[k] \in ToSet(batch')
          /\ last' => \A k \in DOMAIN sel : k <= offset'
      BY <1>1, FetchedPage
    <2>3. offset \in Nat /\ PageSize \in Nat /\ \A k \in DOMAIN sel : k \in Nat
      BY Places
    <2>4. ASSUME NEW k \in DOMAIN sel, sel[k] \in stable, k <= offset' \/ last'
          PROVE  yielded[sel[k]] > 0 \/ sel[k] \in ToSet(batch')
      <3>1. CASE k <= offset
        <4>1. Delivered(sel[k])
          BY <2>1, <2>4, <3>1 DEF NoneBehind
        <4> QED BY <1>1, <4>1, FetchDelivers
      <3>2. CASE k > offset
        BY <2>2, <2>4, <3>2
      <3> QED BY <2>3, <3>1, <3>2
    <2>5. Selected(table)' = sel
      BY <2>1
    <2> HIDE DEF sel
    <2> QED BY <2>1, <2>4, <2>5 DEF NoneBehind, Delivered
  <1>2. CASE Yield
    <2> SUFFICES ASSUME deleted' = 0 PROVE NoneBehind'
      OBVIOUS
    <2>1. NoneBehind /\ UNCHANGED <<table, stable, offset, last>>
      BY <1>2 DEF Yield
    <2>2. Selected(table)' = sel /\ \A k \in DOMAIN sel : sel[k] \in Rows
      BY <2>1, Places, WantedAssumption
    <2>3. \A r \in Rows : Delivered(r) => yielded'[r] > 0 \/ r \in ToSet(batch')
      BY <1>2, YieldKeepsDelivered DEF Delivered
    <2>4. \A k \in DOMAIN sel : sel[k] \in stable /\ (k <= offset \/ last)
                                  => Delivered(sel[k])
      BY <2>1 DEF NoneBehind
    <2> HIDE DEF sel
    <2>5. \A k \in DOMAIN sel : sel[k] \in stable /\ (k <= offset \/ last)
                                  => yielded'[sel[k]] > 0 \/ sel[k] \in ToSet(batch')
      BY <2>2, <2>3, <2>4
    <2> QED BY <2>1, <2>2, <2>5 DEF NoneBehind, Delivered
  <1>3. CASE UNCHANGED <<table, offset, batch, last, yielded, stable, inserted, deleted>>
    <2>1. /\ UNCHANGED <<deleted, batch, yielded, offset, last, stable>>
          /\ Selected(table)' = Selected(table)
      BY <1>3
    <2> QED BY <2>1 DEF NoneBehind, Delivered
  <1>4. ASSUME NEW r \in Rows, NEW i \in 1 .. Len(table) + 1, Insert(r, i), deleted' = 0
        PROVE  NoneBehind'
    <2> DEFINE t == InsertAt(table, i, r)
    <2>1. /\ UNCHANGED <<batch, yielded, offset, last, stable>> /\ table' = t
          /\ NoneBehind /\ r \notin ToSet(table)
      BY <1>4 DEF Insert, iterator
    <2>2. /\ table \in Seq(Rows) /\ IsInjective(table) /\ offset \in Nat
          /\ stable \subseteq ToSet(table)
      BY DEF TypeOK
    <2>3. t \in Seq(Rows) /\ IsInjective(t)
      BY <2>1, <2>2, Inserted, InsertedRows
    <2>4. /\ IsInjective(Selected(t)) /\ Selected(t) \in Seq(Wanted)
          /\ \A k \in DOMAIN Selected(t) : k \in Nat
      BY <2>3, SelectedExact, SelectedType
    <2>5. ASSUME NEW k \in DOMAIN Selected(t), Selected(t)[k] \in stable, k <= offset \/ last
          PROVE  Delivered(Selected(t)[k])
      <3>1. Selected(t)[k] \in ToSet(table) \cap Wanted
        BY <2>2, <2>4, <2>5
      <3>2. PICK j \in DOMAIN sel : sel[j] = Selected(t)[k]
        BY <3>1, Places DEF ToSet
      <3>3. PICK m \in DOMAIN Selected(t) : m >= j /\ Selected(t)[m] = sel[j]
        BY <2>2, InsertionMovesUp
      <3>4. m = k
        BY <2>4, <3>2, <3>3 DEF IsInjective
      <3>5. j \in Nat /\ k \in Nat
        BY <2>4, Places
      <3>6. j <= offset \/ last
        BY <2>2, <2>5, <3>3, <3>4, <3>5
      <3> QED BY <2>1, <2>5, <3>2, <3>6 DEF NoneBehind
    <2>6. Selected(table)' = Selected(t)
      BY <2>1
    <2> HIDE DEF t
    <2> QED BY <2>1, <2>5, <2>6 DEF NoneBehind, Delivered
  <1>5. ASSUME NEW i \in DOMAIN table, Delete(i)
        PROVE  deleted' # 0
    BY <1>5 DEF Delete, TypeOK
  <1> QED BY <1>1, <1>2, <1>3, <1>4, <1>5, StepsOfTheWorld

\* While nobody changes the table, only what is in it is delivered.
LEMMA NextElse ==
    ASSUME TypeOK, Listing = "paged", inserted + deleted = 0 => NoneElse, [Next]_vars
    PROVE  inserted' + deleted' = 0 => NoneElse'
  <1>1. inserted \in Nat /\ deleted \in Nat
    BY DEF TypeOK
  <1>2. CASE Fetch
    <2> SUFFICES ASSUME inserted' + deleted' = 0 PROVE NoneElse'
      OBVIOUS
    <2>1. NoneElse /\ UNCHANGED <<table, stable, yielded>>
      BY <1>2 DEF Fetch
    <2>2. \A j \in DOMAIN batch' : batch'[j] \in ToSet(Selected(table))
      BY <1>2, FetchedPage DEF ToSet
    <2>3. \A r \in ToSet(batch') : r \in ToSet(table) \cap Wanted
      BY <2>2, Places DEF ToSet
    <2>4. \A r \in Rows : yielded[r] > 0 => r \in ToSet(table) \cap Wanted
      BY <2>1 DEF NoneElse, Delivered
    <2> QED BY <2>1, <2>3, <2>4 DEF NoneElse, Delivered
  <1>3. CASE Yield
    <2> SUFFICES ASSUME inserted' + deleted' = 0 PROVE NoneElse'
      OBVIOUS
    <2>1. NoneElse /\ UNCHANGED <<table, stable>>
      BY <1>3 DEF Yield
    <2>2. \A r \in Rows : Delivered(r)' => Delivered(r)
      BY <1>3, YieldKeepsDelivered
    <2> QED BY <2>1, <2>2 DEF NoneElse
  <1>4. CASE UNCHANGED <<table, offset, batch, last, yielded, stable, inserted, deleted>>
    BY <1>4 DEF NoneElse, Delivered
  <1>5. ASSUME NEW r \in Rows, NEW i \in 1 .. Len(table) + 1, Insert(r, i)
        PROVE  inserted' + deleted' # 0
    BY <1>1, <1>5 DEF Insert
  <1>6. ASSUME NEW i \in DOMAIN table, Delete(i)
        PROVE  inserted' + deleted' # 0
    BY <1>1, <1>6 DEF Delete
  <1> QED BY <1>2, <1>3, <1>4, <1>5, <1>6, StepsOfTheWorld

\* The iteration ends after its last page, with nothing left to yield.
LEMMA NextEnd ==
    ASSUME done => last /\ batch = <<>>, [Next]_vars
    PROVE  (done => last /\ batch = <<>>)'
  <1>1. CASE Fetch \/ Yield
    BY <1>1 DEF Fetch, Yield
  <1>2. CASE Stop \/ UNCHANGED vars
    BY <1>2 DEF Stop, vars, iterator
  <1>3. ASSUME NEW r \in Rows, NEW i \in 1 .. Len(table) + 1, Insert(r, i)
        PROVE  UNCHANGED <<done, last, batch>>
    BY <1>3 DEF Insert, iterator
  <1>4. ASSUME NEW i \in DOMAIN table, Delete(i)
        PROVE  UNCHANGED <<done, last, batch>>
    BY <1>4 DEF Delete, iterator
  <1> QED BY <1>1, <1>2, <1>3, <1>4 DEF Next, Iterate

\* An iteration starts with nothing delivered and everything ahead.
LEMMA InitIInv == Init => IInv
  <1> SUFFICES ASSUME Init PROVE IInv
    OBVIOUS
  <1>1. TypeOK
    BY InitType
  <1>2. /\ batch = <<>> /\ offset = 0 /\ last = FALSE /\ done = FALSE
        /\ yielded = [r \in Rows |-> 0] /\ stable = ToSet(table) /\ ToSet(batch) = {}
    BY DEF Init, ToSet
  <1>3. \A k \in DOMAIN Selected(table) : k \in Nat /\ k > 0 /\ Selected(table)[k] \in Rows
    BY <1>1, Places, WantedAssumption
  <1>4. \A r \in Rows : ~Delivered(r) /\ yielded[r] = 0
    BY <1>2 DEF Delivered
  <1>5. NoneAhead
    BY <1>2, <1>3, <1>4 DEF NoneAhead, IsInjective
  <1>6. NoneBehind
    BY <1>2, <1>3 DEF NoneBehind
  <1>7. NoneElse
    BY <1>2, <1>4 DEF NoneElse
  <1> QED BY <1>1, <1>2, <1>5, <1>6, <1>7 DEF IInv

\* The strengthening is an invariant of an iteration by limit and offset.
LEMMA Invariant ==
    ASSUME Listing = "paged"
    PROVE  Spec => []IInv
  <1>1. IInv /\ [Next]_vars => IInv'
    <2> SUFFICES ASSUME IInv, [Next]_vars PROVE IInv'
      OBVIOUS
    <2>1. TypeOK'
      BY NextType DEF IInv
    <2>2. (done => last /\ batch = <<>>)'
      BY NextEnd DEF IInv
    <2>3. inserted' = 0 => NoneAhead'
      BY NextAhead DEF IInv
    <2>4. deleted' = 0 => NoneBehind'
      BY NextBehind DEF IInv
    <2>5. inserted' + deleted' = 0 => NoneElse'
      BY NextElse DEF IInv
    <2> QED BY <2>1, <2>2, <2>3, <2>4, <2>5 DEF IInv
  <1> QED BY InitIInv, <1>1, PTL DEF Spec

-----------------------------------------------------------------------------
(* What iter_all delivers of ResourceManager.list.                         *)

\* Deletions alone never repeat a row.
THEOREM PaginationRepeatsNothing ==
    ASSUME Listing = "paged"
    PROVE  Spec => []OnlyInsertionsRepeat
  <1>1. IInv => OnlyInsertionsRepeat
    BY DEF IInv, NoneAhead, OnlyInsertionsRepeat
  <1> QED BY <1>1, Invariant, PTL

\* What a finished iteration has delivered, it has yielded.
LEMMA AllYielded ==
    ASSUME IInv, done, NEW r \in Rows
    PROVE  yielded[r] > 0 <=> Delivered(r)
  <1>1. batch = <<>>
    BY DEF IInv
  <1>2. ToSet(batch) = {}
    BY <1>1 DEF ToSet
  <1> QED BY <1>2 DEF Delivered

\* Insertions alone never hide a row that was in the table all along.
THEOREM PaginationHidesNothing ==
    ASSUME Listing = "paged"
    PROVE  Spec => []OnlyDeletionsHide
  <1>1. ASSUME IInv, done, deleted = 0, NEW r \in stable \cap Wanted
        PROVE  yielded[r] > 0
    <2>1. last /\ NoneBehind /\ TypeOK
      BY <1>1 DEF IInv
    <2>2. r \in ToSet(Selected(table)) /\ r \in Rows
      BY <1>1, <2>1, Places, WantedAssumption DEF TypeOK
    <2>3. PICK k \in DOMAIN Selected(table) : Selected(table)[k] = r
      BY <2>2 DEF ToSet
    <2>4. Delivered(r)
      BY <1>1, <2>1, <2>3 DEF NoneBehind
    <2> QED BY <1>1, <2>2, <2>4, AllYielded
  <1>2. IInv => OnlyDeletionsHide
    BY <1>1 DEF OnlyDeletionsHide
  <1> QED BY <1>2, Invariant, PTL

\* Of a table that nobody changes exactly the wanted rows are yielded, each once,
\* whatever the page size.
THEOREM PaginationQuietIsExact ==
    ASSUME Listing = "paged"
    PROVE  Spec => []QuietIsExact
  <1>1. ASSUME IInv, done, inserted + deleted = 0, NEW r \in Rows
        PROVE  yielded[r] = IF r \in ToSet(table) \cap Wanted THEN 1 ELSE 0
    <2>1. /\ TypeOK /\ inserted = 0 /\ deleted = 0 /\ last
          /\ NoneAhead /\ NoneBehind /\ NoneElse
      BY <1>1 DEF IInv, TypeOK
    <2>2. yielded[r] \in 0 .. 2 /\ yielded[r] < 2
      BY <2>1 DEF TypeOK, NoneAhead
    <2>3. yielded[r] > 0 => r \in ToSet(table) \cap Wanted
      BY <1>1, <2>1, AllYielded DEF NoneElse
    <2>4. ASSUME r \in ToSet(table) \cap Wanted
          PROVE  yielded[r] > 0
      <3>1. r \in ToSet(Selected(table)) /\ r \in stable
        BY <2>1, <2>4, Places DEF NoneElse
      <3>2. PICK k \in DOMAIN Selected(table) : Selected(table)[k] = r
        BY <3>1 DEF ToSet
      <3>3. Delivered(r)
        BY <2>1, <3>1, <3>2 DEF NoneBehind
      <3> QED BY <1>1, <3>3, AllYielded
    <2> QED BY <2>2, <2>3, <2>4
  <1>2. ASSUME IInv, done, inserted + deleted = 0
        PROVE  yielded = [r \in Rows |-> IF r \in ToSet(table) \cap Wanted THEN 1 ELSE 0]
    <2>1. yielded \in [Rows -> 0 .. 2]
      BY <1>2 DEF IInv, TypeOK
    <2>2. \A r \in Rows : yielded[r] = IF r \in ToSet(table) \cap Wanted THEN 1 ELSE 0
      BY <1>1, <1>2
    <2> QED BY <2>1, <2>2
  <1>3. IInv => QuietIsExact
    BY <1>2 DEF QuietIsExact
  <1> QED BY <1>3, Invariant, PTL

=============================================================================
