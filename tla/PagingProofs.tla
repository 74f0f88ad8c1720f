---------------------------- MODULE PagingProofs ----------------------------
(***************************************************************************)
(* Theorems about Paging, for any finite set of rows and any page length:  *)
(* where, in a list that grows, shrinks and is renamed under the walk, the *)
(* rows are that were shown and the rows that were not.                    *)
(***************************************************************************)
EXTENDS Paging, FiniteSetTheorems, SequenceTheorems, TLAPS

\* Rows before page p.
Skipped(p) == (p - 1) * Limit

Reading == phase = "reading"
HasData  == Reading /\ data # NotRead
HasTotal == Reading /\ total # NotRead

\* As long as nothing is deleted the page that is asked for exists, and keeps existing
\* until its count is taken and compared.
Found ==
  gone = {} =>
    /\ phase # "notFound"
    /\ page = 1 \/ Skipped(page) < Len(list)
    /\ HasTotal => total <= Len(list) /\ (page = 1 \/ Skipped(page) < total)

\* As long as no row comes or moves to an earlier place, what was shown and is still
\* listed stands before the page asked for, and what is read stands on it or before it
\* and was not shown; but for the rows that moved to a later place themselves.
Once ==
  ordered /\ ~inserted /\ rose = {} =>
    /\ \A r \in Rows \ sank : seen[r] <= 1
    /\ Walking => \A i \in 1..Len(list) :
         seen[list[i]] > 0 /\ list[i] \notin sank => i <= Skipped(page)
    /\ HasData => \A r \in ToSet(data) \ sank :
         seen[r] = 0 /\ \A i \in 1..Len(list) : list[i] = r => i <= Skipped(page + 1)

\* A row of the start that was shown, or is about to be, or moved to an earlier place.
Covered(r) == r \in atStart \ rose => seen[r] > 0 \/ (HasData /\ r \in ToSet(data))

\* As long as no row goes or moves to a later place and no page is torn, what stands
\* before the page asked for was shown, unless it is new or moved there; what stands on
\* it is shown with it; and once rows and count are both read, the count says whether
\* anything is left.
NoneLeft ==
  ordered /\ gone = {} /\ ~torn /\ sank = {} =>
    /\ atStart \subseteq ToSet(list)
    /\ Walking => \A i \in 1..Len(list) :
         i <= Skipped(page) \/ (HasData /\ i <= Skipped(page + 1)) => Covered(list[i])
    /\ HasTotal /\ ~HasData => total = Len(list)
    /\ HasTotal /\ HasData /\ total <= Skipped(page + 1) => \A r \in atStart : Covered(r)
    /\ phase = "ended" => \A r \in atStart \ rose : seen[r] > 0

\* A function of numbers as pairs, one for each thing it counts.
Pairs(f, S) == UNION {{x} \X (1..f[x]) : x \in S}

\* How many rows the client was shown, repeated ones included.
Showings == Cardinality(Pairs(seen, Rows))

\* As long as nothing changes, the client was shown as many rows as stand before the page
\* asked for, and what is read are other rows each, as many as stand on it.
AsMany ==
  gone = {} /\ ~inserted =>
    /\ Len(list) = Cardinality(atStart)
    /\ Walking => Showings = Skipped(page) /\ Skipped(page) <= Len(list)
    /\ HasData => /\ IsInjective(data)
                  /\ Len(data) = IF Skipped(page + 1) < Len(list) THEN Limit
                                 ELSE Len(list) - Skipped(page)
    /\ HasTotal => total = Len(list)
    /\ phase = "ended" => Showings = Len(list)

Inv == TypeOK /\ Found /\ Once /\ NoneLeft

----------------------------------------------------------------------------
(* Arithmetic of pages *)

\* A page begins where the one before it ends.
LEMMA SkippedFacts ==
  /\ Skipped(1) = 0
  /\ \A p \in Nat \ {0} :
       /\ Skipped(p) \in Nat /\ Skipped(p + 1) \in Nat
       /\ Skipped(p + 1) = Skipped(p) + Limit
       /\ p <= Skipped(p + 1)
  <1>1. Limit \in Nat /\ 1 <= Limit
    BY LimitAssumption
  <1>2. Skipped(1) = 0
    BY <1>1 DEF Skipped
  <1>3. ASSUME NEW p \in Nat \ {0}
        PROVE  /\ Skipped(p) \in Nat /\ Skipped(p + 1) \in Nat
               /\ Skipped(p + 1) = Skipped(p) + Limit
               /\ p <= Skipped(p + 1)
    <2>1. p - 1 \in Nat /\ (p - 1) * Limit \in Nat
      BY <1>1
    <2>2. (p + 1) - 1 = p /\ p * Limit = (p - 1) * Limit + Limit /\ p * Limit \in Nat
      BY <1>1
    <2>3. p * Limit >= p
      BY <1>1
    <2> QED
      BY <2>1, <2>2, <2>3 DEF Skipped
  <1> QED
    BY <1>2, <1>3

\* Math.ceil counts the pages that begin before the last row.
LEMMA PerPageFacts ==
  ASSUME NEW n \in Nat
  PROVE  /\ PerPage(n) \in Nat
         /\ \A p \in Nat \ {0} : p <= PerPage(n) <=> Skipped(p) < n
  <1> DEFINE q == PerPage(n)
  <1>1. Limit \in Nat /\ 1 <= Limit
    BY LimitAssumption
  <1>2. /\ q \in Nat
        /\ Limit * q <= n + Limit - 1
        /\ n + Limit - 1 < Limit * q + Limit
    BY <1>1 DEF PerPage
  <1> HIDE DEF q
  <1>3. ASSUME NEW p \in Nat \ {0}
        PROVE  p <= q <=> Skipped(p) < n
    <2>1. p * Limit \in Nat /\ Limit * q \in Nat /\ Skipped(p) = p * Limit - Limit
      BY <1>1, <1>2 DEF Skipped
    <2>2. CASE p <= q
      <3>1. p * Limit <= Limit * q
        BY <1>1, <1>2, <2>2
      <3> QED
        BY <1>1, <1>2, <2>1, <2>2, <3>1
    <2>3. CASE ~(p <= q)
      <3>1. q + 1 <= p
        BY <1>2, <2>3
      <3>2. Limit * q + Limit <= p * Limit
        BY <1>1, <1>2, <3>1
      <3> QED
        BY <1>1, <1>2, <2>1, <2>3, <3>2
    <2> QED
      BY <2>2, <2>3
  <1> QED
    BY <1>2, <1>3 DEF q

----------------------------------------------------------------------------
(* Pages and lists *)

\* A page holds the rows that stand on it.
LEMMA PageRows ==
  ASSUME NEW s \in Seq(Rows), NEW p \in Nat \ {0}
  PROVE  /\ PageOf(s, p) \in Seq(Rows)
         /\ Len(PageOf(s, p)) <= Limit
         /\ \A r : r \in ToSet(PageOf(s, p)) <=>
              \E i \in 1..Len(s) : s[i] = r /\ Skipped(p) < i /\ i <= Skipped(p + 1)
         /\ Skipped(p) <= Len(s) =>
              Len(PageOf(s, p)) = IF Skipped(p + 1) < Len(s) THEN Limit ELSE Len(s) - Skipped(p)
         /\ IsInjective(s) => IsInjective(PageOf(s, p))
  <1> DEFINE first == Skipped(p)
             last == IF first + Limit < Len(s) THEN first + Limit ELSE Len(s)
             t == SubSeq(s, first + 1, last)
  <1>0. /\ Limit \in Nat /\ 1 <= Limit /\ Len(s) \in Nat
        /\ first \in Nat /\ Skipped(p + 1) = first + Limit
    <2>1. Limit \in Nat /\ 1 <= Limit /\ Len(s) \in Nat
      BY LimitAssumption
    <2> QED
      BY <2>1, SkippedFacts
  <1> HIDE DEF first
  <1>1. /\ last \in Nat /\ last <= Len(s) /\ last <= first + Limit
        /\ \A i \in 1..Len(s) : i <= last <=> i <= first + Limit
    BY <1>0
  <1>2. PageOf(s, p) = t
    BY DEF PageOf, Slice, Skipped, first
  <1> HIDE DEF last
  <1>3. /\ t \in Seq(Rows)
        /\ Len(t) = IF first + 1 <= last THEN last - first ELSE 0
        /\ \A i \in 1..(last - first) : t[i] = s[first + i]
    <2>1. \A i \in (first + 1)..last : s[i] \in Rows
      BY <1>0, <1>1
    <2>2. /\ t \in Seq(Rows)
          /\ Len(t) = IF first + 1 <= last THEN last - (first + 1) + 1 ELSE 0
          /\ \A i \in 1..(last - (first + 1) + 1) : t[i] = s[(first + 1) + i - 1]
      BY <1>0, <1>1, <2>1, SubSeqProperties
    <2>3. ASSUME NEW i \in 1..(last - first)
          PROVE  t[i] = s[first + i]
      <3>1. i \in 1..(last - (first + 1) + 1) /\ (first + 1) + i - 1 = first + i
        BY <1>0, <1>1
      <3> QED
        BY <2>2, <3>1
    <2>4. last - (first + 1) + 1 = last - first
      BY <1>0, <1>1
    <2> QED
      BY <2>2, <2>3, <2>4
  <1> HIDE DEF t
  <1>4. Len(t) <= Limit
    BY <1>0, <1>1, <1>3
  <1>5. DOMAIN t = 1..Len(t)
    BY <1>3
  <1>6. ASSUME NEW r
        PROVE  r \in ToSet(t) <=>
                 \E i \in 1..Len(s) : s[i] = r /\ first < i /\ i <= last
    <2>1. ASSUME r \in ToSet(t)
          PROVE  \E i \in 1..Len(s) : s[i] = r /\ first < i /\ i <= last
      <3>1. PICK j \in 1..Len(t) : t[j] = r
        BY <1>5, <2>1 DEF ToSet
      <3>2. j \in 1..(last - first) /\ first + j \in 1..Len(s)
            /\ first < first + j /\ first + j <= last
        BY <1>0, <1>1, <1>3
      <3> QED
        BY <1>3, <3>1, <3>2
    <2>2. ASSUME NEW i \in 1..Len(s), s[i] = r, first < i, i <= last
          PROVE  r \in ToSet(t)
      <3>1. i - first \in 1..(last - first) /\ first + (i - first) = i
            /\ i - first \in 1..Len(t)
        BY <1>0, <1>1, <1>3, <2>2
      <3>2. t[i - first] = r
        BY <1>3, <2>2, <3>1
      <3> QED
        BY <1>5, <3>1, <3>2 DEF ToSet
    <2> QED
      BY <2>1, <2>2
  <1>7. first <= Len(s) =>
          Len(t) = IF first + Limit < Len(s) THEN Limit ELSE Len(s) - first
    BY <1>0, <1>3 DEF last
  <1>8. IsInjective(s) => IsInjective(t)
    <2> SUFFICES ASSUME IsInjective(s), NEW i \in 1..Len(t), NEW j \in 1..Len(t), t[i] = t[j]
                 PROVE  i = j
      BY <1>5 DEF IsInjective
    <2>1. i \in 1..(last - first) /\ j \in 1..(last - first)
      BY <1>0, <1>1, <1>3
    <2>2. s[first + i] = s[first + j] /\ first + i \in 1..Len(s) /\ first + j \in 1..Len(s)
      BY <1>0, <1>1, <1>3, <2>1
    <2>3. first + i = first + j
      BY <2>2 DEF IsInjective
    <2> QED
      BY <1>0, <2>1, <2>3
  <1> QED
    BY <1>0, <1>1, <1>2, <1>3, <1>4, <1>6, <1>7, <1>8 DEF first

\* An inserted row is new; those after its place stand one further back.
LEMMA InsertedRows ==
  ASSUME NEW s \in Seq(Rows), NEW j \in 1..(Len(s) + 1), NEW r \in Rows
  PROVE  /\ InsertAt(s, j, r) \in Seq(Rows)
         /\ Len(InsertAt(s, j, r)) = Len(s) + 1
         /\ \A i \in 1..(Len(s) + 1) :
              InsertAt(s, j, r)[i] = IF i < j THEN s[i] ELSE IF i = j THEN r ELSE s[i - 1]
  <1> DEFINE a == SubSeq(s, 1, j - 1)
             b == SubSeq(s, j, Len(s))
             c == a \o <<r>>
             n == Len(s)
  <1>1. n \in Nat /\ j \in Nat /\ 1 <= j /\ j <= n + 1 /\ \A i \in 1..n : s[i] \in Rows
    OBVIOUS
  <1>2. /\ a \in Seq(Rows) /\ Len(a) = j - 1
        /\ \A i \in 1..(j - 1) : a[i] = s[i]
    <2>1. /\ a \in Seq(Rows) /\ Len(a) = IF 1 <= j - 1 THEN (j - 1) - 1 + 1 ELSE 0
          /\ \A i \in 1..((j - 1) - 1 + 1) : a[i] = s[1 + i - 1]
      <3>1. \A i \in 1..(j - 1) : s[i] \in Rows
        BY <1>1
      <3> QED
        BY <1>1, <3>1, SubSeqProperties
    <2> QED
      BY <1>1, <2>1
  <1>3. /\ b \in Seq(Rows) /\ Len(b) = n - j + 1
        /\ \A i \in 1..(n - j + 1) : b[i] = s[j + i - 1]
    <2>1. /\ b \in Seq(Rows) /\ Len(b) = IF j <= n THEN n - j + 1 ELSE 0
          /\ \A i \in 1..(n - j + 1) : b[i] = s[j + i - 1]
      <3>1. \A i \in j..n : s[i] \in Rows
        BY <1>1
      <3> QED
        BY <1>1, <3>1, SubSeqProperties
    <2> QED
      BY <1>1, <2>1
  <1> HIDE DEF a, b, n
  <1>4. /\ c \in Seq(Rows) /\ Len(c) = j
        /\ \A i \in 1..(j - 1) : c[i] = s[i]
        /\ c[j] = r
    BY <1>1, <1>2
  <1> HIDE DEF c
  <1>5. /\ c \o b \in Seq(Rows) /\ Len(c \o b) = n + 1
        /\ \A i \in 1..(n + 1) : (c \o b)[i] = IF i <= j THEN c[i] ELSE b[i - j]
    <2>1. /\ c \o b \in Seq(Rows) /\ Len(c \o b) = Len(c) + Len(b)
          /\ \A i \in 1..(Len(c) + Len(b)) :
               (c \o b)[i] = IF i <= Len(c) THEN c[i] ELSE b[i - Len(c)]
      BY <1>3, <1>4, ConcatProperties
    <2>2. Len(c) + Len(b) = n + 1
      BY <1>1, <1>3, <1>4
    <2> QED
      BY <1>4, <2>1, <2>2
  <1>6. \A i \in 1..(n + 1) : i > j => b[i - j] = s[i - 1]
    BY <1>1, <1>3
  <1>7. InsertAt(s, j, r) = c \o b
    BY DEF InsertAt, a, b, c
  <1>8. ASSUME NEW i \in 1..(n + 1)
        PROVE  (c \o b)[i] = IF i < j THEN s[i] ELSE IF i = j THEN r ELSE s[i - 1]
    BY <1>1, <1>4, <1>5, <1>6
  <1> QED
    BY <1>5, <1>7, <1>8 DEF n

\* Where a row is removed, those after it stand one further ahead.
LEMMA RemovedRows ==
  ASSUME NEW s \in Seq(Rows), NEW j \in 1..Len(s)
  PROVE  /\ RemoveAt(s, j) \in Seq(Rows)
         /\ Len(RemoveAt(s, j)) = Len(s) - 1
         /\ \A i \in 1..(Len(s) - 1) :
              RemoveAt(s, j)[i] = IF i < j THEN s[i] ELSE s[i + 1]
  <1> DEFINE a == SubSeq(s, 1, j - 1)
             b == SubSeq(s, j + 1, Len(s))
             n == Len(s)
  <1>1. n \in Nat /\ j \in Nat /\ 1 <= j /\ j <= n /\ \A i \in 1..n : s[i] \in Rows
    OBVIOUS
  <1>2. /\ a \in Seq(Rows) /\ Len(a) = j - 1
        /\ \A i \in 1..(j - 1) : a[i] = s[i]
    <2>1. /\ a \in Seq(Rows) /\ Len(a) = IF 1 <= j - 1 THEN (j - 1) - 1 + 1 ELSE 0
          /\ \A i \in 1..((j - 1) - 1 + 1) : a[i] = s[1 + i - 1]
      <3>1. \A i \in 1..(j - 1) : s[i] \in Rows
        BY <1>1
      <3> QED
        BY <1>1, <3>1, SubSeqProperties
    <2> QED
      BY <1>1, <2>1
  <1>3. /\ b \in Seq(Rows) /\ Len(b) = n - j
        /\ \A i \in 1..(n - j) : b[i] = s[j + i]
    <2>1. /\ b \in Seq(Rows) /\ Len(b) = IF j + 1 <= n THEN n - (j + 1) + 1 ELSE 0
          /\ \A i \in 1..(n - (j + 1) + 1) : b[i] = s[(j + 1) + i - 1]
      <3>1. \A i \in (j + 1)..n : s[i] \in Rows
        BY <1>1
      <3> QED
        BY <1>1, <3>1, SubSeqProperties
    <2>2. n - (j + 1) + 1 = n - j /\ (~(j + 1 <= n) => n - j = 0)
      BY <1>1
    <2>3. ASSUME NEW i \in 1..(n - j)
          PROVE  b[i] = s[j + i]
      <3>1. i \in 1..(n - (j + 1) + 1) /\ (j + 1) + i - 1 = j + i
        BY <1>1
      <3> QED
        BY <2>1, <3>1
    <2> QED
      BY <2>1, <2>2, <2>3
  <1> HIDE DEF a, b, n
  <1>4. /\ a \o b \in Seq(Rows) /\ Len(a \o b) = n - 1
        /\ \A i \in 1..(n - 1) : (a \o b)[i] = IF i < j THEN a[i] ELSE b[i - (j - 1)]
    <2>1. /\ a \o b \in Seq(Rows) /\ Len(a \o b) = Len(a) + Len(b)
          /\ \A i \in 1..(Len(a) + Len(b)) :
               (a \o b)[i] = IF i <= Len(a) THEN a[i] ELSE b[i - Len(a)]
      BY <1>2, <1>3, ConcatProperties
    <2>2. Len(a) + Len(b) = n - 1 /\ \A i \in 1..(n - 1) : i <= Len(a) <=> i < j
      BY <1>1, <1>2, <1>3
    <2> QED
      BY <1>2, <2>1, <2>2
  <1>5. ASSUME NEW i \in 1..(n - 1)
        PROVE  (a \o b)[i] = IF i < j THEN s[i] ELSE s[i + 1]
    <2>1. ~(i < j) => i - (j - 1) \in 1..(n - j) /\ j + (i - (j - 1)) = i + 1
      BY <1>1
    <2>2. i < j => i \in 1..(j - 1)
      BY <1>1
    <2> QED
      BY <1>2, <1>3, <1>4, <2>1, <2>2
  <1>6. RemoveAt(s, j) = a \o b
    BY DEF RemoveAt, a, b
  <1> QED
    BY <1>4, <1>5, <1>6 DEF n

\* A finite set can be listed without repetitions.
LEMMA SetToSeqFacts ==
  ASSUME NEW S, IsFiniteSet(S)
  PROVE  /\ SetToSeq(S) \in Seq(S) /\ IsInjective(SetToSeq(S))
         /\ Len(SetToSeq(S)) = Cardinality(S)
  <1>1. Cardinality(S) \in Nat /\ ExistsBijection(1..Cardinality(S), S)
    BY FS_CardinalityType
  <1>2. \E f \in [1..Cardinality(S) -> S] : IsInjective(f)
    BY <1>1 DEF ExistsBijection, Bijection, Injection
  <1>3. SetToSeq(S) \in [1..Cardinality(S) -> S] /\ IsInjective(SetToSeq(S))
    BY <1>2 DEF SetToSeq
  <1> QED
    BY <1>1, <1>3

\* A list without repetitions is no longer than there are rows.
LEMMA ListFits ==
  ASSUME NEW s \in Seq(Rows), IsInjective(s)
  PROVE  Len(s) <= Cardinality(Rows)
  <1>1. s \in Injection(1..Len(s), Rows)
    BY DEF Injection
  <1>2. Cardinality(1..Len(s)) <= Cardinality(Rows)
    BY <1>1, RowsAssumption, FS_Injection
  <1>3. Cardinality(1..Len(s)) = Len(s)
    <2>1. 1 \in Int /\ Len(s) \in Int /\ (1 > Len(s) => Len(s) = 0)
      OBVIOUS
    <2> QED
      BY <2>1, FS_Interval
  <1> QED
    BY <1>2, <1>3

\* A row is in a list where it stands, and without repetitions nowhere else.
LEMMA Stands ==
  ASSUME NEW s \in Seq(Rows)
  PROVE  /\ \A r : r \in ToSet(s) <=> \E i \in 1..Len(s) : s[i] = r
         /\ ToSet(s) \subseteq Rows
         /\ IsInjective(s) <=> \A i, j \in 1..Len(s) : s[i] = s[j] => i = j
  <1>1. DOMAIN s = 1..Len(s) /\ \A i \in 1..Len(s) : s[i] \in Rows
    OBVIOUS
  <1> QED
    BY <1>1 DEF ToSet, IsInjective

----------------------------------------------------------------------------
(* Sums over rows *)

\* Of each thing there are as many pairs as its number says.
LEMMA PairsAre ==
  ASSUME NEW S, IsFiniteSet(S), NEW f, \A x \in S : f[x] \in Nat
  PROVE  /\ IsFiniteSet(Pairs(f, S)) /\ Cardinality(Pairs(f, S)) \in Nat
         /\ \A x \in S : Cardinality(Pairs(f, S)) = f[x] + Cardinality(Pairs(f, S \ {x}))
  <1>1. ASSUME NEW x \in S
        PROVE  IsFiniteSet({x} \X (1..f[x])) /\ Cardinality({x} \X (1..f[x])) = f[x]
    <2>1. f[x] \in Nat /\ 1 \in Int /\ f[x] \in Int /\ (1 > f[x] => f[x] = 0) /\ f[x] - 1 + 1 = f[x]
      OBVIOUS
    <2>2. IsFiniteSet(1..f[x]) /\ Cardinality(1..f[x]) = f[x]
      BY <2>1, FS_Interval
    <2>3. IsFiniteSet({x}) /\ Cardinality({x}) = 1
      BY FS_Singleton
    <2>4. Cardinality({x} \X (1..f[x])) = 1 * f[x] /\ IsFiniteSet({x} \X (1..f[x]))
      BY <2>2, <2>3, FS_Product
    <2> QED
      BY <2>1, <2>4
  <1>2. ASSUME NEW T \in SUBSET S
        PROVE  IsFiniteSet(Pairs(f, T))
    <2> DEFINE g == [x \in T |-> {x} \X (1..f[x])]
               Blocks == {{x} \X (1..f[x]) : x \in T}
    <2>1. g \in Surjection(T, Blocks)
      BY DEF Surjection
    <2>2. IsFiniteSet(T)
      BY FS_Subset
    <2>3. IsFiniteSet(Blocks)
      <3> HIDE DEF g, Blocks
      <3> QED BY <2>1, <2>2, FS_Surjection
    <2>4. \A B \in Blocks : IsFiniteSet(B)
      BY <1>1
    <2> QED
      BY <2>3, <2>4, FS_UNION DEF Pairs
  <1>3. ASSUME NEW x \in S
        PROVE  Cardinality(Pairs(f, S)) = f[x] + Cardinality(Pairs(f, S \ {x}))
    <2> DEFINE A == Pairs(f, S \ {x})
               B == {x} \X (1..f[x])
    <2>1. Pairs(f, S) = A \cup B /\ A \cap B = {}
      BY DEF Pairs
    <2>2. IsFiniteSet(A) /\ IsFiniteSet(B) /\ Cardinality(B) = f[x] /\ f[x] \in Nat
      BY <1>1, <1>2
    <2> HIDE DEF A, B
    <2>3. /\ Cardinality(A \cup B) = Cardinality(A) + Cardinality(B) - Cardinality(A \cap B)
      BY <2>2, FS_Union
    <2>4. Cardinality(A) \in Nat /\ Cardinality(A \cap B) = 0
      BY <2>1, <2>2, FS_CardinalityType, FS_EmptySet
    <2>5. Cardinality(A \cup B) = f[x] + Cardinality(A)
      BY <2>2, <2>3, <2>4
    <2> QED
      BY <2>1, <2>5 DEF A
  <1>4. Cardinality(Pairs(f, S)) \in Nat
    BY <1>2, FS_CardinalityType
  <1> QED
    BY <1>2, <1>3, <1>4

\* The fold that adds up a function counts its pairs.  The fold is a function that is defined
\* by its own values on smaller sets, and the count satisfies the same equation.
LEMMA SumIs ==
  ASSUME NEW S, IsFiniteSet(S), NEW f, \A x \in S : f[x] \in Nat
  PROVE  FoldFunctionOnSet(+, 0, f, S) = Cardinality(Pairs(f, S))
  <1> DEFINE w == [s \in SUBSET S |-> Cardinality(Pairs(f, s))]
             pick(s) == CHOOSE x \in s : TRUE
             iter == CHOOSE h : h = [s \in SUBSET S |->
                       IF s = {} THEN 0 ELSE f[pick(s)] + h[s \ {pick(s)}]]
  <1>1. w = [s \in SUBSET S |-> IF s = {} THEN 0 ELSE f[pick(s)] + w[s \ {pick(s)}]]
    <2> SUFFICES ASSUME NEW s \in SUBSET S
                 PROVE  w[s] = IF s = {} THEN 0 ELSE f[pick(s)] + w[s \ {pick(s)}]
      OBVIOUS
    <2>1. CASE s = {}
      BY <2>1, FS_EmptySet DEF Pairs
    <2>2. CASE s # {}
      <3>1. pick(s) \in s
        BY <2>2
      <3>2. IsFiniteSet(s) /\ \A x \in s : f[x] \in Nat
        BY FS_Subset
      <3> DEFINE x == pick(s)
      <3>3. x \in s
        BY <3>1
      <3> HIDE DEF x
      <3>4. Cardinality(Pairs(f, s)) = f[x] + Cardinality(Pairs(f, s \ {x}))
        BY <3>2, <3>3, PairsAre
      <3>5. w[s] = f[x] + w[s \ {x}]
        BY <3>4
      <3> QED
        BY <2>2, <3>5 DEF x
    <2> QED
      BY <2>1, <2>2
  <1> HIDE DEF w
  <1>2. iter = [s \in SUBSET S |-> IF s = {} THEN 0 ELSE f[pick(s)] + iter[s \ {pick(s)}]]
    BY <1>1
  <1>3. FoldFunctionOnSet(+, 0, f, S) = iter[S]
    BY DEF FoldFunctionOnSet, MapThenFoldSet
  <1> HIDE DEF iter
  <1> DEFINE Bad == {s \in SUBSET S : iter[s] # w[s]}
  <1>4. ASSUME Bad # {} PROVE FALSE
    <2>1. Bad \subseteq FiniteSubsetsOf(S)
      BY FS_Subset DEF FiniteSubsetsOf
    <2>2. PICK s \in Bad : \A u \in Bad : ~ (<<u, s>> \in StrictSubsetOrdering(S))
      <3> HIDE DEF Bad
      <3> QED BY <1>4, <2>1, FS_StrictSubsetOrderingWellFounded, WFMin
    <2> DEFINE x == pick(s)
    <2>3. s # {} => x \in s
      OBVIOUS
    <2>4. s \in SUBSET S /\ iter[s] = (IF s = {} THEN 0 ELSE f[x] + iter[s \ {x}])
          /\ w[s] = (IF s = {} THEN 0 ELSE f[x] + w[s \ {x}])
      BY <1>1, <1>2
    <2> HIDE DEF x
    <2>5. s # {} /\ iter[s \ {x}] # w[s \ {x}]
      BY <2>4
    <2>6. s \ {x} \in Bad /\ <<s \ {x}, s>> \in StrictSubsetOrdering(S)
      BY <2>3, <2>4, <2>5 DEF StrictSubsetOrdering
    <2> QED
      BY <2>2, <2>6
  <1>5. iter[S] = w[S]
    BY <1>4
  <1> QED
    BY <1>3, <1>5 DEF w

\* The rows of a page are shown once more each.
LEMMA PairsOfMore ==
  ASSUME NEW f \in [Rows -> Nat], NEW D \in SUBSET Rows, NEW g,
         g = [r \in Rows |-> IF r \in D THEN f[r] + 1 ELSE f[r]]
  PROVE  Cardinality(Pairs(g, Rows)) = Cardinality(Pairs(f, Rows)) + Cardinality(D)
  <1> DEFINE A == Pairs(f, Rows)
             B == {<<r, f[r] + 1>> : r \in D}
             h == [r \in D |-> <<r, f[r] + 1>>]
  <1>1. Pairs(g, Rows) = A \cup B
    <2>1. \A r \in Rows : {r} \X (1..g[r]) =
            IF r \in D THEN ({r} \X (1..f[r])) \cup {<<r, f[r] + 1>>} ELSE {r} \X (1..f[r])
      OBVIOUS
    <2> QED
      BY <2>1 DEF Pairs
  <1>2. A \cap B = {}
    BY DEF Pairs
  <1>3. IsFiniteSet(A) /\ Cardinality(A) \in Nat
    <2>1. \A r \in Rows : f[r] \in Nat
      OBVIOUS
    <2> QED
      BY <2>1, RowsAssumption, PairsAre
  <1>4. IsFiniteSet(D)
    BY RowsAssumption, FS_Subset
  <1>5. h \in Bijection(D, B)
    BY DEF Bijection, Injection, Surjection, IsInjective
  <1>6. IsFiniteSet(B) /\ Cardinality(B) = Cardinality(D)
    BY <1>4, <1>5, FS_Bijection DEF ExistsBijection
  <1> HIDE DEF A, B
  <1>7. Cardinality(A \cup B) = Cardinality(A) + Cardinality(B) - Cardinality(A \cap B)
    BY <1>3, <1>6, FS_Union
  <1>8. Cardinality(A \cap B) = 0 /\ Cardinality(D) \in Nat
    BY <1>2, <1>4, FS_EmptySet, FS_CardinalityType
  <1>9. Cardinality(A \cup B) = Cardinality(A) + Cardinality(D)
    BY <1>3, <1>6, <1>7, <1>8
  <1> QED
    BY <1>1, <1>9 DEF A

\* Rows that differ are as many as the list of them is long.
LEMMA RowsOf ==
  ASSUME NEW s \in Seq(Rows), IsInjective(s)
  PROVE  Cardinality(ToSet(s)) = Len(s)
  <1>1. s \in Bijection(1..Len(s), ToSet(s))
    BY DEF Bijection, Injection, Surjection, ToSet, IsInjective
  <1>2. IsFiniteSet(1..Len(s)) /\ Cardinality(1..Len(s)) = Len(s)
    <2>1. 1 \in Int /\ Len(s) \in Int /\ (1 > Len(s) => Len(s) = 0) /\ Len(s) - 1 + 1 = Len(s)
      OBVIOUS
    <2> QED
      BY <2>1, FS_Interval
  <1> QED
    BY <1>1, <1>2, FS_Bijection DEF ExistsBijection

----------------------------------------------------------------------------
(* Inv is inductive *)

\* At first nothing was shown, and the list is some of the rows.
LEMMA InvInit == Init => Inv
  <1> SUFFICES ASSUME Init PROVE Inv
    OBVIOUS
  <1> DEFINE q == SetToSeq(Rows)
  <1>1. /\ q \in Seq(Rows) /\ IsInjective(q) /\ Len(q) = Cardinality(Rows)
        /\ Cardinality(Rows) \in Nat
    BY RowsAssumption, SetToSeqFacts, FS_CardinalityType
  <1>2. PICK n \in 0..Cardinality(Rows) : list = SubSeq(q, 1, n)
    BY DEF Init
  <1> HIDE DEF q
  <1>3. /\ list \in Seq(Rows) /\ Len(list) = n
        /\ \A i \in 1..n : list[i] = q[i]
    <2>1. \A i \in 1..n : q[i] \in Rows
      BY <1>1
    <2>2. /\ SubSeq(q, 1, n) \in Seq(Rows)
          /\ Len(SubSeq(q, 1, n)) = IF 1 <= n THEN n - 1 + 1 ELSE 0
          /\ \A i \in 1..(n - 1 + 1) : SubSeq(q, 1, n)[i] = q[1 + i - 1]
      BY <1>1, <2>1, SubSeqProperties
    <2>3. n \in Nat /\ n - 1 + 1 = n
      BY <1>1
    <2> QED
      BY <1>2, <2>2, <2>3
  <1>4. IsInjective(list)
    <2>1. \A i \in 1..n : i \in 1..Len(q)
      BY <1>1
    <2>2. \A i, j \in 1..Len(q) : q[i] = q[j] => i = j
      BY <1>1, Stands
    <2> QED
      BY <1>3, <2>1, <2>2, Stands
  <1>5. atStart = ToSet(list) /\ atStart \subseteq Rows
    BY <1>3, Stands DEF Init
  <1>6. TypeOK
    <2>1. /\ ordered \in BOOLEAN /\ byName \in BOOLEAN /\ (byName => ordered)
          /\ rose = {} /\ sank = {} /\ gone = {} /\ phase = "ready" /\ page = 1
          /\ data = NotRead /\ total = NotRead /\ seen = [r \in Rows |-> 0]
          /\ inserted = FALSE /\ torn = FALSE
      BY DEF Init
    <2>2. page \in 1..(Cardinality(Rows) + 1) /\ seen \in [Rows -> Nat]
      BY <1>1, <2>1
    <2> QED
      BY <1>3, <1>4, <1>5, <2>1, <2>2 DEF TypeOK
  <1>7. Found /\ Once
    BY <1>3 DEF Init, Found, Once, HasData, HasTotal, Reading
  <1>8. NoneLeft
    BY <1>3, <1>5, SkippedFacts DEF Init, NoneLeft, HasData, HasTotal, Reading
  <1> QED
    BY <1>6, <1>7, <1>8 DEF Inv

\* The two statements are sent: what was read for the page before is forgotten.
LEMMA AskInv ==
  ASSUME Inv, Ask
  PROVE  Inv'
  <1> USE DEF HasData, HasTotal, Reading
  <1>1. TypeOK'
    BY DEF Inv, TypeOK, Ask, order, moved
  <1>2. Found'
    BY DEF Inv, Found, Ask, order, moved
  <1>3. Once'
    BY DEF Inv, Once, Ask, Walking, order, moved
  <1>4. NoneLeft'
    BY DEF Inv, NoneLeft, Ask, Walking, Covered, order, moved
  <1> QED
    BY <1>1, <1>2, <1>3, <1>4 DEF Inv

\* The rows of the page, each on its place or, without an order, any as many.
LEMMA ReadRowsInv ==
  ASSUME Inv, ReadRows
  PROVE  Inv'
  <1>0. /\ Reading /\ Reading' /\ ~HasData /\ (HasTotal' <=> HasTotal)
        /\ UNCHANGED <<ordered, byName, rose, sank, list, gone, phase, page, total, seen, atStart, inserted, torn>>
        /\ list \in Seq(Rows) /\ IsInjective(list) /\ page \in Nat \ {0}
        /\ seen \in [Rows -> Nat] /\ ordered \in BOOLEAN
    BY DEF Inv, TypeOK, ReadRows, Reading, HasData, HasTotal, order, moved
  <1>1. data' \in Seq(Rows) /\ Len(data') <= Limit /\ data' # NotRead
    <2>1. CASE ordered
      BY <1>0, <2>1, PageRows, NotReadAssumption DEF ReadRows
    <2>2. CASE ~ordered
      <3>1. PICK S \in kSubset(Len(PageOf(list, page)), ToSet(list)) : data' = SetToSeq(S)
        BY <2>2 DEF ReadRows, AnyPage
      <3>2. S \subseteq Rows /\ Cardinality(S) = Len(PageOf(list, page))
        BY <1>0, <3>1, Stands DEF kSubset
      <3>3. IsFiniteSet(S)
        BY <3>2, RowsAssumption, FS_Subset
      <3>4. SetToSeq(S) \in Seq(S) /\ Len(SetToSeq(S)) = Cardinality(S)
        BY <3>3, SetToSeqFacts
      <3>5. SetToSeq(S) \in Seq(Rows)
        BY <3>2, <3>4
      <3> QED
        BY <1>0, <3>1, <3>2, <3>4, <3>5, PageRows, NotReadAssumption
    <2> QED
      BY <2>1, <2>2
  <1>2. ordered => \A r : r \in ToSet(data') <=>
              \E i \in 1..Len(list) : list[i] = r /\ Skipped(page) < i /\ i <= Skipped(page + 1)
    BY <1>0, PageRows DEF ReadRows
  <1>3. /\ Skipped(page) \in Nat /\ Skipped(page + 1) \in Nat
        /\ HasData' /\ Walking /\ Len(list) \in Nat
    <2>1. HasData' /\ Walking /\ Len(list) \in Nat
      BY <1>0, <1>1 DEF HasData, Reading, Walking
    <2> QED
      BY <1>0, <2>1, SkippedFacts
  <1>4. TypeOK'
    BY <1>0, <1>1 DEF Inv, TypeOK
  <1>5. Found'
    BY <1>0 DEF Inv, Found
  <1>6. Once'
    <2> SUFFICES ASSUME ordered, ~inserted, rose = {}, NEW r \in ToSet(data') \ sank
                 PROVE  /\ seen[r] = 0
                        /\ \A i \in 1..Len(list) : list[i] = r => i <= Skipped(page + 1)
      BY <1>0 DEF Inv, Once, Walking
    <2>1. PICK i \in 1..Len(list) :
                 list[i] = r /\ Skipped(page) < i /\ i <= Skipped(page + 1)
      BY <1>2
    <2>2. \A j \in 1..Len(list) : list[j] = r => j = i
      BY <1>0, <2>1, Stands
    <2>3. ~(seen[r] > 0) /\ seen[r] \in Nat
      <3>1. r \in Rows
        BY <1>0, <2>1
      <3>2. ~(i <= Skipped(page))
        BY <1>3, <2>1
      <3> QED
        BY <1>0, <1>3, <2>1, <3>1, <3>2 DEF Inv, Once
    <2> QED
      BY <2>1, <2>2, <2>3
  <1>7. NoneLeft'
    <2> DEFINE Shown(r) == r \in atStart \ rose => seen[r] > 0 \/ r \in ToSet(data')
    <2>1. ASSUME ordered, gone = {}, ~torn, sank = {}, NEW i \in 1..Len(list), i <= Skipped(page + 1)
          PROVE  Shown(list[i])
      <3>1. CASE i <= Skipped(page)
        BY <1>0, <1>3, <2>1, <3>1 DEF Inv, NoneLeft, Covered
      <3>2. CASE ~(i <= Skipped(page))
        BY <1>2, <1>3, <2>1, <3>2
      <3> QED
        BY <3>1, <3>2
    <2>2. ASSUME ordered, gone = {}, ~torn, sank = {}, HasTotal, total <= Skipped(page + 1),
                 NEW r \in atStart
          PROVE  Shown(r)
      <3>1. total = Len(list) /\ r \in ToSet(list)
        BY <1>0, <2>2 DEF Inv, NoneLeft
      <3>2. PICK i \in 1..Len(list) : list[i] = r
        BY <1>0, <3>1, Stands
      <3>3. i <= Skipped(page + 1)
        BY <1>3, <2>2, <3>1
      <3> QED
        BY <2>1, <2>2, <3>2, <3>3
    <2>3. \A i \in 1..Len(list) : i <= Skipped(page) => i <= Skipped(page + 1)
      BY <1>0, <1>3, SkippedFacts, LimitAssumption
    <2>4. ordered /\ gone = {} /\ ~torn /\ sank = {} => atStart \subseteq ToSet(list)
      BY DEF Inv, NoneLeft
    <2> QED
      BY <1>0, <1>3, <2>1, <2>2, <2>3, <2>4 DEF NoneLeft, Covered, Reading
  <1> QED
    BY <1>4, <1>5, <1>6, <1>7 DEF Inv

\* The count of the rows the list has now.
LEMMA CountInv ==
  ASSUME Inv, Count
  PROVE  Inv'
  <1>0. /\ Reading /\ Reading' /\ ~HasTotal /\ (HasData' <=> HasData) /\ HasTotal'
        /\ total' = Len(list) /\ Len(list) \in Nat /\ Len(list) <= Cardinality(Rows)
        /\ Cardinality(Rows) \in Nat
        /\ UNCHANGED <<ordered, byName, rose, sank, list, gone, phase, page, data, seen, atStart, inserted, torn>>
        /\ list \in Seq(Rows) /\ IsInjective(list) /\ page \in Nat \ {0}
    <2>1. list \in Seq(Rows) /\ IsInjective(list) /\ page \in Nat \ {0}
      BY DEF Inv, TypeOK
    <2>2. Len(list) \in Nat /\ Len(list) <= Cardinality(Rows) /\ Cardinality(Rows) \in Nat
      BY <2>1, ListFits, RowsAssumption, FS_CardinalityType
    <2> QED
      BY <2>1, <2>2, NotReadAssumption DEF Count, Reading, HasData, HasTotal, order, moved
  <1>1. TypeOK'
    BY <1>0 DEF Inv, TypeOK
  <1>2. Found'
    BY <1>0 DEF Inv, Found
  <1>3. Once'
    BY <1>0 DEF Inv, Once, Walking
  <1>4. NoneLeft'
    <2>1. ASSUME ordered, gone = {}, ~torn, sank = {}, HasData, Len(list) <= Skipped(page + 1),
                 NEW r \in atStart
          PROVE  Covered(r)
      <3>1. PICK i \in 1..Len(list) : list[i] = r
        BY <1>0, <2>1, Stands DEF Inv, NoneLeft
      <3>2. i <= Skipped(page + 1)
        BY <1>0, <2>1, SkippedFacts
      <3> QED
        BY <1>0, <2>1, <3>1, <3>2 DEF Inv, NoneLeft, Walking, Reading
    <2> QED
      BY <1>0, <2>1 DEF Inv, NoneLeft, Covered, Walking
  <1> QED
    BY <1>1, <1>2, <1>3, <1>4 DEF Inv

\* The page is shown and the client goes on, or it was the last one, or there is none.
LEMMA AnswerInv ==
  ASSUME Inv, Answer
  PROVE  Inv'
  <1>0. /\ Reading /\ HasData /\ HasTotal /\ ~Reading' /\ Walking
        /\ UNCHANGED <<ordered, byName, rose, sank, list, gone, data, total, atStart, inserted, torn>>
        /\ list \in Seq(Rows) /\ page \in Nat \ {0} /\ total \in Nat /\ data \in Seq(Rows)
        /\ seen \in [Rows -> Nat] /\ Len(list) \in Nat /\ atStart \subseteq Rows
    BY NotReadAssumption
       DEF Answer, Inv, TypeOK, Reading, HasData, HasTotal, Walking, order, moved
  <1>1. /\ Skipped(page) \in Nat /\ Skipped(page + 1) \in Nat
        /\ Skipped(page) <= Skipped(page + 1)
        /\ page <= Skipped(page + 1)
    <2>1. page \in Nat \ {0} /\ Limit \in Nat
      BY <1>0, LimitAssumption
    <2> QED
      BY <2>1, SkippedFacts
  <1>2. /\ Exists(total, page) <=> page = 1 \/ Skipped(page) < total
        /\ page < PerPage(total) <=> Skipped(page + 1) < total
        /\ PerPage(total) \in Nat
    <2>1. page <= PerPage(total) <=> Skipped(page) < total
      BY <1>0, PerPageFacts
    <2>2. page + 1 <= PerPage(total) <=> Skipped(page + 1) < total
      BY <1>0, PerPageFacts
    <2>3. PerPage(total) \in Nat
      BY <1>0, PerPageFacts
    <2> QED
      BY <1>0, <2>1, <2>2, <2>3 DEF Exists
  <1>3. CASE ~ordered \/ Exists(total, page)
    <2>1. /\ seen' = [r \in Rows |-> IF r \in ToSet(data) THEN seen[r] + 1 ELSE seen[r]]
          /\ \/ Skipped(page + 1) < total /\ phase' = "ready" /\ page' = page + 1
             \/ ~(Skipped(page + 1) < total) /\ phase' = "ended" /\ page' = page
      BY <1>0, <1>2, <1>3 DEF Answer
    <2>2. /\ seen' \in [Rows -> Nat]
          /\ \A r \in Rows : seen'[r] > 0 <=> seen[r] > 0 \/ r \in ToSet(data)
      BY <1>0, <2>1
    <2>3. TypeOK'
      <3>1. total <= Cardinality(Rows) /\ Cardinality(Rows) \in Nat
        BY <1>0, RowsAssumption, FS_CardinalityType DEF Inv, TypeOK, HasTotal
      <3>2. page' \in 1..(Cardinality(Rows) + 1)
        BY <1>0, <1>1, <2>1, <3>1 DEF Inv, TypeOK
      <3>3. phase' \in {"ready", "reading", "ended", "notFound"}
        BY <2>1
      <3> QED
        BY <1>0, <2>2, <3>2, <3>3 DEF Inv, TypeOK
    <2>4. Found'
      BY <1>0, <1>1, <2>1 DEF Inv, Found, HasTotal, Reading
    <2>5. Once'
      <3> SUFFICES ASSUME ordered, ~inserted, rose = {}
                   PROVE  /\ \A r \in Rows \ sank : seen'[r] <= 1
                          /\ Walking' => \A i \in 1..Len(list) :
                               seen'[list[i]] > 0 /\ list[i] \notin sank => i <= Skipped(page')
        BY <1>0 DEF Once, HasData
      <3>1. ASSUME NEW r \in Rows \ sank PROVE seen'[r] <= 1
        BY <1>0, <2>1, <3>1 DEF Inv, Once
      <3>2. ASSUME Walking', NEW i \in 1..Len(list), seen'[list[i]] > 0, list[i] \notin sank
            PROVE  i <= Skipped(page')
        <4>1. page' = page + 1 /\ list[i] \in Rows
          BY <1>0, <2>1, <3>2 DEF Walking
        <4>2. CASE seen[list[i]] > 0
          <5>1. i <= Skipped(page)
            BY <1>0, <3>2, <4>2 DEF Inv, Once
          <5> QED
            BY <1>0, <1>1, <4>1, <5>1
        <4>3. CASE list[i] \in ToSet(data)
          BY <1>0, <3>2, <4>1, <4>3 DEF Inv, Once
        <4> QED
          BY <2>2, <3>2, <4>1, <4>2, <4>3
      <3> QED
        BY <3>1, <3>2
    <2>6. NoneLeft'
      <3>1. ASSUME NEW r \in Rows, Covered(r) PROVE r \in atStart \ rose => seen'[r] > 0
        BY <2>2, <3>1 DEF Covered
      <3>2. ASSUME ordered, gone = {}, ~torn, sank = {}, Walking', NEW i \in 1..Len(list),
                   i <= Skipped(page'), list[i] \in atStart \ rose
            PROVE  seen'[list[i]] > 0
        <4>1. page' = page + 1 /\ list[i] \in Rows
          BY <1>0, <2>1, <3>2 DEF Walking
        <4>2. Covered(list[i])
          BY <1>0, <3>2, <4>1 DEF Inv, NoneLeft
        <4> QED
          BY <3>1, <3>2, <4>1, <4>2
      <3>3. ASSUME ordered, gone = {}, ~torn, sank = {}, phase' = "ended", NEW r \in atStart \ rose
            PROVE  seen'[r] > 0
        <4>1. total <= Skipped(page + 1)
          BY <1>0, <1>1, <2>1, <3>3
        <4>2. Covered(r)
          BY <1>0, <3>3, <4>1 DEF Inv, NoneLeft
        <4> QED
          BY <1>0, <3>1, <3>3, <4>2
      <3>4. ordered /\ gone = {} /\ ~torn /\ sank = {} => atStart \subseteq ToSet(list)
        BY DEF Inv, NoneLeft
      <3> QED
        BY <1>0, <3>2, <3>3, <3>4 DEF NoneLeft, Covered, HasData, HasTotal
    <2> QED
      BY <2>3, <2>4, <2>5, <2>6 DEF Inv
  <1>4. CASE ordered /\ ~Exists(total, page)
    <2>1. phase' = "notFound" /\ page' = page /\ seen' = seen
      BY <1>4 DEF Answer
    <2>2. TypeOK'
      BY <1>0, <2>1 DEF Inv, TypeOK
    <2>3. gone # {}
      BY <1>0, <1>2, <1>4 DEF Inv, Found
    <2>4. Found' /\ NoneLeft'
      BY <1>0, <2>3 DEF Found, NoneLeft
    <2>5. Once'
      BY <1>0, <2>1 DEF Inv, Once, HasData, Walking
    <2> QED
      BY <2>2, <2>4, <2>5 DEF Inv
  <1> QED
    BY <1>3, <1>4

\* A new row moves others back, over the page that is read if it comes between its two
\* statements, and that page then counts as torn.
LEMMA InsertInv ==
  ASSUME Inv, NEW r \in Rows, Insert(r)
  PROVE  Inv'
  <1>0. /\ r \notin ToSet(list) /\ Walking
        /\ UNCHANGED <<ordered, byName, rose, sank, gone, phase, page, data, total, seen, atStart>>
        /\ inserted' = TRUE /\ torn' = (torn \/ HalfRead)
        /\ list \in Seq(Rows) /\ IsInjective(list) /\ Len(list) \in Nat
        /\ page \in Nat \ {0} /\ torn \in BOOLEAN
    BY DEF Insert, Inv, TypeOK, Changing, order, read, moved
  <1>1. PICK j \in 1..(Len(list) + 1) : list' = InsertAt(list, j, r)
    BY DEF Insert
  <1>2. /\ list' \in Seq(Rows) /\ Len(list') = Len(list) + 1
        /\ \A i \in 1..(Len(list) + 1) :
             list'[i] = IF i < j THEN list[i] ELSE IF i = j THEN r ELSE list[i - 1]
    <2>1. list \in Seq(Rows) /\ r \in Rows
      BY <1>0
    <2>2. /\ InsertAt(list, j, r) \in Seq(Rows)
          /\ Len(InsertAt(list, j, r)) = Len(list) + 1
          /\ \A i \in 1..(Len(list) + 1) :
               InsertAt(list, j, r)[i]
                 = IF i < j THEN list[i] ELSE IF i = j THEN r ELSE list[i - 1]
      BY <2>1, InsertedRows
    <2> QED
      BY <1>1, <2>2
  <1>3. \A i \in 1..Len(list) : list[i] # r
    BY <1>0, Stands
  <1>4. IsInjective(list')
    <2>1. \A i, k \in 1..Len(list) : list[i] = list[k] => i = k
      BY <1>0, Stands
    <2>2. ASSUME NEW i \in 1..Len(list'), i # j
          PROVE  \E m \in 1..Len(list) : list'[i] = list[m] /\ i = IF m < j THEN m ELSE m + 1
      <3>1. i \in 1..(Len(list) + 1)
        BY <1>2
      <3>2. CASE i < j
        <4>1. i \in 1..Len(list) /\ list'[i] = list[i]
          BY <1>0, <1>2, <3>1, <3>2
        <4> QED
          BY <3>2, <4>1
      <3>3. CASE ~(i < j)
        <4>1. i - 1 \in 1..Len(list) /\ ~(i - 1 < j) /\ (i - 1) + 1 = i
          BY <1>0, <2>2, <3>1, <3>3
        <4>2. list'[i] = list[i - 1]
          BY <1>2, <2>2, <3>1, <3>3
        <4> QED
          BY <4>1, <4>2
      <3> QED
        BY <3>2, <3>3
    <2>3. \A i \in 1..Len(list') : i = j => list'[i] = r
      BY <1>2
    <2>4. ASSUME NEW i \in 1..Len(list'), NEW k \in 1..Len(list'), list'[i] = list'[k]
          PROVE  i = k
      BY <1>3, <2>1, <2>2, <2>3, <2>4
    <2> QED
      BY <1>2, <2>4, Stands
  <1>5. TypeOK'
    BY <1>0, <1>2, <1>4 DEF Inv, TypeOK, HalfRead
  <1>6. Found'
    <2>1. gone = {} => Skipped(page) \in Nat
      BY <1>0, SkippedFacts
    <2> QED
      BY <1>0, <1>2, <2>1 DEF Inv, Found, HasTotal, Reading, TypeOK
  <1>7. Once'
    BY <1>0 DEF Once
  <1>8. NoneLeft'
    <2>1. ASSUME ordered, gone = {}, ~torn', sank = {}
          PROVE  ~torn /\ (HasTotal <=> HasData)
      BY <1>0, <2>1 DEF HalfRead, HasData, HasTotal, Reading
    <2>2. ASSUME ordered, gone = {}, ~torn', sank = {}
          PROVE  atStart \subseteq ToSet(list')
      <3> SUFFICES ASSUME NEW a \in atStart PROVE a \in ToSet(list')
        OBVIOUS
      <3>1. PICK i \in 1..Len(list) : list[i] = a
        BY <1>0, <2>1, <2>2, Stands DEF Inv, NoneLeft
      <3>2. CASE i < j
        <4>1. i \in 1..(Len(list) + 1) /\ list'[i] = a
          BY <1>0, <1>2, <3>1, <3>2
        <4> QED
          BY <1>2, <4>1, Stands
      <3>3. CASE ~(i < j)
        <4>1. i + 1 \in 1..(Len(list) + 1) /\ ~(i + 1 < j) /\ i + 1 # j /\ (i + 1) - 1 = i
          BY <1>0, <3>3
        <4>2. list'[i + 1] = a
          BY <1>2, <3>1, <4>1
        <4> QED
          BY <1>2, <4>1, <4>2, Stands
      <3> QED
        BY <3>2, <3>3
    <2>3. ASSUME ordered, gone = {}, ~torn', sank = {}, NEW i \in 1..Len(list'),
                 i <= Skipped(page) \/ (HasData /\ i <= Skipped(page + 1))
          PROVE  Covered(list'[i])
      <3>0. /\ i \in 1..(Len(list) + 1)
            /\ Skipped(page) \in Nat /\ Skipped(page + 1) \in Nat
        BY <1>0, <1>2, SkippedFacts
      <3>1. \A k \in 1..Len(list) :
              k <= Skipped(page) \/ (HasData /\ k <= Skipped(page + 1)) => Covered(list[k])
        BY <1>0, <2>1, <2>3 DEF Inv, NoneLeft
      <3>2. CASE i < j
        <4>1. i \in 1..Len(list) /\ list'[i] = list[i]
          BY <1>0, <1>2, <3>0, <3>2
        <4> QED
          BY <2>3, <3>1, <4>1
      <3>3. CASE i = j
        <4>1. list'[i] = r /\ r \notin atStart
          BY <1>0, <1>2, <2>1, <2>3, <3>0, <3>3 DEF Inv, NoneLeft
        <4> QED
          BY <4>1 DEF Covered
      <3>4. CASE i > j
        <4>1. i - 1 \in 1..Len(list) /\ list'[i] = list[i - 1]
          BY <1>0, <1>2, <3>0, <3>4
        <4>2. i - 1 <= Skipped(page) \/ (HasData /\ i - 1 <= Skipped(page + 1))
          BY <2>3, <3>0
        <4> QED
          BY <3>1, <4>1, <4>2
      <3> QED
        BY <3>0, <3>2, <3>3, <3>4
    <2>4. ASSUME NEW a PROVE Covered(a)' <=> Covered(a)
      BY <1>0 DEF Covered, HasData, Reading
    <2>5. ASSUME ordered, gone = {}, ~torn', sank = {}, HasTotal, HasData, total <= Skipped(page + 1)
          PROVE  \A a \in atStart : Covered(a)
      BY <2>1, <2>5 DEF Inv, NoneLeft
    <2>6. phase # "ended"
      BY <1>0 DEF Walking
    <2>7. (HasData' <=> HasData) /\ (HasTotal' <=> HasTotal)
      BY <1>0 DEF HasData, HasTotal, Reading
    <2> QED
      BY <1>0, <2>1, <2>2, <2>3, <2>5, <2>6, <2>7
      DEF NoneLeft, Covered
  <1> QED
    BY <1>5, <1>6, <1>7, <1>8 DEF Inv

\* A deleted row moves others ahead: what was shown stays before the page asked for.
LEMMA DeleteInv ==
  ASSUME Inv, NEW r \in Rows, Delete(r)
  PROVE  Inv'
  <1>0. /\ UNCHANGED <<ordered, byName, rose, sank, phase, page, data, total, seen, atStart, inserted>>
        /\ gone' = gone \cup {r} /\ torn' = (torn \/ HalfRead)
        /\ list \in Seq(Rows) /\ IsInjective(list) /\ Len(list) \in Nat
        /\ page \in Nat \ {0} /\ gone' # {}
        /\ Skipped(page) \in Nat /\ Skipped(page + 1) \in Nat
    <2>1. list \in Seq(Rows) /\ IsInjective(list) /\ Len(list) \in Nat /\ page \in Nat \ {0}
      BY DEF Inv, TypeOK
    <2>2. Skipped(page) \in Nat /\ Skipped(page + 1) \in Nat
      BY <2>1, SkippedFacts
    <2> QED
      BY <2>1, <2>2 DEF Delete, order, read, moved
  <1>1. PICK j \in 1..Len(list) : list' = RemoveAt(list, j)
    BY DEF Delete
  <1>2. /\ list' \in Seq(Rows) /\ Len(list') = Len(list) - 1
        /\ \A i \in 1..(Len(list) - 1) :
             list'[i] = IF i < j THEN list[i] ELSE list[i + 1]
    BY <1>0, <1>1, RemovedRows
  <1>3. \A i \in 1..Len(list') :
          \E k \in 1..Len(list) : i <= k /\ list'[i] = list[k] /\ k = IF i < j THEN i ELSE i + 1
    <2> SUFFICES ASSUME NEW i \in 1..Len(list')
                 PROVE  \E k \in 1..Len(list) :
                          i <= k /\ list'[i] = list[k] /\ k = IF i < j THEN i ELSE i + 1
      OBVIOUS
    <2>1. i \in 1..(Len(list) - 1) /\ i \in 1..Len(list) /\ i + 1 \in 1..Len(list) /\ i <= i + 1
      BY <1>0, <1>2
    <2> QED
      BY <1>2, <2>1
  <1>4. IsInjective(list')
    <2>1. \A i, k \in 1..Len(list) : list[i] = list[k] => i = k
      BY <1>0, Stands
    <2>2. ASSUME NEW i \in 1..Len(list'), NEW k \in 1..Len(list'), list'[i] = list'[k]
          PROVE  i = k
      <3>1. PICK m \in 1..Len(list) : list'[i] = list[m] /\ m = IF i < j THEN i ELSE i + 1
        BY <1>3
      <3>2. PICK n \in 1..Len(list) : list'[k] = list[n] /\ n = IF k < j THEN k ELSE k + 1
        BY <1>3
      <3>3. m = n
        BY <2>1, <2>2, <3>1, <3>2
      <3> QED
        BY <3>1, <3>2, <3>3
    <2> QED
      BY <1>2, <2>2, Stands
  <1>5. TypeOK'
    BY <1>0, <1>2, <1>4 DEF Inv, TypeOK, HalfRead
  <1>6. Found' /\ NoneLeft'
    BY <1>0 DEF Found, NoneLeft
  <1>7. Once'
    <2> SUFFICES ASSUME ordered, ~inserted, rose = {}
                 PROVE  /\ Walking => \A i \in 1..Len(list') :
                             seen[list'[i]] > 0 /\ list'[i] \notin sank => i <= Skipped(page)
                        /\ HasData => \A d \in ToSet(data) \ sank : \A i \in 1..Len(list') :
                             list'[i] = d => i <= Skipped(page + 1)
      BY <1>0 DEF Inv, Once, Walking, HasData, Reading
    <2>1. ASSUME Walking, NEW i \in 1..Len(list'), seen[list'[i]] > 0, list'[i] \notin sank
          PROVE  i <= Skipped(page)
      <3>1. PICK k \in 1..Len(list) : i <= k /\ list'[i] = list[k]
        BY <1>3
      <3>2. k <= Skipped(page)
        BY <2>1, <3>1 DEF Inv, Once
      <3> QED
        BY <1>0, <3>1, <3>2
    <2>2. ASSUME HasData, NEW d \in ToSet(data) \ sank, NEW i \in 1..Len(list'), list'[i] = d
          PROVE  i <= Skipped(page + 1)
      <3>1. PICK k \in 1..Len(list) : i <= k /\ list'[i] = list[k]
        BY <1>3
      <3>2. k <= Skipped(page + 1)
        BY <2>2, <3>1 DEF Inv, Once
      <3> QED
        BY <1>0, <3>1, <3>2
    <2> QED
      BY <2>1, <2>2
  <1> QED
    BY <1>5, <1>6, <1>7 DEF Inv

\* A row that takes another place: the others keep theirs, or move by one towards the
\* place it left.
LEMMA RenamedRows ==
  ASSUME TypeOK, NEW r \in Rows, Rename(r)
  PROVE  /\ list' \in Seq(Rows) /\ Len(list') = Len(list) /\ IsInjective(list')
         /\ \A a \in ToSet(list) : a \in ToSet(list')
         /\ \/ /\ rose' = rose \cup {r} /\ sank' = sank
               /\ \A k \in 1..Len(list') : list'[k] = r \/
                    \E m \in 1..Len(list) : m <= k /\ list'[k] = list[m]
            \/ /\ rose' = rose /\ sank' = sank \cup {r}
               /\ \A k \in 1..Len(list') : list'[k] = r \/
                    \E m \in 1..Len(list) : k <= m /\ list'[k] = list[m]
  <1> DEFINE n == Len(list)
  <1>0. list \in Seq(Rows) /\ IsInjective(list) /\ n \in Nat
    BY DEF TypeOK
  <1>1. PICK i \in 1..n, j \in 1..n :
             /\ list[i] = r /\ i # j
             /\ list' = InsertAt(RemoveAt(list, i), j, r)
             /\ rose' = IF j < i THEN rose \cup {r} ELSE rose
             /\ sank' = IF i < j THEN sank \cup {r} ELSE sank
    BY DEF Rename
  <1> DEFINE rest == RemoveAt(list, i)
  <1>2. /\ rest \in Seq(Rows) /\ Len(rest) = n - 1
        /\ \A k \in 1..(n - 1) : rest[k] = IF k < i THEN list[k] ELSE list[k + 1]
    BY <1>0, RemovedRows
  <1> HIDE DEF rest
  <1>3. /\ list' \in Seq(Rows) /\ Len(list') = n
        /\ \A k \in 1..n :
             list'[k] = IF k < j THEN rest[k] ELSE IF k = j THEN r ELSE rest[k - 1]
    <2>1. j \in 1..(Len(rest) + 1) /\ Len(rest) + 1 = n
      BY <1>0, <1>2
    <2>2. /\ InsertAt(rest, j, r) \in Seq(Rows)
          /\ Len(InsertAt(rest, j, r)) = Len(rest) + 1
          /\ \A k \in 1..(Len(rest) + 1) :
               InsertAt(rest, j, r)[k]
                 = IF k < j THEN rest[k] ELSE IF k = j THEN r ELSE rest[k - 1]
      <3>1. rest \in Seq(Rows) /\ j \in 1..(Len(rest) + 1) /\ r \in Rows
        BY <1>2, <2>1
      <3> QED
        BY <3>1, InsertedRows, Zenon
    <2> QED
      BY <1>1, <2>1, <2>2 DEF rest
  \* The place a row had, from the place it has.
  <1> DEFINE Rest(k) == IF k < j THEN k ELSE k - 1
             Was(k)  == IF Rest(k) < i THEN Rest(k) ELSE Rest(k) + 1
             Left(m) == IF m < i THEN m ELSE m - 1
             Now(m)  == IF Left(m) < j THEN Left(m) ELSE Left(m) + 1
  <1>4. ASSUME NEW k \in 1..n, k # j
        PROVE  /\ Was(k) \in 1..n /\ Was(k) # i /\ Now(Was(k)) = k
               /\ list'[k] = list[Was(k)]
               /\ j < i => Was(k) <= k
               /\ i < j => k <= Was(k)
    <2>1. Rest(k) \in 1..(n - 1) /\ list'[k] = rest[Rest(k)]
      BY <1>0, <1>3, <1>4
    <2>2. list'[k] = list[Was(k)]
      BY <1>2, <2>1
    <2>3. /\ Was(k) \in 1..n /\ Was(k) # i /\ Now(Was(k)) = k
          /\ j < i => Was(k) <= k
          /\ i < j => k <= Was(k)
      BY <1>0, <1>4, <2>1
    <2> QED
      BY <2>2, <2>3
  <1>5. ASSUME NEW m \in 1..n, m # i
        PROVE  Now(m) \in 1..n /\ list'[Now(m)] = list[m]
    <2>1. Now(m) \in 1..n /\ Now(m) # j /\ Was(Now(m)) = m
      BY <1>0, <1>5
    <2> HIDE DEF Now, Was
    <2> QED
      BY <1>4, <2>1
  <1>6. list'[j] = r
    BY <1>3
  <1> HIDE DEF n, Rest, Was, Left, Now
  <1>7. \A p, q \in 1..n : list[p] = list[q] => p = q
    BY <1>0, Stands DEF n
  <1>8. ASSUME NEW p \in 1..n, NEW q \in 1..n, list'[p] = list'[q]
        PROVE  p = q
    <2>1. CASE p # j /\ q # j
      <3>1. Was(p) = Was(q)
        BY <1>4, <1>7, <1>8, <2>1
      <3> QED
        BY <1>4, <2>1, <3>1
    <2>2. CASE p = j \/ q = j
      BY <1>1, <1>4, <1>6, <1>7, <1>8, <2>2
    <2> QED
      BY <2>1, <2>2
  <1>9. IsInjective(list')
    BY <1>3, <1>8, Stands
  <1>10. ASSUME NEW a \in ToSet(list)
         PROVE  a \in ToSet(list')
    <2>1. PICK m \in 1..n : list[m] = a
      BY <1>0, Stands DEF n
    <2>2. \E k \in 1..n : list'[k] = a
      BY <1>1, <1>5, <1>6, <2>1
    <2> QED
      BY <1>3, <2>2, Stands
  <1>11. i < j \/ j < i
    BY <1>0, <1>1
  <1>12. ASSUME NEW k \in 1..n
         PROVE  /\ j < i => list'[k] = r \/ \E m \in 1..n : m <= k /\ list'[k] = list[m]
                /\ i < j => list'[k] = r \/ \E m \in 1..n : k <= m /\ list'[k] = list[m]
    BY <1>4, <1>6
  <1>13. ~(i < j /\ j < i)
    BY <1>0
  <1> QED
    BY <1>1, <1>3, <1>9, <1>10, <1>11, <1>12, <1>13 DEF n

\* A renamed row moves those it passes: those that were shown stay before the page
\* asked for if it went to a later place, and nothing unshown comes there but itself
\* if it went to an earlier.
LEMMA RenameInv ==
  ASSUME Inv, NEW r \in Rows, Rename(r)
  PROVE  Inv'
  <1>0. /\ UNCHANGED <<ordered, byName, gone, phase, page, data, total, seen, atStart,
                       inserted, torn>>
        /\ Walking /\ ordered
        /\ list \in Seq(Rows) /\ Len(list) \in Nat /\ page \in Nat \ {0}
        /\ rose \subseteq Rows /\ sank \subseteq Rows
        /\ Skipped(page) \in Nat /\ Skipped(page + 1) \in Nat
        /\ (HasData' <=> HasData) /\ (HasTotal' <=> HasTotal)
    <2>1. page \in Nat \ {0} /\ list \in Seq(Rows) /\ Len(list) \in Nat
      BY DEF Inv, TypeOK
    <2>2. Skipped(page) \in Nat /\ Skipped(page + 1) \in Nat
      BY <2>1, SkippedFacts
    <2>3. UNCHANGED <<ordered, byName, gone, phase, page, data, total, seen, atStart,
                      inserted, torn>>
      BY DEF Rename, order, read
    <2>4. Walking /\ ordered /\ rose \subseteq Rows /\ sank \subseteq Rows
      BY DEF Inv, TypeOK, Rename, Changing
    <2> QED
      BY <2>1, <2>2, <2>3, <2>4 DEF HasData, HasTotal, Reading
  <1>1. /\ list' \in Seq(Rows) /\ Len(list') = Len(list) /\ IsInjective(list')
        /\ \A a \in ToSet(list) : a \in ToSet(list')
    BY RenamedRows DEF Inv
  <1>2. /\ \/ rose' = rose \cup {r} /\ sank' = sank
           \/ rose' = rose /\ sank' = sank \cup {r}
        /\ sank' = {} => /\ sank = {} /\ rose' = rose \cup {r}
                         /\ \A k \in 1..Len(list') : list'[k] = r \/
                              \E m \in 1..Len(list) : m <= k /\ list'[k] = list[m]
        /\ rose' = {} => /\ rose = {} /\ sank' = sank \cup {r}
                         /\ \A k \in 1..Len(list') : list'[k] = r \/
                              \E m \in 1..Len(list) : k <= m /\ list'[k] = list[m]
    BY RenamedRows DEF Inv
  <1>3. TypeOK'
    BY <1>0, <1>1, <1>2 DEF Inv, TypeOK
  <1>4. Found'
    BY <1>0, <1>1 DEF Inv, Found
  <1>5. Once'
    <2> SUFFICES ASSUME ~inserted, rose' = {}
                 PROVE  /\ \A a \in Rows \ sank' : seen[a] <= 1
                        /\ \A k \in 1..Len(list') :
                             seen[list'[k]] > 0 /\ list'[k] \notin sank' => k <= Skipped(page)
                        /\ HasData => \A d \in ToSet(data) \ sank' :
                             seen[d] = 0 /\ \A k \in 1..Len(list') :
                               list'[k] = d => k <= Skipped(page + 1)
      BY <1>0 DEF Once, Walking
    <2>1. rose = {} /\ sank' = sank \cup {r}
      BY <1>2
    <2>2. ASSUME NEW k \in 1..Len(list'), list'[k] \notin sank'
          PROVE  \E m \in 1..Len(list) : k <= m /\ list'[k] = list[m] /\ list[m] \notin sank
      BY <1>2, <2>1, <2>2
    <2>3. ASSUME NEW k \in 1..Len(list'), seen[list'[k]] > 0, list'[k] \notin sank'
          PROVE  k <= Skipped(page)
      <3>1. PICK m \in 1..Len(list) : k <= m /\ list'[k] = list[m] /\ list[m] \notin sank
        BY <2>2, <2>3
      <3>2. m <= Skipped(page)
        BY <1>0, <2>1, <2>3, <3>1 DEF Inv, Once
      <3> QED
        BY <1>0, <1>1, <3>1, <3>2
    <2>4. ASSUME HasData, NEW d \in ToSet(data) \ sank', NEW k \in 1..Len(list'), list'[k] = d
          PROVE  k <= Skipped(page + 1)
      <3>1. PICK m \in 1..Len(list) : k <= m /\ list'[k] = list[m] /\ list[m] \notin sank
        BY <2>2, <2>4
      <3>2. m <= Skipped(page + 1)
        BY <1>0, <2>1, <2>4, <3>1 DEF Inv, Once
      <3> QED
        BY <1>0, <1>1, <3>1, <3>2
    <2> QED
      BY <1>0, <2>1, <2>3, <2>4 DEF Inv, Once
  <1>6. NoneLeft'
    <2>1. ASSUME NEW a, Covered(a)
          PROVE  Covered(a)'
      BY <1>0, <1>2, <2>1 DEF Covered
    <2>2. ASSUME gone = {}, ~torn, sank' = {}, NEW k \in 1..Len(list'), NEW a, a = list'[k],
                 k <= Skipped(page) \/ (HasData /\ k <= Skipped(page + 1))
          PROVE  Covered(a)'
      <3>1. CASE a = r
        BY <1>2, <2>2, <3>1 DEF Covered
      <3>2. CASE \E m \in 1..Len(list) : m <= k /\ a = list[m]
        <4>1. PICK m \in 1..Len(list) : m <= k /\ a = list[m]
          BY <3>2
        <4>2. m <= Skipped(page) \/ (HasData /\ m <= Skipped(page + 1))
          BY <1>0, <1>1, <2>2, <4>1
        <4>3. Covered(a)
          BY <1>0, <1>2, <2>2, <4>1, <4>2 DEF Inv, NoneLeft
        <4> QED
          BY <2>1, <4>3
      <3> QED
        BY <1>2, <2>2, <3>1, <3>2
    <2>3. ASSUME gone = {}, ~torn, sank' = {}
          PROVE  /\ atStart \subseteq ToSet(list')
                 /\ HasTotal /\ ~HasData => total = Len(list')
                 /\ HasTotal /\ HasData /\ total <= Skipped(page + 1)
                      => \A a \in atStart : Covered(a)'
      BY <1>0, <1>1, <1>2, <2>1, <2>3 DEF Inv, NoneLeft
    <2>4. phase # "ended"
      BY <1>0 DEF Walking
    <2>5. ASSUME gone = {}, ~torn, sank' = {}, NEW k \in 1..Len(list'),
                 k <= Skipped(page) \/ (HasData /\ k <= Skipped(page + 1))
          PROVE  list'[k] \in atStart' \ rose'
                   => seen'[list'[k]] > 0 \/ (HasData' /\ list'[k] \in ToSet(data'))
      BY <2>2, <2>5 DEF Covered
    <2> QED
      BY <1>0, <2>3, <2>4, <2>5 DEF NoneLeft, Covered
  <1> QED
    BY <1>3, <1>4, <1>5, <1>6 DEF Inv

\* Every step preserves Inv.
LEMMA InvNext ==
  ASSUME Inv, [Next]_vars
  PROVE  Inv'
  <1>1. CASE UNCHANGED vars
    <2>1. TypeOK'
      BY <1>1 DEF Inv, TypeOK, vars
    <2>2. Found' /\ Once'
      BY <1>1 DEF Inv, Found, Once, HasData, HasTotal, Reading, Walking, vars
    <2>3. NoneLeft'
      BY <1>1 DEF Inv, NoneLeft, Covered, HasData, HasTotal, Reading, Walking, vars
    <2> QED
      BY <2>1, <2>2, <2>3 DEF Inv
  <1>2. CASE Next
    BY <1>2, AskInv, ReadRowsInv, CountInv, AnswerInv, InsertInv, DeleteInv, RenameInv DEF Next
  <1> QED
    BY <1>1, <1>2

\* Inv holds of every reachable state, whatever comes, goes and is renamed during the walk.
THEOREM InvHolds == Spec => []Inv
  BY InvInit, InvNext, PTL DEF Spec

----------------------------------------------------------------------------
(* A list that does not change *)

\* At first nothing was shown.
LEMMA AsManyInit ==
  ASSUME Init
  PROVE  AsMany
  <1>1. /\ list \in Seq(Rows) /\ IsInjective(list) /\ atStart = ToSet(list)
        /\ phase = "ready" /\ page = 1 /\ seen = [r \in Rows |-> 0]
    BY InvInit DEF Inv, TypeOK, Init
  <1>2. Len(list) = Cardinality(atStart) /\ 0 <= Len(list)
    BY <1>1, RowsOf
  <1>3. Pairs(seen, Rows) = {}
    BY <1>1 DEF Pairs
  <1>4. Showings = 0
    BY <1>3, FS_EmptySet DEF Showings
  <1> QED
    BY <1>1, <1>2, <1>4, SkippedFacts DEF AsMany, HasData, HasTotal, Reading

\* Every step keeps the number of rows shown where the page asked for begins.
LEMMA AsManyNext ==
  ASSUME Inv, AsMany, [Next]_vars
  PROVE  AsMany'
  <1>0. /\ list \in Seq(Rows) /\ IsInjective(list) /\ Len(list) \in Nat
        /\ page \in Nat \ {0} /\ seen \in [Rows -> Nat]
        /\ Limit \in Nat
    BY LimitAssumption DEF Inv, TypeOK
  <1>1. /\ Skipped(page) \in Nat
        /\ Skipped(page + 1) = Skipped(page) + Limit
    BY <1>0, SkippedFacts
  <1>2. CASE UNCHANGED vars
    BY <1>2 DEF AsMany, Showings, HasData, HasTotal, Reading, Walking, vars
  <1>3. CASE Ask
    BY <1>3 DEF Ask, AsMany, Showings, HasData, HasTotal, Reading, Walking
  <1>4. CASE ReadRows
    <2>1. /\ Reading /\ Reading' /\ Walking /\ (HasTotal' <=> HasTotal)
          /\ UNCHANGED <<list, gone, phase, page, total, seen, atStart, inserted>>
      BY <1>4 DEF ReadRows, Reading, HasTotal, Walking
    <2>2. ASSUME gone = {}, ~inserted
          PROVE  /\ IsInjective(data')
                 /\ Len(data') = IF Skipped(page + 1) < Len(list) THEN Limit
                                 ELSE Len(list) - Skipped(page)
      <3>1. /\ Len(PageOf(list, page)) = IF Skipped(page + 1) < Len(list) THEN Limit
                                         ELSE Len(list) - Skipped(page)
            /\ IsInjective(PageOf(list, page))
        BY <1>0, <2>1, <2>2, PageRows DEF AsMany
      <3>2. CASE ordered
        BY <1>4, <3>1, <3>2 DEF ReadRows
      <3>3. CASE ~ordered
        <4>1. PICK S \in kSubset(Len(PageOf(list, page)), ToSet(list)) : data' = SetToSeq(S)
          BY <1>4, <3>3 DEF ReadRows, AnyPage
        <4>2. S \subseteq Rows /\ Cardinality(S) = Len(PageOf(list, page))
          BY <1>0, <4>1, Stands DEF kSubset
        <4>3. IsFiniteSet(S)
          BY <4>2, RowsAssumption, FS_Subset
        <4> QED
          BY <3>1, <4>1, <4>2, <4>3, SetToSeqFacts
      <3> QED
        BY <1>4, <3>2, <3>3 DEF ReadRows
    <2> QED
      BY <2>1, <2>2 DEF AsMany, Showings, Walking, HasTotal
  <1>5. CASE Count
    BY <1>5 DEF Count, AsMany, Showings, HasData, HasTotal, Reading, Walking
  <1>6. CASE Answer
    <2>1. /\ Reading /\ HasData /\ HasTotal /\ ~Reading' /\ Walking
          /\ UNCHANGED <<list, gone, data, total, atStart, inserted>>
          /\ data \in Seq(Rows)
      BY <1>6, NotReadAssumption DEF Answer, Inv, TypeOK, Reading, HasData, HasTotal, Walking
    <2> SUFFICES ASSUME gone = {}, ~inserted
                 PROVE  /\ Walking' => Showings' = Skipped(page') /\ Skipped(page') <= Len(list)
                        /\ phase' = "ended" => Showings' = Len(list)
      BY <2>1 DEF AsMany, HasData, HasTotal
    <2>2. /\ Showings = Skipped(page) /\ Skipped(page) <= Len(list) /\ total = Len(list)
          /\ IsInjective(data)
          /\ Len(data) = IF Skipped(page + 1) < Len(list) THEN Limit ELSE Len(list) - Skipped(page)
      BY <2>1 DEF AsMany
    <2>3. CASE ~ordered \/ Exists(total, page)
      <3>1. /\ page < PerPage(total) <=> Skipped(page + 1) < Len(list)
            /\ page >= PerPage(total) <=> ~(page < PerPage(total))
        <4>1. /\ page + 1 <= PerPage(total) <=> Skipped(page + 1) < Len(list)
              /\ PerPage(total) \in Nat
          BY <1>0, <2>2, PerPageFacts
        <4> QED
          BY <1>0, <4>1
      <3>2. /\ seen' = [r \in Rows |-> IF r \in ToSet(data) THEN seen[r] + 1 ELSE seen[r]]
            /\ \/ Skipped(page + 1) < Len(list) /\ phase' = "ready" /\ page' = page + 1
               \/ ~(Skipped(page + 1) < Len(list)) /\ phase' = "ended" /\ page' = page
        BY <1>6, <2>3, <3>1 DEF Answer
      <3>3. Showings' = Showings + Cardinality(ToSet(data))
        <4>1. ToSet(data) \in SUBSET Rows
          BY <2>1, Stands
        <4> QED
          BY <1>0, <3>2, <4>1, PairsOfMore DEF Showings
      <3>4. Cardinality(ToSet(data)) = Len(data)
        BY <2>1, <2>2, RowsOf
      <3> QED
        BY <1>0, <1>1, <2>2, <3>2, <3>3, <3>4 DEF Walking
    <2>4. CASE ordered /\ ~Exists(total, page)
      BY <1>6, <2>4 DEF Answer, Walking
    <2> QED
      BY <2>3, <2>4
  <1>7. ASSUME NEW r \in Rows, Insert(r) PROVE AsMany'
    BY <1>7 DEF Insert, AsMany
  <1>8. ASSUME NEW r \in Rows, Delete(r) PROVE AsMany'
    BY <1>8 DEF Delete, AsMany
  <1>9. ASSUME NEW r \in Rows, Rename(r) PROVE AsMany'
    <2>1. UNCHANGED <<gone, phase, page, data, total, seen, atStart, inserted>>
      BY <1>9 DEF Rename, read
    <2>2. Len(list') = Len(list)
      BY <1>9, RenamedRows DEF Inv
    <2> QED
      BY <2>1, <2>2 DEF AsMany, Showings, HasData, HasTotal, Reading, Walking
  <1> QED
    BY <1>2, <1>3, <1>4, <1>5, <1>6, <1>7, <1>8, <1>9 DEF Next

----------------------------------------------------------------------------
(* What the client is shown *)

\* The variables have their types: no page has more rows than asked for, and no walk asks
\* for more pages than there are rows, and one.
THEOREM TypeCorrect == Spec => []TypeOK
  <1>1. Inv => TypeOK
    BY DEF Inv
  <1> QED
    BY <1>1, InvHolds, PTL

\* FindsPages: ResponseService.pagination refuses no page its own number of pages led to,
\* in any order of the two statements and whatever is renamed, unless rows left the list.
THEOREM FindsPagesHolds == Spec => []FindsPages
  <1>1. Inv => FindsPages
    BY DEF Inv, Found, FindsPages
  <1> QED
    BY <1>1, InvHolds, PTL

\* RepeatsNothing: rows that only go never show one twice, and a new name shows only the
\* renamed row twice when it is later, or others when it is earlier.
THEOREM RepeatsNothingHolds == Spec => []RepeatsNothing
  <1>1. Inv => RepeatsNothing
    BY DEF Inv, Once, RepeatsNothing
  <1> QED
    BY <1>1, InvHolds, PTL

\* MissesNothing: rows that come between the pages, wherever in the list, never hide a row
\* that was there from the beginning, and a row that is renamed to an earlier place hides
\* none but itself.
THEOREM MissesNothingHolds == Spec => []MissesNothing
  <1>1. Inv => MissesNothing
    BY DEF Inv, NoneLeft, MissesNothing
  <1> QED
    BY <1>1, InvHolds, PTL

\* ShowsAsMany: without an orderBy too, and whatever is renamed, skip and take show as many
\* rows as the list has.
THEOREM ShowsAsManyHolds == Spec => []ShowsAsMany
  <1>1. ASSUME TypeOK, AsMany
        PROVE  ShowsAsMany
    <2>1. \A r \in Rows : seen[r] \in Nat
      BY <1>1 DEF TypeOK
    <2>2. FoldFunctionOnSet(+, 0, seen, Rows) = Showings
      BY <2>1, RowsAssumption, SumIs DEF Showings
    <2> QED
      BY <1>1, <2>2 DEF AsMany, ShowsAsMany
  <1>2. Spec => []AsMany
    BY AsManyInit, AsManyNext, InvHolds, PTL DEF Spec
  <1>3. TypeOK /\ AsMany => ShowsAsMany
    BY <1>1
  <1> QED
    BY <1>2, <1>3, TypeCorrect, PTL
=============================================================================
