------------------------------- MODULE TopNProofs -------------------------------
(***************************************************************************)
(* Theorems of TopN, for any workers, source, keys and number of rows.     *)
(*                                                                         *)
(* The argument: call a row beaten when the heaps hold n rows that are at  *)
(* least as good.  A beaten row stays beaten, since a heap lets go of a    *)
(* row only for a better one.  The worst row of a full heap is beaten by   *)
(* that heap; hence the boundary, every old copy of it, and a row with the *)
(* filter's key are beaten, and so is every row they rule out.  Rows are   *)
(* counted, so the invariant also says that no row is in two heaps or      *)
(* twice in one, which holds because a worker offers only rows that nobody *)
(* has looked at: its morsel is its own, and a source holds a row once.    *)
(* In the end all rows have been looked at, and the n best of those in the *)
(* heaps are the n best.                                                   *)
(***************************************************************************)
EXTENDS TopN, FiniteSetTheorems, WellFoundedInduction, TLAPS

(* The source.                                                             *)

LEMMA SizesTyped == HeapSize \in Nat /\ HeapSize >= 1 /\ ReduceThreshold \in Nat
BY SizesAssumption DEF ReduceThreshold

\* Every place of the source holds a row, and every row has a place.
LEMMA RowsHavePlaces ==
    /\ \A m \in DOMAIN Morsels : \A v \in DOMAIN Morsels[m] : \A i \in DOMAIN Morsels[m][v] :
        Morsels[m][v][i] \in Rows
    /\ \A r \in Rows : \E m \in DOMAIN Morsels : \E v \in DOMAIN Morsels[m] :
        \E i \in DOMAIN Morsels[m][v] : r = Morsels[m][v][i]
BY DEF Rows, Range

LEMMA SourceTyped ==
    /\ Morsels \in Seq(Seq(Seq(Nat \ {0})))
    /\ Len(Morsels) \in Nat
    /\ DOMAIN Morsels = 1..Len(Morsels)
    /\ \A m \in DOMAIN Morsels :
        /\ Morsels[m] \in Seq(Seq(Nat \ {0}))
        /\ Len(Morsels[m]) \in Nat
        /\ DOMAIN Morsels[m] = 1..Len(Morsels[m])
        /\ \A v \in DOMAIN Morsels[m] :
            /\ Morsels[m][v] \in Seq(Nat \ {0})
            /\ Len(Morsels[m][v]) \in Nat \ {0}
            /\ DOMAIN Morsels[m][v] = 1..Len(Morsels[m][v])
<1>1. Morsels \in Seq(Seq(Seq(Nat \ {0})))
  BY MorselsAssumption
<1>2. Len(Morsels) \in Nat /\ DOMAIN Morsels = 1..Len(Morsels)
  BY <1>1
<1>3. \A m \in DOMAIN Morsels : Morsels[m] \in Seq(Seq(Nat \ {0}))
  BY <1>1
<1>4. \A m \in DOMAIN Morsels : Len(Morsels[m]) \in Nat /\ DOMAIN Morsels[m] = 1..Len(Morsels[m])
  BY <1>3
<1>5. ASSUME NEW m \in DOMAIN Morsels, NEW v \in DOMAIN Morsels[m]
      PROVE  /\ Morsels[m][v] \in Seq(Nat \ {0})
             /\ Len(Morsels[m][v]) \in Nat \ {0}
             /\ DOMAIN Morsels[m][v] = 1..Len(Morsels[m][v])
  <2>1. Morsels[m][v] \in Seq(Nat \ {0})
    BY <1>3, <1>4
  <2>2. Morsels[m][v] # <<>>
    BY MorselsAssumption
  <2>3. Len(Morsels[m][v]) \in Nat /\ Len(Morsels[m][v]) # 0
    BY <2>1, <2>2
  <2>. QED BY <2>1, <2>3
<1>. QED BY <1>1, <1>2, <1>3, <1>4, <1>5

LEMMA RowsOccurOnce ==
    \A m, n \in DOMAIN Morsels : \A v \in DOMAIN Morsels[m], u \in DOMAIN Morsels[n] :
        \A i \in DOMAIN Morsels[m][v], j \in DOMAIN Morsels[n][u] :
            Morsels[m][v][i] = Morsels[n][u][j] => m = n /\ v = u /\ i = j
BY MorselsAssumption

LEMMA RowsAreNumbers == Rows \subseteq Nat \ {0}
<1>. SUFFICES ASSUME NEW r \in Rows PROVE r \in Nat \ {0}
  OBVIOUS
<1>1. PICK m \in DOMAIN Morsels : \E v \in DOMAIN Morsels[m] :
        \E i \in DOMAIN Morsels[m][v] : r = Morsels[m][v][i]
  BY RowsHavePlaces
<1>2. PICK v \in DOMAIN Morsels[m] : \E i \in DOMAIN Morsels[m][v] : r = Morsels[m][v][i]
  BY <1>1
<1>3. Morsels[m][v] \in Seq(Nat \ {0})
  BY SourceTyped
<1>. QED BY <1>2, <1>3

LEMMA RangeIsFinite ==
    ASSUME NEW f, IsFiniteSet(DOMAIN f)
    PROVE  IsFiniteSet(Range(f))
<1>1. [x \in DOMAIN f |-> f[x]] \in Surjection(DOMAIN f, Range(f))
  BY DEF Surjection, Range
<1>. QED BY <1>1, FS_Surjection

LEMMA RowsAreFinite == IsFiniteSet(Rows)
<1>1. ASSUME NEW m \in DOMAIN Morsels, NEW vec \in Range(Morsels[m])
      PROVE  IsFiniteSet(Range(vec))
  <2>1. PICK v \in DOMAIN Morsels[m] : vec = Morsels[m][v]
    BY DEF Range
  <2>2. DOMAIN vec = 1..Len(vec) /\ Len(vec) \in Nat
    BY <2>1, SourceTyped
  <2>3. IsFiniteSet(DOMAIN vec)
    BY <2>2, FS_Interval
  <2>. QED BY <2>3, RangeIsFinite
<1>2. ASSUME NEW m \in DOMAIN Morsels
      PROVE  IsFiniteSet(UNION {Range(vec) : vec \in Range(Morsels[m])})
  <2>. DEFINE f == [v \in DOMAIN Morsels[m] |-> Range(Morsels[m][v])]
  <2>1. IsFiniteSet(DOMAIN Morsels[m])
    BY SourceTyped, FS_Interval
  <2>2. IsFiniteSet(Range(f))
    BY <2>1, RangeIsFinite
  <2>3. Range(f) = {Range(vec) : vec \in Range(Morsels[m])}
    BY DEF Range
  <2>4. \A T \in Range(f) : IsFiniteSet(T)
    BY <1>1, <2>3
  <2>. QED BY <2>2, <2>3, <2>4, FS_UNION
<1>. DEFINE g == [m \in DOMAIN Morsels |-> UNION {Range(vec) : vec \in Range(Morsels[m])}]
<1>3. IsFiniteSet(DOMAIN Morsels)
  BY SourceTyped, FS_Interval
<1>4. IsFiniteSet(Range(g))
  BY <1>3, RangeIsFinite
<1>5. \A T \in Range(g) : IsFiniteSet(T)
  BY <1>2 DEF Range
<1>6. UNION Range(g) = Rows
  BY DEF Range, Rows
<1>. QED BY <1>4, <1>5, <1>6, FS_UNION

-------------------------------------------------------------------------------
(* The order of the rows, and the worst of some.                           *)

KeysTyped == key \in [Rows -> Keys] /\ maintain \in BOOLEAN

\* A strict order in which rows that tie are as good as each other.
LEMMA LessIsAnOrder ==
    ASSUME KeysTyped
    PROVE  /\ \A r \in Rows : ~Less(r, r)
           /\ \A r, q \in Rows : Less(r, q) => ~Less(q, r)
           /\ \A r, q, p \in Rows : ~Less(r, q) /\ ~Less(q, p) => ~Less(r, p)
           /\ \A r, q, p \in Rows : Less(r, q) /\ Less(q, p) => Less(r, p)
<1>1. \A r \in Rows : r \in Int
  BY RowsAreNumbers
<1>2. \A r \in Rows : key[r] \in Int
  BY KeysAssumption DEF KeysTyped
<1>3. CASE maintain = TRUE
  BY <1>1, <1>2, <1>3 DEF Less
<1>4. CASE maintain = FALSE
  BY <1>1, <1>2, <1>4 DEF Less
<1>. QED BY <1>3, <1>4 DEF KeysTyped

LEMMA LeastExists ==
    ASSUME NEW C \in SUBSET Nat, C # {}
    PROVE  \E x \in C : \A y \in C : x <= y
<1>1. \E x \in C : \A y \in C : <<y, x>> \notin OpToRel(<, Nat)
  BY NatLessThanWellFounded, WFMin
<1>2. \A x, y \in C : <<y, x>> \notin OpToRel(<, Nat) => x <= y
  BY DEF OpToRel
<1>. QED BY <1>1, <1>2

\* The entry on top of a heap is one that no other is worse than.
LEMMA TopIsWorst ==
    ASSUME KeysTyped, NEW h \in SUBSET Entries, IsFiniteSet(h), h # {}
    PROVE  Top(h) \in h /\ \A f \in h : ~Less(Top(h).row, f.row)
<1>. DEFINE Worse(e) == {f \in h : Less(e.row, f.row)}
            C == {Cardinality(Worse(e)) : e \in h}
<1>1. \A e \in h : IsFiniteSet(Worse(e)) /\ Cardinality(Worse(e)) \in Nat
  BY FS_Subset, FS_CardinalityType
<1>2. PICK e \in h : \A f \in h : Cardinality(Worse(e)) <= Cardinality(Worse(f))
  <2>1. C \in SUBSET Nat /\ C # {}
    BY <1>1
  <2>2. PICK c \in C : \A d \in C : c <= d
    BY <2>1, LeastExists
  <2>. HIDE DEF Worse
  <2>3. PICK e \in h : c = Cardinality(Worse(e))
    BY <2>2
  <2>4. \A f \in h : Cardinality(Worse(f)) \in C
    OBVIOUS
  <2>. QED BY <2>2, <2>3, <2>4
<1>3. ASSUME NEW f \in h, Less(e.row, f.row) PROVE FALSE
  <2>. \A g \in h : g.row \in Rows
    BY DEF Entries
  <2>1. Worse(f) \subseteq Worse(e)
    BY <1>3, LessIsAnOrder
  <2>2. f \in Worse(e) /\ f \notin Worse(f)
    BY <1>3, LessIsAnOrder
  <2>3. Cardinality(Worse(f)) <= Cardinality(Worse(e)) /\ Cardinality(Worse(f)) # Cardinality(Worse(e))
    BY <1>1, <2>1, <2>2, FS_Subset
  <2>. HIDE DEF Worse
  <2>4. \A x, y \in Nat : x <= y /\ y <= x => x = y
    OBVIOUS
  <2>. QED BY <1>1, <1>2, <2>3, <2>4
<1>4. \E x \in h : \A f \in h : ~Less(x.row, f.row)
  BY <1>3
<1>. QED BY <1>4 DEF Top

-------------------------------------------------------------------------------
(* Counting the rows in heaps.                                             *)

DistinctRows(h) == \A e, f \in h : e.row = f.row => e = f

LEMMA RowsCountEntries ==
    ASSUME NEW h \in SUBSET Entries, DistinctRows(h)
    PROVE  /\ IsFiniteSet(h)
           /\ IsFiniteSet({e.row : e \in h})
           /\ Cardinality({e.row : e \in h}) = Cardinality(h)
<1>. DEFINE f == [e \in h |-> e.row]
            T == {e.row : e \in h}
<1>1. T \subseteq Rows
  BY DEF Entries
<1>2. IsFiniteSet(T)
  BY <1>1, RowsAreFinite, FS_Subset
<1>3. f \in Injection(h, T)
  BY DEF Injection, DistinctRows, IsInjective
<1>4. f \in Surjection(h, T)
  BY DEF Surjection
<1>5. IsFiniteSet(h) /\ (Cardinality(h) = Cardinality(T) <=> f \in Surjection(h, T))
  BY <1>2, <1>3, FS_Injection
<1>. QED BY <1>2, <1>4, <1>5

\* One element of a set gives way to a new one.
LEMMA Swapped ==
    ASSUME NEW S, NEW T, IsFiniteSet(S), IsFiniteSet(T), NEW t, NEW r, r \notin S,
           (S \ {t}) \cup {r} \subseteq T
    PROVE  Cardinality(S) <= Cardinality(T)
<1>1. IsFiniteSet(S \ {t})
  BY FS_RemoveElement
<1>2. Cardinality(S) \in Nat /\ Cardinality(T) \in Nat /\ Cardinality(S \ {t}) \in Nat
  BY <1>1, FS_CardinalityType
<1>3. Cardinality(S \ {t}) >= Cardinality(S) - 1
  <2>1. Cardinality(S \ {t}) = IF t \in S THEN Cardinality(S) - 1 ELSE Cardinality(S)
    BY FS_RemoveElement, Zenon
  <2>. QED BY <1>2, <2>1
<1>4. Cardinality((S \ {t}) \cup {r}) = Cardinality(S \ {t}) + 1
  BY <1>1, FS_AddElement
<1>5. Cardinality((S \ {t}) \cup {r}) <= Cardinality(T)
  BY FS_Subset
<1>. QED BY <1>2, <1>3, <1>4, <1>5

LEMMA SequenceOfSet ==
    ASSUME NEW S, IsFiniteSet(S)
    PROVE  /\ SetToSeq(S) \in [1..Cardinality(S) -> S]
           /\ IsInjective(SetToSeq(S))
           /\ \A e \in S : \E i \in 1..Cardinality(S) : SetToSeq(S)[i] = e
<1>1. PICK f : f \in Bijection(1..Cardinality(S), S)
  BY FS_CardinalityType DEF ExistsBijection
<1>2. f \in [1..Cardinality(S) -> S] /\ IsInjective(f)
  BY <1>1 DEF Bijection, Injection, IsInjective
<1>3. SetToSeq(S) \in [1..Cardinality(S) -> S] /\ IsInjective(SetToSeq(S))
  BY <1>2 DEF SetToSeq
<1>4. SetToSeq(S) \in Injection(1..Cardinality(S), S)
  BY <1>3 DEF Injection, IsInjective
<1>5. Cardinality(S) \in Nat
  BY FS_CardinalityType
<1>6. Cardinality(1..Cardinality(S)) = Cardinality(S)
  <2>. DEFINE n == Cardinality(S)
  <2>1. n \in Nat BY <1>5
  <2>. HIDE DEF n
  <2>2. Cardinality(1..n) = n
    BY <2>1, FS_Interval
  <2>. QED BY <2>2 DEF n
<1>7. SetToSeq(S) \in Surjection(1..Cardinality(S), S)
  BY <1>4, <1>6, FS_Injection
<1>. QED BY <1>3, <1>7 DEF Surjection

-------------------------------------------------------------------------------
(* What the workers have passed, by its place in the source.               *)

\* The worker does not have the row at a place of morsel m ahead of it.
IsBehind(w, m, v, i) == morsel[w] = m => ~Ahead(w, v, i)
HasPassed(m, v, i) == m <= cursor /\ \A w \in Workers : IsBehind(w, m, v, i)

MorselsTyped == morsel \in [Workers -> 0..Len(Morsels)]

LEMMA PassedAt ==
    MorselsTyped =>
        \A m \in DOMAIN Morsels : \A v \in DOMAIN Morsels[m] : \A i \in DOMAIN Morsels[m][v] :
            Morsels[m][v][i] \in Passed <=> HasPassed(m, v, i)
<1>. SUFFICES ASSUME MorselsTyped,
                     NEW m \in DOMAIN Morsels, NEW v \in DOMAIN Morsels[m],
                     NEW i \in DOMAIN Morsels[m][v]
              PROVE  Morsels[m][v][i] \in Passed <=> HasPassed(m, v, i)
  OBVIOUS
<1>. DEFINE r == Morsels[m][v][i]
<1>0. r \in Rows
  BY RowsHavePlaces
<1>1. r \in Seen <=> m <= cursor
  <2>1. r \in Seen <=> \E n \in DOMAIN Morsels : n <= cursor /\ \E u \in DOMAIN Morsels[n] :
                          \E j \in DOMAIN Morsels[n][u] : r = Morsels[n][u][j]
    BY DEF Seen, Claimed, Range
  <2>2. ASSUME NEW n \in DOMAIN Morsels, NEW u \in DOMAIN Morsels[n],
               NEW j \in DOMAIN Morsels[n][u], r = Morsels[n][u][j]
        PROVE  n = m
    BY <2>2, RowsOccurOnce
  <2>. QED BY <2>1, <2>2
<1>2. ASSUME NEW w \in Workers
      PROVE  r \in Unread(w) <=> ~IsBehind(w, m, v, i)
  <2>1. r \in Unread(w) <=> \E u \in DOMAIN Vectors(w) : \E j \in DOMAIN Vectors(w)[u] :
                              Vectors(w)[u][j] = r /\ Ahead(w, u, j)
    BY <1>0 DEF Unread
  <2>2. CASE morsel[w] = 0
    <3>1. Vectors(w) = << >>
      BY <2>2 DEF Vectors, None
    <3>2. m # 0
      BY SourceTyped
    <3>. QED BY <2>1, <2>2, <3>1, <3>2 DEF IsBehind
  <2>3. CASE morsel[w] # 0
    <3>1. morsel[w] \in DOMAIN Morsels
      BY <2>3, SourceTyped DEF MorselsTyped
    <3>2. Vectors(w) = Morsels[morsel[w]]
      BY <2>3 DEF Vectors, None
    <3>3. ASSUME NEW u \in DOMAIN Vectors(w), NEW j \in DOMAIN Vectors(w)[u], Vectors(w)[u][j] = r
          PROVE  morsel[w] = m /\ u = v /\ j = i
      <4>1. PICK n \in DOMAIN Morsels : n = morsel[w]
        BY <3>1
      <4>2. u \in DOMAIN Morsels[n] /\ j \in DOMAIN Morsels[n][u]
            /\ Morsels[n][u][j] = Morsels[m][v][i]
        BY <3>2, <3>3, <4>1
      <4>3. n = m /\ u = v /\ j = i
        BY <4>2, RowsOccurOnce
      <4>. QED BY <4>1, <4>3
    <3>. QED BY <2>1, <3>2, <3>3 DEF IsBehind
  <2>. QED BY <2>2, <2>3
<1>3. r \in Passed <=> r \in Seen /\ \A w \in Workers : r \notin Unread(w)
  BY DEF Passed
<1>. HIDE DEF r
<1>4. r \in Passed <=> HasPassed(m, v, i)
  BY <1>1, <1>2, <1>3 DEF HasPassed
<1>. QED BY <1>4 DEF r

LEMMA PassedAtNext ==
    MorselsTyped' =>
        \A m \in DOMAIN Morsels : \A v \in DOMAIN Morsels[m] : \A i \in DOMAIN Morsels[m][v] :
            Morsels[m][v][i] \in Passed' <=> HasPassed(m, v, i)'
<1>1. (MorselsTyped =>
        \A m \in DOMAIN Morsels : \A v \in DOMAIN Morsels[m] : \A i \in DOMAIN Morsels[m][v] :
            Morsels[m][v][i] \in Passed <=> HasPassed(m, v, i))'
  BY PassedAt, PTL
<1>. QED BY <1>1

LEMMA PassedAreRows == Passed \subseteq Rows
<1>1. Seen \subseteq Rows
  BY DEF Seen, Rows, Claimed
<1>. QED BY <1>1 DEF Passed

LEMMA PassedAreRowsNext == Passed' \subseteq Rows
<1>1. (Passed \subseteq Rows)'
  BY PassedAreRows, PTL
<1>. QED BY <1>1
LEMMA PassedKept ==
    ASSUME MorselsTyped, MorselsTyped',
           \A m \in DOMAIN Morsels : \A v \in DOMAIN Morsels[m] : \A i \in DOMAIN Morsels[m][v] :
               HasPassed(m, v, i)' <=> HasPassed(m, v, i)
    PROVE  Passed' = Passed
<1>1. \A m \in DOMAIN Morsels : \A v \in DOMAIN Morsels[m] : \A i \in DOMAIN Morsels[m][v] :
        Morsels[m][v][i] \in Passed' <=> Morsels[m][v][i] \in Passed
  BY PassedAt, PassedAtNext
<1>2. \A r \in Rows : r \in Passed' <=> r \in Passed
  BY <1>1, RowsHavePlaces
<1>. QED BY <1>2, PassedAreRows, PassedAreRowsNext

LEMMA PassedOne ==
    ASSUME MorselsTyped, MorselsTyped',
           NEW n \in DOMAIN Morsels, NEW u \in DOMAIN Morsels[n], NEW j \in DOMAIN Morsels[n][u],
           \A m \in DOMAIN Morsels : \A v \in DOMAIN Morsels[m] : \A i \in DOMAIN Morsels[m][v] :
               HasPassed(m, v, i)' <=> HasPassed(m, v, i) \/ (m = n /\ v = u /\ i = j)
    PROVE  Passed' = Passed \cup {Morsels[n][u][j]}
<1>1. \A m \in DOMAIN Morsels : \A v \in DOMAIN Morsels[m] : \A i \in DOMAIN Morsels[m][v] :
        Morsels[m][v][i] \in Passed' <=>
            Morsels[m][v][i] \in Passed \/ (m = n /\ v = u /\ i = j)
  BY PassedAt, PassedAtNext
<1>2. \A m \in DOMAIN Morsels : \A v \in DOMAIN Morsels[m] : \A i \in DOMAIN Morsels[m][v] :
        (m = n /\ v = u /\ i = j) <=> Morsels[m][v][i] = Morsels[n][u][j]
  BY RowsOccurOnce
<1>3. \A r \in Rows : r \in Passed' <=> r \in Passed \/ r = Morsels[n][u][j]
  BY <1>1, <1>2, RowsHavePlaces
<1>. QED BY <1>3, PassedAreRows, PassedAreRowsNext, RowsHavePlaces

LEMMA PassedVector ==
    ASSUME MorselsTyped, MorselsTyped',
           NEW n \in DOMAIN Morsels, NEW u \in DOMAIN Morsels[n],
           \A m \in DOMAIN Morsels : \A v \in DOMAIN Morsels[m] : \A i \in DOMAIN Morsels[m][v] :
               HasPassed(m, v, i)' <=> HasPassed(m, v, i) \/ (m = n /\ v = u)
    PROVE  /\ Passed \subseteq Passed'
           /\ \A r \in Passed' : r \in Passed \/ \E i \in DOMAIN Morsels[n][u] : r = Morsels[n][u][i]
<1>1. \A m \in DOMAIN Morsels : \A v \in DOMAIN Morsels[m] : \A i \in DOMAIN Morsels[m][v] :
        Morsels[m][v][i] \in Passed' <=> Morsels[m][v][i] \in Passed \/ (m = n /\ v = u)
  BY PassedAt, PassedAtNext
<1>2. \A r \in Rows : r \in Passed => r \in Passed'
  BY <1>1, RowsHavePlaces
<1>3. ASSUME NEW r \in Rows, r \in Passed'
      PROVE  r \in Passed \/ \E i \in DOMAIN Morsels[n][u] : r = Morsels[n][u][i]
  <2>1. PICK m \in DOMAIN Morsels : \E v \in DOMAIN Morsels[m] :
          \E i \in DOMAIN Morsels[m][v] : r = Morsels[m][v][i]
    BY RowsHavePlaces
  <2>2. PICK v \in DOMAIN Morsels[m] : \E i \in DOMAIN Morsels[m][v] : r = Morsels[m][v][i]
    BY <2>1
  <2>3. PICK i \in DOMAIN Morsels[m][v] : r = Morsels[m][v][i]
    BY <2>2
  <2>. QED BY <1>1, <1>3, <2>3
<1>. QED BY <1>2, <1>3, PassedAreRows, PassedAreRowsNext

\* The vector a worker reads is one of the source's.
LEMMA CurrentVector ==
    ASSUME TypeOK, NEW w \in Workers, HasVector(w)
    PROVE  /\ morsel[w] \in DOMAIN Morsels
           /\ vector[w] \in DOMAIN Morsels[morsel[w]]
           /\ Vectors(w) = Morsels[morsel[w]]
           /\ Vector(w) = Morsels[morsel[w]][vector[w]]
           /\ Len(Vector(w)) \in Nat \ {0}
           /\ DOMAIN Vector(w) = 1..Len(Vector(w))
           /\ \A i \in DOMAIN Vector(w) : Vector(w)[i] \in Rows
<1>1. vector[w] \in Nat \ {0} /\ vector[w] <= Len(Vectors(w)) /\ morsel[w] \in 0..Len(Morsels)
  BY DEF TypeOK, HasVector
<1>2. morsel[w] # 0
  <2>. SUFFICES ASSUME morsel[w] = 0 PROVE FALSE
    OBVIOUS
  <2>1. Vectors(w) = << >>
    BY DEF Vectors, None
  <2>2. Len(Vectors(w)) = 0
    BY <2>1
  <2>. QED BY <1>1, <2>2
<1>3. morsel[w] \in DOMAIN Morsels /\ Vectors(w) = Morsels[morsel[w]]
  BY <1>1, <1>2, SourceTyped DEF Vectors, None
<1>4. vector[w] \in DOMAIN Morsels[morsel[w]]
  BY <1>1, <1>3, SourceTyped
<1>5. Vector(w) = Morsels[morsel[w]][vector[w]]
  BY <1>3 DEF Vector
<1>6. Len(Vector(w)) \in Nat \ {0} /\ DOMAIN Vector(w) = 1..Len(Vector(w))
  BY <1>3, <1>4, <1>5, SourceTyped
<1>7. \A i \in DOMAIN Vector(w) : Vector(w)[i] \in Rows
  BY <1>3, <1>4, <1>5, RowsHavePlaces
<1>. QED BY <1>3, <1>4, <1>5, <1>6, <1>7

\* Past its last vector, a worker has nothing ahead of it.
LEMMA NothingAhead ==
    ASSUME TypeOK, NEW w \in Workers, vector[w] > Len(Vectors(w)),
           NEW m \in DOMAIN Morsels, NEW v \in DOMAIN Morsels[m], NEW i, morsel[w] = m
    PROVE  vector[w] > v
<1>1. m # 0 /\ Vectors(w) = Morsels[m]
  BY SourceTyped DEF Vectors, None
<1>2. v \in Nat /\ v <= Len(Morsels[m]) /\ Len(Morsels[m]) \in Nat
  BY SourceTyped
<1>3. vector[w] \in Nat
  BY DEF TypeOK
<1>. QED BY <1>1, <1>2, <1>3

LEMMA OthersStayBehind ==
    ASSUME NEW u, morsel'[u] = morsel[u], vector'[u] = vector[u], row'[u] = row[u],
           pc'[u] = pc[u], NEW m, NEW v, NEW i
    PROVE  IsBehind(u, m, v, i)' <=> IsBehind(u, m, v, i)
BY DEF IsBehind, Ahead

LEMMA ClaimPasses ==
    ASSUME TypeOK, MorselsHold, NEW w \in Workers, Claim(w)
    PROVE  Passed' = Passed
<1>. USE DEF None
<1>1. /\ pc \in [Workers -> {"scan", "publish", "filter", "settle", "done"}]
      /\ morsel \in [Workers -> 0..Len(Morsels)] /\ vector \in [Workers -> Nat \ {0}]
      /\ row \in [Workers -> Nat \ {0}] /\ cursor \in Nat /\ Len(Morsels) \in Nat
  BY SourceTyped DEF TypeOK
<1>2. pc[w] = "scan" /\ cursor' = cursor + 1 /\ row' = row /\ ~HasVector(w)
  BY DEF Claim
<1>3. row[w] = 1 /\ vector[w] > Len(Vectors(w))
  <2>1. vector[w] \in Nat /\ Len(Vectors(w)) \in Nat
    <3>1. CASE morsel[w] = 0
      BY <1>1, <3>1 DEF Vectors
    <3>2. CASE morsel[w] # 0
      BY <1>1, <3>2, SourceTyped DEF Vectors
    <3>. QED BY <3>1, <3>2
  <2>. QED BY <1>2, <2>1 DEF HasVector, MorselsHold
<1>4. MorselsTyped
  BY <1>1 DEF MorselsTyped
<1>5. CASE cursor < Len(Morsels)
  <2>1. /\ morsel' = [morsel EXCEPT ![w] = cursor + 1] /\ vector' = [vector EXCEPT ![w] = 1]
        /\ pc' = pc
    BY <1>5 DEF Claim
  <2>2. MorselsTyped'
    BY <1>1, <1>5, <2>1 DEF MorselsTyped
  <2>3. ASSUME NEW m \in DOMAIN Morsels, NEW v \in DOMAIN Morsels[m], NEW i \in DOMAIN Morsels[m][v]
        PROVE  HasPassed(m, v, i)' <=> HasPassed(m, v, i)
    <3>1. m \in Nat /\ v \in Nat /\ i \in Nat /\ v >= 1 /\ i >= 1
      BY SourceTyped
    <3>2. \A u \in Workers : u # w => (IsBehind(u, m, v, i)' <=> IsBehind(u, m, v, i))
      BY <1>1, <1>2, <2>1, OthersStayBehind
    <3>3. IsBehind(w, m, v, i)
      <4>1. morsel[w] = m => vector[w] > v
        BY <1>3, NothingAhead
      <4>. QED BY <1>1, <3>1, <4>1 DEF IsBehind, Ahead
    <3>4. m <= cursor => IsBehind(w, m, v, i)'
      BY <1>1, <2>1, <3>1 DEF IsBehind
    <3>5. m = cursor + 1 => ~IsBehind(w, m, v, i)'
      BY <1>1, <1>2, <1>3, <2>1, <3>1 DEF IsBehind, Ahead
    <3>6. HasPassed(m, v, i) <=> m <= cursor /\ \A u \in Workers : IsBehind(u, m, v, i)
      BY DEF HasPassed
    <3>7. HasPassed(m, v, i)' <=> m <= cursor' /\ \A u \in Workers : IsBehind(u, m, v, i)'
      BY DEF HasPassed
    <3>8. m <= cursor' => m <= cursor \/ m = cursor + 1
      BY <1>1, <1>2, <3>1
    <3>9. m <= cursor => m <= cursor'
      BY <1>1, <1>2, <3>1
    <3>. HIDE DEF IsBehind, HasPassed
    <3>. QED BY <3>2, <3>3, <3>4, <3>5, <3>6, <3>7, <3>8, <3>9
  <2>. QED BY <1>4, <2>2, <2>3, PassedKept
<1>6. CASE ~(cursor < Len(Morsels))
  <2>1. /\ morsel' = morsel /\ vector' = vector
        /\ pc' = [pc EXCEPT ![w] = "done"]
    BY <1>6 DEF Claim, Goto
  <2>2. MorselsTyped'
    BY <1>4, <2>1 DEF MorselsTyped
  <2>3. ASSUME NEW m \in DOMAIN Morsels, NEW v \in DOMAIN Morsels[m], NEW i \in DOMAIN Morsels[m][v]
        PROVE  HasPassed(m, v, i)' <=> HasPassed(m, v, i)
    <3>0. m \in Nat /\ m <= Len(Morsels) /\ v \in Nat /\ i \in Nat
      BY SourceTyped
    <3>1. m \in Nat /\ v \in Nat /\ i \in Nat /\ m <= cursor /\ m <= cursor'
      BY <1>1, <1>2, <1>6, <3>0
    <3>2. \A u \in Workers : u # w => (IsBehind(u, m, v, i)' <=> IsBehind(u, m, v, i))
      BY <1>1, <1>2, <2>1, OthersStayBehind
    <3>3. morsel[w] = m => vector[w] > v
      BY <1>3, NothingAhead
    <3>4. IsBehind(w, m, v, i)
      BY <1>1, <3>1, <3>3 DEF IsBehind, Ahead
    <3>5. IsBehind(w, m, v, i)'
      BY <1>1, <2>1, <3>1, <3>3 DEF IsBehind, Ahead
    <3>. HIDE DEF IsBehind
    <3>. QED BY <3>1, <3>2, <3>4, <3>5 DEF HasPassed
  <2>. QED BY <1>4, <2>2, <2>3, PassedKept
<1>. QED BY <1>5, <1>6

LEMMA PlacesTyped ==
    \A m \in DOMAIN Morsels : \A v \in DOMAIN Morsels[m] : \A i \in DOMAIN Morsels[m][v] :
        v \in Nat /\ i \in Nat /\ i >= 1 /\ i <= Len(Morsels[m][v])
BY SourceTyped

\* A worker moves on within its morsel, the others stay where they are.
MovesOn(w) ==
    /\ cursor' = cursor /\ morsel' = morsel
    /\ \A u \in Workers : u # w => vector'[u] = vector[u] /\ row'[u] = row[u] /\ pc'[u] = pc[u]

LEMMA OnlyItsOwnMorsel ==
    ASSUME TypeOK, MorselsHold, NEW w \in Workers, MovesOn(w),
           NEW m \in DOMAIN Morsels, NEW v \in DOMAIN Morsels[m], NEW i \in DOMAIN Morsels[m][v]
    PROVE  /\ m # morsel[w] => (HasPassed(m, v, i)' <=> HasPassed(m, v, i))
           /\ m = morsel[w] => /\ HasPassed(m, v, i) <=> ~Ahead(w, v, i)
                               /\ HasPassed(m, v, i)' <=> ~Ahead(w, v, i)'
<1>1. \A u \in Workers : u # w => (IsBehind(u, m, v, i)' <=> IsBehind(u, m, v, i))
  BY OthersStayBehind DEF MovesOn
<1>2. HasPassed(m, v, i)' <=> m <= cursor /\ \A u \in Workers : IsBehind(u, m, v, i)'
  BY DEF HasPassed, MovesOn
<1>3. CASE m # morsel[w]
  <2>1. IsBehind(w, m, v, i) /\ IsBehind(w, m, v, i)'
    BY <1>3 DEF IsBehind, MovesOn
  <2>. HIDE DEF IsBehind
  <2>. QED BY <1>1, <1>2, <1>3, <2>1 DEF HasPassed
<1>4. CASE m = morsel[w]
  <2>1. m # 0
    BY SourceTyped
  <2>2. \A u \in Workers : u # w => morsel[u] # m
    BY <1>4, <2>1 DEF MorselsHold, None
  <2>3. \A u \in Workers : u # w => IsBehind(u, m, v, i)
    BY <2>2 DEF IsBehind
  <2>4. m <= cursor
    BY <1>4 DEF MorselsHold
  <2>5. IsBehind(w, m, v, i) <=> ~Ahead(w, v, i)
    BY <1>4 DEF IsBehind
  <2>6. IsBehind(w, m, v, i)' <=> ~Ahead(w, v, i)'
    BY <1>4 DEF IsBehind, MovesOn
  <2>. HIDE DEF IsBehind
  <2>7. HasPassed(m, v, i) <=> IsBehind(w, m, v, i)
    BY <2>3, <2>4 DEF HasPassed
  <2>8. HasPassed(m, v, i)' <=> IsBehind(w, m, v, i)'
    BY <1>1, <1>2, <2>3, <2>4
  <2>. QED BY <1>4, <2>5, <2>6, <2>7, <2>8
<1>. QED BY <1>3, <1>4

LEMMA MovingKeepsMorsels ==
    ASSUME TypeOK, NEW w \in Workers, MovesOn(w)
    PROVE  MorselsTyped /\ MorselsTyped'
BY DEF MorselsTyped, MovesOn, TypeOK

LEMMA OnePasses ==
    ASSUME TypeOK, MorselsHold, NEW w \in Workers, HasVector(w), row[w] <= Len(Vector(w)),
           MovesOn(w),
           \A v \in DOMAIN Morsels[morsel[w]] : \A i \in DOMAIN Morsels[morsel[w]][v] :
               Ahead(w, v, i)' <=> Ahead(w, v, i) /\ ~(v = vector[w] /\ i = row[w])
    PROVE  /\ Passed' = Passed \cup {Vector(w)[row[w]]}
           /\ Vector(w)[row[w]] \in Rows \ Passed
<1>. DEFINE n == morsel[w]
            u == vector[w]
            j == row[w]
<1>1. /\ n \in DOMAIN Morsels /\ u \in DOMAIN Morsels[n] /\ j \in DOMAIN Morsels[n][u]
      /\ Vector(w) = Morsels[n][u] /\ Morsels[n][u][j] \in Rows
  BY CurrentVector, RowsHavePlaces DEF TypeOK
<1>2. MorselsTyped /\ MorselsTyped'
  BY MovingKeepsMorsels
<1>3. Ahead(w, u, j)
  <2>1. j \in Nat
    BY DEF TypeOK
  <2>2. pc[w] = "scan"
    BY DEF HasVector
  <2>. QED BY <2>1, <2>2 DEF Ahead
<1>4. ASSUME NEW m \in DOMAIN Morsels, NEW v \in DOMAIN Morsels[m], NEW i \in DOMAIN Morsels[m][v]
      PROVE  HasPassed(m, v, i)' <=> HasPassed(m, v, i) \/ (m = n /\ v = u /\ i = j)
  <2>1. CASE m # n
    BY <2>1, OnlyItsOwnMorsel
  <2>2. CASE m = n
    <3>1. HasPassed(m, v, i) <=> ~Ahead(w, v, i)
      BY <2>2, OnlyItsOwnMorsel
    <3>2. HasPassed(m, v, i)' <=> ~Ahead(w, v, i)'
      BY <2>2, OnlyItsOwnMorsel
    <3>. QED BY <2>2, <3>1, <3>2
  <2>. QED BY <2>1, <2>2
<1>5. ~HasPassed(n, u, j)
  BY <1>1, <1>3, OnlyItsOwnMorsel
<1>6. Morsels[n][u][j] \notin Passed
  BY <1>1, <1>2, <1>5, PassedAt
<1>7. Passed' = Passed \cup {Morsels[n][u][j]}
  <2>. HIDE DEF n, u, j
  <2>. QED BY <1>1, <1>2, <1>4, PassedOne
<1>. QED BY <1>1, <1>6, <1>7

LEMMA SkipPasses ==
    ASSUME TypeOK, MorselsHold, NEW w \in Workers, SkipVector(w)
    PROVE  /\ Passed \subseteq Passed'
           /\ \A r \in Passed' : r \in Passed \/ \E i \in DOMAIN Vector(w) : r = Vector(w)[i]
<1>. DEFINE n == morsel[w]
            u == vector[w]
<1>1. HasVector(w) /\ pc[w] = "scan" /\ row[w] = 1
  BY DEF SkipVector, HasVector
<1>2. n \in DOMAIN Morsels /\ u \in DOMAIN Morsels[n] /\ Vector(w) = Morsels[n][u]
  BY <1>1, CurrentVector
<1>3. MovesOn(w)
  BY DEF SkipVector, NextVector, MovesOn, TypeOK
<1>4. MorselsTyped /\ MorselsTyped'
  BY <1>3, MovingKeepsMorsels
<1>5. pc'[w] = "scan" /\ vector'[w] = vector[w] + 1 /\ row'[w] = 1 /\ vector[w] \in Nat
  BY <1>1 DEF SkipVector, NextVector, TypeOK
<1>6. ASSUME NEW m \in DOMAIN Morsels, NEW v \in DOMAIN Morsels[m], NEW i \in DOMAIN Morsels[m][v]
      PROVE  HasPassed(m, v, i)' <=> HasPassed(m, v, i) \/ (m = n /\ v = u)
  <2>1. CASE m # n
    BY <1>3, <2>1, OnlyItsOwnMorsel
  <2>2. CASE m = n
    <3>1. HasPassed(m, v, i) <=> ~Ahead(w, v, i)
      BY <1>3, <2>2, OnlyItsOwnMorsel
    <3>2. HasPassed(m, v, i)' <=> ~Ahead(w, v, i)'
      BY <1>3, <2>2, OnlyItsOwnMorsel
    <3>3. v \in Nat /\ i \in Nat /\ i >= 1
      BY SourceTyped
    <3>4. Ahead(w, v, i) <=> v >= vector[w]
      BY <1>1, <1>5, <3>3 DEF Ahead
    <3>5. Ahead(w, v, i)' <=> v > vector[w]
      BY <1>5, <3>3 DEF Ahead
    <3>. QED BY <1>5, <2>2, <3>1, <3>2, <3>3, <3>4, <3>5
  <2>. QED BY <2>1, <2>2
<1>. HIDE DEF n, u
<1>7. /\ Passed \subseteq Passed'
      /\ \A r \in Passed' : r \in Passed \/ \E i \in DOMAIN Morsels[n][u] : r = Morsels[n][u][i]
  BY <1>2, <1>4, <1>6, PassedVector
<1>. QED BY <1>2, <1>7

LEMMA SinkRowPasses ==
    ASSUME TypeOK, MorselsHold, NEW w \in Workers, SinkRow(w)
    PROVE  /\ Passed' = Passed \cup {Vector(w)[row[w]]}
           /\ Vector(w)[row[w]] \in Rows \ Passed
<1>1. /\ HasVector(w) /\ row[w] < Len(Vector(w)) /\ pc[w] = "scan" /\ pc' = pc
      /\ vector' = vector /\ row'[w] = row[w] + 1 /\ row[w] \in Nat /\ vector[w] \in Nat
  BY DEF SinkRow, TypeOK, HasVector
<1>2. MovesOn(w)
  BY DEF SinkRow, MovesOn, TypeOK
<1>3. Len(Vector(w)) \in Nat
  BY <1>1, CurrentVector
<1>4. ASSUME NEW v \in DOMAIN Morsels[morsel[w]], NEW i \in DOMAIN Morsels[morsel[w]][v]
      PROVE  Ahead(w, v, i)' <=> Ahead(w, v, i) /\ ~(v = vector[w] /\ i = row[w])
  <2>0. morsel[w] \in DOMAIN Morsels
    BY <1>1, CurrentVector
  <2>1. v \in Nat /\ i \in Nat
    BY <2>0, PlacesTyped
  <2>2. Ahead(w, v, i) <=> v > vector[w] \/ (v = vector[w] /\ i >= row[w])
    BY <1>1 DEF Ahead
  <2>3. Ahead(w, v, i)' <=> v > vector[w] \/ (v = vector[w] /\ i >= row[w] + 1)
    BY <1>1 DEF Ahead
  <2>. QED BY <1>1, <2>1, <2>2, <2>3
<1>5. row[w] <= Len(Vector(w))
  BY <1>1, <1>3
<1>. QED BY <1>1, <1>2, <1>4, <1>5, OnePasses

LEMMA SinkLastPasses ==
    ASSUME TypeOK, MorselsHold, NEW w \in Workers, SinkLast(w)
    PROVE  /\ Passed' = Passed \cup {Vector(w)[row[w]]}
           /\ Vector(w)[row[w]] \in Rows \ Passed
<1>1. /\ HasVector(w) /\ row[w] = Len(Vector(w)) /\ pc[w] = "scan"
      /\ row[w] \in Nat /\ vector[w] \in Nat
  BY DEF SinkLast, TypeOK, HasVector
<1>2. \/ pc'[w] = "publish" /\ vector' = vector /\ row' = row
      \/ pc'[w] = "scan" /\ vector'[w] = vector[w] + 1 /\ row'[w] = 1
  <2>1. \/ Goto(w, "publish") /\ UNCHANGED <<vector, row, entered>>
        \/ NextVector(w) /\ UNCHANGED pc
    BY DEF SinkLast
  <2>. QED BY <1>1, <2>1 DEF Goto, NextVector, TypeOK
<1>3. MovesOn(w)
  <2>1. \/ Goto(w, "publish") /\ UNCHANGED <<vector, row, entered>>
        \/ NextVector(w) /\ UNCHANGED pc
    BY DEF SinkLast
  <2>2. cursor' = cursor /\ morsel' = morsel
    BY DEF SinkLast
  <2>. QED BY <2>1, <2>2 DEF MovesOn, Goto, NextVector, TypeOK
<1>4. ASSUME NEW v \in DOMAIN Morsels[morsel[w]], NEW i \in DOMAIN Morsels[morsel[w]][v]
      PROVE  Ahead(w, v, i)' <=> Ahead(w, v, i) /\ ~(v = vector[w] /\ i = row[w])
  <2>0. morsel[w] \in DOMAIN Morsels /\ Vector(w) = Morsels[morsel[w]][vector[w]]
    BY <1>1, CurrentVector
  <2>1. v \in Nat /\ i \in Nat /\ i >= 1 /\ i <= Len(Morsels[morsel[w]][v])
    BY <2>0, PlacesTyped
  <2>2. v = vector[w] => i <= row[w]
    BY <1>1, <2>0, <2>1
  <2>3. Ahead(w, v, i) <=> v > vector[w] \/ (v = vector[w] /\ i >= row[w])
    BY <1>1 DEF Ahead
  <2>4. Ahead(w, v, i)' <=> v > vector[w]
    <3>1. CASE pc'[w] = "publish" /\ vector' = vector /\ row' = row
      BY <3>1 DEF Ahead
    <3>2. CASE pc'[w] = "scan" /\ vector'[w] = vector[w] + 1 /\ row'[w] = 1
      <4>1. Ahead(w, v, i)' <=> v > vector[w] + 1 \/ (v = vector[w] + 1 /\ i >= 1)
        BY <3>2 DEF Ahead
      <4>. QED BY <1>1, <2>1, <4>1
    <3>. QED BY <1>2, <3>1, <3>2
  <2>. QED BY <1>1, <2>1, <2>2, <2>3, <2>4
<1>5. row[w] <= Len(Vector(w))
  BY <1>1
<1>. QED BY <1>1, <1>3, <1>4, <1>5, OnePasses

\* The steps that look at no row.
LEMMA SettlingPassesNothing ==
    ASSUME TypeOK, MorselsHold, NEW w \in Workers, Publish(w) \/ SetFilter(w) \/ Settle(w)
    PROVE  Passed' = Passed
<1>1. /\ pc[w] \in {"publish", "filter", "settle"} /\ vector[w] \in Nat
      /\ \/ pc'[w] \in {"filter", "settle"} /\ vector'[w] = vector[w]
         \/ pc'[w] = "scan" /\ vector'[w] = vector[w] + 1 /\ row'[w] = 1
  BY DEF Publish, SetFilter, Settle, Goto, NextVector, TypeOK, scan
<1>2. MovesOn(w)
  BY DEF Publish, SetFilter, Settle, Goto, NextVector, TypeOK, scan, MovesOn
<1>3. MorselsTyped /\ MorselsTyped'
  BY <1>2, MovingKeepsMorsels
<1>4. ASSUME NEW m \in DOMAIN Morsels, NEW v \in DOMAIN Morsels[m], NEW i \in DOMAIN Morsels[m][v]
      PROVE  HasPassed(m, v, i)' <=> HasPassed(m, v, i)
  <2>1. CASE m # morsel[w]
    BY <1>2, <2>1, OnlyItsOwnMorsel
  <2>2. CASE m = morsel[w]
    <3>1. HasPassed(m, v, i) <=> ~Ahead(w, v, i)
      BY <1>2, <2>2, OnlyItsOwnMorsel
    <3>2. HasPassed(m, v, i)' <=> ~Ahead(w, v, i)'
      BY <1>2, <2>2, OnlyItsOwnMorsel
    <3>3. v \in Nat /\ i \in Nat /\ i >= 1
      BY SourceTyped
    <3>4. Ahead(w, v, i) <=> v > vector[w]
      BY <1>1 DEF Ahead
    <3>5. Ahead(w, v, i)' <=> v > vector[w]
      <4>1. CASE pc'[w] \in {"filter", "settle"} /\ vector'[w] = vector[w]
        BY <4>1 DEF Ahead
      <4>2. CASE pc'[w] = "scan" /\ vector'[w] = vector[w] + 1 /\ row'[w] = 1
        <5>1. Ahead(w, v, i)' <=> v > vector[w] + 1 \/ (v = vector[w] + 1 /\ i >= 1)
          BY <4>2 DEF Ahead
        <5>. QED BY <1>1, <3>3, <5>1
      <4>. QED BY <1>1, <4>1, <4>2
    <3>. QED BY <3>1, <3>2, <3>4, <3>5
  <2>. QED BY <2>1, <2>2
<1>. QED BY <1>3, <1>4, PassedKept

-------------------------------------------------------------------------------
(* The rows that beat a row.                                               *)

\* Among some rows, as many as the query returns are as good as r.
BeatenIn(H, r) == Cardinality({q \in H : ~Less(r, q)}) >= HeapSize

LEMMA SubsetsOfRows ==
    ASSUME NEW H \in SUBSET Rows
    PROVE  IsFiniteSet(H) /\ Cardinality(H) \in Nat
BY RowsAreFinite, FS_Subset, FS_CardinalityType

\* A set that holds the rows of a full heap none of which is worse than r.
LEMMA FullHeapBeats ==
    ASSUME NEW h \in SUBSET Entries, DistinctRows(h), Cardinality(h) >= HeapSize,
           NEW H \in SUBSET Rows, \A e \in h : e.row \in H,
           NEW r, \A e \in h : ~Less(r, e.row)
    PROVE  BeatenIn(H, r)
<1>. DEFINE S == {e.row : e \in h}
            T == {q \in H : ~Less(r, q)}
<1>1. S \subseteq T
  OBVIOUS
<1>2. Cardinality(S) = Cardinality(h) /\ IsFiniteSet(S)
  BY RowsCountEntries
<1>3. IsFiniteSet(T) /\ Cardinality(T) \in Nat
  BY SubsetsOfRows
<1>4. Cardinality(S) <= Cardinality(T)
  BY <1>1, <1>3, FS_Subset
<1>5. Cardinality(S) \in Nat
  BY <1>2, FS_CardinalityType
<1>. HIDE DEF S, T
<1>6. Cardinality(T) >= HeapSize
  BY <1>2, <1>3, <1>4, <1>5, SizesTyped
<1>. QED BY <1>6 DEF BeatenIn, T

LEMMA BeatenAmongMore ==
    ASSUME NEW H \in SUBSET Rows, NEW G \in SUBSET Rows, NEW r, NEW b, BeatenIn(H, b),
           \A q \in H : ~Less(b, q) => q \in G /\ ~Less(r, q)
    PROVE  BeatenIn(G, r)
<1>. DEFINE S == {q \in H : ~Less(b, q)}
            T == {q \in G : ~Less(r, q)}
<1>1. S \subseteq T
  OBVIOUS
<1>2. IsFiniteSet(T) /\ Cardinality(T) \in Nat /\ Cardinality(S) \in Nat
  BY SubsetsOfRows
<1>3. Cardinality(S) <= Cardinality(T)
  BY <1>1, <1>2, FS_Subset
<1>4. Cardinality(S) >= HeapSize
  BY DEF BeatenIn
<1>. HIDE DEF S, T
<1>5. Cardinality(T) >= HeapSize
  BY <1>2, <1>3, <1>4, SizesTyped
<1>. QED BY <1>5 DEF BeatenIn, T

LEMMA BeatenByBeaten ==
    ASSUME KeysTyped, NEW H \in SUBSET Rows, NEW r \in Rows, NEW b \in Rows, ~Less(r, b),
           BeatenIn(H, b)
    PROVE  BeatenIn(H, r)
<1>1. \A q \in H : ~Less(b, q) => ~Less(r, q)
  BY LessIsAnOrder
<1>. QED BY <1>1, BeatenAmongMore

\* An evicted row gives way to a better one.
LEMMA BeatenAfterSwap ==
    ASSUME KeysTyped, NEW H \in SUBSET Rows, NEW G \in SUBSET Rows, NEW t \in Rows,
           NEW n \in Rows, n \notin H, Less(n, t), (H \ {t}) \cup {n} \subseteq G,
           NEW r \in Rows, BeatenIn(H, r)
    PROVE  BeatenIn(G, r)
<1>1. CASE t \in H /\ ~Less(r, t)
  <2>. DEFINE S == {q \in H : ~Less(r, q)}
              T == {q \in G : ~Less(r, q)}
  <2>1. ~Less(r, n)
    BY <1>1, LessIsAnOrder
  <2>2. n \notin S /\ (S \ {t}) \cup {n} \subseteq T
    BY <2>1
  <2>3. S \in SUBSET Rows /\ T \in SUBSET Rows
    OBVIOUS
  <2>. HIDE DEF S, T
  <2>4. IsFiniteSet(S) /\ IsFiniteSet(T) /\ Cardinality(S) \in Nat /\ Cardinality(T) \in Nat
    BY <2>3, SubsetsOfRows
  <2>5. Cardinality(S) <= Cardinality(T)
    BY <2>2, <2>4, Swapped
  <2>6. Cardinality(S) >= HeapSize
    BY DEF BeatenIn, S
  <2>7. Cardinality(T) >= HeapSize
    BY <2>4, <2>5, <2>6, SizesTyped
  <2>. QED BY <2>7 DEF BeatenIn, T
<1>2. CASE ~(t \in H /\ ~Less(r, t))
  <2>1. \A q \in H : ~Less(r, q) => q \in G
    BY <1>2
  <2>. QED BY <2>1, BeatenAmongMore
<1>. QED BY <1>1, <1>2

LEMMA HeapsHoldRows ==
    ASSUME heap \in [Workers -> SUBSET Entries]
    PROVE  InHeaps \in SUBSET Rows /\ \A w \in Workers : \A e \in heap[w] : e.row \in InHeaps
BY DEF InHeaps, Entries

LEMMA HeapsHoldRowsNext ==
    ASSUME heap' \in [Workers -> SUBSET Entries]
    PROVE  InHeaps' \in SUBSET Rows /\ \A w \in Workers : \A e \in heap'[w] : e.row \in InHeaps'
BY DEF InHeaps, Entries

LEMMA HeapsHold ==
    ASSUME TypeOK, RowsHeldOnce, NEW w \in Workers
    PROVE  /\ heap[w] \in SUBSET Entries /\ DistinctRows(heap[w])
           /\ IsFiniteSet(heap[w]) /\ Cardinality(heap[w]) \in Nat
           /\ Cardinality(heap[w]) <= HeapSize
           /\ KeysTyped
<1>1. heap[w] \in SUBSET Entries /\ Cardinality(heap[w]) <= HeapSize /\ KeysTyped
  BY DEF TypeOK, KeysTyped
<1>2. DistinctRows(heap[w])
  BY DEF RowsHeldOnce, DistinctRows
<1>. QED BY <1>1, <1>2, RowsCountEntries, FS_CardinalityType

LEMMA TopOfFull ==
    ASSUME TypeOK, RowsHeldOnce, NEW w \in Workers, Full(heap[w])
    PROVE  /\ Top(heap[w]) \in heap[w]
           /\ Top(heap[w]).row \in Rows
           /\ \A f \in heap[w] : ~Less(Top(heap[w]).row, f.row)
           /\ Beaten(Top(heap[w]).row)
<1>. DEFINE h == heap[w]
<1>1. /\ h \in SUBSET Entries /\ DistinctRows(h) /\ IsFiniteSet(h)
      /\ Cardinality(h) >= HeapSize /\ KeysTyped
  BY HeapsHold DEF Full
<1>2. h # {}
  BY <1>1, SizesTyped, FS_EmptySet
<1>3. Top(h) \in h /\ \A f \in h : ~Less(Top(h).row, f.row)
  <2>. HIDE DEF h
  <2>. QED BY <1>1, <1>2, TopIsWorst
<1>4. Top(h).row \in Rows
  BY <1>1, <1>3 DEF Entries
<1>5. InHeaps \in SUBSET Rows /\ \A e \in h : e.row \in InHeaps
  BY HeapsHoldRows DEF TypeOK
<1>6. BeatenIn(InHeaps, Top(h).row)
  <2>. HIDE DEF h
  <2>. QED BY <1>1, <1>3, <1>5, FullHeapBeats
<1>. QED BY <1>3, <1>4, <1>6 DEF BeatenIn, Beaten

LEMMA BeatenNext ==
    ASSUME UNCHANGED input, NEW r
    PROVE  Beaten(r)' <=> BeatenIn(InHeaps', r)
BY DEF Beaten, BeatenIn, input, Less

LEMMA BeatenNow == \A r : Beaten(r) <=> BeatenIn(InHeaps, r)
BY DEF Beaten, BeatenIn

-------------------------------------------------------------------------------
(* One row offered to a heap.                                              *)

\* What the next state keeps of the rows: those beaten are still beaten, and
\* those let go of are.
KeepsBeaten == \A x \in Rows : Beaten(x) => Beaten(x)'
LetsGoOfBeaten == \A x \in InHeaps : x \in InHeaps' \/ Beaten(x)'
HoldsEachOnce(hp) ==
    \A w, u \in Workers : \A e \in hp[w], f \in hp[u] : e.row = f.row => w = u /\ e = f
SinkTyped ==
    /\ heap \in [Workers -> SUBSET Entries]
    /\ payload \in [Workers -> Seq(Rows)]
    /\ \A w \in Workers : Cardinality(heap[w]) <= HeapSize

LEMMA HeapsKept ==
    ASSUME UNCHANGED input, heap' = heap
    PROVE  KeepsBeaten /\ LetsGoOfBeaten /\ InHeaps' = InHeaps
<1>1. InHeaps' = InHeaps
  BY DEF InHeaps
<1>2. \A x \in Rows : Beaten(x)' <=> Beaten(x)
  BY <1>1, BeatenNext, BeatenNow
<1>. QED BY <1>1, <1>2 DEF KeepsBeaten, LetsGoOfBeaten

LEMMA AddEntry ==
    ASSUME TypeOK, RowsHeldOnce, PayloadHolds, UNCHANGED input,
           NEW w \in Workers, NEW r \in Rows, r \notin InHeaps,
           Full(heap[w]) => Less(r, Top(heap[w]).row),
           heap' = [heap EXCEPT ![w] = Add(@, [row |-> r, at |-> Len(payload[w]) + 1])],
           payload' = [payload EXCEPT ![w] = Append(@, r)]
    PROVE  /\ SinkTyped' /\ PayloadHolds' /\ HoldsEachOnce(heap')
           /\ KeepsBeaten /\ LetsGoOfBeaten
           /\ r \in InHeaps' /\ InHeaps' \subseteq InHeaps \cup {r}
<1>. DEFINE h == heap[w]
            new == [row |-> r, at |-> Len(payload[w]) + 1]
            g == Add(h, new)
            t == Top(h)
<1>1. /\ h \in SUBSET Entries /\ DistinctRows(h) /\ IsFiniteSet(h)
      /\ Cardinality(h) \in Nat /\ Cardinality(h) <= HeapSize /\ KeysTyped
  BY HeapsHold
<1>2. /\ payload[w] \in Seq(Rows) /\ Len(payload[w]) \in Nat
      /\ heap \in [Workers -> SUBSET Entries] /\ payload \in [Workers -> Seq(Rows)]
  BY DEF TypeOK
<1>3. new \in Entries
  BY <1>2 DEF Entries
<1>4. /\ heap'[w] = g /\ \A u \in Workers : u # w => heap'[u] = heap[u]
      /\ payload'[w] = Append(payload[w], r)
      /\ \A u \in Workers : u # w => payload'[u] = payload[u]
  BY <1>2
<1>5. \/ ~Full(h) /\ g = h \cup {new}
      \/ Full(h) /\ g = (h \ {t}) \cup {new}
  BY DEF Add
<1>6. \A e \in g : e \in h \/ e = new
  BY <1>5
<1>7. new \in g /\ \A e \in h : e \in g \/ (Full(h) /\ e = t)
  BY <1>5
<1>8. g \in SUBSET Entries
  BY <1>1, <1>3, <1>6
<1>9. \A u \in Workers : \A e \in heap[u] : e.row \in InHeaps /\ e.row # r
  BY <1>2, HeapsHoldRows
<1>10. IsFiniteSet(h \ {t}) /\ Cardinality(h \ {t}) \in Nat
  BY <1>1, FS_RemoveElement, FS_CardinalityType
<1>11. new \notin h
  <2>1. new.row = r
    OBVIOUS
  <2>. QED BY <1>9, <2>1
<1>12. Full(h) => t \in h /\ t.row \in Rows /\ Less(r, t.row) /\ Cardinality(h) >= HeapSize
                  /\ \A f \in h : ~Less(t.row, f.row)
  BY TopOfFull DEF Full
<1>13. Full(h) => Cardinality(g) = Cardinality(h)
  <2>. SUFFICES ASSUME Full(h) PROVE Cardinality(g) = Cardinality(h)
    OBVIOUS
  <2>1. g = (h \ {t}) \cup {new}
    BY <1>5
  <2>2. new \notin h \ {t}
    BY <1>11
  <2>. HIDE DEF g, h, t, new
  <2>3. Cardinality(h \ {t}) = Cardinality(h) - 1
    BY <1>1, <1>12, FS_RemoveElement
  <2>4. Cardinality(g) = Cardinality(h \ {t}) + 1
    BY <1>10, <2>1, <2>2, FS_AddElement
  <2>. QED BY <1>1, <2>3, <2>4
<1>14. Cardinality(g) <= HeapSize
  <2>1. CASE Full(h)
    BY <1>1, <1>13, <2>1
  <2>2. CASE ~Full(h)
    <3>1. g = h \cup {new}
      BY <1>5, <2>2
    <3>2. Cardinality(h) < HeapSize
      BY <1>1, <2>2, SizesTyped DEF Full
    <3>. HIDE DEF g, h, new
    <3>3. Cardinality(g) = Cardinality(h) + 1
      BY <1>1, <1>11, <3>1, FS_AddElement
    <3>. QED BY <1>1, <3>2, <3>3, SizesTyped
  <2>. QED BY <2>1, <2>2
<1>15. SinkTyped'
  <2>1. heap' \in [Workers -> SUBSET Entries]
    BY <1>2, <1>8
  <2>2. Append(payload[w], r) \in Seq(Rows)
    BY <1>2
  <2>3. payload' \in [Workers -> Seq(Rows)]
    BY <1>2, <2>2
  <2>4. \A u \in Workers : Cardinality(heap'[u]) <= HeapSize
    BY <1>4, <1>14 DEF TypeOK
  <2>. QED BY <2>1, <2>3, <2>4 DEF SinkTyped
<1>16. PayloadHolds'
  <2>1. ASSUME NEW u \in Workers, NEW e \in heap'[u]
        PROVE  e.at \in DOMAIN payload'[u] /\ payload'[u][e.at] = e.row
    <3>1. CASE u # w
      BY <1>4, <2>1, <3>1 DEF PayloadHolds
    <3>2. CASE u = w /\ e = new
      <4>1. e.at = Len(payload[w]) + 1 /\ e.row = r
        BY <3>2
      <4>. QED BY <1>2, <1>4, <3>2, <4>1
    <3>3. CASE u = w /\ e \in h
      <4>1. e.at \in DOMAIN payload[w] /\ payload[w][e.at] = e.row
        BY <3>3 DEF PayloadHolds
      <4>2. DOMAIN payload[w] = 1..Len(payload[w])
        BY <1>2
      <4>. QED BY <1>2, <1>4, <3>3, <4>1, <4>2
    <3>. QED BY <1>4, <1>6, <2>1, <3>1, <3>2, <3>3
  <2>. QED BY <2>1 DEF PayloadHolds
<1>17. HoldsEachOnce(heap')
  <2>1. ASSUME NEW u \in Workers, NEW v \in Workers, NEW e \in heap'[u], NEW f \in heap'[v],
               e.row = f.row
        PROVE  u = v /\ e = f
    <3>1. e \in heap[u] \/ (u = w /\ e = new)
      BY <1>4, <1>6, <2>1
    <3>2. f \in heap[v] \/ (v = w /\ f = new)
      BY <1>4, <1>6, <2>1
    <3>3. new.row = r
      OBVIOUS
    <3>4. CASE e \in heap[u] /\ f \in heap[v]
      BY <2>1, <3>4 DEF RowsHeldOnce
    <3>. HIDE DEF new
    <3>. QED BY <1>9, <2>1, <3>1, <3>2, <3>3, <3>4
  <2>. QED BY <2>1 DEF HoldsEachOnce
<1>18. InHeaps \in SUBSET Rows /\ InHeaps' \in SUBSET Rows
  BY <1>2, <1>15, HeapsHoldRows, HeapsHoldRowsNext DEF SinkTyped
<1>19. \A u \in Workers : \A e \in heap'[u] : e.row \in InHeaps'
  BY <1>15, HeapsHoldRowsNext DEF SinkTyped
<1>20. r \in InHeaps'
  <2>1. new.row = r
    OBVIOUS
  <2>. QED BY <1>4, <1>7, <1>19, <2>1
<1>21. \A x \in InHeaps : x \in InHeaps' \/ (Full(h) /\ x = t.row)
  <2>1. ASSUME NEW x \in InHeaps
        PROVE  x \in InHeaps' \/ (Full(h) /\ x = t.row)
    <3>1. PICK u \in Workers : \E e \in heap[u] : x = e.row
      BY DEF InHeaps
    <3>2. PICK e \in heap[u] : x = e.row
      BY <3>1
    <3>. QED BY <1>4, <1>7, <1>19, <3>2
  <2>. QED BY <2>1
<1>22. InHeaps' \subseteq InHeaps \cup {r}
  <2>1. ASSUME NEW x \in InHeaps'
        PROVE  x \in InHeaps \cup {r}
    <3>1. PICK u \in Workers : \E e \in heap'[u] : x = e.row
      BY DEF InHeaps
    <3>2. PICK e \in heap'[u] : x = e.row
      BY <3>1
    <3>3. e \in heap[u] \/ e = new
      BY <1>4, <1>6
    <3>4. new.row = r
      OBVIOUS
    <3>. QED BY <1>9, <3>2, <3>3, <3>4
  <2>. QED BY <2>1
<1>23. ASSUME NEW x \in Rows, BeatenIn(InHeaps, x)
       PROVE  BeatenIn(InHeaps', x)
  <2>1. CASE Full(h)
    <3>1. (InHeaps \ {t.row}) \cup {r} \subseteq InHeaps'
      BY <1>20, <1>21
    <3>2. t.row \in Rows /\ Less(r, t.row)
      BY <1>12, <2>1
    <3>. QED BY <1>1, <1>18, <1>23, <3>1, <3>2, BeatenAfterSwap
  <2>2. CASE ~Full(h)
    <3>1. InHeaps \subseteq InHeaps'
      BY <1>21, <2>2
    <3>. QED BY <1>18, <1>23, <3>1, BeatenAmongMore
  <2>. QED BY <2>1, <2>2
<1>24. KeepsBeaten
  BY <1>23, BeatenNow, BeatenNext DEF KeepsBeaten
<1>25. Full(h) => BeatenIn(InHeaps', t.row)
  <2>. SUFFICES ASSUME Full(h) PROVE BeatenIn(InHeaps', t.row)
    OBVIOUS
  <2>1. Cardinality(g) >= HeapSize
    BY <1>12, <1>13
  <2>2. DistinctRows(g)
    BY <1>4, <1>17 DEF HoldsEachOnce, DistinctRows
  <2>3. \A e \in g : e.row \in InHeaps'
    BY <1>4, <1>19
  <2>4. ~Less(t.row, r)
    BY <1>1, <1>12, LessIsAnOrder
  <2>5. new.row = r
    OBVIOUS
  <2>6. \A e \in g : ~Less(t.row, e.row)
    BY <1>6, <1>12, <2>4, <2>5
  <2>. HIDE DEF g, t
  <2>. QED BY <1>8, <1>18, <2>1, <2>2, <2>3, <2>6, FullHeapBeats
<1>26. LetsGoOfBeaten
  <2>. HIDE DEF h, t
  <2>. QED BY <1>21, <1>25, BeatenNext DEF LetsGoOfBeaten
<1>. QED BY <1>15, <1>16, <1>17, <1>20, <1>22, <1>24, <1>26

-------------------------------------------------------------------------------
(* The steps keep the invariant.                                           *)

\* Every copy of the boundary is the boundary or an older copy.
ViewsRenewed == \A u \in Workers : view'[u] \in {boundary, view[u]}

LEMMA BoundsStayBeaten ==
    ASSUME TypeOK, BoundsAreBeaten, KeepsBeaten, UNCHANGED <<input, boundary, filter>>,
           ViewsRenewed
    PROVE  BoundsAreBeaten'
<1>1. boundary \in Rows \cup {None} /\ \A u \in Workers : view[u] \in Rows \cup {None}
  BY DEF TypeOK
<1>2. boundary' # None => Beaten(boundary)'
  BY <1>1 DEF BoundsAreBeaten, KeepsBeaten
<1>3. ASSUME NEW u \in Workers, view'[u] # None
      PROVE  Beaten(view[u])' 
  <2>1. view'[u] \in Rows /\ Beaten(view'[u])
    BY <1>1, <1>3 DEF ViewsRenewed, BoundsAreBeaten
  <2>2. PICK x \in Rows : x = view'[u]
    BY <2>1
  <2>3. Beaten(x)'
    BY <2>1, <2>2 DEF KeepsBeaten
  <2>. QED BY <2>2, <2>3
<1>4. ASSUME NEW k \in filter'
      PROVE  \E b \in Rows : key'[b] = k /\ Beaten(b)'
  BY <1>4 DEF BoundsAreBeaten, KeepsBeaten, input
<1>. QED BY <1>2, <1>3, <1>4 DEF BoundsAreBeaten

LEMMA LostStayBeaten ==
    ASSUME LostAreBeaten, RowsHeldOnce, KeepsBeaten, LetsGoOfBeaten,
           \A r \in Passed' : r \in Passed \/ r \in InHeaps' \/ Beaten(r)'
    PROVE  LostAreBeaten'
<1>1. ASSUME NEW r \in Passed' \ InHeaps'
      PROVE  Beaten(r)'
  <2>1. CASE r \in InHeaps
    BY <2>1 DEF LetsGoOfBeaten
  <2>2. CASE r \in Passed /\ r \notin InHeaps
    BY <2>2, PassedAreRows DEF LostAreBeaten, KeepsBeaten
  <2>. QED BY <1>1, <2>1, <2>2
<1>. QED BY <1>1 DEF LostAreBeaten

LEMMA OfferedRow ==
    ASSUME TypeOK, RowsHeldOnce, PayloadHolds, BoundsAreBeaten,
           UNCHANGED <<input, boundary, filter>>,
           NEW w \in Workers, NEW r \in Rows, r \notin InHeaps,
           NEW bound \in View(w), Offer(w, bound, r)
    PROVE  /\ SinkTyped' /\ PayloadHolds' /\ HoldsEachOnce(heap')
           /\ KeepsBeaten /\ LetsGoOfBeaten
           /\ InHeaps' \subseteq InHeaps \cup {r}
           /\ r \in InHeaps' \/ Beaten(r)'
           /\ BoundsAreBeaten'
           /\ view' \in [Workers -> Rows \cup {None}]
<1>1. bound \in Rows \cup {None} /\ (bound # None => Beaten(bound))
  BY DEF View, TypeOK, BoundsAreBeaten
<1>2. view' = [view EXCEPT ![w] = bound] /\ bound \in {boundary, view[w]}
  BY DEF Offer, View
<1>3. view' \in [Workers -> Rows \cup {None}] /\ ViewsRenewed
  BY <1>1, <1>2 DEF TypeOK, ViewsRenewed
<1>4. UNCHANGED input
  OBVIOUS
<1>5. CASE ShouldAdd(heap[w], bound, r)
  <2>1. /\ heap' = [heap EXCEPT ![w] = Add(@, [row |-> r, at |-> Len(payload[w]) + 1])]
        /\ payload' = [payload EXCEPT ![w] = Append(@, r)]
        /\ Full(heap[w]) => Less(r, Top(heap[w]).row)
    BY <1>5 DEF Offer, ShouldAdd
  <2>2. /\ SinkTyped' /\ PayloadHolds' /\ HoldsEachOnce(heap')
        /\ KeepsBeaten /\ LetsGoOfBeaten
        /\ r \in InHeaps' /\ InHeaps' \subseteq InHeaps \cup {r}
    BY <1>4, <2>1, AddEntry
  <2>. QED BY <1>3, <2>2, BoundsStayBeaten
<1>6. CASE ~ShouldAdd(heap[w], bound, r)
  <2>1. heap' = heap /\ payload' = payload
    BY <1>6 DEF Offer
  <2>2. KeepsBeaten /\ LetsGoOfBeaten /\ InHeaps' = InHeaps
    BY <1>4, <2>1, HeapsKept
  <2>3. SinkTyped' /\ PayloadHolds' /\ HoldsEachOnce(heap')
    BY <2>1 DEF SinkTyped, TypeOK, PayloadHolds, HoldsEachOnce, RowsHeldOnce
  <2>4. Beaten(r)
    <3>0. InHeaps \in SUBSET Rows /\ KeysTyped
      BY HeapsHoldRows DEF TypeOK, KeysTyped
    <3>1. CASE bound # None /\ ~Less(r, bound)
      <4>1. bound \in Rows /\ BeatenIn(InHeaps, bound)
        BY <1>1, <3>1, BeatenNow
      <4>. QED BY <3>0, <3>1, <4>1, BeatenByBeaten, BeatenNow
    <3>2. CASE Full(heap[w]) /\ ~Less(r, Top(heap[w]).row)
      <4>1. PICK t \in Rows : t = Top(heap[w]).row
        BY <3>2, TopOfFull
      <4>2. BeatenIn(InHeaps, t)
        BY <3>2, <4>1, TopOfFull, BeatenNow
      <4>. QED BY <3>0, <3>2, <4>1, <4>2, BeatenByBeaten, BeatenNow
    <3>. QED BY <1>6, <3>1, <3>2 DEF ShouldAdd
  <2>5. Beaten(r)'
    BY <2>2, <2>4 DEF KeepsBeaten
  <2>. QED BY <1>3, <2>2, <2>3, <2>5, BoundsStayBeaten
<1>. QED BY <1>5, <1>6

LEMMA OffersToItsOwn ==
    ASSUME TypeOK, NEW w \in Workers, NEW r, NEW bound, Offer(w, bound, r)
    PROVE  \A u \in Workers : u # w => heap'[u] = heap[u]
<1>1. heap \in [Workers -> SUBSET Entries]
  BY DEF TypeOK
<1>. QED BY <1>1 DEF Offer

\* What a step on some row does to the rows that are passed and held.
LEMMA OfferedKeepsRows ==
    ASSUME TypeOK, RowsHeldOnce, LostAreBeaten, KeepsBeaten, LetsGoOfBeaten,
           NEW r \in Rows, Passed' = Passed \cup {r}, InHeaps' \subseteq InHeaps \cup {r},
           r \in InHeaps' \/ Beaten(r)', HoldsEachOnce(heap')
    PROVE  LostAreBeaten' /\ RowsHeldOnce'
<1>1. LostAreBeaten'
  BY LostStayBeaten
<1>2. InHeaps' \subseteq Passed'
  BY DEF RowsHeldOnce
<1>. QED BY <1>1, <1>2 DEF RowsHeldOnce, HoldsEachOnce

LEMMA SinkRowKeeps ==
    ASSUME Inv, NEW w \in Workers, SinkRow(w)
    PROVE  Inv'
<1>1. TypeOK /\ PayloadHolds /\ LostAreBeaten /\ MorselsHold /\ RowsHeldOnce /\ BoundsAreBeaten
  BY DEF Inv, NothingLost
<1>2. PICK r \in Rows \ Passed : r = Vector(w)[row[w]]
  BY <1>1, SinkRowPasses
<1>3. Passed' = Passed \cup {r}
  BY <1>1, <1>2, SinkRowPasses
<1>4. r \notin InHeaps
  BY <1>1, <1>2 DEF RowsHeldOnce
<1>5. PICK bound \in View(w) :
        /\ Offer(w, bound, r)
        /\ entered' = [entered EXCEPT ![w] = @ \/ ShouldAdd(heap[w], bound, r)]
  BY <1>2 DEF SinkRow
<1>6. UNCHANGED <<input, boundary, filter>>
  BY DEF SinkRow
<1>7. /\ SinkTyped' /\ PayloadHolds' /\ HoldsEachOnce(heap')
      /\ KeepsBeaten /\ LetsGoOfBeaten
      /\ InHeaps' \subseteq InHeaps \cup {r}
      /\ r \in InHeaps' \/ Beaten(r)'
      /\ BoundsAreBeaten'
      /\ view' \in [Workers -> Rows \cup {None}]
  BY <1>1, <1>4, <1>5, <1>6, OfferedRow
<1>8. LostAreBeaten' /\ RowsHeldOnce'
  BY <1>1, <1>3, <1>7, OfferedKeepsRows
<1>9. HasVector(w) /\ row[w] < Len(Vector(w)) /\ row' = [row EXCEPT ![w] = @ + 1]
      /\ UNCHANGED <<input, cursor, morsel, vector, boundary, filter, pc, result>>
  BY DEF SinkRow
<1>10. Len(Vector(w)) \in Nat /\ row[w] \in Nat /\ row \in [Workers -> Nat \ {0}]
  BY <1>1, <1>9, CurrentVector DEF TypeOK
<1>11. entered' \in [Workers -> BOOLEAN]
  <2>1. PICK b \in BOOLEAN : b <=> (entered[w] \/ ShouldAdd(heap[w], bound, r))
    OBVIOUS
  <2>2. entered' \in [Workers -> BOOLEAN]
    BY <1>1, <1>5 DEF TypeOK
  <2>. QED BY <2>2
<1>12. row' \in [Workers -> Nat \ {0}]
  BY <1>9, <1>10
<1>13. TypeOK'
  BY <1>1, <1>7, <1>9, <1>11, <1>12 DEF TypeOK, SinkTyped, input
<1>14. MorselsHold'
  <2>1. \A u \in Workers : Vectors(u)' = Vectors(u) /\ Vector(u)' = Vector(u)
                           /\ (HasVector(u)' <=> HasVector(u))
    BY <1>9 DEF Vectors, Vector, HasVector
  <2>2. pc[w] = "scan"
    BY <1>9 DEF HasVector
  <2>3. row'[w] <= Len(Vector(w))'
    BY <1>9, <1>10, <2>1
  <2>4. ASSUME NEW u \in Workers
        PROVE  /\ pc'[u] = "scan" => row'[u] = 1 \/ (HasVector(u)' /\ row'[u] <= Len(Vector(u))')
               /\ pc'[u] = "filter" => Full(heap'[u])
               /\ pc'[u] = "done" => cursor' >= Len(Morsels) /\ vector'[u] > Len(Vectors(u))'
    <3>1. CASE u = w
      BY <1>9, <2>1, <2>2, <2>3, <3>1
    <3>2. CASE u # w
      <4>1. row'[u] = row[u] /\ heap'[u] = heap[u]
        BY <1>1, <1>5, <1>9, <1>10, <3>2, OffersToItsOwn
      <4>. QED BY <1>1, <1>9, <2>1, <4>1 DEF MorselsHold
    <3>. QED BY <3>1, <3>2
  <2>5. /\ \A u \in Workers : morsel'[u] <= cursor'
        /\ \A u, v \in Workers : morsel'[u] # None /\ morsel'[u] = morsel'[v] => u = v
    BY <1>1, <1>9 DEF MorselsHold
  <2>. QED BY <2>4, <2>5 DEF MorselsHold
<1>. QED BY <1>7, <1>8, <1>13, <1>14 DEF Inv, NothingLost

LEMMA MorselsHoldAfter ==
    ASSUME TypeOK, MorselsHold, NEW w \in Workers, MovesOn(w),
           \A u \in Workers : u # w => heap'[u] = heap[u],
           \/ pc'[w] \in {"publish", "settle"}
           \/ pc'[w] = "filter" /\ Full(heap'[w])
           \/ pc'[w] = "scan" /\ row'[w] = 1
    PROVE  MorselsHold'
<1>1. /\ \A u \in Workers : morsel'[u] <= cursor'
      /\ \A u, v \in Workers : morsel'[u] # None /\ morsel'[u] = morsel'[v] => u = v
  BY DEF MorselsHold, MovesOn
<1>2. ASSUME NEW u \in Workers
      PROVE  /\ pc'[u] = "scan" => row'[u] = 1 \/ (HasVector(u)' /\ row'[u] <= Len(Vector(u))')
             /\ pc'[u] = "filter" => Full(heap'[u])
             /\ pc'[u] = "done" => cursor' >= Len(Morsels) /\ vector'[u] > Len(Vectors(u))'
  <2>1. CASE u = w
    BY <2>1
  <2>2. CASE u # w
    <3>1. /\ vector'[u] = vector[u] /\ row'[u] = row[u] /\ pc'[u] = pc[u]
          /\ morsel' = morsel /\ cursor' = cursor /\ heap'[u] = heap[u]
      BY <2>2 DEF MovesOn
    <3>2. Vectors(u)' = Vectors(u)
      BY <3>1 DEF Vectors
    <3>3. Vector(u)' = Vector(u) /\ (HasVector(u)' <=> HasVector(u))
      BY <3>1, <3>2 DEF Vector, HasVector
    <3>. QED BY <3>1, <3>2, <3>3 DEF MorselsHold
  <2>. QED BY <2>1, <2>2
<1>. QED BY <1>1, <1>2 DEF MorselsHold

LEMMA SinkLastKeeps ==
    ASSUME Inv, NEW w \in Workers, SinkLast(w)
    PROVE  Inv'
<1>1. TypeOK /\ PayloadHolds /\ LostAreBeaten /\ MorselsHold /\ RowsHeldOnce /\ BoundsAreBeaten
  BY DEF Inv, NothingLost
<1>2. PICK r \in Rows \ Passed : r = Vector(w)[row[w]]
  BY <1>1, SinkLastPasses
<1>3. Passed' = Passed \cup {r}
  BY <1>1, <1>2, SinkLastPasses
<1>4. r \notin InHeaps
  BY <1>1, <1>2 DEF RowsHeldOnce
<1>5. PICK bound \in View(w) :
        /\ Offer(w, bound, r)
        /\ \/ Goto(w, "publish") /\ UNCHANGED <<vector, row, entered>>
           \/ NextVector(w) /\ UNCHANGED pc
  BY <1>2 DEF SinkLast
<1>6. UNCHANGED <<input, cursor, morsel, boundary, filter, result>>
  BY DEF SinkLast
<1>7. /\ SinkTyped' /\ PayloadHolds' /\ HoldsEachOnce(heap')
      /\ KeepsBeaten /\ LetsGoOfBeaten
      /\ InHeaps' \subseteq InHeaps \cup {r}
      /\ r \in InHeaps' \/ Beaten(r)'
      /\ BoundsAreBeaten'
      /\ view' \in [Workers -> Rows \cup {None}]
  BY <1>1, <1>4, <1>5, <1>6, OfferedRow
<1>8. LostAreBeaten' /\ RowsHeldOnce'
  BY <1>1, <1>3, <1>7, OfferedKeepsRows
<1>9. /\ pc' \in [Workers -> {"scan", "publish", "filter", "settle", "done"}]
      /\ vector' \in [Workers -> Nat \ {0}] /\ row' \in [Workers -> Nat \ {0}]
      /\ entered' \in [Workers -> BOOLEAN]
      /\ MovesOn(w)
      /\ pc'[w] = "publish" \/ (pc'[w] = "scan" /\ row'[w] = 1)
  <2>0. pc[w] = "scan" /\ cursor' = cursor /\ morsel' = morsel
    BY <1>6 DEF SinkLast, HasVector
  <2>1. CASE Goto(w, "publish") /\ UNCHANGED <<vector, row, entered>>
    BY <1>1, <2>0, <2>1 DEF Goto, TypeOK, MovesOn
  <2>2. CASE NextVector(w) /\ UNCHANGED pc
    BY <1>1, <2>0, <2>2 DEF NextVector, TypeOK, MovesOn
  <2>. QED BY <1>5, <2>1, <2>2
<1>10. TypeOK'
  BY <1>1, <1>6, <1>7, <1>9 DEF TypeOK, SinkTyped, input
<1>11. \A u \in Workers : u # w => heap'[u] = heap[u]
  BY <1>1, <1>5, OffersToItsOwn
<1>12. MorselsHold'
  BY <1>1, <1>9, <1>11, MorselsHoldAfter
<1>. QED BY <1>7, <1>8, <1>10, <1>12 DEF Inv, NothingLost

LEMMA SkipVectorKeeps ==
    ASSUME Inv, NEW w \in Workers, SkipVector(w)
    PROVE  Inv'
<1>1. TypeOK /\ PayloadHolds /\ LostAreBeaten /\ MorselsHold /\ RowsHeldOnce /\ BoundsAreBeaten
  BY DEF Inv, NothingLost
<1>2. /\ UNCHANGED <<input, cursor, morsel, boundary, filter, pc, heap, payload, view, result>>
      /\ HasVector(w) /\ NextVector(w) /\ RuledOut(Vector(w)) /\ pc[w] = "scan"
  BY DEF SkipVector, HasVector
<1>3. UNCHANGED input /\ heap' = heap
  BY <1>2
<1>4. KeepsBeaten /\ LetsGoOfBeaten /\ InHeaps' = InHeaps
  BY <1>3, HeapsKept
<1>5. ASSUME NEW i \in DOMAIN Vector(w)
      PROVE  Beaten(Vector(w)[i])
  <2>1. PICK k \in filter : \A j \in DOMAIN Vector(w) :
          IF maintain THEN key[Vector(w)[j]] > k ELSE key[Vector(w)[j]] >= k
    BY <1>2 DEF RuledOut
  <2>2. PICK b \in Rows : key[b] = k /\ Beaten(b)
    BY <1>1 DEF BoundsAreBeaten
  <2>3. PICK r \in Rows : r = Vector(w)[i]
    BY <1>1, <1>2, CurrentVector
  <2>4. key[r] \in Int /\ key[b] \in Int
    BY <1>1, KeysAssumption DEF TypeOK
  <2>5. IF maintain THEN key[r] > key[b] ELSE key[r] >= key[b]
    BY <2>1, <2>2, <2>3
  <2>6. ~Less(r, b)
    <3>1. CASE maintain = TRUE
      BY <2>4, <2>5, <3>1 DEF Less
    <3>2. CASE maintain = FALSE
      BY <2>4, <2>5, <3>2 DEF Less
    <3>. QED BY <1>1, <3>1, <3>2 DEF TypeOK
  <2>7. InHeaps \in SUBSET Rows /\ KeysTyped
    BY <1>1, HeapsHoldRows DEF TypeOK, KeysTyped
  <2>. QED BY <2>2, <2>3, <2>6, <2>7, BeatenByBeaten, BeatenNow
<1>6. Passed \subseteq Passed'
      /\ \A r \in Passed' : r \in Passed \/ \E i \in DOMAIN Vector(w) : r = Vector(w)[i]
  BY <1>1, SkipPasses
<1>7. \A r \in Passed' : r \in Passed \/ Beaten(r)'
  BY <1>4, <1>5, <1>6, PassedAreRowsNext DEF KeepsBeaten
<1>8. LostAreBeaten'
  BY <1>1, <1>4, <1>7, LostStayBeaten
<1>9. RowsHeldOnce'
  BY <1>1, <1>3, <1>4, <1>6 DEF RowsHeldOnce
<1>10. BoundsAreBeaten'
  <2>1. ViewsRenewed
    BY <1>2 DEF ViewsRenewed
  <2>. QED BY <1>1, <1>2, <1>4, <2>1, BoundsStayBeaten
<1>11. TypeOK' /\ MovesOn(w) /\ pc'[w] = "scan" /\ row'[w] = 1
  BY <1>1, <1>2 DEF TypeOK, NextVector, MovesOn, input
<1>12. PayloadHolds'
  BY <1>1, <1>2 DEF PayloadHolds
<1>13. MorselsHold'
  BY <1>1, <1>3, <1>11, MorselsHoldAfter
<1>. QED BY <1>8, <1>9, <1>10, <1>11, <1>12, <1>13 DEF Inv, NothingLost

\* The steps that pass and hold the same rows as before.
LEMMA SameRowsKept ==
    ASSUME TypeOK, LostAreBeaten, RowsHeldOnce, KeepsBeaten, LetsGoOfBeaten,
           Passed' = Passed, InHeaps' = InHeaps, HoldsEachOnce(heap')
    PROVE  LostAreBeaten' /\ RowsHeldOnce'
<1>1. LostAreBeaten'
  BY LostStayBeaten
<1>. QED BY <1>1 DEF RowsHeldOnce, HoldsEachOnce

LEMMA ClaimKeeps ==
    ASSUME Inv, NEW w \in Workers, Claim(w)
    PROVE  Inv'
<1>1. TypeOK /\ PayloadHolds /\ LostAreBeaten /\ MorselsHold /\ RowsHeldOnce /\ BoundsAreBeaten
  BY DEF Inv, NothingLost
<1>2. /\ UNCHANGED <<input, row, boundary, filter, heap, payload, entered, view, result>>
      /\ pc[w] = "scan" /\ ~HasVector(w) /\ cursor' = cursor + 1
  BY DEF Claim, sink
<1>3. KeepsBeaten /\ LetsGoOfBeaten /\ InHeaps' = InHeaps
  BY <1>2, HeapsKept
<1>4. HoldsEachOnce(heap')
  BY <1>1, <1>2 DEF HoldsEachOnce, RowsHeldOnce
<1>5. LostAreBeaten' /\ RowsHeldOnce'
  BY <1>1, <1>3, <1>4, ClaimPasses, SameRowsKept
<1>6. BoundsAreBeaten'
  <2>1. ViewsRenewed
    BY <1>2 DEF ViewsRenewed
  <2>. QED BY <1>1, <1>2, <1>3, <2>1, BoundsStayBeaten
<1>7. PayloadHolds'
  BY <1>1, <1>2 DEF PayloadHolds
<1>8. /\ cursor \in Nat /\ Len(Morsels) \in Nat
      /\ pc \in [Workers -> {"scan", "publish", "filter", "settle", "done"}]
      /\ morsel \in [Workers -> 0..Len(Morsels)] /\ vector \in [Workers -> Nat \ {0}]
  BY <1>1, SourceTyped DEF TypeOK
<1>9. /\ pc' \in [Workers -> {"scan", "publish", "filter", "settle", "done"}]
      /\ morsel' \in [Workers -> 0..Len(Morsels)] /\ vector' \in [Workers -> Nat \ {0}]
      /\ cursor' \in Nat
  <2>1. CASE cursor < Len(Morsels)
    <3>1. /\ morsel' = [morsel EXCEPT ![w] = cursor + 1] /\ vector' = [vector EXCEPT ![w] = 1]
          /\ pc' = pc
      BY <2>1 DEF Claim
    <3>2. cursor + 1 \in 0..Len(Morsels) /\ 1 \in Nat \ {0} /\ cursor + 1 \in Nat
      BY <1>8, <2>1
    <3>. QED BY <1>2, <1>8, <3>1, <3>2
  <2>2. CASE ~(cursor < Len(Morsels))
    BY <1>2, <1>8, <2>2 DEF Claim, Goto
  <2>. QED BY <2>1, <2>2
<1>10. TypeOK'
  BY <1>1, <1>2, <1>9 DEF TypeOK, input
<1>11. row[w] = 1
  BY <1>1, <1>2 DEF MorselsHold
<1>12. CASE cursor < Len(Morsels)
  <2>1. /\ morsel' = [morsel EXCEPT ![w] = cursor + 1] /\ vector' = [vector EXCEPT ![w] = 1]
        /\ pc' = pc
    BY <1>12 DEF Claim
  <2>2. \A u \in Workers : morsel[u] <= cursor /\ morsel[u] \in Nat
    BY <1>1, <1>8 DEF MorselsHold
  <2>3. \A u \in Workers : u # w => /\ morsel'[u] = morsel[u] /\ vector'[u] = vector[u]
    BY <1>8, <2>1
  <2>4. morsel'[w] = cursor + 1
    BY <1>8, <2>1
  <2>5. \A u \in Workers : morsel'[u] <= cursor'
    BY <1>2, <1>8, <2>2, <2>3, <2>4
  <2>6. \A u, v \in Workers : morsel'[u] # None /\ morsel'[u] = morsel'[v] => u = v
    <3>1. ASSUME NEW u \in Workers, NEW v \in Workers, morsel'[u] # None, morsel'[u] = morsel'[v],
                 u # v
          PROVE  FALSE
      <4>1. CASE u # w /\ v # w
        BY <1>1, <2>3, <3>1, <4>1 DEF MorselsHold
      <4>2. CASE u = w
        BY <1>8, <2>2, <2>3, <2>4, <3>1, <4>2
      <4>3. CASE v = w
        BY <1>8, <2>2, <2>3, <2>4, <3>1, <4>3
      <4>. QED BY <4>1, <4>2, <4>3
    <3>. QED BY <3>1
  <2>7. ASSUME NEW u \in Workers
        PROVE  /\ pc'[u] = "scan" => row'[u] = 1 \/ (HasVector(u)' /\ row'[u] <= Len(Vector(u))')
               /\ pc'[u] = "filter" => Full(heap'[u])
               /\ pc'[u] = "done" => cursor' >= Len(Morsels) /\ vector'[u] > Len(Vectors(u))'
    <3>1. CASE u = w
      BY <1>2, <1>11, <2>1, <3>1
    <3>2. CASE u # w
      <4>1. Vectors(u)' = Vectors(u)
        BY <2>3, <3>2 DEF Vectors
      <4>2. Vector(u)' = Vector(u) /\ (HasVector(u)' <=> HasVector(u))
        BY <2>1, <2>3, <3>2, <4>1 DEF Vector, HasVector
      <4>3. /\ pc[u] = "scan" => row[u] = 1 \/ (HasVector(u) /\ row[u] <= Len(Vector(u)))
            /\ pc[u] = "filter" => Full(heap[u])
            /\ pc[u] = "done" => cursor >= Len(Morsels) /\ vector[u] > Len(Vectors(u))
        BY <1>1 DEF MorselsHold
      <4>4. pc'[u] = "done" => FALSE
        BY <1>8, <1>12, <2>1, <4>3
      <4>. QED BY <1>2, <2>1, <2>3, <3>2, <4>1, <4>2, <4>3, <4>4
    <3>. QED BY <3>1, <3>2
  <2>8. MorselsHold'
    BY <2>5, <2>6, <2>7 DEF MorselsHold
  <2>. QED BY <1>5, <1>6, <1>7, <1>10, <2>8 DEF Inv, NothingLost
<1>13. CASE ~(cursor < Len(Morsels))
  <2>1. morsel' = morsel /\ vector' = vector /\ pc' = [pc EXCEPT ![w] = "done"]
    BY <1>13 DEF Claim, Goto
  <2>2. cursor' >= Len(Morsels)
    BY <1>2, <1>8, <1>13
  <2>3. \A u \in Workers : Vectors(u)' = Vectors(u) /\ Vector(u)' = Vector(u)
    BY <2>1 DEF Vectors, Vector
  <2>4. \A u \in Workers : u # w => pc'[u] = pc[u] /\ (HasVector(u)' <=> HasVector(u))
    BY <1>8, <2>1, <2>3 DEF HasVector
  <2>5. vector[w] > Len(Vectors(w))
    <3>1. vector[w] \in Nat /\ Len(Vectors(w)) \in Nat
      <4>1. CASE morsel[w] = 0
        BY <1>8, <4>1 DEF Vectors, None
      <4>2. CASE morsel[w] # 0
        BY <1>8, <4>2, SourceTyped DEF Vectors, None
      <4>. QED BY <4>1, <4>2
    <3>. QED BY <1>2, <3>1 DEF HasVector
  <2>6. ASSUME NEW u \in Workers
        PROVE  /\ pc'[u] = "scan" => row'[u] = 1 \/ (HasVector(u)' /\ row'[u] <= Len(Vector(u))')
               /\ pc'[u] = "filter" => Full(heap'[u])
               /\ pc'[u] = "done" => cursor' >= Len(Morsels) /\ vector'[u] > Len(Vectors(u))'
    <3>1. CASE u = w
      <4>1. pc'[u] = "done"
        BY <1>8, <2>1, <3>1
      <4>. QED BY <2>1, <2>2, <2>3, <2>5, <3>1, <4>1
    <3>2. CASE u # w
      BY <1>1, <1>2, <2>1, <2>2, <2>3, <2>4, <3>2 DEF MorselsHold
    <3>. QED BY <3>1, <3>2
  <2>7. /\ \A u \in Workers : morsel'[u] <= cursor'
        /\ \A u, v \in Workers : morsel'[u] # None /\ morsel'[u] = morsel'[v] => u = v
    <3>1. \A u \in Workers : morsel[u] \in Nat /\ morsel[u] <= cursor
      BY <1>1, <1>8 DEF MorselsHold
    <3>2. \A u \in Workers : morsel'[u] <= cursor'
      BY <1>2, <1>8, <2>1, <3>1
    <3>. QED BY <1>1, <2>1, <3>2 DEF MorselsHold
  <2>8. MorselsHold'
    BY <2>6, <2>7 DEF MorselsHold
  <2>. QED BY <1>5, <1>6, <1>7, <1>10, <2>8 DEF Inv, NothingLost
<1>. QED BY <1>12, <1>13

LEMMA PublishKeeps ==
    ASSUME Inv, NEW w \in Workers, Publish(w)
    PROVE  Inv'
<1>1. TypeOK /\ PayloadHolds /\ LostAreBeaten /\ MorselsHold /\ RowsHeldOnce /\ BoundsAreBeaten
  BY DEF Inv, NothingLost
<1>2. /\ UNCHANGED <<input, cursor, morsel, vector, row, filter, heap, payload, entered, result>>
      /\ pc[w] = "publish"
      /\ \/ /\ Full(heap[w]) /\ boundary' = Top(heap[w]).row /\ Goto(w, "filter")
         \/ boundary' = boundary /\ Goto(w, "settle")
  BY DEF Publish, scan
<1>3. PICK bound \in {boundary', view[w]} : view' = [view EXCEPT ![w] = bound]
  BY DEF Publish
<1>4. KeepsBeaten /\ LetsGoOfBeaten /\ InHeaps' = InHeaps
  BY <1>2, HeapsKept
<1>5. HoldsEachOnce(heap')
  BY <1>1, <1>2 DEF HoldsEachOnce, RowsHeldOnce
<1>6. LostAreBeaten' /\ RowsHeldOnce'
  BY <1>1, <1>4, <1>5, SettlingPassesNothing, SameRowsKept
<1>7. boundary' \in Rows \cup {None} /\ (boundary' # None => Beaten(boundary'))
  <2>1. CASE Full(heap[w]) /\ boundary' = Top(heap[w]).row
    <3>1. Top(heap[w]).row \in Rows /\ Beaten(Top(heap[w]).row)
      BY <1>1, <2>1, TopOfFull
    <3>2. PICK t \in Rows : t = Top(heap[w]).row
      BY <3>1
    <3>3. boundary' = t /\ Beaten(t)
      BY <2>1, <3>1, <3>2
    <3>. QED BY <3>3
  <2>2. CASE boundary' = boundary
    BY <1>1, <2>2 DEF TypeOK, BoundsAreBeaten
  <2>. QED BY <1>2, <2>1, <2>2
<1>8. PICK b \in Rows \cup {None} : b = boundary' /\ (b # None => Beaten(b))
  BY <1>7
<1>9. bound \in Rows \cup {None} /\ (bound # None => Beaten(bound))
  BY <1>1, <1>3, <1>8 DEF TypeOK, BoundsAreBeaten
<1>10. /\ view' \in [Workers -> Rows \cup {None}]
       /\ view'[w] = bound /\ \A u \in Workers : u # w => view'[u] = view[u]
  BY <1>1, <1>3, <1>9 DEF TypeOK
<1>11. BoundsAreBeaten'
  <2>1. boundary' # None => Beaten(b)' /\ b = boundary'
    BY <1>4, <1>8 DEF KeepsBeaten
  <2>2. \A u \in Workers : \A v \in Rows : v = view'[u] => Beaten(v)'
    <3>1. ASSUME NEW u \in Workers, NEW v \in Rows, v = view'[u]
          PROVE  Beaten(v)
      <4>0. v # None
        BY RowsAreNumbers DEF None
      <4>1. CASE u = w
        BY <1>9, <1>10, <3>1, <4>0, <4>1
      <4>2. CASE u # w
        BY <1>1, <1>10, <3>1, <4>0, <4>2 DEF BoundsAreBeaten
      <4>. QED BY <4>1, <4>2
    <3>. QED BY <1>4, <3>1 DEF KeepsBeaten
  <2>3. \A k \in filter' : \E x \in Rows : key'[x] = k /\ Beaten(x)'
    BY <1>1, <1>2, <1>4 DEF BoundsAreBeaten, KeepsBeaten, input
  <2>4. ASSUME NEW u \in Workers, view'[u] # None PROVE Beaten(view[u])'
    <3>1. PICK v \in Rows : v = view'[u]
      BY <1>10, <2>4
    <3>2. Beaten(v)'
      BY <2>2, <3>1
    <3>. QED BY <3>1, <3>2
  <2>. QED BY <2>1, <2>3, <2>4 DEF BoundsAreBeaten
<1>12. /\ pc' \in [Workers -> {"scan", "publish", "filter", "settle", "done"}]
       /\ MovesOn(w)
       /\ pc'[w] = "settle" \/ (pc'[w] = "filter" /\ Full(heap'[w]))
  BY <1>1, <1>2 DEF Goto, TypeOK, MovesOn
<1>13. TypeOK'
  BY <1>1, <1>2, <1>7, <1>10, <1>12 DEF TypeOK, input
<1>14. PayloadHolds'
  BY <1>1, <1>2 DEF PayloadHolds
<1>15. MorselsHold'
  BY <1>1, <1>2, <1>12, MorselsHoldAfter
<1>. QED BY <1>6, <1>11, <1>13, <1>14, <1>15 DEF Inv, NothingLost

LEMMA SetFilterKeeps ==
    ASSUME Inv, NEW w \in Workers, SetFilter(w)
    PROVE  Inv'
<1>1. TypeOK /\ PayloadHolds /\ LostAreBeaten /\ MorselsHold /\ RowsHeldOnce /\ BoundsAreBeaten
  BY DEF Inv, NothingLost
<1>2. /\ UNCHANGED <<input, cursor, morsel, vector, row, boundary, heap, payload, entered, view,
                     result>>
      /\ pc[w] = "filter" /\ Goto(w, "settle")
      /\ filter' = {key[payload[w][Top(heap[w]).at]]}
  BY DEF SetFilter, scan, sink
<1>3. KeepsBeaten /\ LetsGoOfBeaten /\ InHeaps' = InHeaps
  BY <1>2, HeapsKept
<1>4. HoldsEachOnce(heap')
  BY <1>1, <1>2 DEF HoldsEachOnce, RowsHeldOnce
<1>5. LostAreBeaten' /\ RowsHeldOnce'
  BY <1>1, <1>3, <1>4, SettlingPassesNothing, SameRowsKept
<1>6. Full(heap[w])
  BY <1>1, <1>2 DEF MorselsHold
<1>7. PICK t \in Rows : t = Top(heap[w]).row /\ Beaten(t)
  <2>1. Top(heap[w]).row \in Rows /\ Beaten(Top(heap[w]).row)
    BY <1>1, <1>6, TopOfFull
  <2>2. PICK t \in Rows : t = Top(heap[w]).row
    BY <2>1
  <2>3. Beaten(t)
    BY <2>1, <2>2
  <2>. QED BY <2>2, <2>3
<1>8. payload[w][Top(heap[w]).at] = t
  BY <1>1, <1>6, <1>7, TopOfFull DEF PayloadHolds
<1>9. filter' = {key[t]} /\ key[t] \in Keys
  BY <1>1, <1>2, <1>8 DEF TypeOK
<1>10. BoundsAreBeaten'
  <2>1. Beaten(t)' /\ key' = key
    BY <1>2, <1>3, <1>7 DEF KeepsBeaten, input
  <2>2. \A k \in filter' : \E b \in Rows : key'[b] = k /\ Beaten(b)'
    BY <1>9, <2>1
  <2>3. boundary' # None => Beaten(boundary)'
    <3>1. boundary' # None => boundary \in Rows /\ Beaten(boundary) /\ boundary' = boundary
      BY <1>1, <1>2 DEF TypeOK, BoundsAreBeaten
    <3>. SUFFICES ASSUME boundary' # None PROVE Beaten(boundary)'
      OBVIOUS
    <3>2. PICK b \in Rows : b = boundary /\ Beaten(b)
      BY <3>1
    <3>3. Beaten(b)'
      BY <1>3, <3>2 DEF KeepsBeaten
    <3>. QED BY <3>1, <3>2, <3>3
  <2>4. ASSUME NEW u \in Workers, view'[u] # None PROVE Beaten(view[u])'
    <3>1. view[u] \in Rows /\ Beaten(view[u]) /\ view'[u] = view[u]
      BY <1>1, <1>2, <2>4 DEF TypeOK, BoundsAreBeaten
    <3>2. PICK v \in Rows : v = view[u] /\ Beaten(v)
      BY <3>1
    <3>3. Beaten(v)'
      BY <1>3, <3>2 DEF KeepsBeaten
    <3>. QED BY <3>1, <3>2, <3>3
  <2>. QED BY <2>2, <2>3, <2>4 DEF BoundsAreBeaten
<1>11. /\ pc' \in [Workers -> {"scan", "publish", "filter", "settle", "done"}]
       /\ MovesOn(w) /\ pc'[w] = "settle"
  BY <1>1, <1>2 DEF Goto, TypeOK, MovesOn
<1>12. TypeOK'
  BY <1>1, <1>2, <1>9, <1>11 DEF TypeOK, input
<1>13. PayloadHolds'
  BY <1>1, <1>2 DEF PayloadHolds
<1>14. MorselsHold'
  BY <1>1, <1>2, <1>11, MorselsHoldAfter
<1>. QED BY <1>5, <1>10, <1>12, <1>13, <1>14 DEF Inv, NothingLost

\* A cut payload: the entries of a heap, renumbered, over the rows they had.
CutEntries(s) == {[row |-> s[i].row, at |-> i] : i \in DOMAIN s}
CutRows(p, s) == [i \in DOMAIN s |-> p[s[i].at]]
RowsOf(h) == {e.row : e \in h}
PointsInto(h, p) == \A e \in h : e.at \in DOMAIN p /\ p[e.at] = e.row

LEMMA CutPayload ==
    ASSUME NEW h \in SUBSET Entries, DistinctRows(h), NEW p \in Seq(Rows),
           PointsInto(h, p),
           NEW g, g = CutEntries(SetToSeq(h)),
           NEW q, q = CutRows(p, SetToSeq(h))
    PROVE  /\ g \in SUBSET Entries /\ Cardinality(g) = Cardinality(h)
           /\ q \in Seq(Rows)
           /\ PointsInto(g, q)
           /\ RowsOf(g) = RowsOf(h)
           /\ DistinctRows(g)
<1>. DEFINE n == Cardinality(h)
<1>. PICK s : s = SetToSeq(h)
  OBVIOUS
<1>0. /\ g = {[row |-> s[i].row, at |-> i] : i \in DOMAIN s}
      /\ q = [i \in DOMAIN s |-> p[s[i].at]]
  BY DEF CutEntries, CutRows
<1>1. IsFiniteSet(h) /\ n \in Nat
  BY RowsCountEntries, FS_CardinalityType
<1>2. s \in [1..n -> h] /\ IsInjective(s) /\ \A e \in h : \E i \in 1..n : s[i] = e
  BY <1>1, SequenceOfSet
<1>3. DOMAIN s = 1..n /\ \A i \in 1..n : s[i] \in h /\ s[i].row \in Rows
  BY <1>2 DEF Entries
<1>. HIDE DEF n
<1>4. \A i \in 1..n : i \in Nat \ {0}
  BY <1>1
<1>5. g \in SUBSET Entries
  BY <1>0, <1>3, <1>4 DEF Entries
<1>6. q \in Seq(Rows)
  <2>1. q \in [1..n -> Rows]
    BY <1>0, <1>3 DEF PointsInto
  <2>. QED BY <1>1, <2>1
<1>7. PointsInto(g, q)
  BY <1>0, <1>3 DEF PointsInto
<1>8. RowsOf(g) = RowsOf(h)
  <2>1. ASSUME NEW e \in g PROVE \E f \in h : e.row = f.row
    <3>1. PICK i \in 1..n : e = [row |-> s[i].row, at |-> i]
      BY <1>0, <1>3
    <3>. QED BY <1>3, <3>1
  <2>2. ASSUME NEW f \in h PROVE \E e \in g : e.row = f.row
    <3>1. PICK i \in 1..n : s[i] = f
      BY <1>2
    <3>2. [row |-> s[i].row, at |-> i] \in g
      BY <1>0, <1>3
    <3>. QED BY <3>1, <3>2
  <2>. QED BY <2>1, <2>2 DEF RowsOf
<1>9. DistinctRows(g)
  <2>1. ASSUME NEW i \in 1..n, NEW j \in 1..n, s[i].row = s[j].row
        PROVE  i = j
    BY <1>2, <1>3, <2>1 DEF DistinctRows, IsInjective
  <2>2. ASSUME NEW e \in g, NEW f \in g, e.row = f.row
        PROVE  e = f
    <3>1. PICK i \in 1..n : e = [row |-> s[i].row, at |-> i]
      BY <1>0, <1>3
    <3>2. PICK j \in 1..n : f = [row |-> s[j].row, at |-> j]
      BY <1>0, <1>3
    <3>. QED BY <2>1, <2>2, <3>1, <3>2
  <2>. QED BY <2>2 DEF DistinctRows
<1>10. Cardinality(g) = Cardinality(h)
  <2>1. Cardinality(RowsOf(g)) = Cardinality(g)
    BY <1>5, <1>9, RowsCountEntries DEF RowsOf
  <2>2. Cardinality(RowsOf(h)) = Cardinality(h)
    BY RowsCountEntries DEF RowsOf
  <2>. QED BY <1>8, <2>1, <2>2
<1>. QED BY <1>5, <1>6, <1>7, <1>8, <1>9, <1>10

LEMMA SettleKeeps ==
    ASSUME Inv, NEW w \in Workers, Settle(w)
    PROVE  Inv'
<1>1. TypeOK /\ PayloadHolds /\ LostAreBeaten /\ MorselsHold /\ RowsHeldOnce /\ BoundsAreBeaten
  BY DEF Inv, NothingLost
<1>2. /\ UNCHANGED <<input, cursor, morsel, boundary, filter, view, result>>
      /\ pc[w] = "settle" /\ NextVector(w) /\ Goto(w, "scan")
  BY DEF Settle
<1>3. /\ heap \in [Workers -> SUBSET Entries] /\ payload \in [Workers -> Seq(Rows)]
      /\ heap[w] \in SUBSET Entries /\ payload[w] \in Seq(Rows)
      /\ \A u \in Workers : Cardinality(heap[u]) <= HeapSize
      /\ DistinctRows(heap[w])
      /\ \A e \in heap[w] : e.at \in DOMAIN payload[w] /\ payload[w][e.at] = e.row
  BY <1>1, HeapsHold DEF TypeOK, PayloadHolds
<1>4. /\ SinkTyped' /\ PayloadHolds' /\ HoldsEachOnce(heap')
      /\ \A u \in Workers : RowsOf(heap'[u]) = RowsOf(heap[u])
      /\ \A u \in Workers : u # w => heap'[u] = heap[u]
  <2>1. CASE heap' = heap /\ payload' = payload
    BY <1>1, <2>1 DEF SinkTyped, TypeOK, PayloadHolds, HoldsEachOnce, RowsHeldOnce
  <2>2. CASE ~(heap' = heap /\ payload' = payload)
    <3>1. PICK g : g = CutEntries(SetToSeq(heap[w]))
      OBVIOUS
    <3>2. PICK q : q = CutRows(payload[w], SetToSeq(heap[w]))
      OBVIOUS
    <3>3. heap' = [heap EXCEPT ![w] = g] /\ payload' = [payload EXCEPT ![w] = q]
      BY <2>2, <3>1, <3>2 DEF Settle, CutEntries, CutRows
    <3>5. /\ g \in SUBSET Entries /\ Cardinality(g) = Cardinality(heap[w])
          /\ q \in Seq(Rows)
          /\ \A e \in g : e.at \in DOMAIN q /\ q[e.at] = e.row
          /\ RowsOf(g) = RowsOf(heap[w])
          /\ DistinctRows(g)
      <4>1. PICK h : h = heap[w]
        OBVIOUS
      <4>2. PICK p : p = payload[w]
        OBVIOUS
      <4>3. /\ h \in SUBSET Entries /\ DistinctRows(h) /\ p \in Seq(Rows)
            /\ PointsInto(h, p)
        BY <1>3, <4>1, <4>2 DEF PointsInto
      <4>4. g = CutEntries(SetToSeq(h)) /\ q = CutRows(p, SetToSeq(h))
        BY <3>1, <3>2, <4>1, <4>2
      <4>5. /\ g \in SUBSET Entries /\ Cardinality(g) = Cardinality(h)
            /\ q \in Seq(Rows)
            /\ PointsInto(g, q)
            /\ RowsOf(g) = RowsOf(h)
            /\ DistinctRows(g)
        BY <4>3, <4>4, CutPayload
      <4>. QED BY <4>1, <4>5 DEF PointsInto
    <3>6. /\ heap'[w] = g /\ payload'[w] = q
          /\ \A u \in Workers : u # w => heap'[u] = heap[u] /\ payload'[u] = payload[u]
      BY <1>3, <3>3
    <3>7. SinkTyped'
      <4>1. heap' \in [Workers -> SUBSET Entries] /\ payload' \in [Workers -> Seq(Rows)]
        BY <1>3, <3>3, <3>5
      <4>2. \A u \in Workers : Cardinality(heap'[u]) <= HeapSize
        BY <1>3, <3>5, <3>6
      <4>. QED BY <4>1, <4>2 DEF SinkTyped
    <3>8. PayloadHolds'
      BY <1>1, <3>5, <3>6 DEF PayloadHolds
    <3>9. \A u \in Workers : RowsOf(heap'[u]) = RowsOf(heap[u])
      BY <3>5, <3>6
    <3>10. HoldsEachOnce(heap')
      <4>1. ASSUME NEW u \in Workers, NEW v \in Workers, NEW e \in heap'[u], NEW f \in heap'[v],
                   e.row = f.row
            PROVE  u = v /\ e = f
        <5>1. PICK d \in heap[u] : d.row = e.row
          <6>1. e.row \in RowsOf(heap'[u])
            BY DEF RowsOf
          <6>2. e.row \in RowsOf(heap[u])
            BY <3>9, <6>1
          <6>. QED BY <6>2 DEF RowsOf
        <5>2. PICK c \in heap[v] : c.row = f.row
          <6>1. f.row \in RowsOf(heap'[v])
            BY DEF RowsOf
          <6>2. f.row \in RowsOf(heap[v])
            BY <3>9, <6>1
          <6>. QED BY <6>2 DEF RowsOf
        <5>3. u = v
          BY <1>1, <4>1, <5>1, <5>2 DEF RowsHeldOnce
        <5>4. CASE u = w
          BY <3>5, <3>6, <4>1, <5>3, <5>4 DEF DistinctRows
        <5>5. CASE u # w
          BY <1>1, <3>6, <4>1, <5>3, <5>5 DEF RowsHeldOnce
        <5>. QED BY <5>3, <5>4, <5>5
      <4>. QED BY <4>1 DEF HoldsEachOnce
    <3>. QED BY <3>6, <3>7, <3>8, <3>9, <3>10
  <2>. QED BY <2>1, <2>2
<1>5. InHeaps' = InHeaps
  <2>1. InHeaps' = UNION {RowsOf(heap'[u]) : u \in Workers}
    BY DEF InHeaps, RowsOf
  <2>2. InHeaps = UNION {RowsOf(heap[u]) : u \in Workers}
    BY DEF InHeaps, RowsOf
  <2>. QED BY <1>4, <2>1, <2>2
<1>6. KeepsBeaten /\ LetsGoOfBeaten
  <2>1. \A x \in Rows : Beaten(x)' <=> Beaten(x)
    BY <1>2, <1>5, BeatenNext, BeatenNow
  <2>. QED BY <1>5, <2>1 DEF KeepsBeaten, LetsGoOfBeaten
<1>7. LostAreBeaten' /\ RowsHeldOnce'
  BY <1>1, <1>4, <1>5, <1>6, SettlingPassesNothing, SameRowsKept
<1>8. BoundsAreBeaten'
  <2>1. ViewsRenewed
    BY <1>2 DEF ViewsRenewed
  <2>. QED BY <1>1, <1>2, <1>6, <2>1, BoundsStayBeaten
<1>9. /\ pc' \in [Workers -> {"scan", "publish", "filter", "settle", "done"}]
      /\ vector' \in [Workers -> Nat \ {0}] /\ row' \in [Workers -> Nat \ {0}]
      /\ entered' \in [Workers -> BOOLEAN]
      /\ MovesOn(w) /\ pc'[w] = "scan" /\ row'[w] = 1
  BY <1>1, <1>2 DEF Goto, NextVector, TypeOK, MovesOn
<1>10. TypeOK'
  BY <1>1, <1>2, <1>4, <1>9 DEF TypeOK, SinkTyped, input
<1>11. MorselsHold'
  BY <1>1, <1>4, <1>9, MorselsHoldAfter
<1>. QED BY <1>4, <1>7, <1>8, <1>10, <1>11 DEF Inv, NothingLost

-------------------------------------------------------------------------------
(* The result.                                                             *)

RowsKept(w) == {payload[w][e.at] : e \in heap[w]}

LEMMA KeptIsInHeaps ==
    ASSUME PayloadHolds
    PROVE  Kept = InHeaps
<1>1. \A w \in Workers : RowsKept(w) = RowsOf(heap[w])
  BY DEF PayloadHolds, RowsKept, RowsOf
<1>2. Kept = UNION {RowsKept(w) : w \in Workers}
  BY DEF Kept, RowsKept
<1>3. InHeaps = UNION {RowsOf(heap[w]) : w \in Workers}
  BY DEF InHeaps, RowsOf
<1>. QED BY <1>1, <1>2, <1>3

\* With all workers done, every row of the source has been looked at.
LEMMA AllPassed ==
    ASSUME TypeOK, MorselsHold, \A w \in Workers : pc[w] = "done"
    PROVE  Passed = Rows
<1>1. \A w \in Workers : vector[w] > Len(Vectors(w)) /\ cursor >= Len(Morsels)
  BY DEF MorselsHold
<1>2. cursor >= Len(Morsels)
  BY <1>1, WorkersAssumption
<1>3. cursor \in Nat /\ MorselsTyped
  BY DEF TypeOK, MorselsTyped
<1>4. ASSUME NEW m \in DOMAIN Morsels, NEW v \in DOMAIN Morsels[m], NEW i \in DOMAIN Morsels[m][v]
      PROVE  Morsels[m][v][i] \in Passed
  <2>1. m \in Nat /\ m <= Len(Morsels) /\ Len(Morsels) \in Nat /\ v \in Nat
    BY SourceTyped
  <2>2. m <= cursor
    BY <1>2, <1>3, <2>1
  <2>3. \A w \in Workers : IsBehind(w, m, v, i)
    <3>1. ASSUME NEW w \in Workers, morsel[w] = m
          PROVE  ~Ahead(w, v, i)
      <4>1. vector[w] > v /\ vector[w] \in Nat
        BY <1>1, <3>1, NothingAhead DEF TypeOK
      <4>. QED BY <2>1, <4>1 DEF Ahead
    <3>. QED BY <3>1 DEF IsBehind
  <2>4. HasPassed(m, v, i)
    BY <2>2, <2>3 DEF HasPassed
  <2>. QED BY <1>3, <2>4, PassedAt
<1>5. \A r \in Rows : r \in Passed
  BY <1>4, RowsHavePlaces
<1>. QED BY <1>5, PassedAreRows

\* The best of some rows are the best of all, if each of the others is beaten.
LEMMA BestOfHeld ==
    ASSUME KeysTyped, NEW H \in SUBSET Rows, \A r \in Rows \ H : BeatenIn(H, r),
           NEW B \in BestOf(H, HeapSize)
    PROVE  B \in BestOf(Rows, HeapSize)
<1>1. /\ B \in SUBSET H
      /\ Cardinality(B) = IF Cardinality(H) < HeapSize THEN Cardinality(H) ELSE HeapSize
      /\ \A r \in B, q \in H \ B : ~Less(q, r)
  BY DEF BestOf
<1>2. /\ IsFiniteSet(H) /\ IsFiniteSet(B) /\ IsFiniteSet(Rows)
      /\ Cardinality(H) \in Nat /\ Cardinality(B) \in Nat /\ Cardinality(Rows) \in Nat
  BY <1>1, SubsetsOfRows
<1>3. Cardinality(H) <= Cardinality(Rows)
  BY <1>2, FS_Subset
<1>4. CASE Cardinality(H) < HeapSize
  <2>1. B = H
    BY <1>1, <1>2, <1>4, FS_Subset
  <2>2. ASSUME NEW r \in Rows \ H PROVE FALSE
    <3>. DEFINE G == {q \in H : ~Less(r, q)}
    <3>1. Cardinality(G) >= HeapSize
      BY DEF BeatenIn
    <3>2. Cardinality(G) <= Cardinality(H)
      BY <1>2, FS_Subset
    <3>3. Cardinality(G) \in Nat
      BY SubsetsOfRows
    <3>. HIDE DEF G
    <3>. QED BY <1>2, <1>4, <3>1, <3>2, <3>3, SizesTyped
  <2>3. H = Rows
    BY <2>2
  <2>. QED BY <2>3
<1>5. CASE ~(Cardinality(H) < HeapSize)
  <2>1. Cardinality(B) = HeapSize /\ ~(Cardinality(Rows) < HeapSize)
    BY <1>1, <1>2, <1>3, <1>5, SizesTyped
  <2>2. ASSUME NEW r \in B, NEW q \in Rows \ B, Less(q, r)
        PROVE  FALSE
    <3>1. q \notin H
      BY <1>1, <2>2
    <3>. DEFINE G == {p \in H : ~Less(q, p)}
    <3>2. Cardinality(G) >= HeapSize
      BY <3>1 DEF BeatenIn
    <3>3. r \notin G
      BY <2>2
    <3>4. PICK p \in G : p \notin B
      <4>. SUFFICES ASSUME G \subseteq B PROVE FALSE
        OBVIOUS
      <4>1. G \subseteq B \ {r} /\ IsFiniteSet(B \ {r}) /\ Cardinality(B \ {r}) \in Nat
        BY <1>2, <3>3, FS_RemoveElement, FS_CardinalityType
      <4>2. Cardinality(B \ {r}) = Cardinality(B) - 1
        BY <1>2, FS_RemoveElement
      <4>3. Cardinality(G) <= Cardinality(B \ {r})
        BY <4>1, FS_Subset
      <4>4. Cardinality(G) \in Nat
        BY <4>1, FS_Subset, FS_CardinalityType
      <4>. HIDE DEF G
      <4>. QED BY <1>2, <2>1, <3>2, <4>1, <4>2, <4>3, <4>4, SizesTyped
    <3>5. p \in H /\ ~Less(q, p) /\ ~Less(p, r)
      BY <1>1, <3>4
    <3>6. r \in Rows /\ p \in Rows
      BY <1>1, <3>5
    <3>. QED BY <2>2, <3>5, <3>6, LessIsAnOrder
  <2>3. B \in SUBSET Rows
    BY <1>1
  <2>. QED BY <2>1, <2>2, <2>3 DEF BestOf
<1>. QED BY <1>4, <1>5

LEMMA FinishKeeps ==
    ASSUME Inv, Finish
    PROVE  Inv' /\ ResultIsTopN'
<1>1. TypeOK /\ PayloadHolds /\ LostAreBeaten /\ MorselsHold /\ RowsHeldOnce /\ BoundsAreBeaten
  BY DEF Inv, NothingLost
<1>2. /\ UNCHANGED <<key, maintain, cursor, morsel, vector, row, boundary, filter, pc, heap,
                     payload, entered, view>>
      /\ \A w \in Workers : pc[w] = "done"
      /\ result' \in BestOf(Kept, HeapSize)
  BY DEF Finish, input, scan, sink
<1>3. Kept = InHeaps /\ Passed = Rows /\ InHeaps \in SUBSET Rows /\ KeysTyped
  BY <1>1, <1>2, KeptIsInHeaps, AllPassed, HeapsHoldRows DEF TypeOK, KeysTyped
<1>4. PICK H \in SUBSET Rows : H = InHeaps
  BY <1>3
<1>5. \A r \in Rows \ H : BeatenIn(H, r)
  BY <1>1, <1>3, <1>4, BeatenNow DEF LostAreBeaten
<1>6. result' \in BestOf(H, HeapSize)
  BY <1>2, <1>3, <1>4
<1>7. result' \in BestOf(Rows, HeapSize)
  BY <1>3, <1>5, <1>6, BestOfHeld
<1>8. result' \subseteq Rows
  BY <1>7 DEF BestOf
<1>9. BestOf(Rows, HeapSize)' = BestOf(Rows, HeapSize)
  BY <1>2 DEF BestOf, Less
<1>10. ResultIsTopN'
  BY <1>7, <1>9 DEF ResultIsTopN
<1>11. TypeOK'
  BY <1>1, <1>2, <1>8 DEF TypeOK
<1>12. UNCHANGED input /\ heap' = heap
  BY <1>2 DEF input
<1>13. KeepsBeaten /\ LetsGoOfBeaten /\ InHeaps' = InHeaps
  BY <1>12, HeapsKept
<1>14. HoldsEachOnce(heap')
  BY <1>1, <1>2 DEF HoldsEachOnce, RowsHeldOnce
<1>15. Passed' = Passed
  BY <1>2 DEF Passed, Seen, Claimed, Unread, Vectors, Ahead
<1>16. LostAreBeaten' /\ RowsHeldOnce'
  BY <1>1, <1>13, <1>14, <1>15, SameRowsKept
<1>17. BoundsAreBeaten'
  <2>1. ViewsRenewed /\ UNCHANGED <<input, boundary, filter>>
    BY <1>2 DEF ViewsRenewed, input
  <2>. QED BY <1>1, <1>13, <2>1, BoundsStayBeaten
<1>18. PayloadHolds' /\ MorselsHold'
  BY <1>1, <1>2 DEF PayloadHolds, MorselsHold, HasVector, Vector, Vectors
<1>. QED BY <1>10, <1>11, <1>16, <1>17, <1>18 DEF Inv, NothingLost

-------------------------------------------------------------------------------
(* The theorems.                                                           *)

LEMMA StartHolds == Init => Inv
<1>. SUFFICES ASSUME Init PROVE Inv
  OBVIOUS
<1>1. /\ cursor = 0 /\ boundary = None /\ filter = {} /\ result = Pending
      /\ key \in [Rows -> Keys] /\ maintain \in BOOLEAN
      /\ pc = [w \in Workers |-> "scan"] /\ morsel = [w \in Workers |-> 0]
      /\ vector = [w \in Workers |-> 1] /\ row = [w \in Workers |-> 1]
      /\ heap = [w \in Workers |-> {}] /\ payload = [w \in Workers |-> <<>>]
      /\ entered = [w \in Workers |-> FALSE] /\ view = [w \in Workers |-> None]
  BY DEF Init, Unset
<1>2. 0 \in 0..Len(Morsels)
  BY SourceTyped
<1>3. Cardinality({}) <= HeapSize
  BY FS_EmptySet, SizesTyped
<1>4. TypeOK
  BY <1>1, <1>2, <1>3 DEF TypeOK, Unset
<1>5. InHeaps = {}
  BY <1>1 DEF InHeaps
<1>6. Passed = {}
  <2>1. Claimed = {}
    BY <1>1, SourceTyped DEF Claimed
  <2>. QED BY <2>1 DEF Passed, Seen
<1>7. PayloadHolds /\ LostAreBeaten /\ RowsHeldOnce /\ BoundsAreBeaten
  BY <1>1, <1>5, <1>6 DEF PayloadHolds, LostAreBeaten, RowsHeldOnce, BoundsAreBeaten
<1>8. MorselsHold
  BY <1>1 DEF MorselsHold, None
<1>. QED BY <1>4, <1>7, <1>8 DEF Inv, NothingLost

LEMMA StutterHolds == Inv /\ UNCHANGED vars => Inv'
<1>. SUFFICES ASSUME Inv, UNCHANGED vars PROVE Inv'
  OBVIOUS
<1>1. UNCHANGED <<key, maintain, cursor, morsel, vector, row, boundary, filter, pc, heap,
                  payload, entered, view, result>>
  BY DEF vars, input, scan, sink
<1>2. InHeaps' = InHeaps /\ Passed' = Passed /\ (\A r : Beaten(r)' <=> Beaten(r))
  BY <1>1 DEF InHeaps, Passed, Seen, Claimed, Unread, Vectors, Ahead, Beaten, Less
<1>3. TypeOK' /\ PayloadHolds' /\ MorselsHold'
  BY <1>1 DEF Inv, NothingLost, TypeOK, PayloadHolds, MorselsHold, HasVector, Vector, Vectors
<1>4. LostAreBeaten' /\ RowsHeldOnce'
  BY <1>1, <1>2 DEF Inv, NothingLost, LostAreBeaten, RowsHeldOnce
<1>5. BoundsAreBeaten'
  <2>1. KeepsBeaten /\ ViewsRenewed /\ UNCHANGED <<input, boundary, filter>>
    BY <1>1, <1>2 DEF KeepsBeaten, ViewsRenewed, input
  <2>. QED BY <2>1, BoundsStayBeaten DEF Inv, NothingLost
<1>. QED BY <1>3, <1>4, <1>5 DEF Inv, NothingLost

\* The workers' places, heaps, payloads and bounds hold on any number of
\* threads, over any source.
THEOREM Invariance == Spec => []Inv
<1>1. Init => Inv
  BY StartHolds
<1>2. Inv /\ [Next]_vars => Inv'
  <2>. SUFFICES ASSUME Inv, [Next]_vars PROVE Inv'
    OBVIOUS
  <2>1. ASSUME NEW w \in Workers, Work(w) PROVE Inv'
    BY <2>1, ClaimKeeps, SkipVectorKeeps, SinkRowKeeps, SinkLastKeeps, PublishKeeps,
       SetFilterKeeps, SettleKeeps DEF Work
  <2>2. CASE Finish
    BY <2>2, FinishKeeps
  <2>3. CASE Returned \/ UNCHANGED vars
    BY <2>3, StutterHolds DEF Returned
  <2>. QED BY <2>1, <2>2, <2>3 DEF Next
<1>. QED BY <1>1, <1>2, PTL DEF Spec

\* top_n.mojo: the rows a worker drops are beaten by n others that are still
\* held, and its payload holds what its heap points to.
THEOREM NothingIsLost == Spec => []NothingLost
<1>1. Inv => NothingLost
  BY DEF Inv
<1>. QED BY <1>1, Invariance, PTL

\* top_n_sink.mojo: the query returns the n best rows of the source.
THEOREM BestAreReturned == Spec => []ResultIsTopN
<1>1. Init => ResultIsTopN
  BY DEF Init, ResultIsTopN
<1>2. Inv /\ ResultIsTopN /\ [Next]_vars => ResultIsTopN'
  <2>. SUFFICES ASSUME Inv, ResultIsTopN, [Next]_vars PROVE ResultIsTopN'
    OBVIOUS
  <2>1. CASE Finish
    BY <2>1, FinishKeeps
  <2>2. CASE UNCHANGED <<key, maintain, result>>
    <3>1. BestOf(Rows, HeapSize)' = BestOf(Rows, HeapSize)
      BY <2>2 DEF BestOf, Less
    <3>. QED BY <2>2, <3>1 DEF ResultIsTopN
  <2>3. ASSUME NEW w \in Workers, Work(w) PROVE UNCHANGED <<key, maintain, result>>
    BY <2>3 DEF Work, Claim, SkipVector, SinkRow, SinkLast, Publish, SetFilter, Settle, input
  <2>4. Returned \/ UNCHANGED vars => UNCHANGED <<key, maintain, result>>
    BY DEF Returned, vars, input
  <2>. QED BY <2>1, <2>2, <2>3, <2>4 DEF Next
<1>. QED BY <1>1, <1>2, Invariance, PTL DEF Spec
===============================================================================
