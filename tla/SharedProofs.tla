------------------------------ MODULE SharedProofs ------------------------------
(***************************************************************************)
(* Theorems of MCShared, for any finite sets of threads and of addresses   *)
(* and any bounds.                                                         *)
(*                                                                         *)
(* Statistics: what makes a record true is what it keeps alive.  Its       *)
(* bitmap is pinned, so it is not free and its address is not handed out   *)
(* again; and a buffer that a record or another column refers to has a     *)
(* count above one, so nobody appends to it in place.                      *)
(*                                                                         *)
(* Residence: one thread claims the copy, and the state stays "copying"    *)
(* until that thread has stored the address of a whole block.              *)
(*                                                                         *)
(* Patterns: the cache is the end of the history of uses, entry by entry.  *)
(***************************************************************************)
EXTENDS MCShared, FiniteSetTheorems, SequenceTheorems, TLAPS

-------------------------------------------------------------------------------
(* Statistics.                                                             *)

\* What is referred to is not free.
Alive ==
    /\ \A t \in Threads : Holds(t) => memory[column[t].data] # 0 /\ memory[column[t].bits] # 0
    /\ \A a \in Addresses : record[a] # NoRecord => memory[record[a].pin] # 0

\* A record is of a buffer that a column has, and describes it and the bitmap
\* that it pins, unless that had no bit.
RecordTrue(a) ==
    /\ \E t \in Threads : Holds(t) /\ column[t].data = a
    /\ record[a].pin \in Addresses
    /\ record[a].values = memory[a]
    /\ \/ record[a].validity = Null /\ record[a].bits = 0
       \/ /\ record[a].validity = record[a].pin
          /\ record[a].pin \notin bare
          /\ record[a].bits = memory[record[a].pin]
RecordsTrue == \A a \in Addresses : record[a] # NoRecord => RecordTrue(a)

\* A thread that measures or reads has a column, and one that reads a record.
Busy ==
    \A t \in Threads :
        /\ doing[t] # "idle" => Holds(t)
        /\ doing[t] = "reading" => record[column[t].data] # NoRecord

StatisticsInv == TypeOK /\ Alive /\ RecordsTrue /\ Busy

LEMMA ColumnTypes ==
    ASSUME StatisticsInv, StatisticsAssumption, NEW t \in Threads
    PROVE  /\ Holds(t) => column[t].data \in Addresses /\ column[t].bits \in Addresses
           /\ ~Holds(t) => column[t].data = Null /\ column[t].bits = Null
<1>1. column[t] \in Columns \cup {NoColumn}
  BY DEF StatisticsInv, TypeOK
<1>2. CASE column[t] \in Columns
  <2>1. column[t].data \in Addresses /\ column[t].bits \in Addresses
    BY <1>2 DEF Columns
  <2>2. column[t] # NoColumn
    BY <2>1 DEF StatisticsAssumption, NoColumn, Null
  <2> QED BY <2>1, <2>2 DEF Holds
<1>3. CASE column[t] = NoColumn
  BY <1>3 DEF NoColumn, Holds, Null
<1> QED BY <1>1, <1>2, <1>3

\* A buffer that only this column refers to.
LEMMA CountOne ==
    ASSUME StatisticsAssumption, NEW a \in Addresses, NEW t \in Threads, Count(a) = 1,
           column[t].data = a \/ column[t].bits = a
    PROVE  /\ column[t].data = a => \A u \in Threads : column[u].bits # a
           /\ column[t].bits = a => \A u \in Threads : column[u].data # a
           /\ column[t].data = a => \A u \in Threads : column[u].data = a => u = t
           /\ column[t].bits = a => \A u \in Threads : column[u].bits = a => u = t
           /\ \A b \in Addresses : record[b].pin # a
<1> DEFINE D == {u \in Threads : column[u].data = a}
           B == {u \in Threads : column[u].bits = a}
           P == {b \in Addresses : record[b].pin = a}
<1>1. IsFiniteSet(D) /\ IsFiniteSet(B) /\ IsFiniteSet(P)
  BY FS_Subset DEF StatisticsAssumption
<1>2. /\ Cardinality(D) \in Nat /\ Cardinality(B) \in Nat /\ Cardinality(P) \in Nat
      /\ Cardinality(D) = 0 <=> D = {}
      /\ Cardinality(B) = 0 <=> B = {}
      /\ Cardinality(P) = 0 <=> P = {}
  BY <1>1, FS_CardinalityType, FS_EmptySet
<1>3. Cardinality(D) + Cardinality(B) + Cardinality(P) = 1
  BY DEF Count
<1>4. D # {} \/ B # {}
  OBVIOUS
<1> HIDE DEF D, B, P
<1>5. /\ P = {}
      /\ \/ D = {} /\ Cardinality(B) = 1
         \/ B = {} /\ Cardinality(D) = 1
  BY <1>2, <1>3, <1>4
<1>6. /\ Cardinality(D) = 1 => \E u : D = {u}
      /\ Cardinality(B) = 1 => \E u : B = {u}
  BY <1>1, FS_Singleton
<1> QED BY <1>5, <1>6 DEF D, B, P

\* A step that changes who holds what: the records left are as they were, and
\* of buffers and bitmaps that are as they were.
LEMMA Changed ==
    ASSUME StatisticsInv, StatisticsAssumption, TypeOK', UNCHANGED doing,
           \A t \in Threads : Holds(t)' =>
               memory'[column'[t].data] # 0 /\ memory'[column'[t].bits] # 0,
           \A a \in Addresses : record'[a] # NoRecord =>
               /\ record'[a] = record[a]
               /\ memory'[a] = memory[a]
               /\ memory'[record[a].pin] = memory[record[a].pin]
               /\ record[a].pin \in bare' <=> record[a].pin \in bare
               /\ \E t \in Threads : Holds(t)' /\ column'[t].data = a,
           \A t \in Threads : doing[t] # "idle" =>
               /\ column'[t] = column[t]
               /\ record'[column[t].data] = record[column[t].data]
    PROVE  StatisticsInv'
<1>1. Alive'
  BY DEF StatisticsInv, Alive
<1>2. RecordsTrue'
  BY DEF StatisticsInv, RecordsTrue, RecordTrue
<1>3. Busy'
  BY DEF StatisticsInv, Busy, Holds
<1> QED BY <1>1, <1>2, <1>3 DEF StatisticsInv


\* What Keep leaves of what it is given.
LEMMA Left ==
    ASSUME NEW STATE now, NEW STATE values, NEW STATE records, Keep(now, values, records)
    PROVE  /\ column' = now
           /\ record' = [a \in Addresses |-> record'[a]]
           /\ memory' = [a \in Addresses |-> memory'[a]]
           /\ \A a \in Addresses :
                 /\ record'[a] = records[a] \/ record'[a] = NoRecord
                 /\ record'[a] # NoRecord => \E t \in Threads : now[t].data = a
                 /\ memory'[a] = values[a] \/ memory'[a] = 0
                 /\ record'[a].pin \in Addresses =>
                       memory'[record'[a].pin] = values[record'[a].pin]
           /\ \A t \in Threads :
                 /\ now[t].data \in Addresses =>
                       /\ record'[now[t].data] = records[now[t].data]
                       /\ memory'[now[t].data] = values[now[t].data]
                 /\ now[t].bits \in Addresses => memory'[now[t].bits] = values[now[t].bits]
<1> DEFINE data == {now[t].data : t \in Threads}
           left == [a \in Addresses |-> IF a \in data THEN records[a] ELSE NoRecord]
           live == data \cup {now[t].bits : t \in Threads} \cup {left[a].pin : a \in Addresses}
<1>1. /\ column' = now /\ record' = left
      /\ memory' = [a \in Addresses |-> IF a \in live THEN values[a] ELSE 0]
  BY DEF Keep
<1>2. /\ record' = [a \in Addresses |-> record'[a]]
      /\ memory' = [a \in Addresses |-> memory'[a]]
      /\ \A a \in Addresses :
           /\ record'[a] = IF a \in data THEN records[a] ELSE NoRecord
           /\ memory'[a] = IF a \in live THEN values[a] ELSE 0
  BY <1>1
<1>3. \A t \in Threads : now[t].data \in data /\ now[t].data \in live /\ now[t].bits \in live
  OBVIOUS
<1>4. \A a \in Addresses : record'[a].pin \in live
  BY <1>1
<1>5. \A a \in data : \E t \in Threads : now[t].data = a
  OBVIOUS
<1> HIDE DEF data, left, live
<1> QED BY <1>1, <1>2, <1>3, <1>4, <1>5

\* A thread's column is replaced by another or by none; only what was free is
\* written.
LEMMA Replaced ==
    ASSUME StatisticsInv, StatisticsAssumption, UNCHANGED doing, bare' \subseteq Addresses,
           contents' \in 0..MaxContents,
           NEW t \in Threads, doing[t] = "idle",
           NEW STATE c, c \in Columns \cup {NoColumn},
           NEW STATE values, values \in [Addresses -> 0..MaxContents],
           Keep([column EXCEPT ![t] = c], values, record),
           \A a \in Addresses : memory[a] # 0 =>
               values[a] = memory[a] /\ (a \in bare' <=> a \in bare),
           c # NoColumn => values[c.data] # 0 /\ values[c.bits] # 0
    PROVE  StatisticsInv'
<1> DEFINE now == [column EXCEPT ![t] = c]
<1>1. TypeOK
  BY DEF StatisticsInv
<1>2. /\ now \in [Threads -> Columns \cup {NoColumn}]
      /\ now[t] = c /\ \A u \in Threads \ {t} : now[u] = column[u]
  BY <1>1 DEF TypeOK
<1>3. /\ column' = now
      /\ record' = [a \in Addresses |-> record'[a]]
      /\ memory' = [a \in Addresses |-> memory'[a]]
      /\ \A a \in Addresses :
            /\ record'[a] = record[a] \/ record'[a] = NoRecord
            /\ record'[a] # NoRecord => \E u \in Threads : now[u].data = a
            /\ memory'[a] = values[a] \/ memory'[a] = 0
            /\ record'[a].pin \in Addresses =>
                  memory'[record'[a].pin] = values[record'[a].pin]
      /\ \A u \in Threads :
            /\ now[u].data \in Addresses =>
                  /\ record'[now[u].data] = record[now[u].data]
                  /\ memory'[now[u].data] = values[now[u].data]
            /\ now[u].bits \in Addresses => memory'[now[u].bits] = values[now[u].bits]
  <2>1. Keep(now, values, record)
    OBVIOUS
  <2> HIDE DEF now
  <2> QED BY <2>1, Left
<1> HIDE DEF now
<1>4. \A u \in Threads : now[u] # NoColumn =>
        /\ now[u].data \in Addresses /\ now[u].bits \in Addresses
        /\ values[now[u].data] # 0 /\ values[now[u].bits] # 0
  <2> SUFFICES ASSUME NEW u \in Threads, now[u] # NoColumn
               PROVE  /\ now[u].data \in Addresses /\ now[u].bits \in Addresses
                      /\ values[now[u].data] # 0 /\ values[now[u].bits] # 0
    OBVIOUS
  <2>1. now[u].data \in Addresses /\ now[u].bits \in Addresses
    <3>1. now[u] \in Columns
      BY <1>2
    <3> QED BY <3>1 DEF Columns
  <2>2. CASE u = t
    BY <1>2, <2>1, <2>2
  <2>3. CASE u # t
    BY <1>2, <2>1, <2>3 DEF StatisticsInv, Alive, Holds
  <2> QED BY <2>1, <2>2, <2>3
<1>5. TypeOK'
  <2>1. NoRecord \in Records
    BY DEF NoRecord, Records, StatisticsAssumption, Null
  <2>2. \A a \in Addresses : record[a] \in Records
    BY <1>1 DEF TypeOK
  <2>3. record' \in [Addresses -> Records]
    BY <1>3, <2>1, <2>2
  <2>4. memory' \in [Addresses -> 0..MaxContents]
    BY <1>3 DEF StatisticsAssumption
  <2> QED BY <1>1, <1>2, <1>3, <2>3, <2>4 DEF TypeOK
<1>6. ASSUME NEW u \in Threads, Holds(u)'
      PROVE  memory'[column'[u].data] # 0 /\ memory'[column'[u].bits] # 0
  BY <1>3, <1>4, <1>6 DEF Holds
<1>7. ASSUME NEW a \in Addresses, record'[a] # NoRecord
      PROVE  /\ record'[a] = record[a]
             /\ memory'[a] = memory[a]
             /\ memory'[record[a].pin] = memory[record[a].pin]
             /\ record[a].pin \in bare' <=> record[a].pin \in bare
             /\ \E u \in Threads : Holds(u)' /\ column'[u].data = a
  <2>1. record'[a] = record[a] /\ record[a] # NoRecord
    BY <1>3, <1>7
  <2>2. PICK u \in Threads : now[u].data = a
    BY <1>3, <1>7
  <2>3. now[u] # NoColumn
    BY <2>2 DEF NoColumn, StatisticsAssumption, Null
  <2>4. RecordTrue(a)
    BY <2>1 DEF StatisticsInv, RecordsTrue
  <2>5. record[a].pin \in Addresses /\ memory[record[a].pin] # 0
    BY <2>1, <2>4 DEF RecordTrue, StatisticsInv, Alive
  <2>6. PICK v \in Threads : Holds(v) /\ column[v].data = a
    BY <2>4 DEF RecordTrue
  <2>7. memory[a] # 0
    BY <2>6 DEF StatisticsInv, Alive
  <2>8. memory'[a] = values[a]
    BY <1>3, <2>2
  <2>9. memory'[record[a].pin] = values[record[a].pin]
    BY <1>3, <2>1, <2>5
  <2> QED BY <1>3, <2>1, <2>2, <2>3, <2>5, <2>7, <2>8, <2>9 DEF Holds
<1>8. ASSUME NEW u \in Threads, doing[u] # "idle"
      PROVE  /\ column'[u] = column[u]
             /\ record'[column[u].data] = record[column[u].data]
  <2>1. now[u] = column[u] /\ Holds(u)
    BY <1>2, <1>8 DEF StatisticsInv, Busy
  <2>2. column[u].data \in Addresses
    BY <2>1, ColumnTypes
  <2> QED BY <1>3, <2>1, <2>2
<1> QED BY <1>5, <1>6, <1>7, <1>8, Changed

\* Two new buffers, written to two free addresses.
LEMMA NewBuffers ==
    ASSUME StatisticsInv, StatisticsAssumption, NEW d \in Free, NEW b \in Free, d # b,
           contents + 2 <= MaxContents
    PROVE  /\ [data |-> d, bits |-> b] \in Columns
           /\ [memory EXCEPT ![d] = contents + 1, ![b] = contents + 2]
                 \in [Addresses -> 0..MaxContents]
           /\ \A a \in Addresses : memory[a] # 0 =>
                 [memory EXCEPT ![d] = contents + 1, ![b] = contents + 2][a] = memory[a]
           /\ [memory EXCEPT ![d] = contents + 1, ![b] = contents + 2][d] # 0
           /\ [memory EXCEPT ![d] = contents + 1, ![b] = contents + 2][b] # 0
<1>1. TypeOK /\ MaxContents \in Nat /\ contents \in Nat
  BY DEF StatisticsInv, TypeOK, StatisticsAssumption
<1>2. d \in Addresses /\ b \in Addresses /\ memory[d] = 0 /\ memory[b] = 0
  BY DEF Free
<1>3. contents + 1 \in 0..MaxContents /\ contents + 2 \in 0..MaxContents
  BY <1>1
<1> QED BY <1>1, <1>2, <1>3 DEF TypeOK, Columns

LEMMA MakeStep ==
    ASSUME StatisticsInv, StatisticsAssumption, NEW t \in Threads, Make(t)
    PROVE  StatisticsInv'
<1>1. PICK d, b \in Free, nulls \in BOOLEAN :
        /\ d # b
        /\ Keep([column EXCEPT ![t] = [data |-> d, bits |-> b]],
                [memory EXCEPT ![d] = contents + 1, ![b] = contents + 2], record)
        /\ bare' = IF nulls THEN bare \ {b} ELSE bare \union {b}
  BY DEF Make
<1>2. /\ ~Holds(t) /\ contents + 2 <= MaxContents
      /\ contents' = contents + 2 /\ UNCHANGED doing
  BY DEF Make
<1>3. TypeOK /\ doing[t] = "idle"
  BY <1>2 DEF StatisticsInv, Busy
<1>4. bare' \subseteq Addresses /\ contents' \in 0..MaxContents
  BY <1>1, <1>2, <1>3 DEF TypeOK, Free, StatisticsAssumption
<1>5. \A a \in Addresses : memory[a] # 0 => (a \in bare' <=> a \in bare)
  BY <1>1 DEF Free
<1> DEFINE c == [data |-> d, bits |-> b]
           values == [memory EXCEPT ![d] = contents + 1, ![b] = contents + 2]
<1>6. /\ c \in Columns /\ values \in [Addresses -> 0..MaxContents]
      /\ \A a \in Addresses : memory[a] # 0 => values[a] = memory[a]
      /\ values[d] # 0 /\ values[b] # 0
  BY <1>1, <1>2, NewBuffers
<1>7. c.data = d /\ c.bits = b /\ Keep([column EXCEPT ![t] = c], values, record)
  BY <1>1
<1> HIDE DEF c, values
<1> QED BY <1>2, <1>3, <1>4, <1>5, <1>6, <1>7, Replaced

LEMMA PairStep ==
    ASSUME StatisticsInv, StatisticsAssumption, NEW t \in Threads, Pair(t)
    PROVE  StatisticsInv'
<1>1. PICK b \in Free, nulls \in BOOLEAN :
        /\ Keep([column EXCEPT ![t].bits = b], [memory EXCEPT ![b] = contents + 1], record)
        /\ bare' = IF nulls THEN bare \ {b} ELSE bare \union {b}
  BY DEF Pair
<1>2. /\ Holds(t) /\ doing[t] = "idle" /\ contents < MaxContents
      /\ contents' = contents + 1 /\ UNCHANGED doing
  BY DEF Pair
<1>3. TypeOK /\ contents \in Nat /\ MaxContents \in Nat
  BY DEF StatisticsInv, TypeOK, StatisticsAssumption
<1>4. bare' \subseteq Addresses /\ contents' \in 0..MaxContents
  BY <1>1, <1>2, <1>3 DEF TypeOK, Free
<1>5. \A a \in Addresses : memory[a] # 0 => (a \in bare' <=> a \in bare)
  BY <1>1 DEF Free
<1> DEFINE c == [data |-> column[t].data, bits |-> b]
           values == [memory EXCEPT ![b] = contents + 1]
<1>6. column[t] \in Columns /\ c \in Columns
  BY <1>1, <1>2, <1>3 DEF TypeOK, Holds, Free, Columns
<1>7. [column EXCEPT ![t].bits = b] = [column EXCEPT ![t] = c]
  <2>1. [column[t] EXCEPT !.bits = b] = c
    BY <1>6 DEF Columns
  <2> QED BY <2>1
<1>8. /\ values \in [Addresses -> 0..MaxContents]
      /\ \A a \in Addresses : memory[a] # 0 => values[a] = memory[a]
      /\ values[b] # 0 /\ values[column[t].data] # 0
  <2>1. column[t].data \in Addresses /\ memory[column[t].data] # 0
    BY <1>2, ColumnTypes DEF StatisticsInv, Alive
  <2>2. b \in Addresses /\ memory[b] = 0
    BY <1>1 DEF Free
  <2> QED BY <1>2, <1>3, <2>1, <2>2 DEF TypeOK
<1>9. c.data = column[t].data /\ c.bits = b /\ Keep([column EXCEPT ![t] = c], values, record)
  BY <1>1, <1>7
<1> HIDE DEF c, values
<1> QED BY <1>2, <1>4, <1>5, <1>6, <1>8, <1>9, Replaced

LEMMA CopyStep ==
    ASSUME StatisticsInv, StatisticsAssumption, NEW t \in Threads, NEW u \in Threads, Copy(t, u)
    PROVE  StatisticsInv'
<1>1. /\ Holds(t) /\ ~Holds(u) /\ Keep([column EXCEPT ![u] = column[t]], memory, record)
      /\ UNCHANGED <<bare, doing, contents>>
  BY DEF Copy
<1>2. /\ doing[u] = "idle" /\ column[t] \in Columns \cup {NoColumn}
      /\ memory \in [Addresses -> 0..MaxContents]
      /\ bare' \subseteq Addresses /\ contents' \in 0..MaxContents
  BY <1>1 DEF StatisticsInv, TypeOK, Busy
<1>3. memory[column[t].data] # 0 /\ memory[column[t].bits] # 0
  BY <1>1 DEF StatisticsInv, Alive
<1> QED BY <1>1, <1>2, <1>3, Replaced

LEMMA DropStep ==
    ASSUME StatisticsInv, StatisticsAssumption, NEW t \in Threads, Drop(t)
    PROVE  StatisticsInv'
<1>1. /\ doing[t] = "idle" /\ Keep([column EXCEPT ![t] = NoColumn], memory, record)
      /\ UNCHANGED <<bare, doing, contents>>
  BY DEF Drop
<1>2. /\ memory \in [Addresses -> 0..MaxContents]
      /\ bare' \subseteq Addresses /\ contents' \in 0..MaxContents
  BY <1>1 DEF StatisticsInv, TypeOK
<1> QED BY <1>1, <1>2, Replaced

\* Rows appended in place: nobody else refers to the two buffers, so no record
\* pins the bitmap, and no record is left of the values.
LEMMA InPlace ==
    ASSUME StatisticsInv, StatisticsAssumption, NEW t \in Threads, Holds(t), doing[t] = "idle",
           Owned(column[t]),
           contents + 2 <= MaxContents, contents' = contents + 2, UNCHANGED doing,
           bare' \in {bare, bare \ {column[t].bits}},
           Keep(column, [memory EXCEPT ![column[t].data] = contents + 1,
                                       ![column[t].bits] = contents + 2],
                [record EXCEPT ![column[t].data] = NoRecord])
    PROVE  StatisticsInv'
<1> DEFINE d == column[t].data
           b == column[t].bits
           values == [memory EXCEPT ![d] = contents + 1, ![b] = contents + 2]
           records == [record EXCEPT ![d] = NoRecord]
<1>1. TypeOK /\ contents \in Nat /\ MaxContents \in Nat /\ contents' \in 0..MaxContents
  BY DEF StatisticsInv, TypeOK, StatisticsAssumption
<1>2. d \in Addresses /\ b \in Addresses
  BY ColumnTypes
<1>3. Count(d) = 1 /\ Count(b) = 1
  BY DEF Owned
<1>4. /\ \A u \in Threads : column[u].data = d => u = t
      /\ \A u \in Threads : column[u].data # b
      /\ \A a \in Addresses : record[a].pin # d /\ record[a].pin # b
  BY <1>2, <1>3, CountOne
<1>5. /\ values \in [Addresses -> 0..MaxContents]
      /\ \A a \in Addresses \ {d, b} : values[a] = memory[a]
      /\ \A a \in Addresses : memory[a] # 0 => values[a] # 0
  <2>1. contents + 1 \in 0..MaxContents /\ contents + 2 \in 0..MaxContents
    BY <1>1
  <2> QED BY <1>1, <1>2, <2>1 DEF TypeOK
<1>6. /\ records[d] = NoRecord
      /\ \A a \in Addresses \ {d} : records[a] = record[a]
  BY <1>1, <1>2 DEF TypeOK
<1>7. Keep(column, values, records)
  OBVIOUS
<1> HIDE DEF values, records, d, b
<1>8. /\ column' = column
      /\ record' = [a \in Addresses |-> record'[a]]
      /\ memory' = [a \in Addresses |-> memory'[a]]
      /\ \A a \in Addresses :
            /\ record'[a] = records[a] \/ record'[a] = NoRecord
            /\ record'[a] # NoRecord => \E u \in Threads : column[u].data = a
            /\ memory'[a] = values[a] \/ memory'[a] = 0
            /\ record'[a].pin \in Addresses =>
                  memory'[record'[a].pin] = values[record'[a].pin]
      /\ \A u \in Threads :
            /\ column[u].data \in Addresses =>
                  /\ record'[column[u].data] = records[column[u].data]
                  /\ memory'[column[u].data] = values[column[u].data]
            /\ column[u].bits \in Addresses =>
                  memory'[column[u].bits] = values[column[u].bits]
  BY <1>7, Left
<1>9. TypeOK'
  <2>1. NoRecord \in Records
    BY DEF NoRecord, Records, StatisticsAssumption, Null
  <2>2. \A a \in Addresses : record[a] \in Records
    BY <1>1 DEF TypeOK
  <2>3. record' \in [Addresses -> Records]
    BY <1>6, <1>8, <2>1, <2>2
  <2>4. memory' \in [Addresses -> 0..MaxContents]
    BY <1>5, <1>8 DEF StatisticsAssumption
  <2>5. bare' \subseteq Addresses
    BY <1>1 DEF TypeOK
  <2> QED BY <1>1, <1>8, <2>3, <2>4, <2>5 DEF TypeOK
<1>10. ASSUME NEW u \in Threads, Holds(u)'
       PROVE  memory'[column'[u].data] # 0 /\ memory'[column'[u].bits] # 0
  <2>1. Holds(u)
    BY <1>8, <1>10 DEF Holds
  <2>2. column[u].data \in Addresses /\ column[u].bits \in Addresses
    BY <2>1, ColumnTypes
  <2>3. memory[column[u].data] # 0 /\ memory[column[u].bits] # 0
    BY <2>1 DEF StatisticsInv, Alive
  <2> QED BY <1>5, <1>8, <2>2, <2>3
<1>11. ASSUME NEW a \in Addresses, record'[a] # NoRecord
       PROVE  /\ record'[a] = record[a]
              /\ memory'[a] = memory[a]
              /\ memory'[record[a].pin] = memory[record[a].pin]
              /\ record[a].pin \in bare' <=> record[a].pin \in bare
              /\ \E u \in Threads : Holds(u)' /\ column'[u].data = a
  <2>1. a # d /\ record'[a] = record[a] /\ record[a] # NoRecord
    BY <1>6, <1>8, <1>11
  <2>2. PICK u \in Threads : Holds(u) /\ column[u].data = a
    BY <2>1 DEF StatisticsInv, RecordsTrue, RecordTrue
  <2>3. a # b
    BY <1>4, <2>2
  <2>4. record[a].pin \in Addresses /\ record[a].pin \notin {d, b}
    BY <1>4, <2>1 DEF StatisticsInv, RecordsTrue, RecordTrue
  <2>5. memory'[a] = memory[a]
    BY <1>5, <1>8, <2>1, <2>2, <2>3
  <2>6. memory'[record[a].pin] = memory[record[a].pin]
    BY <1>5, <1>8, <2>1, <2>4
  <2>7. record[a].pin \in bare' <=> record[a].pin \in bare
    BY <2>4 DEF b
  <2> QED BY <1>8, <2>1, <2>2, <2>5, <2>6, <2>7 DEF Holds
<1>12. ASSUME NEW u \in Threads, doing[u] # "idle"
       PROVE  /\ column'[u] = column[u]
              /\ record'[column[u].data] = record[column[u].data]
  <2>1. Holds(u) /\ u # t
    BY <1>12 DEF StatisticsInv, Busy
  <2>2. column[u].data \in Addresses /\ column[u].data # d
    BY <1>4, <2>1, ColumnTypes
  <2> QED BY <1>6, <1>8, <2>2
<1> QED BY <1>9, <1>10, <1>11, <1>12, Changed

LEMMA AppendStep ==
    ASSUME StatisticsInv, StatisticsAssumption, NEW t \in Threads, AppendRows(t)
    PROVE  StatisticsInv'
<1>1. /\ Holds(t) /\ doing[t] = "idle" /\ contents + 2 <= MaxContents
      /\ contents' = contents + 2 /\ UNCHANGED doing
  BY DEF AppendRows
<1>2. PICK nulls \in BOOLEAN :
          \/ /\ Owned(column[t])
             /\ Keep(column, [memory EXCEPT ![column[t].data] = contents + 1,
                                            ![column[t].bits] = contents + 2],
                     [record EXCEPT ![column[t].data] = NoRecord])
             /\ bare' = IF nulls THEN bare \ {column[t].bits} ELSE bare
          \/ \E d, b \in Free :
                /\ d # b
                /\ Keep([column EXCEPT ![t] = [data |-> d, bits |-> b]],
                        [memory EXCEPT ![d] = contents + 1, ![b] = contents + 2], record)
                /\ bare' = IF nulls THEN bare \ {b} ELSE bare \union {b}
  <2>1. (IF column[t].bits \in bare THEN BOOLEAN ELSE {TRUE}) \subseteq BOOLEAN
    OBVIOUS
  <2> QED BY <2>1 DEF AppendRows
<1>3. CASE Owned(column[t]) /\ Keep(column, [memory EXCEPT ![column[t].data] = contents + 1,
                                                           ![column[t].bits] = contents + 2],
                                    [record EXCEPT ![column[t].data] = NoRecord])
           /\ bare' = IF nulls THEN bare \ {column[t].bits} ELSE bare
  <2>1. bare' \in {bare, bare \ {column[t].bits}}
    BY <1>3
  <2> QED BY <1>1, <1>3, <2>1, InPlace
<1>4. ASSUME NEW d \in Free, NEW b \in Free, d # b,
             Keep([column EXCEPT ![t] = [data |-> d, bits |-> b]],
                  [memory EXCEPT ![d] = contents + 1, ![b] = contents + 2], record),
             bare' = IF nulls THEN bare \ {b} ELSE bare \union {b}
      PROVE  StatisticsInv'
  <2>1. TypeOK
    BY DEF StatisticsInv
  <2>2. bare' \subseteq Addresses /\ contents' \in 0..MaxContents
    BY <1>1, <1>4, <2>1 DEF TypeOK, Free, StatisticsAssumption
  <2>3. \A a \in Addresses : memory[a] # 0 => (a \in bare' <=> a \in bare)
    BY <1>4 DEF Free
  <2> DEFINE c == [data |-> d, bits |-> b]
             values == [memory EXCEPT ![d] = contents + 1, ![b] = contents + 2]
  <2>4. /\ c \in Columns /\ values \in [Addresses -> 0..MaxContents]
        /\ \A a \in Addresses : memory[a] # 0 => values[a] = memory[a]
        /\ values[d] # 0 /\ values[b] # 0
    BY <1>1, <1>4, NewBuffers
  <2>5. c.data = d /\ c.bits = b /\ Keep([column EXCEPT ![t] = c], values, record)
    BY <1>4
  <2> HIDE DEF c, values
  <2> QED BY <1>1, <2>2, <2>3, <2>4, <2>5, Replaced
<1> QED BY <1>2, <1>3, <1>4

\* The first record published is of what the column's buffers hold now.
LEMMA PublishStep ==
    ASSUME StatisticsInv, StatisticsAssumption, NEW t \in Threads, Publish(t)
    PROVE  StatisticsInv'
<1>1. TypeOK
  BY DEF StatisticsInv
<1>2. /\ doing[t] = "measuring" /\ Holds(t)
      /\ doing' = [doing EXCEPT ![t] = "idle"]
      /\ UNCHANGED <<memory, bare, column, contents>>
  BY DEF Publish, StatisticsInv, Busy
<1> DEFINE d == column[t].data
           b == column[t].bits
<1>3. /\ d \in Addresses /\ b \in Addresses /\ memory[d] # 0 /\ memory[b] # 0
  BY <1>2, ColumnTypes DEF StatisticsInv, Alive
<1>4. \A u \in Threads : doing'[u] # "idle" => doing'[u] = doing[u]
  BY <1>1, <1>2 DEF TypeOK
<1>5. \A u \in Threads : Holds(u)' <=> Holds(u)
  BY <1>2 DEF Holds
<1>6. doing' \in [Threads -> {"idle", "measuring", "reading"}]
  BY <1>1, <1>2 DEF TypeOK
<1>7. CASE record[d] # NoRecord
  <2>1. record' = record
    BY <1>7 DEF Publish
  <2>2. TypeOK'
    BY <1>1, <1>2, <1>6, <2>1 DEF TypeOK
  <2>3. Alive' /\ RecordsTrue'
    BY <1>2, <1>5, <2>1 DEF StatisticsInv, Alive, RecordsTrue, RecordTrue
  <2>4. Busy'
    BY <1>2, <1>4, <1>5, <2>1 DEF StatisticsInv, Busy
  <2> QED BY <2>2, <2>3, <2>4 DEF StatisticsInv
<1>8. CASE record[d] = NoRecord
  <2> DEFINE r == Measured(column[t])
  <2>1. /\ r.values = memory[d] /\ r.pin = b
        /\ \/ r.validity = Null /\ r.bits = 0
           \/ r.validity = b /\ b \notin bare /\ r.bits = memory[b]
    BY DEF Measured, Validity
  <2>2. r \in Records
    BY <1>1, <1>3 DEF Measured, Validity, Records, TypeOK, Null, StatisticsAssumption
  <2>3. record' = [record EXCEPT ![d] = r]
    BY <1>8 DEF Publish
  <2> HIDE DEF r, d, b
  <2>4. /\ record'[d] = r /\ \A a \in Addresses \ {d} : record'[a] = record[a]
        /\ record' \in [Addresses -> Records]
    BY <1>1, <1>3, <2>2, <2>3 DEF TypeOK
  <2>5. r # NoRecord
    BY <1>3, <2>1 DEF NoRecord
  <2>6. TypeOK'
    BY <1>1, <1>2, <1>6, <2>4 DEF TypeOK
  <2>7. Alive'
    BY <1>2, <1>3, <1>5, <2>1, <2>4 DEF StatisticsInv, Alive
  <2>8. ASSUME NEW a \in Addresses, record'[a] # NoRecord
        PROVE  RecordTrue(a)'
    <3>1. CASE a = d
      BY <1>2, <1>3, <1>5, <2>1, <2>4, <3>1 DEF RecordTrue, d
    <3>2. CASE a # d
      <4>1. record'[a] = record[a] /\ RecordTrue(a)
        BY <2>4, <2>8, <3>2 DEF StatisticsInv, RecordsTrue
      <4> QED BY <1>2, <1>5, <4>1 DEF RecordTrue
    <3> QED BY <3>1, <3>2
  <2>9. Busy'
    <3> SUFFICES ASSUME NEW u \in Threads
                 PROVE  /\ doing'[u] # "idle" => Holds(u)'
                        /\ doing'[u] = "reading" => record'[column'[u].data] # NoRecord
      BY DEF Busy
    <3>1. doing'[u] # "idle" => Holds(u)'
      BY <1>4, <1>5 DEF StatisticsInv, Busy
    <3>2. doing'[u] = "reading" => record[column[u].data] # NoRecord
      BY <1>4 DEF StatisticsInv, Busy
    <3>3. doing'[u] # "idle" => column[u].data \in Addresses
      BY <1>5, <3>1, ColumnTypes
    <3> QED BY <1>2, <2>4, <2>5, <3>1, <3>2, <3>3
  <2> QED BY <2>6, <2>7, <2>8, <2>9 DEF StatisticsInv, RecordsTrue
<1> QED BY <1>7, <1>8

\* A thread that only changes what it is doing.
LEMMA TurnStep ==
    ASSUME StatisticsInv, NEW t \in Threads, Measure(t) \/ Load(t) \/ Take(t)
    PROVE  StatisticsInv'
<1>1. /\ UNCHANGED <<memory, bare, record, column, contents>>
      /\ \E there \in {"idle", "measuring", "reading"} :
            /\ doing' = [doing EXCEPT ![t] = there]
            /\ there # "idle" => Holds(t)
            /\ there = "reading" => record[column[t].data] # NoRecord
  BY DEF Measure, Load, Take
<1>2. PICK there \in {"idle", "measuring", "reading"} :
        /\ doing' = [doing EXCEPT ![t] = there]
        /\ there # "idle" => Holds(t)
        /\ there = "reading" => record[column[t].data] # NoRecord
  BY <1>1
<1>3. TypeOK'
  BY <1>1, <1>2 DEF StatisticsInv, TypeOK
<1>4. Alive' /\ RecordsTrue'
  BY <1>1 DEF StatisticsInv, Alive, RecordsTrue, RecordTrue, Holds
<1>5. Busy'
  <2>1. \A u \in Threads : doing'[u] = IF u = t THEN there ELSE doing[u]
    BY <1>2 DEF StatisticsInv, TypeOK
  <2> QED BY <1>1, <1>2, <2>1 DEF StatisticsInv, Busy, Holds
<1> QED BY <1>3, <1>4, <1>5 DEF StatisticsInv

LEMMA StatisticsInit == StatisticsAssumption /\ Init => StatisticsInv
<1> SUFFICES ASSUME StatisticsAssumption, Init PROVE StatisticsInv
  OBVIOUS
<1>1. TypeOK
  BY DEF StatisticsAssumption, Init, TypeOK, Records, NoRecord, Null
<1>2. Alive /\ RecordsTrue /\ Busy
  BY DEF Init, Alive, RecordsTrue, Busy, Holds
<1> QED BY <1>1, <1>2 DEF StatisticsInv

LEMMA StatisticsNext == StatisticsAssumption /\ StatisticsInv /\ [Next]_vars => StatisticsInv'
<1> SUFFICES ASSUME StatisticsAssumption, StatisticsInv, [Next]_vars PROVE StatisticsInv'
  OBVIOUS
<1>1. CASE UNCHANGED vars
  BY <1>1 DEF vars, StatisticsInv, TypeOK, Alive, RecordsTrue, RecordTrue, Busy, Holds
<1> QED BY <1>1, MakeStep, PairStep, CopyStep, DropStep, AppendStep, PublishStep, TurnStep
        DEF Next

LEMMA StatisticsFollow == StatisticsInv /\ StatisticsAssumption => StatisticsTrue
<1> SUFFICES ASSUME StatisticsInv, StatisticsAssumption, NEW t \in Threads, Holds(t)
             PROVE  LET c == column[t]
                        r == record[c.data]
                    IN /\ r # NoRecord /\ r.validity = Validity(c) =>
                             /\ r.values = memory[c.data]
                             /\ r.bits = IF c.bits \in bare THEN 0 ELSE memory[c.bits]
                       /\ doing[t] = "reading" => r # NoRecord
                       /\ memory[c.data] # 0 /\ memory[c.bits] # 0
  BY DEF StatisticsTrue
<1> DEFINE c == column[t]
           r == record[c.data]
<1>1. c.data \in Addresses /\ c.bits \in Addresses /\ c.bits # Null
  BY ColumnTypes DEF StatisticsAssumption
<1>2. r # NoRecord => RecordTrue(c.data)
  BY <1>1 DEF StatisticsInv, RecordsTrue
<1>3. r # NoRecord => r.pin # Null
  BY <1>2 DEF RecordTrue, StatisticsAssumption
<1>4. ASSUME r # NoRecord, r.validity = Validity(c)
      PROVE  /\ r.values = memory[c.data]
             /\ r.bits = IF c.bits \in bare THEN 0 ELSE memory[c.bits]
  BY <1>1, <1>2, <1>3, <1>4 DEF RecordTrue, Validity
<1>5. /\ doing[t] = "reading" => r # NoRecord
      /\ memory[c.data] # 0 /\ memory[c.bits] # 0
  BY DEF StatisticsInv, Busy, Alive
<1> QED BY <1>4, <1>5

-------------------------------------------------------------------------------
(* Residence.                                                              *)

(* Where the one thread is that has claimed the copy and not announced it. *)
Copying == {"copy", "filling", "fail", "store", "announce"}

ResidenceTypes ==
    /\ unified \in BOOLEAN /\ empty \in BOOLEAN
    /\ state \in Residence!States
    /\ host \in {"null", "device", "block"}
    /\ block \in {"none", "filling", "whole", "freed"}
    /\ copies \in 0..1 /\ releases \in 0..1
    /\ holders \subseteq Readers
    /\ at \in [Readers -> Residence!Places]
    /\ got \in [Readers -> {"none", "raised", "null", "device", "block"}]

(* One thread copies, exactly while the state says so; a thread that is    *)
(* about to fetch has seen "copied", which does not change any more.       *)
OneCopies ==
    /\ \A t, u \in Readers : at[t] \in Copying /\ at[u] \in Copying => t = u
    /\ (\E t \in Readers : at[t] \in Copying) <=> state = "copying"
    /\ \A t \in Readers : at[t] = "fetch" => state = "copied"

(* What there is of the copy, by where its maker is.                       *)
Progress(place) ==
    /\ place = "copy" => block = "none" /\ copies = 0 /\ host = "null"
    /\ place = "filling" => block = "filling" /\ copies = 1 /\ host = "null" /\ ~empty
    /\ place = "fail" => block = "freed" /\ host = "null" /\ ~empty
    /\ place = "store" => block = (IF empty THEN "none" ELSE "whole") /\ host = "null"
    /\ place = "announce" =>
          /\ block = IF empty THEN "none" ELSE "whole"
          /\ host = IF empty THEN "null" ELSE "block"

(* What there is of it otherwise, by the state.                            *)
CopyIsWhole ==
    /\ unified => state = "copied" /\ host = "device" /\ block = "none" /\ copies = 0
    /\ state = "not copied" => block = "none" /\ copies = 0 /\ host = "null"
    /\ \A t \in Readers : at[t] \in Copying => Progress(at[t])
    /\ ~unified /\ state = "copied" =>
          /\ host = IF empty THEN "null" ELSE "block"
          /\ block = IF empty THEN "none" ELSE IF holders = {} THEN "freed" ELSE "whole"
    /\ state = "failed" => block = "freed" /\ host = "null" /\ ~empty

(* Whoever is inside, or has an address, has a reference.                  *)
HeldWhileUsed ==
    /\ \A t \in Readers : at[t] # "idle" => t \in holders
    /\ \A t \in Readers : got[t] \in {"null", "device", "block"} =>
          state = "copied" /\ got[t] = host /\ t \in holders
    /\ releases = IF holders = {} THEN 1 ELSE 0

ResidenceInv == ResidenceTypes /\ OneCopies /\ CopyIsWhole /\ HeldWhileUsed

-----------------------------------------------------------------------------

LEMMA ResidenceInit == Residence!Init => ResidenceInv
<1> SUFFICES ASSUME Residence!Init PROVE ResidenceInv
  OBVIOUS
<1>1. \A t \in Readers : at[t] = "idle" /\ got[t] = "none"
  BY DEF Residence!Init
<1>2. ResidenceTypes
  <2>1. unified \in BOOLEAN /\ empty \in BOOLEAN
    BY Zenon DEF Residence!Init
  <2>2. /\ host \in {"null", "device", "block"}
        /\ state \in Residence!States
        /\ block \in {"none", "filling", "whole", "freed"}
    BY Zenon DEF Residence!Init, Residence!States
  <2>3. copies \in 0..1 /\ releases \in 0..1
    <3>1. copies = 0 /\ releases = 0
      BY Zenon DEF Residence!Init
    <3> QED
      BY <3>1
  <2>4. holders \subseteq Readers
    BY Zenon DEF Residence!Init
  <2>5. /\ at \in [Readers -> Residence!Places]
        /\ got \in [Readers -> {"none", "raised", "null", "device", "block"}]
    BY Zenon DEF Residence!Init, Residence!Places
  <2> QED
    BY <2>1, <2>2, <2>3, <2>4, <2>5 DEF ResidenceTypes
<1>3. OneCopies
  BY <1>1 DEF Residence!Init, OneCopies, Copying
<1>4. CopyIsWhole
  BY <1>1 DEF Residence!Init, CopyIsWhole, Copying
<1>5. HeldWhileUsed
  BY <1>1 DEF Residence!Init, HeldWhileUsed
<1> QED
  BY <1>2, <1>3, <1>4, <1>5 DEF ResidenceInv

\* A thread moves, and is the copy's maker after that if it was before.
LEMMA MakerStays ==
    ASSUME ResidenceInv, NEW t \in Readers, NEW place \in Residence!Places, at' = [at EXCEPT ![t] = place],
           state' = state, at[t] \in Copying <=> place \in Copying,
           place = "fetch" => state = "copied"
    PROVE  OneCopies'
<1>1. \A u \in Readers : at'[u] = IF u = t THEN place ELSE at[u]
  BY DEF ResidenceInv, ResidenceTypes
<1>2. \A u \in Readers : at'[u] \in Copying <=> at[u] \in Copying
  BY <1>1
<1>3. \A u \in Readers : at'[u] = "fetch" => state = "copied"
  BY <1>1 DEF ResidenceInv, OneCopies
<1> QED
  BY <1>2, <1>3 DEF ResidenceInv, OneCopies

\* It moves and makes nothing.
LEMMA CopyStays ==
    ASSUME ResidenceInv, NEW t \in Readers, NEW place, at' = [at EXCEPT ![t] = place],
           place \notin Copying,
           UNCHANGED <<unified, empty, state, host, block, copies, holders>>
    PROVE  CopyIsWhole'
<1>1. \A u \in Readers : at'[u] \in Copying => at[u] = at'[u]
  BY DEF ResidenceInv, ResidenceTypes
<1> QED
  BY <1>1 DEF ResidenceInv, CopyIsWhole, Progress

\* Sharing, dropping and beginning a read leave the copy as it is, but for
\* the last reference, which frees it.
LEMMA HolderSteps ==
    ASSUME ResidenceInv, NEW t \in Readers,
           Residence!Call(t) \/ Residence!Drop(t) \/ \E u \in Readers : Residence!Share(t, u)
    PROVE  ResidenceInv'
<1>1. CASE Residence!Call(t)
  <2> USE <1>1 DEF Residence!Call, Residence!Goto, Residence!Places
  <2>1. ResidenceTypes'
    BY DEF ResidenceInv, ResidenceTypes
  <2>2. OneCopies'
    BY DEF ResidenceInv, ResidenceTypes, OneCopies, Copying
  <2>3. CopyIsWhole'
    <3>1. /\ at' = [at EXCEPT ![t] = "look"]
          /\ UNCHANGED <<unified, empty, state, host, block, copies, holders>>
      OBVIOUS
    <3> QED
      BY <3>1, CopyStays DEF Copying
  <2>4. HeldWhileUsed'
    BY DEF ResidenceInv, ResidenceTypes, HeldWhileUsed
  <2> QED
    BY <2>1, <2>2, <2>3, <2>4 DEF ResidenceInv
<1>2. CASE Residence!Drop(t)
  <2> USE <1>2 DEF Residence!Drop
  <2>1. ResidenceTypes'
    BY DEF ResidenceInv, ResidenceTypes, HeldWhileUsed
  <2>2. OneCopies'
    BY DEF ResidenceInv, OneCopies
  <2>3. CopyIsWhole'
    <3>1. CASE holders = {t}
      <4>1. \A u \in Readers : at[u] = "idle"
        BY <3>1 DEF ResidenceInv, HeldWhileUsed
      <4>2. holders' = {}
        BY <3>1
      <4> QED
        BY <3>1, <4>1, <4>2 DEF ResidenceInv, ResidenceTypes, CopyIsWhole, Copying, Progress
    <3>2. CASE holders # {t}
      <4>1. holders' # {} /\ holders # {}
        BY <3>2
      <4> QED
        BY <3>2, <4>1 DEF ResidenceInv, CopyIsWhole, Copying, Progress
    <3> QED
      BY <3>1, <3>2
  <2>4. HeldWhileUsed'
    BY DEF ResidenceInv, ResidenceTypes, HeldWhileUsed
  <2> QED
    BY <2>1, <2>2, <2>3, <2>4 DEF ResidenceInv
<1>3. ASSUME NEW u \in Readers, Residence!Share(t, u)
      PROVE  ResidenceInv'
  <2> USE <1>3 DEF Residence!Share
  <2>0. holders # {} /\ holders' # {}
    OBVIOUS
  <2>1. ResidenceTypes'
    BY DEF ResidenceInv, ResidenceTypes
  <2>2. OneCopies'
    BY DEF ResidenceInv, ResidenceTypes, OneCopies, Copying
  <2>3. CopyIsWhole'
    BY <2>0 DEF ResidenceInv, CopyIsWhole, Copying, Progress
  <2>4. HeldWhileUsed'
    BY DEF ResidenceInv, ResidenceTypes, HeldWhileUsed
  <2> QED
    BY <2>1, <2>2, <2>3, <2>4 DEF ResidenceInv
<1> QED
  BY <1>1, <1>2, <1>3

\* The steps of host_address.
LEMMA ReaderSteps ==
    ASSUME ResidenceInv, NEW t \in Readers, Residence!Step(t)
    PROVE  ResidenceInv'
<1> USE DEF Residence!Goto, Residence!Answer, Residence!States, Residence!Places
<1>0. t \in holders \/ at[t] = "idle"
  BY DEF ResidenceInv, HeldWhileUsed
<1>9. at[t] \in Copying => ~unified /\ state = "copying"
  BY DEF ResidenceInv, OneCopies, CopyIsWhole
<1>1. CASE Residence!Look(t)
  <2> USE <1>1 DEF Residence!Look
  <2>1. ResidenceTypes'
    BY DEF ResidenceInv, ResidenceTypes
  <2>0. /\ UNCHANGED <<unified, empty, state, host, block, copies, releases, holders>>
        /\ at[t] = "look"
    OBVIOUS
  <2>5. PICK place \in {"fetch", "claim", "idle"} :
            /\ at' = [at EXCEPT ![t] = place]
            /\ place = "fetch" => state = "copied"
    OBVIOUS
  <2>2. OneCopies'
    BY <2>0, <2>5, MakerStays DEF Copying
  <2>3. CopyIsWhole'
    BY <2>0, <2>5, CopyStays DEF Copying
  <2>4. HeldWhileUsed'
    <3>1. \A u \in Readers : at'[u] # "idle" => at[u] # "idle"
      BY <2>0, <2>5 DEF ResidenceInv, ResidenceTypes
    <3>2. \A u \in Readers : got'[u] \in {got[u], "none", "raised"}
      BY DEF ResidenceInv, ResidenceTypes
    <3> HIDE DEF Residence!Look, Residence!Answer, Residence!Goto
    <3> QED
      BY <2>0, <3>1, <3>2 DEF ResidenceInv, HeldWhileUsed
  <2> QED
    BY <2>1, <2>2, <2>3, <2>4 DEF ResidenceInv
<1>2. CASE Residence!Fetch(t)
  <2> USE <1>2 DEF Residence!Fetch
  <2>1. ResidenceTypes'
    BY DEF ResidenceInv, ResidenceTypes
  <2>2. OneCopies'
    <3>1. at[t] = "fetch" /\ at' = [at EXCEPT ![t] = "idle"] /\ state' = state
      OBVIOUS
    <3> QED
      BY <3>1, MakerStays DEF Copying
  <2>3. CopyIsWhole'
    <3>1. /\ at' = [at EXCEPT ![t] = "idle"]
          /\ UNCHANGED <<unified, empty, state, host, block, copies, holders>>
      OBVIOUS
    <3> QED
      BY <3>1, CopyStays DEF Copying
  <2>4. HeldWhileUsed'
    BY <1>0 DEF ResidenceInv, ResidenceTypes, OneCopies, HeldWhileUsed
  <2> QED
    BY <2>1, <2>2, <2>3, <2>4 DEF ResidenceInv
<1>3. CASE Residence!Claim(t)
  <2> USE <1>3 DEF Residence!Claim
  <2>1. ResidenceTypes'
    BY DEF ResidenceInv, ResidenceTypes
  <2>2. OneCopies'
    <3>1. CASE state # "not copied"
      <4>1. at[t] = "claim" /\ at' = [at EXCEPT ![t] = "look"] /\ state' = state
        BY <3>1
      <4> QED
        BY <4>1, MakerStays DEF Copying
    <3>2. CASE state = "not copied"
      <4>1. at' = [at EXCEPT ![t] = "copy"] /\ state' = "copying"
        BY <3>2
      <4>2. \A u \in Readers : at[u] \notin Copying
        BY <3>2 DEF ResidenceInv, OneCopies
      <4>3. \A u \in Readers : at'[u] = IF u = t THEN "copy" ELSE at[u]
        BY <4>1 DEF ResidenceInv, ResidenceTypes
      <4>4. \A u \in Readers : at[u] # "fetch"
        BY <3>2 DEF ResidenceInv, OneCopies
      <4>5. "copy" \in Copying
        BY DEF Copying
      <4> HIDE DEF Residence!Claim
      <4> QED
        BY <4>1, <4>2, <4>3, <4>4, <4>5 DEF OneCopies
    <3> QED
      BY <3>1, <3>2
  <2>3. CopyIsWhole'
    <3>1. CASE state # "not copied"
      <4>1. /\ UNCHANGED <<unified, empty, state, host, block, copies, holders>>
            /\ at' = [at EXCEPT ![t] = "look"]
        BY <3>1
      <4> QED
        BY <4>1, CopyStays DEF Copying
    <3>2. CASE state = "not copied"
      <4>1. /\ UNCHANGED <<unified, empty, host, block, copies, holders>>
            /\ at' = [at EXCEPT ![t] = "copy"] /\ state' = "copying"
        BY <3>2
      <4>2. ~unified /\ block = "none" /\ copies = 0 /\ host = "null"
        BY <3>2 DEF ResidenceInv, CopyIsWhole
      <4>3. \A u \in Readers : at'[u] \in Copying => at'[u] = "copy"
        BY <3>2, <4>1 DEF ResidenceInv, ResidenceTypes, OneCopies
      <4> HIDE DEF Residence!Claim
      <4> QED
        BY <4>1, <4>2, <4>3 DEF CopyIsWhole, Progress
    <3> QED
      BY <3>1, <3>2
  <2>4. HeldWhileUsed'
    BY <1>0, <1>9 DEF ResidenceInv, ResidenceTypes, OneCopies, HeldWhileUsed, Copying, CopyIsWhole, Progress
  <2> QED
    BY <2>1, <2>2, <2>3, <2>4 DEF ResidenceInv
<1>4. CASE Residence!CopyBegin(t)
  <2> USE <1>4 DEF Residence!CopyBegin
  <2>1. ResidenceTypes'
    <3>1. /\ unified' \in BOOLEAN /\ empty' \in BOOLEAN
          /\ UNCHANGED <<state, host, releases, holders, got>>
      BY Zenon DEF ResidenceInv, ResidenceTypes
    <3>2. block' \in {"none", "filling", "whole", "freed"}
      BY Zenon DEF ResidenceInv, ResidenceTypes
    <3>3. copies' \in 0..1
      <4>1. copies = 0 /\ (copies' = copies \/ copies' = copies + 1)
        BY <1>0 DEF ResidenceInv, CopyIsWhole, Copying, Progress
      <4> QED
        BY <4>1
    <3>4. at' \in [Readers -> Residence!Places]
      BY DEF ResidenceInv, ResidenceTypes
    <3> QED
      BY <3>1, <3>2, <3>3, <3>4 DEF ResidenceInv, ResidenceTypes
  <2>2. OneCopies'
    <3>1. PICK place \in {"store", "filling"} : at' = [at EXCEPT ![t] = place]
      OBVIOUS
    <3>2. at[t] = "copy" /\ state' = state
      OBVIOUS
    <3> QED
      BY <3>1, <3>2, MakerStays DEF Copying
  <2>3. CopyIsWhole'
    BY <1>0, <1>9 DEF ResidenceInv, ResidenceTypes, OneCopies, CopyIsWhole, Copying, Progress
  <2>4. HeldWhileUsed'
    BY <1>0, <1>9 DEF ResidenceInv, ResidenceTypes, OneCopies, HeldWhileUsed, Copying, CopyIsWhole, Progress
  <2> QED
    BY <2>1, <2>2, <2>3, <2>4 DEF ResidenceInv
<1>5. CASE Residence!CopyEnd(t)
  <2> USE <1>5 DEF Residence!CopyEnd
  <2>1. ResidenceTypes'
    BY DEF ResidenceInv, ResidenceTypes
  <2>2. OneCopies'
    <3>1. PICK place \in {"store", "fail"} : at' = [at EXCEPT ![t] = place]
      OBVIOUS
    <3>2. at[t] = "filling" /\ state' = state
      OBVIOUS
    <3> QED
      BY <3>1, <3>2, MakerStays DEF Copying
  <2>3. CopyIsWhole'
    BY <1>0, <1>9 DEF ResidenceInv, ResidenceTypes, OneCopies, CopyIsWhole, Copying, Progress
  <2>4. HeldWhileUsed'
    BY <1>0, <1>9 DEF ResidenceInv, ResidenceTypes, OneCopies, HeldWhileUsed, Copying, CopyIsWhole, Progress
  <2> QED
    BY <2>1, <2>2, <2>3, <2>4 DEF ResidenceInv
<1>6. CASE Residence!Fail(t)
  <2> USE <1>6 DEF Residence!Fail
  <2>1. ResidenceTypes'
    BY DEF ResidenceInv, ResidenceTypes
  <2>2. OneCopies'
    <3>1. /\ at[t] = "fail" /\ state' = "failed"
          /\ at' = [at EXCEPT ![t] = "look"]
      OBVIOUS
    <3>2. \A u \in Readers : at'[u] \in Copying => u # t /\ at[u] \in Copying
      BY <3>1 DEF ResidenceInv, ResidenceTypes, Copying
    <3>3. \A u \in Readers : u # t => at[u] \notin Copying
      BY <3>1 DEF ResidenceInv, OneCopies, Copying
    <3>4. \A u \in Readers : at'[u] # "fetch"
      BY <1>9, <3>1 DEF ResidenceInv, ResidenceTypes, OneCopies, Copying
    <3> HIDE DEF Residence!Fail
    <3> QED
      BY <3>1, <3>2, <3>3, <3>4 DEF OneCopies
  <2>3. CopyIsWhole'
    BY <1>0, <1>9 DEF ResidenceInv, ResidenceTypes, OneCopies, CopyIsWhole, Copying, Progress
  <2>4. HeldWhileUsed'
    BY <1>0, <1>9 DEF ResidenceInv, ResidenceTypes, OneCopies, HeldWhileUsed, Copying, CopyIsWhole, Progress
  <2> QED
    BY <2>1, <2>2, <2>3, <2>4 DEF ResidenceInv
<1>7. CASE Residence!StoreHost(t)
  <2> USE <1>7 DEF Residence!StoreHost
  <2>1. ResidenceTypes'
    BY DEF ResidenceInv, ResidenceTypes
  <2>2. OneCopies'
    <3>1. at[t] = "store" /\ at' = [at EXCEPT ![t] = "announce"] /\ state' = state
      OBVIOUS
    <3> QED
      BY <3>1, MakerStays DEF Copying
  <2>3. CopyIsWhole'
    BY <1>0, <1>9 DEF ResidenceInv, ResidenceTypes, OneCopies, CopyIsWhole, Copying, Progress
  <2>4. HeldWhileUsed'
    BY <1>0, <1>9 DEF ResidenceInv, ResidenceTypes, OneCopies, HeldWhileUsed, Copying, CopyIsWhole, Progress
  <2> QED
    BY <2>1, <2>2, <2>3, <2>4 DEF ResidenceInv
<1>8. CASE Residence!Announce(t)
  <2> USE <1>8 DEF Residence!Announce
  <2>1. ResidenceTypes'
    BY DEF ResidenceInv, ResidenceTypes
  <2>2. OneCopies'
    BY DEF ResidenceInv, ResidenceTypes, OneCopies, Copying
  <2>3. CopyIsWhole'
    BY <1>0, <1>9 DEF ResidenceInv, ResidenceTypes, OneCopies, CopyIsWhole, Copying, Progress
  <2>4. HeldWhileUsed'
    BY <1>0, <1>9 DEF ResidenceInv, ResidenceTypes, OneCopies, HeldWhileUsed, Copying, CopyIsWhole, Progress
  <2> QED
    BY <2>1, <2>2, <2>3, <2>4 DEF ResidenceInv
<1> QED
  BY <1>1, <1>2, <1>3, <1>4, <1>5, <1>6, <1>7, <1>8 DEF Residence!Step

LEMMA ResidenceNext == ResidenceInv /\ [Residence!Next]_residence => ResidenceInv'
<1> SUFFICES ASSUME ResidenceInv, [Residence!Next]_residence PROVE ResidenceInv'
  OBVIOUS
<1>1. CASE Residence!Next
  BY <1>1, HolderSteps, ReaderSteps DEF Residence!Next
<1>2. CASE UNCHANGED residence
  <2>1. /\ UNCHANGED <<unified, empty, state, host, block, copies, releases, holders>>
        /\ UNCHANGED <<at, got>>
    BY <1>2 DEF residence
  <2>2. ResidenceTypes'
    BY <2>1 DEF ResidenceInv, ResidenceTypes
  <2>3. OneCopies'
    BY <2>1 DEF ResidenceInv, OneCopies
  <2>4. CopyIsWhole'
    BY <2>1 DEF ResidenceInv, CopyIsWhole, Progress
  <2>5. HeldWhileUsed'
    BY <2>1 DEF ResidenceInv, HeldWhileUsed
  <2> QED
    BY <2>2, <2>3, <2>4, <2>5 DEF ResidenceInv
<1> QED
  BY <1>1, <1>2

\* What it gives the readers.
LEMMA ResidenceFollows == ResidenceInv => Residence!OneWholeCopy
<1> SUFFICES ASSUME ResidenceInv PROVE Residence!OneWholeCopy
  OBVIOUS
<1>1. copies <= 1
  BY DEF ResidenceInv, ResidenceTypes
<1>2. \A t \in Readers : at[t] # "idle" => t \in holders
  BY DEF ResidenceInv, HeldWhileUsed
<1>3. \A t \in Readers : got[t] \in {"null", "device", "block"} =>
          /\ got[t] = "null" <=> empty /\ ~unified
          /\ got[t] = "block" => block = "whole"
          /\ releases = 0
  BY DEF ResidenceInv, ResidenceTypes, CopyIsWhole, HeldWhileUsed
<1>4. state = "failed" => block = "freed"
  BY DEF ResidenceInv, CopyIsWhole
<1>5. holders = {} => releases = 1 /\ block \in {"none", "freed"}
  <2> SUFFICES ASSUME holders = {} PROVE releases = 1 /\ block \in {"none", "freed"}
    OBVIOUS
  <2>1. \A t \in Readers : at[t] = "idle"
    BY DEF ResidenceInv, HeldWhileUsed
  <2>2. state # "copying"
    BY <2>1 DEF ResidenceInv, OneCopies, Copying
  <2> QED
    BY <2>2 DEF ResidenceInv, ResidenceTypes, Residence!States, CopyIsWhole, HeldWhileUsed
<1> QED
  BY <1>1, <1>2, <1>3, <1>4, <1>5 DEF Residence!OneWholeCopy

-------------------------------------------------------------------------------
(* Patterns.                                                               *)

\* The entries are the end of the history, as much of it as there is room for.
AreLatest ==
    /\ Len(entries) = IF Len(recent) < Capacity THEN Len(recent) ELSE Capacity
    /\ \A i \in 1..Len(entries) :
          entries[i].pattern = recent[Len(recent) - Len(entries) + i]

\* The history has a pattern once, and only patterns that compile.
UsedOnce ==
    /\ \A i, j \in 1..Len(recent) : recent[i] = recent[j] => i = j
    /\ \A i \in 1..Len(recent) : recent[i] \notin Invalid

\* What a caller is about to enter, and what it has returned, is its own
\* pattern's program.
OwnProgram ==
    \A c \in Threads :
        /\ phase[c] = "enter" =>
              result[c] \in Cache!Program /\ result[c].pattern = asked[c] /\ asked[c] \notin Invalid
        /\ phase[c] = "idle" /\ result[c] # Cache!NoProgram =>
              /\ result[c] = Cache!Failed <=> asked[c] \in Invalid
              /\ result[c] # Cache!Failed => result[c].pattern = asked[c]

CacheInv == Cache!TypeOK /\ AreLatest /\ UsedOnce /\ OwnProgram

\* A sequence without its place i.
LEMMA Without ==
    ASSUME NEW S, NEW s \in Seq(S), NEW i \in 1..Len(s)
    PROVE  /\ Cache!RemoveAt(s, i) \in Seq(S) /\ Len(Cache!RemoveAt(s, i)) = Len(s) - 1
           /\ \A j \in 1..Len(s) - 1 :
                 Cache!RemoveAt(s, i)[j] = IF j < i THEN s[j] ELSE s[j + 1]
<1> DEFINE t == Cache!RemoveAt(s, i)
           a == SubSeq(s, 1, i - 1)
           b == SubSeq(s, i + 1, Len(s))
<1>1. Len(s) \in Nat
  BY LenProperties
<1>2. /\ a \in Seq(S) /\ Len(a) = i - 1
      /\ \A j \in 1..i - 1 : a[j] = s[j]
  BY <1>1
<1>3. /\ b \in Seq(S) /\ Len(b) = Len(s) - i
      /\ \A j \in 1..Len(s) - i : b[j] = s[i + j]
  BY <1>1
<1> HIDE DEF a, b
<1>4. /\ a \o b \in Seq(S) /\ Len(a \o b) = Len(s) - 1
      /\ \A j \in 1..Len(s) - 1 : (a \o b)[j] = IF j <= i - 1 THEN a[j] ELSE b[j - (i - 1)]
  <2>1. /\ a \o b \in Seq(S) /\ Len(a \o b) = Len(a) + Len(b)
        /\ \A j \in 1..Len(a) + Len(b) :
              (a \o b)[j] = IF j <= Len(a) THEN a[j] ELSE b[j - Len(a)]
    BY <1>2, <1>3, ConcatProperties
  <2>2. Len(a) = i - 1 /\ Len(a) + Len(b) = Len(s) - 1
    BY <1>1, <1>2, <1>3
  <2> QED BY <2>1, <2>2
<1>5. \A j \in 1..Len(s) - 1 : j >= i => b[j - (i - 1)] = s[j + 1]
  <2> SUFFICES ASSUME NEW j \in 1..Len(s) - 1, j >= i PROVE b[j - (i - 1)] = s[j + 1]
    OBVIOUS
  <2>1. j - (i - 1) \in 1..Len(s) - i /\ i + (j - (i - 1)) = j + 1
    BY <1>1
  <2> QED BY <1>3, <2>1
<1>6. t = a \o b
  BY DEF a, b, Cache!RemoveAt
<1> HIDE DEF t
<1>7. ASSUME NEW j \in 1..Len(s) - 1
      PROVE  t[j] = IF j < i THEN s[j] ELSE s[j + 1]
  <2>1. CASE j < i
    <3>1. j \in 1..i - 1 /\ j <= i - 1
      BY <1>1, <2>1
    <3> QED BY <1>2, <1>4, <1>6, <2>1, <3>1
  <2>2. CASE ~(j < i)
    <3>1. ~(j <= i - 1) /\ j >= i
      BY <1>1, <2>2
    <3> QED BY <1>4, <1>5, <1>6, <2>2, <3>1
  <2> QED BY <2>1, <2>2
<1> QED BY <1>4, <1>6, <1>7 DEF t

\* Its place i is moved to the end.
Moved(s, i) == Append(Cache!RemoveAt(s, i), s[i])

LEMMA MovedLast ==
    ASSUME NEW S, NEW s \in Seq(S), NEW i \in 1..Len(s)
    PROVE  /\ Moved(s, i) \in Seq(S) /\ Len(Moved(s, i)) = Len(s)
           /\ \A j \in 1..Len(s) - 1 : Moved(s, i)[j] = IF j < i THEN s[j] ELSE s[j + 1]
           /\ Moved(s, i)[Len(s)] = s[i]
<1> DEFINE r == Cache!RemoveAt(s, i)
<1>1. /\ r \in Seq(S) /\ Len(r) = Len(s) - 1
      /\ \A j \in 1..Len(s) - 1 : r[j] = IF j < i THEN s[j] ELSE s[j + 1]
  BY Without
<1>3. s[i] \in S /\ Len(s) \in Nat
  BY LenProperties, ElementOfSeq
<1> HIDE DEF r
<1>4. /\ Append(r, s[i]) \in Seq(S) /\ Len(Append(r, s[i])) = Len(s)
      /\ \A j \in 1..Len(s) - 1 : Append(r, s[i])[j] = IF j < i THEN s[j] ELSE s[j + 1]
      /\ Append(r, s[i])[Len(s)] = s[i]
  BY <1>1, <1>3, AppendProperties
<1> QED BY <1>4 DEF r, Moved

\* `_lookup` finds the one entry of a pattern.
LEMMA EntryFound ==
    ASSUME NEW p, entries \in Seq(Cache!Program), NEW e \in 1..Len(entries),
           entries[e].pattern = p,
           \A i \in 1..Len(entries) : entries[i].pattern = p => i = e
    PROVE  Cache!EntryOf(p) = e
<1>1. {i \in 1..Len(entries) : entries[i].pattern = p} = {e}
  OBVIOUS
<1>2. (CHOOSE x \in {e} : \A y \in {e} : x >= y) = e
  BY LenProperties
<1> QED BY <1>1, <1>2 DEF Cache!EntryOf, Cache!SelectLastInSeq, Cache!Max

\* A first use of a pattern, and another one: it moves to the end.
LEMMA UsedFirst ==
    ASSUME NEW p, \A i \in 1..Len(recent) : recent[i] # p, Cache!Used(p)
    PROVE  recent' = Append(recent, p)
BY DEF Cache!Used, Cache!RemoveFirst

LEMMA UsedAgain ==
    ASSUME recent \in Seq(Patterns), UsedOnce, NEW k \in 1..Len(recent), Cache!Used(recent[k])
    PROVE  /\ recent' \in Seq(Patterns) /\ Len(recent') = Len(recent)
           /\ \A j \in 1..Len(recent) - 1 :
                 recent'[j] = IF j < k THEN recent[j] ELSE recent[j + 1]
           /\ recent'[Len(recent)] = recent[k]
<1>1. {i \in 1..Len(recent) : recent[i] = recent[k]} = {k}
  BY DEF UsedOnce
<1>2. (CHOOSE x \in {k} : \A y \in {k} : x <= y) = k
  BY LenProperties
<1>3. Cache!RemoveFirst(recent, recent[k]) = Cache!RemoveAt(recent, k)
  <2>1. Cache!SelectInSeq(recent, LAMBDA v : v = recent[k]) = k
    BY <1>1, <1>2 DEF Cache!SelectInSeq, Cache!Min
  <2> QED BY <2>1 DEF Cache!RemoveFirst
<1>4. recent' = Moved(recent, k)
  BY <1>3 DEF Cache!Used, Moved
<1> QED BY <1>4, MovedLast

\* The same for the entries: a hit moves to the end.
LEMMA TouchedLast ==
    ASSUME entries \in Seq(Cache!Program), NEW e \in 1..Len(entries),
           \A i \in 1..Len(entries) : entries[i].pattern = entries[e].pattern => i = e
    PROVE  /\ Cache!EntryOf(entries[e].pattern) = e
           /\ Cache!Touched(entries[e].pattern) = Moved(entries, e)
BY EntryFound DEF Cache!Touched, Moved

LEMMA MovedEntries ==
    ASSUME entries \in Seq(Cache!Program), NEW e \in 1..Len(entries)
    PROVE  /\ Moved(entries, e) \in Seq(Cache!Program)
           /\ Len(Moved(entries, e)) = Len(entries)
           /\ \A j \in 1..Len(entries) - 1 :
                 Moved(entries, e)[j] = IF j < e THEN entries[j] ELSE entries[j + 1]
           /\ Moved(entries, e)[Len(entries)] = entries[e]
BY MovedLast

\* An entry is in the history as far from its end as in the cache.
LEMMA PlaceInHistory ==
    ASSUME CacheInv, Cache!CacheAssumption
    PROVE  /\ Len(entries) \in Nat /\ Len(recent) \in Nat /\ Len(entries) <= Len(recent)
           /\ Len(entries) < Capacity => Len(entries) = Len(recent)
           /\ Len(recent) < Capacity => Len(entries) = Len(recent)
           /\ Capacity <= Len(recent) => Len(entries) = Capacity
           /\ \A i \in 1..Len(entries) : Len(recent) - Len(entries) + i \in 1..Len(recent)
           /\ \A i, j \in 1..Len(entries) : entries[i].pattern = entries[j].pattern => i = j
<1>1. Len(entries) \in Nat /\ Len(recent) \in Nat
  BY LenProperties DEF CacheInv, Cache!TypeOK
<1>2. Len(entries) = IF Len(recent) < Capacity THEN Len(recent) ELSE Capacity
  BY DEF CacheInv, AreLatest
<1>3. \A i \in 1..Len(entries) : Len(recent) - Len(entries) + i \in 1..Len(recent)
  BY <1>1, <1>2 DEF Cache!CacheAssumption
<1>4. \A i, j \in 1..Len(entries) : entries[i].pattern = entries[j].pattern => i = j
  <2> SUFFICES ASSUME NEW i \in 1..Len(entries), NEW j \in 1..Len(entries),
                      entries[i].pattern = entries[j].pattern
               PROVE  i = j
    OBVIOUS
  <2>1. Len(recent) - Len(entries) + i = Len(recent) - Len(entries) + j
    BY <1>3 DEF CacheInv, AreLatest, UsedOnce
  <2> QED BY <1>1, <2>1
<1> QED BY <1>1, <1>2, <1>3, <1>4 DEF Cache!CacheAssumption

\* A hit: the pattern moves to the end of both.
LEMMA Hit ==
    ASSUME CacheInv, Cache!CacheAssumption, NEW p, Cache!Cached(p),
           entries' = Cache!Touched(p), Cache!Used(p)
    PROVE  /\ AreLatest' /\ UsedOnce' /\ p \notin Invalid
           /\ entries' \in Seq(Cache!Program) /\ Len(entries') = Len(entries)
           /\ recent' \in Seq(Patterns)
           /\ entries[Cache!EntryOf(p)] \in Cache!Program
           /\ entries[Cache!EntryOf(p)].pattern = p
<1> DEFINE n == Len(recent)
           k == Len(entries)
<1>1. PICK e \in 1..k : entries[e].pattern = p
  BY LenProperties DEF CacheInv, Cache!TypeOK, Cache!Cached
<1>2. entries \in Seq(Cache!Program) /\ recent \in Seq(Patterns)
  BY DEF CacheInv, Cache!TypeOK
<1>3. entries[e] \in Cache!Program
  BY <1>2, ElementOfSeq
<1>4. Cache!EntryOf(p) = e /\ entries' = Moved(entries, e)
  BY <1>1, <1>2, PlaceInHistory, TouchedLast
<1>5. /\ entries' \in Seq(Cache!Program) /\ Len(entries') = k
      /\ \A j \in 1..k - 1 : entries'[j] = IF j < e THEN entries[j] ELSE entries[j + 1]
      /\ entries'[k] = entries[e]
  BY <1>2, <1>4, MovedEntries
<1>6. /\ k \in Nat /\ n \in Nat /\ k <= n
      /\ n - k + e \in 1..n
  BY PlaceInHistory
<1>7. recent[n - k + e] = p
  BY <1>1 DEF CacheInv, AreLatest
<1>8. /\ recent' \in Seq(Patterns) /\ Len(recent') = n
      /\ \A j \in 1..n - 1 :
            recent'[j] = IF j < n - k + e THEN recent[j] ELSE recent[j + 1]
      /\ recent'[n] = p
  BY <1>2, <1>6, <1>7, UsedAgain DEF CacheInv
<1>9. AreLatest'
  <2>1. ASSUME NEW i \in 1..k
        PROVE  entries'[i].pattern = recent'[n - k + i]
    <3>1. CASE i = k
      BY <1>1, <1>5, <1>6, <1>8, <3>1
    <3>2. CASE i < e
      <4>1. i \in 1..k - 1 /\ n - k + i \in 1..n - 1 /\ n - k + i < n - k + e
        BY <1>6, <3>2
      <4>2. entries'[i] = entries[i] /\ recent'[n - k + i] = recent[n - k + i]
        BY <1>5, <1>8, <3>2, <4>1
      <4> QED BY <4>2 DEF CacheInv, AreLatest
    <3>3. CASE e <= i /\ i < k
      <4>1. /\ i \in 1..k - 1 /\ n - k + i \in 1..n - 1 /\ i + 1 \in 1..k
            /\ ~(n - k + i < n - k + e) /\ ~(i < e)
            /\ n - k + (i + 1) = (n - k + i) + 1
        BY <1>6, <3>3
      <4>2. entries'[i] = entries[i + 1] /\ recent'[n - k + i] = recent[(n - k + i) + 1]
        BY <1>5, <1>8, <4>1
      <4>3. entries[i + 1].pattern = recent[n - k + (i + 1)]
        BY <4>1 DEF CacheInv, AreLatest
      <4> QED BY <4>1, <4>2, <4>3
    <3> QED BY <1>6, <3>1, <3>2, <3>3
  <2>2. Len(entries') = IF Len(recent') < Capacity THEN Len(recent') ELSE Capacity
    BY <1>5, <1>8 DEF CacheInv, AreLatest
  <2> QED BY <1>5, <1>8, <2>1, <2>2 DEF AreLatest
<1>10. UsedOnce' /\ p \notin Invalid
  <2> DEFINE cut == n - k + e
             from(j) == IF j = n THEN cut ELSE IF j < cut THEN j ELSE j + 1
  <2>1. /\ cut \in 1..n /\ n \in Nat /\ recent[cut] = p
        /\ \A j \in 1..n - 1 : recent'[j] = IF j < cut THEN recent[j] ELSE recent[j + 1]
    BY <1>6, <1>7, <1>8
  <2> HIDE DEF cut, n
  <2>2. ASSUME NEW j \in 1..n
        PROVE  from(j) \in 1..n /\ recent'[j] = recent[from(j)]
    <3>1. CASE j = n
      BY <1>8, <2>1, <3>1
    <3>2. CASE j # n
      <4>1. j \in 1..n - 1
        BY <2>1, <3>2
      <4> QED BY <2>1, <3>2, <4>1
    <3> QED BY <3>1, <3>2
  <2>3. \A i, j \in 1..n : from(i) = from(j) => i = j
    BY <2>1
  <2> HIDE DEF from
  <2>4. /\ \A i, j \in 1..n : recent[i] = recent[j] => i = j
        /\ \A i \in 1..n : recent[i] \notin Invalid
    BY DEF CacheInv, UsedOnce, n
  <2>5. /\ \A i, j \in 1..n : recent'[i] = recent'[j] => i = j
        /\ \A i \in 1..n : recent'[i] \notin Invalid
    BY <2>2, <2>3, <2>4
  <2> QED BY <1>8, <2>1, <2>4, <2>5 DEF UsedOnce
<1> QED BY <1>1, <1>3, <1>4, <1>5, <1>8, <1>9, <1>10

\* A miss: the program is the last entry, in the oldest one's place when the
\* cache is full.
LEMMA Miss ==
    ASSUME CacheInv, Cache!CacheAssumption, NEW p \in Patterns, ~Cache!Cached(p), p \notin Invalid,
           NEW program \in Cache!Program, program.pattern = p,
           entries' = Append(IF Len(entries) = Capacity THEN Tail(entries) ELSE entries, program),
           Cache!Used(p)
    PROVE  /\ AreLatest' /\ UsedOnce'
           /\ entries' \in Seq(Cache!Program) /\ Len(entries') <= Capacity
           /\ recent' \in Seq(Patterns)
<1> DEFINE n == Len(recent)
           k == Len(entries)
           kept == IF k = Capacity THEN Tail(entries) ELSE entries
           drop == IF k = Capacity THEN 1 ELSE 0
<1>1. entries \in Seq(Cache!Program) /\ recent \in Seq(Patterns)
  BY DEF CacheInv, Cache!TypeOK
<1>2. /\ k \in Nat /\ n \in Nat /\ k <= n /\ k <= Capacity /\ Capacity \in Nat \ {0}
      /\ k < Capacity => k = n
      /\ \A i \in 1..k : entries[i].pattern = recent[n - k + i]
  BY PlaceInHistory DEF CacheInv, AreLatest, Cache!TypeOK, Cache!CacheAssumption
<1>3. /\ kept \in Seq(Cache!Program) /\ Len(kept) = k - drop
      /\ \A i \in 1..k - drop : kept[i] = entries[i + drop]
  <2>1. CASE k = Capacity
    <3>1. entries # <<>>
      BY <1>2, <2>1
    <3>2. /\ Tail(entries) \in Seq(Cache!Program) /\ Len(Tail(entries)) = k - 1
          /\ \A i \in 1..k - 1 : Tail(entries)[i] = entries[i + 1]
      BY <1>1, <3>1, HeadTailProperties
    <3> QED BY <2>1, <3>2
  <2>2. CASE k # Capacity
    BY <1>1, <1>2, <2>2
  <2> QED BY <2>1, <2>2
<1>4. /\ entries' \in Seq(Cache!Program) /\ Len(entries') = k - drop + 1
      /\ \A i \in 1..k - drop : entries'[i] = entries[i + drop]
      /\ entries'[k - drop + 1] = program
  BY <1>2, <1>3, AppendProperties
<1>5. \A i \in 1..k : recent[n - k + i] # p
  BY <1>1, <1>2, LenProperties DEF Cache!Cached
<1>6. CASE \A i \in 1..n : recent[i] # p
  <2>1. recent' = Append(recent, p)
    BY <1>6, UsedFirst
  <2>2. /\ recent' \in Seq(Patterns) /\ Len(recent') = n + 1
        /\ \A i \in 1..n : recent'[i] = recent[i]
        /\ recent'[n + 1] = p
    BY <1>1, <2>1, AppendProperties
  <2>3. Len(entries') = IF n + 1 < Capacity THEN n + 1 ELSE Capacity
    BY <1>2, <1>4
  <2>4. ASSUME NEW i \in 1..k - drop + 1
        PROVE  entries'[i].pattern = recent'[(n + 1) - (k - drop + 1) + i]
    <3>1. CASE i = k - drop + 1
      BY <1>2, <1>4, <2>2, <3>1
    <3>2. CASE i # k - drop + 1
      <4>1. /\ i \in 1..k - drop /\ i + drop \in 1..k
            /\ n - k + (i + drop) \in 1..n
            /\ (n + 1) - (k - drop + 1) + i = n - k + (i + drop)
        <5>1. drop \in 0..1 /\ k - drop \in Nat /\ k \in Nat /\ n \in Nat /\ k <= n
          BY <1>2
        <5> HIDE DEF drop, k, n
        <5> QED BY <3>2, <5>1
      <4> QED BY <1>2, <1>4, <2>2, <4>1
    <3> QED BY <3>1, <3>2
  <2>5. AreLatest'
    BY <1>4, <2>2, <2>3, <2>4 DEF AreLatest
  <2>6. UsedOnce'
    <3>1. /\ \A i, j \in 1..n : recent[i] = recent[j] => i = j
          /\ \A i \in 1..n : recent[i] \notin Invalid
      BY DEF CacheInv, UsedOnce
    <3>2. \A i \in 1..n + 1 : i = n + 1 \/ i \in 1..n
      BY <1>2
    <3> HIDE DEF n
    <3>3. /\ \A i, j \in 1..n + 1 : recent'[i] = recent'[j] => i = j
          /\ \A i \in 1..n + 1 : recent'[i] \notin Invalid
      BY <1>6, <2>2, <3>1, <3>2
    <3> QED BY <2>2, <3>3 DEF UsedOnce
  <2> QED BY <1>2, <1>4, <2>2, <2>5, <2>6
<1>7. CASE \E i \in 1..n : recent[i] = p
  <2>1. PICK q \in 1..n : recent[q] = p
    BY <1>7
  <2>2. q <= n - k /\ k = Capacity
    <3>1. ASSUME q > n - k PROVE FALSE
      <4>1. q - (n - k) \in 1..k /\ n - k + (q - (n - k)) = q
        BY <1>2, <3>1
      <4> QED BY <1>5, <2>1, <4>1
    <3> QED BY <1>2, <3>1
  <2>3. /\ recent' \in Seq(Patterns) /\ Len(recent') = n
        /\ \A j \in 1..n - 1 : recent'[j] = IF j < q THEN recent[j] ELSE recent[j + 1]
        /\ recent'[n] = p
    BY <1>1, <2>1, UsedAgain DEF CacheInv
  <2>4. Len(entries') = IF n < Capacity THEN n ELSE Capacity
    BY <1>2, <1>4, <2>2
  <2>5. ASSUME NEW i \in 1..k
        PROVE  entries'[i].pattern = recent'[n - k + i]
    <3>1. CASE i = k
      BY <1>2, <1>4, <2>2, <2>3, <3>1
    <3>2. CASE i # k
      <4>1. /\ i \in 1..k - drop /\ i + drop \in 1..k
            /\ n - k + i \in 1..n - 1 /\ ~(n - k + i < q)
            /\ (n - k + i) + 1 = n - k + (i + drop)
        BY <1>2, <2>2, <3>2
      <4>2. recent'[n - k + i] = recent[n - k + (i + drop)]
        BY <2>3, <4>1
      <4> QED BY <1>2, <1>4, <4>1, <4>2
    <3> QED BY <3>1, <3>2
  <2>6. AreLatest'
    BY <1>2, <1>4, <2>2, <2>3, <2>4, <2>5 DEF AreLatest
  <2>7. UsedOnce'
    <3>1. /\ \A i, j \in 1..n : recent[i] = recent[j] => i = j
          /\ \A i \in 1..n : recent[i] \notin Invalid
      BY DEF CacheInv, UsedOnce
    <3> DEFINE from(j) == IF j = n THEN q ELSE IF j < q THEN j ELSE j + 1
    <3>2. n \in Nat
      BY <1>2
    <3> HIDE DEF n
    <3>3. ASSUME NEW j \in 1..n
          PROVE  from(j) \in 1..n /\ recent'[j] = recent[from(j)]
      <4>1. CASE j = n
        BY <2>1, <2>3, <3>2, <4>1
      <4>2. CASE j # n
        <5>1. j \in 1..n - 1
          BY <3>2, <4>2
        <5> QED BY <2>3, <3>2, <4>2, <5>1
      <4> QED BY <4>1, <4>2
    <3>4. \A i, j \in 1..n : from(i) = from(j) => i = j
      BY <3>2
    <3> HIDE DEF from
    <3>5. /\ \A i, j \in 1..n : recent'[i] = recent'[j] => i = j
          /\ \A i \in 1..n : recent'[i] \notin Invalid
      BY <3>1, <3>3, <3>4
    <3> QED BY <2>3, <3>5 DEF UsedOnce
  <2> QED BY <1>2, <1>4, <2>2, <2>3, <2>6, <2>7
<1> QED BY <1>6, <1>7

\* A caller moves; who does not enter or return owes nothing.
LEMMA CallerStep ==
    ASSUME CacheInv, Cache!CacheAssumption, NEW c \in Threads,
           (\E p \in Patterns : Cache!Call(c, p)) \/ Cache!Look(c) \/ Cache!Compile(c)
               \/ Cache!Enter(c)
    PROVE  CacheInv'
<1>0. /\ asked[c] \in Patterns /\ made \in Nat
      /\ phase \in [Threads -> {"idle", "look", "compile", "enter"}]
      /\ result \in [Threads -> Cache!Program \cup {Cache!NoProgram, Cache!Failed}]
  BY DEF CacheInv, Cache!TypeOK
<1>1. ASSUME NEW p \in Patterns, Cache!Call(c, p)
      PROVE  CacheInv'
  <2> USE <1>1 DEF Cache!Call, Cache!Goto
  <2>1. Cache!TypeOK'
    BY DEF CacheInv, Cache!TypeOK, Cache!CacheAssumption, Cache!Program
  <2>2. AreLatest' /\ UsedOnce'
    BY DEF CacheInv, AreLatest, UsedOnce
  <2>3. OwnProgram'
    BY <1>0 DEF CacheInv, Cache!TypeOK, OwnProgram, Cache!Program
  <2> QED BY <2>1, <2>2, <2>3 DEF CacheInv
<1>2. ASSUME NEW program \in Cache!Program, program.pattern = asked[c], asked[c] \notin Invalid,
             Cache!Return(c, program), AreLatest', UsedOnce',
             entries' \in Seq(Cache!Program), Len(entries') <= Capacity,
             recent' \in Seq(Patterns), UNCHANGED <<ready, made, asked, calls>>
      PROVE  CacheInv'
  <2>1. Cache!TypeOK'
    BY <1>2 DEF CacheInv, Cache!TypeOK, Cache!Return, Cache!Goto, Cache!Program
  <2>2. OwnProgram'
    <3>1. program # Cache!Failed /\ program # Cache!NoProgram
      BY <1>2 DEF Cache!Program, Cache!Failed, Cache!NoProgram
    <3> QED BY <1>0, <1>2, <3>1 DEF CacheInv, OwnProgram, Cache!Return, Cache!Goto, Cache!Program
  <2> QED BY <1>2, <2>1, <2>2 DEF CacheInv
<1>3. CASE Cache!Look(c)
  <2>1. CASE Cache!Cached(asked[c])
    <3>1. /\ Cache!Return(c, entries[Cache!EntryOf(asked[c])])
          /\ entries' = Cache!Touched(asked[c]) /\ Cache!Used(asked[c])
          /\ UNCHANGED <<ready, made, asked, calls>>
      BY <1>3, <2>1 DEF Cache!Look
    <3>2. Len(entries) <= Capacity
      BY DEF CacheInv, Cache!TypeOK
    <3> QED BY <1>2, <2>1, <3>1, <3>2, Hit
  <2>2. CASE ~Cache!Cached(asked[c])
    <3>1. /\ phase' = [phase EXCEPT ![c] = "compile"]
          /\ UNCHANGED <<ready, entries, made, asked, result, calls, recent>>
      BY <1>3, <2>2 DEF Cache!Look, Cache!Goto
    <3>2. Cache!TypeOK' /\ AreLatest' /\ UsedOnce'
      BY <3>1 DEF CacheInv, Cache!TypeOK, Cache!Program, AreLatest, UsedOnce
    <3>3. OwnProgram'
      BY <1>0, <3>1 DEF CacheInv, OwnProgram, Cache!Program
    <3> QED BY <3>2, <3>3 DEF CacheInv
  <2> QED BY <2>1, <2>2
<1>4. CASE Cache!Compile(c)
  <2>1. UNCHANGED <<ready, entries, asked, calls, recent>>
    BY <1>4 DEF Cache!Compile
  <2>2. AreLatest' /\ UsedOnce'
    BY <2>1 DEF CacheInv, AreLatest, UsedOnce
  <2>3. CASE asked[c] \in Invalid
    <3>1. /\ result' = [result EXCEPT ![c] = Cache!Failed]
          /\ phase' = [phase EXCEPT ![c] = "idle"] /\ made' = made
      BY <1>4, <2>3 DEF Cache!Compile, Cache!Return, Cache!Goto
    <3>2. Cache!TypeOK'
      BY <1>0, <2>1, <3>1 DEF CacheInv, Cache!TypeOK, Cache!Program
    <3>3. OwnProgram'
      BY <1>0, <2>1, <2>3, <3>1 DEF CacheInv, OwnProgram, Cache!Program
    <3> QED BY <2>2, <3>2, <3>3 DEF CacheInv
  <2>4. CASE asked[c] \notin Invalid
    <3> DEFINE program == [pattern |-> asked[c], number |-> made + 1]
    <3>1. /\ program \in Cache!Program /\ program.pattern = asked[c]
          /\ program # Cache!Failed /\ program # Cache!NoProgram
      BY <1>0 DEF Cache!Program, Cache!Failed, Cache!NoProgram
    <3>2. PICK there \in {"enter", "idle"} : phase' = [phase EXCEPT ![c] = there]
      BY <1>4, <2>4 DEF Cache!Compile, Cache!Goto
    <3>3. result' = [result EXCEPT ![c] = program] /\ made' = made + 1
      BY <1>4, <2>4 DEF Cache!Compile
    <3> HIDE DEF program
    <3>4. Cache!TypeOK'
      BY <1>0, <2>1, <3>1, <3>2, <3>3 DEF CacheInv, Cache!TypeOK, Cache!Program
    <3>5. OwnProgram'
      BY <1>0, <2>1, <2>4, <3>1, <3>2, <3>3 DEF CacheInv, OwnProgram, Cache!Program
    <3> QED BY <2>2, <3>4, <3>5 DEF CacheInv
  <2> QED BY <2>3, <2>4
<1>5. CASE Cache!Enter(c)
  <2>0. /\ Cache!Used(asked[c]) /\ UNCHANGED <<ready, made, asked, calls>>
        /\ result[c] \in Cache!Program /\ result[c].pattern = asked[c] /\ asked[c] \notin Invalid
        /\ Len(entries) <= Capacity
    BY <1>5 DEF Cache!Enter, CacheInv, OwnProgram, Cache!TypeOK
  <2>1. CASE Cache!Cached(asked[c])
    <3>1. /\ Cache!Return(c, entries[Cache!EntryOf(asked[c])])
          /\ entries' = Cache!Touched(asked[c])
      BY <1>5, <2>1 DEF Cache!Enter
    <3> QED BY <1>2, <2>0, <2>1, <3>1, Hit
  <2>2. CASE ~Cache!Cached(asked[c])
    <3>1. /\ Cache!Return(c, result[c])
          /\ entries' = Append(IF Len(entries) = Capacity THEN Tail(entries) ELSE entries,
                               result[c])
      BY <1>5, <2>2 DEF Cache!Enter
    <3>2. /\ AreLatest' /\ UsedOnce'
          /\ entries' \in Seq(Cache!Program) /\ Len(entries') <= Capacity
          /\ recent' \in Seq(Patterns)
      BY <1>0, <2>0, <2>2, <3>1, Miss
    <3> QED BY <1>2, <2>0, <3>1, <3>2
  <2> QED BY <2>1, <2>2
<1> QED BY <1>1, <1>3, <1>4, <1>5

LEMMA CacheInit == Cache!CacheAssumption /\ Cache!Init => CacheInv
<1> SUFFICES ASSUME Cache!CacheAssumption, Cache!Init PROVE CacheInv
  OBVIOUS
<1>1. Cache!TypeOK
  BY EmptySeq DEF Cache!Init, Cache!TypeOK, Cache!CacheAssumption
<1>2. AreLatest /\ UsedOnce
  BY EmptySeq DEF Cache!Init, Cache!CacheAssumption, AreLatest, UsedOnce
<1>3. OwnProgram
  BY DEF Cache!Init, OwnProgram
<1> QED BY <1>1, <1>2, <1>3 DEF CacheInv

LEMMA CacheNext == Cache!CacheAssumption /\ CacheInv /\ [Cache!Next]_cache => CacheInv'
<1> SUFFICES ASSUME Cache!CacheAssumption, CacheInv, [Cache!Next]_cache PROVE CacheInv'
  OBVIOUS
<1>1. CASE UNCHANGED cache
  BY <1>1 DEF cache, CacheInv, Cache!TypeOK, Cache!Program, AreLatest, UsedOnce, OwnProgram
<1> QED BY <1>1, CallerStep DEF Cache!Next

LEMMA CacheFollows == Cache!CacheAssumption /\ CacheInv => HoldsTheLatest
<1> SUFFICES ASSUME Cache!CacheAssumption, CacheInv PROVE HoldsTheLatest
  OBVIOUS
<1> DEFINE n == Len(recent)
           k == IF n < Capacity THEN n ELSE Capacity
           last == SubSeq(recent, n - k + 1, n)
<1>1. /\ recent \in Seq(Patterns) /\ entries \in Seq(Cache!Program)
      /\ n \in Nat /\ k \in Nat /\ k <= n /\ DOMAIN entries = 1..k
      /\ \A i \in 1..k : entries[i].pattern = recent[n - k + i]
  <2>1. recent \in Seq(Patterns) /\ entries \in Seq(Cache!Program)
    BY DEF CacheInv, Cache!TypeOK
  <2>2. n \in Nat /\ Len(entries) = k /\ k \in Nat /\ k <= n
    BY PlaceInHistory DEF CacheInv, AreLatest
  <2>3. DOMAIN entries = 1..k
    BY <2>1, <2>2, LenProperties
  <2> QED BY <2>1, <2>2, <2>3 DEF CacheInv, AreLatest
<1>2. last = [i \in 1..k |-> recent[n - k + i]]
  <2> HIDE DEF k, n
  <2>1. SubSeq(recent, n - k + 1, n) = [i \in 1..(1 + n - (n - k + 1)) |-> recent[i + (n - k + 1) - 1]]
    BY <1>1 DEF n
  <2>2. 1 + n - (n - k + 1) = k /\ \A i \in 1..k : i + (n - k + 1) - 1 = n - k + i
    BY <1>1
  <2> QED BY <2>1, <2>2
<1>3. Cache!PatternsOf(entries) = last
  BY <1>1, <1>2 DEF Cache!PatternsOf
<1>4. Cache!HoldsTheLatest
  BY <1>3 DEF CacheInv, OwnProgram, Cache!HoldsTheLatest
<1> QED BY <1>4 DEF CacheInv, HoldsTheLatest

-------------------------------------------------------------------------------
(* Theorems.                                                               *)

\* What the run's invariants rest on, of the part that moves and of those
\* that stay as they began.
AllInv == StatisticsInv /\ ResidenceInv /\ CacheInv /\ reads \in 0..MaxReads

LEMMA AllInit == MCInit => AllInv
<1> SUFFICES ASSUME MCInit PROVE AllInv
  OBVIOUS
<1>1. StatisticsInv
  BY SharedAssumption, StatisticsInit DEF MCInit
<1>2. ResidenceInv
  BY ResidenceInit DEF MCInit
<1>3. CacheInv
  BY SharedAssumption, CacheInit DEF MCInit
<1>4. reads \in 0..MaxReads
  <2>1. reads = 0
    <3>1. Residence!Init
      BY DEF MCInit
    <3> QED BY <3>1, Zenon DEF Residence!Init
  <2> QED BY <2>1, SharedAssumption
<1> QED BY <1>1, <1>2, <1>3, <1>4 DEF AllInv

LEMMA AllNext == AllInv /\ [MCNext]_<<part, vars, residence, cache>> => AllInv'
<1> SUFFICES ASSUME AllInv, [MCNext]_<<part, vars, residence, cache>> PROVE AllInv'
  OBVIOUS
<1>1. StatisticsInv'
  <2>1. [Next]_vars
    BY DEF MCNext
  <2> QED BY <2>1, SharedAssumption, StatisticsNext DEF AllInv
<1>2. [Residence!Next]_residence
  BY DEF MCNext
<1>3. ResidenceInv'
  <2>1. ResidenceInv
    BY DEF AllInv
  <2> QED BY <1>2, <2>1, ResidenceNext
<1>4. CacheInv'
  <2>1. [Cache!Next]_cache
    BY DEF MCNext
  <2> QED BY <2>1, SharedAssumption, CacheNext DEF AllInv
<1>5. reads' \in 0..MaxReads
  <2>1. CASE UNCHANGED residence
    BY <2>1 DEF AllInv, residence
  <2>2. ASSUME NEW t \in Readers,
               \/ Residence!Call(t) \/ Residence!Step(t) \/ Residence!Drop(t)
               \/ \E u \in Readers : Residence!Share(t, u)
        PROVE  reads' \in 0..MaxReads
    <3>1. reads' = reads \/ (reads < MaxReads /\ reads' = reads + 1)
      <4>1. CASE Residence!Step(t)
        <5>1. CASE Residence!Look(t) \/ Residence!Fetch(t) \/ Residence!Claim(t)
          BY <5>1, Zenon DEF Residence!Look, Residence!Fetch, Residence!Claim
        <5>2. CASE Residence!CopyBegin(t) \/ Residence!CopyEnd(t) \/ Residence!Fail(t)
          BY <5>2 DEF Residence!CopyBegin, Residence!CopyEnd, Residence!Fail
        <5>3. CASE Residence!StoreHost(t) \/ Residence!Announce(t)
          BY <5>3 DEF Residence!StoreHost, Residence!Announce
        <5> QED BY <4>1, <5>1, <5>2, <5>3 DEF Residence!Step
      <4>2. CASE Residence!Call(t)
        BY <4>2 DEF Residence!Call
      <4>3. CASE Residence!Drop(t)
        BY <4>3 DEF Residence!Drop
      <4>4. CASE \E u \in Readers : Residence!Share(t, u)
        BY <4>4 DEF Residence!Share
      <4> QED BY <2>2, <4>1, <4>2, <4>3, <4>4
    <3> QED BY <3>1, SharedAssumption DEF AllInv
  <2> QED BY <1>2, <2>1, <2>2 DEF Residence!Next
<1> QED BY <1>1, <1>3, <1>4, <1>5 DEF AllInv

\* The inductive invariant.  A record's bitmap is kept, and neither it nor the
\* buffer the record is of changes while the record is there (buffer.mojo,
\* segment_statistics.mojo); where the copy's maker is, what there is of the
\* copy, and who holds a reference agree (residence.mojo); the cache is the
\* end of the history of uses, entry by entry (regex_cache.mojo).
THEOREM Invariance == MCSpec => []AllInv
<1>1. MCInit => AllInv
  BY AllInit
<1>2. AllInv /\ [MCNext]_<<part, vars, residence, cache>> => AllInv'
  BY AllNext
<1> QED BY <1>1, <1>2, PTL DEF MCSpec

\* The statistics a column may read are those of the values and the bitmap it
\* has now, though buffers are shared, appended to in place, freed and their
\* addresses handed out again (`window_statistics`, `publish_statistics`,
\* `_append_column`).
THEOREM TrueOfTheColumn == MCSpec => []RecordsAreTrue
<1>1. AllInv => RecordsAreTrue
  BY SharedAssumption, StatisticsFollow DEF AllInv, StatisticsInv, RecordsAreTrue
<1> QED BY <1>1, Invariance, PTL

\* A device buffer is copied to the host once however many threads ask, nobody
\* has an address before the copy is whole, a reader inside has its reference,
\* and the copy is freed with the last one (`host_address`, `_copy`).
THEOREM CopiedOnce == MCSpec => []OneWholeCopy
<1>1. AllInv => OneWholeCopy
  <2> SUFFICES ASSUME AllInv PROVE OneWholeCopy
    OBVIOUS
  <2>1. Residence!TypeOK
    BY DEF AllInv, ResidenceInv, ResidenceTypes, Residence!TypeOK
  <2> QED BY <2>1, ResidenceFollows DEF AllInv, OneWholeCopy
<1> QED BY <1>1, Invariance, PTL

\* The cache of compiled patterns holds the ones used last, in the order of
\* their last use, as many as it has room for, each once and none that does not
\* compile; and a call returns a program of its own pattern or the error, with
\* any number of threads that look up, compile and enter at once (`compile`,
\* `_lookup`).
THEOREM LatestAreHeld == MCSpec => []HoldsTheLatest
<1>1. AllInv => HoldsTheLatest
  BY SharedAssumption, CacheFollows DEF AllInv
<1> QED BY <1>1, Invariance, PTL
===============================================================================
