-------------------------- MODULE ColumnStatistics --------------------------
(***************************************************************************)
(* Segment statistics on shared buffers (dataframe/storage/buffer.mojo,    *)
(* kernels/segment_statistics.mojo, storage/column.mojo).  A column pairs  *)
(* a values buffer with a validity bitmap.  Whoever needs statistics first *)
(* measures both and publishes the record on the values buffer, once, by   *)
(* compare-and-swap.  A record names its bitmap by ADDRESS and pins it; a  *)
(* column reads the record only when its own bitmap has that address.      *)
(*                                                                         *)
(* An address is the place of a _BufferData; a freed place is handed out   *)
(* again.  A buffer's content is a number, a new one for every change.     *)
(* The declared windows of columns are left out: every column reads all    *)
(* of its buffers.                                                         *)
(***************************************************************************)
EXTENDS Naturals, FiniteSets

CONSTANTS Threads,      \* each holds at most one column
          Addresses,    \* places for buffers
          MaxContents   \* bound: contents made in all

VARIABLES memory,    \* the content at each address, 0 when it is free
          bare,      \* the bitmaps without a bit: no nulls declared
          record,    \* the statistics published on each buffer, or NoRecord
          column,    \* the column each thread holds, or NoColumn
          doing,     \* "idle", "measuring" (a record is made), "reading" (its address is loaded)
          contents   \* contents made so far
vars == <<memory, bare, record, column, doing, contents>>

NoRecord == [values |-> 0, bits |-> 0, validity |-> 0, pin |-> 0]
NoColumn == [data |-> 0, bits |-> 0]
Null == 0

\* What the theorems assume of the constants; TLC checks it of the run's.
StatisticsAssumption ==
    /\ Null \notin Addresses
    /\ MaxContents \in Nat
    /\ IsFiniteSet(Threads) /\ IsFiniteSet(Addresses)

Records == [values : 0..MaxContents, bits : 0..MaxContents,
            validity : Addresses \union {Null}, pin : Addresses \union {Null}]
Columns == [data : Addresses, bits : Addresses]

TypeOK ==
    /\ memory \in [Addresses -> 0..MaxContents]
    /\ bare \subseteq Addresses
    /\ record \in [Addresses -> Records]
    /\ column \in [Threads -> Columns \union {NoColumn}]
    /\ doing \in [Threads -> {"idle", "measuring", "reading"}]
    /\ contents \in 0..MaxContents

Holds(t) == column[t] # NoColumn
Free == {a \in Addresses : memory[a] = 0}

(* _Buffer.count: the columns and the records that refer to a buffer.      *)
Count(a) == Cardinality({t \in Threads : column[t].data = a})
            + Cardinality({t \in Threads : column[t].bits = a})
            + Cardinality({b \in Addresses : record[b].pin = a})

(* What is left after threads' columns become `now`: values buffers that   *)
(* no column has go with their records, then the bitmaps neither a column  *)
(* nor a record still has.                                                 *)
Keep(now, values, records) ==
    LET data == {now[t].data : t \in Threads}
        left == [a \in Addresses |-> IF a \in data THEN records[a] ELSE NoRecord]
        live == data \union {now[t].bits : t \in Threads}
                     \union {left[a].pin : a \in Addresses}
    IN /\ column' = now
       /\ record' = left
       /\ memory' = [a \in Addresses |-> IF a \in live THEN values[a] ELSE 0]

Init ==
    /\ memory = [a \in Addresses |-> 0] /\ bare = {}
    /\ record = [a \in Addresses |-> NoRecord]
    /\ column = [t \in Threads |-> NoColumn]
    /\ doing = [t \in Threads |-> "idle"]
    /\ contents = 0

(* A column of new buffers, with nulls or without.                         *)
Make(t) ==
    /\ ~Holds(t) /\ contents + 2 <= MaxContents
    /\ \E d, b \in Free, nulls \in BOOLEAN :
          /\ d # b
          /\ Keep([column EXCEPT ![t] = [data |-> d, bits |-> b]],
                  [memory EXCEPT ![d] = contents + 1, ![b] = contents + 2], record)
          /\ bare' = IF nulls THEN bare \ {b} ELSE bare \union {b}
    /\ contents' = contents + 2
    /\ UNCHANGED doing

(* A column is copied: another reference to the same two buffers.          *)
Copy(t, u) ==
    /\ Holds(t) /\ ~Holds(u)
    /\ Keep([column EXCEPT ![u] = column[t]], memory, record)
    /\ UNCHANGED <<bare, doing, contents>>

(* _from_buffers: the values with another bitmap.                          *)
Pair(t) ==
    /\ Holds(t) /\ doing[t] = "idle" /\ contents < MaxContents
    /\ \E b \in Free, nulls \in BOOLEAN :
          /\ Keep([column EXCEPT ![t].bits = b], [memory EXCEPT ![b] = contents + 1], record)
          /\ bare' = IF nulls THEN bare \ {b} ELSE bare \union {b}
    /\ contents' = contents + 1
    /\ UNCHANGED doing

Owned(c) == Count(c.data) = 1 /\ Count(c.bits) = 1

(* _append_column: in place, and the statistics forgotten, when the column *)
(* is the only one that refers to its buffers (`_owned`, `writable`); else *)
(* onto new buffers.                                                       *)
AppendRows(t) ==
    /\ Holds(t) /\ doing[t] = "idle" /\ contents + 2 <= MaxContents
    /\ LET c == column[t] IN
       \E nulls \in IF c.bits \in bare THEN BOOLEAN ELSE {TRUE} :
          \/ /\ Owned(c)
             /\ Keep(column, [memory EXCEPT ![c.data] = contents + 1, ![c.bits] = contents + 2],
                     [record EXCEPT ![c.data] = NoRecord])
             /\ bare' = IF nulls THEN bare \ {c.bits} ELSE bare
          \/ /\ ~Owned(c)
             /\ \E d, b \in Free :
                   /\ d # b
                   /\ Keep([column EXCEPT ![t] = [data |-> d, bits |-> b]],
                           [memory EXCEPT ![d] = contents + 1, ![b] = contents + 2], record)
                   /\ bare' = IF nulls THEN bare \ {b} ELSE bare \union {b}
    /\ contents' = contents + 2
    /\ UNCHANGED doing

(* _layout's validity: the bitmap's address, 0 when it has no bit.         *)
Validity(c) == IF c.bits \in bare THEN Null ELSE c.bits

\* A slip: the record names its bitmap and does not keep it.
MeasuredUnpinned(c) ==
    [values |-> memory[c.data], bits |-> IF c.bits \in bare THEN 0 ELSE memory[c.bits],
     validity |-> Validity(c), pin |-> Null]

(* The statistics of a column: what its buffers hold now.                  *)
Measured(c) ==
    [values |-> memory[c.data], bits |-> IF c.bits \in bare THEN 0 ELSE memory[c.bits],
     validity |-> Validity(c), pin |-> c.bits]

(* ensure_statistics: nothing to do when there is a record, whatever       *)
(* bitmap it was taken with.                                               *)
Measure(t) ==
    /\ Holds(t) /\ doing[t] = "idle"
    /\ record[column[t].data] = NoRecord
    /\ doing' = [doing EXCEPT ![t] = "measuring"]
    /\ UNCHANGED <<memory, bare, record, column, contents>>

(* publish_statistics: the first to publish wins, a later one drops its    *)
(* own.                                                                    *)
Publish(t) ==
    /\ doing[t] = "measuring"
    /\ LET c == column[t] IN
       record' = IF record[c.data] = NoRecord
                 THEN [record EXCEPT ![c.data] = Measured(c)] ELSE record
    /\ doing' = [doing EXCEPT ![t] = "idle"]
    /\ UNCHANGED <<memory, bare, column, contents>>

(* window_statistics: the address of the record is loaded, then a          *)
(* reference to the record is taken through it.                            *)
Load(t) ==
    /\ Holds(t) /\ doing[t] = "idle"
    /\ record[column[t].data] # NoRecord
    /\ doing' = [doing EXCEPT ![t] = "reading"]
    /\ UNCHANGED <<memory, bare, record, column, contents>>

Take(t) ==
    /\ doing[t] = "reading"
    /\ doing' = [doing EXCEPT ![t] = "idle"]
    /\ UNCHANGED <<memory, bare, record, column, contents>>

Drop(t) ==
    /\ Holds(t) /\ doing[t] = "idle"
    /\ Keep([column EXCEPT ![t] = NoColumn], memory, record)
    /\ UNCHANGED <<bare, doing, contents>>

Next ==
    \E t \in Threads :
        \/ Make(t) \/ Pair(t) \/ AppendRows(t)
        \/ Measure(t) \/ Publish(t) \/ Load(t) \/ Take(t) \/ Drop(t)
        \/ \E u \in Threads : Copy(t, u)

Spec == Init /\ [][Next]_vars

-----------------------------------------------------------------------------
(* The record a column may read describes the values and the bitmap it has *)
(* now, although both are shared, appended to in place, freed and their    *)
(* places handed out again; and a record whose address is loaded stays     *)
(* until a reference is taken.                                             *)
StatisticsTrue ==
    \A t \in Threads : Holds(t) =>
        LET c == column[t]
            r == record[c.data]
        IN /\ r # NoRecord /\ r.validity = Validity(c) =>
                 /\ r.values = memory[c.data]
                 /\ r.bits = IF c.bits \in bare THEN 0 ELSE memory[c.bits]
           /\ doing[t] = "reading" => r # NoRecord
           /\ memory[c.data] # 0 /\ memory[c.bits] # 0
=============================================================================
