---------------------------------- MODULE TopN ----------------------------------
(***************************************************************************)
(* ORDER BY ... LIMIT n over a pipeline's morsels: the workers of          *)
(* dataframe/pipeline.mojo (`_PipelineJob`, its top-N part) with their     *)
(* sinks (sorting/top_n_sink.mojo), heaps and shared boundary              *)
(* (sorting/top_n.mojo) and the scan's dynamic filter (table_filter.mojo). *)
(*                                                                         *)
(* Each worker claims morsels from a shared cursor and keeps the best rows *)
(* it has seen in a heap.  A full heap publishes its worst row to the      *)
(* boundary that all workers share; a worker drops the rows that are not   *)
(* better than its own copy of the boundary, which may be an old one, and  *)
(* the scan skips vectors whose statistics the filter rules out.           *)
(*                                                                         *)
(* Rows are numbered in input order.  The bytes of a sort key are left     *)
(* out: a row has a key, and with `maintain` its place is the last key.    *)
(* A worker's payload takes a row when the row enters the heap, in the     *)
(* code at the end of its vector: nobody else reads it before then.  The   *)
(* boundary's version is left out: a new version is always another row, so *)
(* a copy is an old one when it is not the boundary.                       *)
(***************************************************************************)
EXTENDS Integers, FiniteSets, SequencesExt

CONSTANTS
    Workers,        \* the pipeline's jobs, each on a thread
    Morsels,        \* the source: morsels of vectors of row numbers
    Keys,           \* the values of the first sort column
    HeapSize,       \* n
    LeastCut        \* 5 * 2048: no payload below it is cut

Rows == UNION {UNION {Range(vec) : vec \in Range(Morsels[m])} : m \in DOMAIN Morsels}

ASSUME WorkersAssumption == Workers # {}
ASSUME KeysAssumption == Keys \subseteq Int
ASSUME SizesAssumption == HeapSize \in Nat \ {0} /\ LeastCut \in Nat

\* A scan gives no vector without rows, and every row once.
ASSUME MorselsAssumption ==
    /\ Morsels \in Seq(Seq(Seq(Nat \ {0})))
    /\ \A m \in DOMAIN Morsels : \A v \in DOMAIN Morsels[m] : Morsels[m][v] # <<>>
    /\ \A m, n \in DOMAIN Morsels : \A v \in DOMAIN Morsels[m], u \in DOMAIN Morsels[n] :
        \A i \in DOMAIN Morsels[m][v], j \in DOMAIN Morsels[n][u] :
            Morsels[m][v][i] = Morsels[n][u][j] => m = n /\ v = u /\ i = j

None == 0

VARIABLES
    key,            \* each row's first sort column
    maintain,       \* ties keep the input order
    cursor,         \* morsels claimed
    boundary,       \* the shared boundary: a row, None at first
    filter,         \* the scan's dynamic filter: a key, unset at first
    \* each worker
    pc,
    morsel,         \* the morsel it reads, None before the first
    vector,         \* its next vector
    row,            \* and that vector's next row
    heap,           \* its best rows: records of a row and its payload place
    payload,        \* the rows it has copied
    entered,        \* a row of its vector has entered the heap
    view,           \* its copy of the boundary
    result          \* the rows returned, Pending before that

input == <<key, maintain>>
scan == <<cursor, morsel, vector, row>>
sink == <<heap, payload, entered, view>>
vars == <<input, scan, boundary, filter, pc, sink, result>>

Unset == {}
Pending == {None}
Entries == [row : Rows, at : Nat \ {0}]

TypeOK ==
    /\ key \in [Rows -> Keys]
    /\ maintain \in BOOLEAN
    /\ cursor \in Nat
    /\ boundary \in Rows \cup {None}
    /\ filter = Unset \/ \E k \in Keys : filter = {k}
    /\ pc \in [Workers -> {"scan", "publish", "filter", "settle", "done"}]
    /\ morsel \in [Workers -> 0..Len(Morsels)]
    /\ vector \in [Workers -> Nat \ {0}]
    /\ row \in [Workers -> Nat \ {0}]
    /\ entered \in [Workers -> BOOLEAN]
    /\ heap \in [Workers -> SUBSET Entries]
    /\ payload \in [Workers -> Seq(Rows)]
    /\ \A w \in Workers : Cardinality(heap[w]) <= HeapSize
    /\ view \in [Workers -> Rows \cup {None}]
    /\ result = Pending \/ result \subseteq Rows

Init ==
    /\ key \in [Rows -> Keys]
    /\ maintain \in BOOLEAN
    /\ cursor = 0
    /\ boundary = None
    /\ filter = Unset
    /\ pc = [w \in Workers |-> "scan"]
    /\ morsel = [w \in Workers |-> 0]
    /\ vector = [w \in Workers |-> 1]
    /\ row = [w \in Workers |-> 1]
    /\ heap = [w \in Workers |-> {}]
    /\ payload = [w \in Workers |-> <<>>]
    /\ entered = [w \in Workers |-> FALSE]
    /\ view = [w \in Workers |-> None]
    /\ result = Pending

\* The order of the sort keys.
Less(r, q) == key[r] < key[q] \/ (maintain /\ key[r] = key[q] /\ r < q)

Goto(w, there) == pc' = [pc EXCEPT ![w] = there]
NextVector(w) ==
    /\ vector' = [vector EXCEPT ![w] = @ + 1]
    /\ row' = [row EXCEPT ![w] = 1]
    /\ entered' = [entered EXCEPT ![w] = FALSE]

-------------------------------------------------------------------------------
(* The heap.                                                               *)

Full(h) == Cardinality(h) >= HeapSize

\* The entry on top: a worst one.
Top(h) == CHOOSE e \in h : \A f \in h : ~Less(e.row, f.row)

\* `should_add`: not ruled out by the copy of the boundary, and better than
\* the worst entry unless there is room.
ShouldAdd(h, bound, r) ==
    /\ bound # None => Less(r, bound)
    /\ Full(h) => Less(r, Top(h).row)

\* `add`: in place of the worst entry once the heap is full.
Add(h, entry) == (IF Full(h) THEN h \ {Top(h)} ELSE h) \cup {entry}

\* `reduce_threshold`: the payload rows at which a sink cuts its payload.
ReduceThreshold == IF 2 * HeapSize > LeastCut THEN 2 * HeapSize ELSE LeastCut

-------------------------------------------------------------------------------
(* A worker: `_PipelineJob.run`, `_top_chunks` and `TopNSink.sink_chunk`.  *)

Vectors(w) == IF morsel[w] = None THEN <<>> ELSE Morsels[morsel[w]]
HasVector(w) == pc[w] = "scan" /\ vector[w] <= Len(Vectors(w))
Vector(w) == Vectors(w)[vector[w]]

\* Past its morsel's last vector, the worker takes the next morsel.
Claim(w) ==
    /\ pc[w] = "scan"
    /\ ~HasVector(w)
    /\ cursor' = cursor + 1
    /\ IF cursor < Len(Morsels)
       THEN /\ morsel' = [morsel EXCEPT ![w] = cursor + 1]
            /\ vector' = [vector EXCEPT ![w] = 1]
            /\ UNCHANGED pc
       ELSE Goto(w, "done") /\ UNCHANGED <<morsel, vector>>
    /\ UNCHANGED <<input, row, boundary, filter, sink, result>>

\* A slip: the comparison is strict even when the input order settles ties.
RuledOutOnTies(v) == \E k \in filter : \A i \in DOMAIN v : key[v[i]] >= k

\* No row of the vector satisfies the filter: `<`, or `<=` when a later key
\* settles ties.
RuledOut(v) ==
    \E k \in filter : \A i \in DOMAIN v :
        IF maintain THEN key[v[i]] > k ELSE key[v[i]] >= k

SkipVector(w) ==
    /\ HasVector(w)
    /\ row[w] = 1
    /\ RuledOut(Vector(w))
    /\ NextVector(w)
    /\ UNCHANGED <<input, cursor, morsel, boundary, filter, pc, heap, payload, view, result>>

\* `_enter` renews the copy of the boundary, unless the lock is taken, before
\* the first row of a vector (which may have no statistics to rule it out by).
View(w) == IF row[w] = 1 THEN {boundary, view[w]} ELSE {view[w]}

\* `_sink_rows`: one row of a vector after another; those that enter get the
\* next places of the payload, even if a later one evicts them.
Offer(w, bound, r) ==
    /\ view' = [view EXCEPT ![w] = bound]
    /\ IF ShouldAdd(heap[w], bound, r)
       THEN /\ heap' = [heap EXCEPT ![w] = Add(@, [row |-> r, at |-> Len(payload[w]) + 1])]
            /\ payload' = [payload EXCEPT ![w] = Append(@, r)]
       ELSE UNCHANGED <<heap, payload>>

\* A row that is not its vector's last.
SinkRow(w) ==
    /\ HasVector(w)
    /\ row[w] < Len(Vector(w))
    /\ \E bound \in View(w) :
        /\ Offer(w, bound, Vector(w)[row[w]])
        /\ entered' = [entered EXCEPT ![w] = @ \/ ShouldAdd(heap[w], bound, Vector(w)[row[w]])]
    /\ row' = [row EXCEPT ![w] = @ + 1]
    /\ UNCHANGED <<input, cursor, morsel, vector, boundary, filter, pc, result>>

\* And the last one.  Vectors of which no row entered are not settled; the
\* frames that carry the input order (`_sink`) always are.
SinkLast(w) ==
    /\ HasVector(w)
    /\ row[w] = Len(Vector(w))
    /\ \E bound \in View(w) :
        /\ Offer(w, bound, Vector(w)[row[w]])
        /\ IF maintain \/ entered[w] \/ ShouldAdd(heap[w], bound, Vector(w)[row[w]])
           THEN Goto(w, "publish") /\ UNCHANGED <<vector, row, entered>>
           ELSE NextVector(w) /\ UNCHANGED pc
    /\ UNCHANGED <<input, cursor, morsel, boundary, filter, result>>

\* A better boundary than the one there is, if there is one.
Tighter(r) == boundary = None \/ Less(r, boundary)

\* `publish`: under the lock, a full heap's worst row becomes the boundary if
\* it is better; then the copy is renewed, unless the lock is taken.
Publish(w) ==
    /\ pc[w] = "publish"
    /\ IF Full(heap[w]) /\ Tighter(Top(heap[w]).row)
       THEN boundary' = Top(heap[w]).row /\ Goto(w, "filter")
       ELSE UNCHANGED boundary /\ Goto(w, "settle")
    /\ \E bound \in {boundary', view[w]} : view' = [view EXCEPT ![w] = bound]
    /\ UNCHANGED <<input, scan, filter, heap, payload, entered, result>>

\* The sink whose row became the boundary sets the filter; another may have
\* made a better row the boundary since, and set it already.
SetFilter(w) ==
    /\ pc[w] = "filter"
    /\ filter' = {key[payload[w][Top(heap[w]).at]]}
    /\ Goto(w, "settle")
    /\ UNCHANGED <<input, scan, boundary, sink, result>>

\* A slip: the payload is cut and the entries keep their old places.
SettleInPlace(w) ==
    /\ pc[w] = "settle"
    /\ IF Len(payload[w]) >= ReduceThreshold
       THEN payload' = [payload EXCEPT ![w] =
                LET entries == SetToSeq(heap[w]) IN
                [i \in DOMAIN entries |-> payload[w][entries[i].at]]]
       ELSE UNCHANGED payload
    /\ NextVector(w)
    /\ Goto(w, "scan")
    /\ UNCHANGED <<input, cursor, morsel, boundary, filter, heap, view, result>>

\* `_reduce` a large payload: only the rows of live entries stay, and each
\* entry's place is renumbered.
Settle(w) ==
    /\ pc[w] = "settle"
    /\ IF Len(payload[w]) >= ReduceThreshold
       THEN LET entries == SetToSeq(heap[w]) IN
            /\ payload' = [payload EXCEPT ![w] =
                  [i \in DOMAIN entries |-> payload[w][entries[i].at]]]
            /\ heap' = [heap EXCEPT ![w] =
                  {[row |-> entries[i].row, at |-> i] : i \in DOMAIN entries}]
       ELSE UNCHANGED <<heap, payload>>
    /\ NextVector(w)
    /\ Goto(w, "scan")
    /\ UNCHANGED <<input, cursor, morsel, boundary, filter, view, result>>

\* The payload rows that the workers' heaps point to.
Kept == UNION {{payload[w][e.at] : e \in heap[w]} : w \in Workers}

\* The best n of some rows; among tied rows, any.
BestOf(S, n) ==
    {B \in SUBSET S :
        /\ Cardinality(B) = IF Cardinality(S) < n THEN Cardinality(S) ELSE n
        /\ \A r \in B, q \in S \ B : ~Less(q, r)}

\* The jobs are back: their heaps' rows are combined.
Finish ==
    /\ \A w \in Workers : pc[w] = "done"
    /\ result = Pending
    /\ result' \in BestOf(Kept, HeapSize)
    /\ UNCHANGED <<input, scan, boundary, filter, pc, sink>>

Returned == result # Pending /\ UNCHANGED vars

Work(w) ==
    \/ Claim(w) \/ SkipVector(w) \/ SinkRow(w) \/ SinkLast(w)
    \/ Publish(w) \/ SetFilter(w) \/ Settle(w)

Next == (\E w \in Workers : Work(w)) \/ Finish \/ Returned

Spec == Init /\ [][Next]_vars

-------------------------------------------------------------------------------
(* Properties.                                                             *)

Claimed == {m \in DOMAIN Morsels : m <= cursor}
Seen == UNION {UNION {Range(vec) : vec \in Range(Morsels[m])} : m \in Claimed}

\* The rows of a worker's morsel that it has yet to look at.
Ahead(w, v, i) == v > vector[w] \/ (v = vector[w] /\ pc[w] = "scan" /\ i >= row[w])
Unread(w) ==
    {r \in Rows : \E v \in DOMAIN Vectors(w) : \E i \in DOMAIN Vectors(w)[v] :
        Vectors(w)[v][i] = r /\ Ahead(w, v, i)}
Passed == Seen \ UNION {Unread(w) : w \in Workers}
InHeaps == UNION {{e.row : e \in heap[w]} : w \in Workers}

\* Whatever a worker has let go of -- a row below its copy of the boundary,
\* below its heap, evicted from it, or in a vector the scan skipped -- the
\* heaps hold n rows that are at least as good, however old the copy and the
\* filter were when it did.
Beaten(r) == Cardinality({q \in InHeaps : ~Less(r, q)}) >= HeapSize
LostAreBeaten == \A r \in Passed \ InHeaps : Beaten(r)

\* Every entry's place holds the entry's row, through evictions and through
\* the cuts of the payload.
PayloadHolds ==
    \A w \in Workers : \A e \in heap[w] :
        e.at \in DOMAIN payload[w] /\ payload[w][e.at] = e.row

NothingLost == TypeOK /\ PayloadHolds /\ LostAreBeaten

\* Every worker is in a morsel of its own, and done only when none is left.
MorselsHold ==
    /\ \A w \in Workers : morsel[w] <= cursor
    /\ \A w, u \in Workers : morsel[w] # None /\ morsel[w] = morsel[u] => w = u
    /\ \A w \in Workers :
        /\ pc[w] = "scan" => row[w] = 1 \/ (HasVector(w) /\ row[w] <= Len(Vector(w)))
        /\ pc[w] = "filter" => Full(heap[w])
        /\ pc[w] = "done" => cursor >= Len(Morsels) /\ vector[w] > Len(Vectors(w))

\* A row is in one heap at most, once, after a worker has looked at it.
RowsHeldOnce ==
    /\ InHeaps \subseteq Passed
    /\ \A w, u \in Workers : \A e \in heap[w], f \in heap[u] : e.row = f.row => w = u /\ e = f

\* What rules rows out rules out rows that are beaten, old copies too.
BoundsAreBeaten ==
    /\ boundary # None => Beaten(boundary)
    /\ \A w \in Workers : view[w] # None => Beaten(view[w])
    /\ \A k \in filter : \E b \in Rows : key[b] = k /\ Beaten(b)

Inv == NothingLost /\ MorselsHold /\ RowsHeldOnce /\ BoundsAreBeaten

\* The query returns the n best rows of the source, on any number of threads;
\* with input order kept, the same rows always ("Results do not depend on
\* the thread count").
ResultIsTopN == result # Pending => result \in BestOf(Rows, HeapSize)
===============================================================================
