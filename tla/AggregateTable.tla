--------------------------- MODULE AggregateTable ---------------------------
(***************************************************************************)
(* A parallel group-by (dataframe/aggregation/hash_table.mojo).  Each      *)
(* worker sinks its morsels into a table of its own, whose group rows lie  *)
(* in partitions by the leading bits of the hash.  A table of fixed size   *)
(* that is full forgets its entries and keeps its rows, so a worker may    *)
(* have several rows of one group.  The number of bits is shared: any      *)
(* worker may raise it, and each moves its rows when it is next full, or   *)
(* at the finish.  The finish merges the partitions of all workers, in     *)
(* jobs of consecutive partitions.                                         *)
(*                                                                         *)
(* A group row is its key, its first source row and a count, for every     *)
(* reduction.  The heuristics that grow a table or stop probing are        *)
(* choices here.  Distinct counts, the dictionary and constant paths and   *)
(* merged group rows (`sink_group_rows`) are left out, and with the last   *)
(* the sort of groups that are out of order: RowsInOrder says why the      *)
(* finish needs none.                                                      *)
(***************************************************************************)
EXTENDS Naturals, Sequences, FiniteSets, SequencesExt, Functions

CONSTANTS Workers,           \* a set of numbers: the order of the sinks
          Inputs,            \* sequences of morsels, each a sequence of chunks of keys
          Keys,
          Hash,              \* the top MaxBits bits of each key's hash
          InitialBits, MaxBits,
          Capacity,          \* _SINK_CAPACITY
          PartitionRows,     \* made rows per partition that call for more bits
          MaxRows            \* bound: no input has as many rows in a morsel

VARIABLES input,      \* the morsels
          grows,      \* the tables grow: two workers or fewer
          ordered,    \* the groups are to come out in order
          cursor,     \* morsels taken
          radix,      \* _SinkBits: -1 is 0 here, and k bits are k + 1
          at,         \* where each worker is
          morsel,     \* the morsel it sinks, and the next chunk of it
          chunk,
          sink,       \* its table: bits, the rows of each partition, entries, ...
          cuts,       \* the last partition of each finish job
          part,       \* the partition that is merged
          head,       \* per worker, the next of its rows in it
          final,      \* the groups of the job so far
          output      \* the groups of the jobs done
vars == <<input, grows, ordered, cursor, radix, at, morsel, chunk, sink, cuts, part, head,
          final, output>>

NoSink == [bits |-> 0, parts |-> <<>>, entries |-> <<>>, capacity |-> 0, made |-> 0,
           live |-> 0, skip |-> FALSE, abandoned |-> FALSE]
Row(key, first, count) == [key |-> key, first |-> first, count |-> count]

MostBits == IF grows THEN InitialBits ELSE MaxBits
PartitionAt(key, bits) == Hash[key] \div 2^(MaxBits - bits) + 1
Bits == radix - 1
SinksMade == {w \in Workers : sink[w].parts # <<>>}
Empty(bits) == [p \in 1..2^bits |-> <<>>]

(* The source row of the n-th row of a worker's chunk.                     *)
SourceRow(m, c, n) ==
    MaxRows * m + n + FoldLeftDomain(LAMBDA sum, i : IF i < c THEN sum + Len(input[m][i]) ELSE sum,
                                     0, input[m])

TypeOK ==
    /\ input \in Inputs /\ grows \in BOOLEAN /\ ordered \in BOOLEAN
    /\ cursor \in 0..Len(input) + Cardinality(Workers)
    /\ radix \in 0..MostBits + 1
    /\ at \in [Workers -> {"take", "start", "sink", "raise", "move", "insert", "done"}]
    /\ \A w \in SinksMade :
          /\ sink[w].bits \in InitialBits..MostBits
          /\ Len(sink[w].parts) = 2^sink[w].bits
          /\ DOMAIN sink[w].entries \subseteq Keys
    /\ cuts \subseteq 1..2^MaxBits

Init ==
    /\ input \in Inputs /\ grows \in BOOLEAN /\ ordered \in BOOLEAN
    /\ cursor = 0 /\ radix = 0
    /\ at = [w \in Workers |-> "take"]
    /\ morsel = [w \in Workers |-> 0] /\ chunk = [w \in Workers |-> 0]
    /\ sink = [w \in Workers |-> NoSink]
    /\ cuts = {} /\ part = 0 /\ head = [w \in Workers |-> 0]
    /\ final = <<>> /\ output = <<>>

Goto(w, place) == at' = [at EXCEPT ![w] = place]

(* The next morsel; the sink is made at the worker's first.                *)
Take(w) ==
    /\ at[w] = "take"
    /\ cursor' = cursor + 1
    /\ IF cursor < Len(input)
       THEN /\ morsel' = [morsel EXCEPT ![w] = cursor + 1]
            /\ chunk' = [chunk EXCEPT ![w] = 1]
            /\ Goto(w, IF w \in SinksMade THEN "sink" ELSE "start")
       ELSE Goto(w, "done") /\ UNCHANGED <<morsel, chunk>>
    /\ UNCHANGED <<input, grows, ordered, radix, sink, cuts, part, head, final, output>>

(* _SinkBits.start: the bits now, the initial ones if no sink has started. *)
Start(w) ==
    /\ at[w] = "start"
    /\ radix' = IF radix = 0 THEN InitialBits + 1 ELSE radix
    /\ sink' = [sink EXCEPT ![w] =
          [NoSink EXCEPT !.bits = radix' - 1, !.parts = Empty(radix' - 1), !.capacity = Capacity]]
    /\ Goto(w, "sink")
    /\ UNCHANGED <<input, grows, ordered, cursor, morsel, chunk, cuts, part, head, final, output>>

Chunk(w) == input[morsel[w]][chunk[w]]

Fits(s, count) == 3 * (s.live + count) < 2 * s.capacity

(* A chunk: into the table if it has room for as many groups.              *)
HasRoom(w) ==
    /\ at[w] = "sink"
    /\ Fits(sink[w], Len(Chunk(w)))
    /\ Goto(w, "insert")
    /\ UNCHANGED <<input, grows, ordered, cursor, radix, morsel, chunk, sink, cuts, part, head,
                   final, output>>

(* _full in a table that grows: the capacity is doubled until the chunk    *)
(* fits and every row is entered again.                                    *)
Places(s) == {<<p, i>> \in (1..Len(s.parts)) \X (1..s.made) : i <= Len(s.parts[p])}
Entered(s) ==
    [k \in {s.parts[a[1]][a[2]].key : a \in Places(s)} |->
        CHOOSE a \in Places(s) : s.parts[a[1]][a[2]].key = k]
Grow(w) ==
    /\ at[w] = "sink" /\ grows
    /\ ~Fits(sink[w], Len(Chunk(w)))
    /\ sink' = [sink EXCEPT ![w].capacity = 2 * @, ![w].entries = Entered(sink[w])]
    /\ UNCHANGED <<input, grows, ordered, cursor, radix, at, morsel, chunk, cuts, part, head,
                   final, output>>

\* A slip: the table is marked abandoned and its entries stay.
FullKeepsEntries(w) ==
    /\ at[w] = "sink" /\ ~grows
    /\ ~Fits(sink[w], Len(Chunk(w)))
    /\ sink' = [sink EXCEPT ![w].abandoned = TRUE, ![w].live = 0]
    /\ Goto(w, "raise")
    /\ UNCHANGED <<input, grows, ordered, cursor, radix, morsel, chunk, cuts, part, head, final,
                   output>>

(* _full in one that does not: the entries go, the rows stay.  It may get  *)
(* a larger table, stop probing, or probe again.                           *)
Full(w) ==
    /\ at[w] = "sink" /\ ~grows
    /\ ~Fits(sink[w], Len(Chunk(w)))
    /\ \E skip \in BOOLEAN, capacity \in {Capacity, 2 * Capacity} :
          /\ capacity >= sink[w].capacity
          /\ sink[w].skip => capacity = sink[w].capacity
          /\ skip => capacity = Capacity
          /\ sink' = [sink EXCEPT ![w].abandoned = TRUE, ![w].entries = <<>>,
                                  ![w].live = 0, ![w].skip = skip, ![w].capacity = capacity]
    /\ Goto(w, "raise")
    /\ UNCHANGED <<input, grows, ordered, cursor, radix, morsel, chunk, cuts, part, head, final,
                   output>>

(* raise_to: to the most bits when this sink's rows are many for its       *)
(* partitions; the shared number only increases.                           *)
Raise(w) ==
    /\ at[w] = "raise"
    /\ radix' = IF sink[w].made > PartitionRows * 2^sink[w].bits /\ radix < MostBits + 1
                THEN MostBits + 1 ELSE radix
    /\ Goto(w, "move")
    /\ UNCHANGED <<input, grows, ordered, cursor, morsel, chunk, sink, cuts, part, head, final,
                   output>>

(* repartitioned: each partition's rows, in order, to the partitions its   *)
(* bits extend to.                                                         *)
Repartitioned(s, bits) ==
    IF bits <= s.bits THEN s
    ELSE [s EXCEPT !.bits = bits,
            !.parts = [q \in 1..2^bits |->
                SelectSeq(FlattenSeq(s.parts), LAMBDA row : PartitionAt(row.key, bits) = q)]]
Move(w) ==
    /\ at[w] = "move"
    /\ sink' = [sink EXCEPT ![w] = Repartitioned(@, Bits)]
    /\ Goto(w, "insert")
    /\ UNCHANGED <<input, grows, ordered, cursor, radix, morsel, chunk, cuts, part, head, final,
                   output>>

(* _insert and the states' update: each row's group is found by its key,   *)
(* or made, always made when the table does not probe.                     *)
Inserted(s, key, source) ==
    IF key \in DOMAIN s.entries /\ ~s.skip
    THEN [s EXCEPT !.parts[s.entries[key][1]][s.entries[key][2]].count = @ + 1]
    ELSE LET p == PartitionAt(key, s.bits)
             place == <<p, Len(s.parts[p]) + 1>>
         IN [s EXCEPT !.parts[p] = Append(@, Row(key, source, 1)),
                      !.entries = IF s.skip THEN @
                                  ELSE [k \in DOMAIN @ \union {key} |-> IF k = key THEN place ELSE @[k]],
                      !.live = @ + 1, !.made = @ + 1]
Insert(w) ==
    /\ at[w] = "insert"
    /\ LET into[n \in 0..Len(Chunk(w))] ==
              IF n = 0 THEN sink[w]
              ELSE Inserted(into[n - 1], Chunk(w)[n], SourceRow(morsel[w], chunk[w], n))
       IN sink' = [sink EXCEPT ![w] = into[Len(Chunk(w))]]
    /\ chunk' = [chunk EXCEPT ![w] = @ + 1]
    /\ Goto(w, IF chunk[w] = Len(input[morsel[w]]) THEN "take" ELSE "sink")
    /\ UNCHANGED <<input, grows, ordered, cursor, radix, morsel, cuts, part, head, final, output>>

(* aggregate_finish: every sink's rows at the shared bits, and the         *)
(* partitions cut into jobs, by their rows.                                *)
Combine ==
    /\ \A w \in Workers : at[w] = "done"
    /\ part = 0 /\ SinksMade # {}
    /\ sink' = [w \in Workers |-> IF w \in SinksMade THEN Repartitioned(sink[w], Bits) ELSE NoSink]
    /\ \E ends \in SUBSET (1..2^Bits) : 2^Bits \in ends /\ cuts' = ends
    /\ part' = 1
    /\ head' = [w \in Workers |-> 1]
    /\ UNCHANGED <<input, grows, ordered, cursor, radix, at, morsel, chunk, final, output>>

Merging == part > 0 /\ part <= 2^Bits
JobStart == CHOOSE p \in 1..part : (p = 1 \/ p - 1 \in cuts) /\ \A q \in p..part - 1 : q \notin cuts
JobEnd == CHOOSE p \in cuts : p >= part /\ \A q \in cuts : q >= part => p <= q
InJob == {w \in SinksMade : \E p \in JobStart..JobEnd : sink[w].parts[p] # <<>>}

(* A job whose rows are all one worker's, in a table that never forgot an  *)
(* entry: they are its groups.                                             *)
Single == \E w \in InJob : InJob = {w} /\ ~sink[w].abandoned
CopySingle ==
    /\ Merging /\ part = JobStart /\ head = [w \in Workers |-> 1] /\ final = <<>> /\ Single
    /\ LET w == CHOOSE w \in InJob : TRUE
       IN final' = FlattenSeq(SubSeq(sink[w].parts, JobStart, JobEnd))
    /\ part' = JobEnd
    /\ head' = [w \in Workers |-> IF w \in SinksMade THEN Len(sink[w].parts[JobEnd]) + 1 ELSE 1]
    /\ UNCHANGED <<input, grows, ordered, cursor, radix, at, morsel, chunk, sink, cuts, output>>

(* Else the rows of each partition are merged, the earliest first row      *)
(* first, or sink after sink when no order is asked for.                   *)
Left == {w \in SinksMade : head[w] <= Len(sink[w].parts[part])}
HeadRow(w) == sink[w].parts[part][head[w]]
Earliest(w) == \A v \in Left : IF ordered THEN HeadRow(w).first <= HeadRow(v).first ELSE w <= v

(* _merge_row: a new group, or its states folded into its group's, which   *)
(* keeps the earlier first row.                                            *)
Folded(groups, row) ==
    LET same == {g \in DOMAIN groups : groups[g].key = row.key}
    IN IF same = {} THEN Append(groups, row)
       ELSE LET g == CHOOSE g \in same : TRUE
            IN [groups EXCEPT ![g].count = @ + row.count,
                              ![g].first = IF row.first < @ THEN row.first ELSE @]
MergeRow ==
    /\ Merging /\ (final = <<>> => ~Single)
    /\ \E w \in Left :
          /\ Earliest(w)
          /\ final' = Folded(final, HeadRow(w))
          /\ head' = [head EXCEPT ![w] = @ + 1]
    /\ UNCHANGED <<input, grows, ordered, cursor, radix, at, morsel, chunk, sink, cuts, part, output>>

NextPartition ==
    /\ Merging /\ Left = {} /\ part < JobEnd
    /\ part' = part + 1
    /\ head' = [w \in Workers |-> 1]
    /\ UNCHANGED <<input, grows, ordered, cursor, radix, at, morsel, chunk, sink, cuts, final, output>>

(* _by_partition: in order, the groups come out by the partitions of the   *)
(* most bits the sinks could have reached, stably.                         *)
ByPartition(groups) ==
    FlattenSeq([p \in 1..2^MostBits |->
        SelectSeq(groups, LAMBDA g : PartitionAt(g.key, MostBits) = p)])
EndJob ==
    /\ Merging /\ Left = {} /\ part = JobEnd
    /\ output' = output \o (IF ordered THEN ByPartition(final) ELSE final)
    /\ final' = <<>>
    /\ part' = part + 1
    /\ head' = [w \in Workers |-> 1]
    /\ UNCHANGED <<input, grows, ordered, cursor, radix, at, morsel, chunk, sink, cuts>>

SinkStep(w) ==
    \/ Take(w) \/ Start(w) \/ HasRoom(w) \/ Grow(w) \/ Full(w) \/ Raise(w) \/ Move(w) \/ Insert(w)

Next ==
    \/ \E w \in Workers : SinkStep(w)
    \/ Combine \/ CopySingle \/ MergeRow \/ NextPartition \/ EndJob

Spec == Init /\ [][Next]_vars

Done == part > 0 /\ ~Merging

-----------------------------------------------------------------------------
(* The rows of each worker's partitions are in the order of their first    *)
(* rows, each in the partition of its key, and an entry is its group's     *)
(* last row: what the merge in order and the finish without a sort rest    *)
(* on, through repartitions, forgotten entries and stretches without       *)
(* lookups.                                                                *)
RowsInOrder ==
    \A w \in SinksMade : LET s == sink[w] IN
        /\ \A p \in DOMAIN s.parts :
              /\ \A i, j \in DOMAIN s.parts[p] : i < j => s.parts[p][i].first < s.parts[p][j].first
              /\ \A i \in DOMAIN s.parts[p] : PartitionAt(s.parts[p][i].key, s.bits) = p
        /\ at[w] \in {"sink", "insert"} => \A k \in DOMAIN s.entries :
              LET place == s.entries[k] IN
              /\ place[2] \in DOMAIN s.parts[place[1]]
              /\ s.parts[place[1]][place[2]].key = k

(* The groups of the input: every key once, with the count of its rows     *)
(* and its first; and in order by partition and first row when asked.      *)
SourceRows ==
    {<<m, c, n>> \in (1..Len(input)) \X (1..MaxRows) \X (1..MaxRows) :
        c <= Len(input[m]) /\ n <= Len(input[m][c])}
RowsOf(key) == {r \in SourceRows : input[r[1]][r[2]][r[3]] = key}
Group(key) ==
    LET rows == {SourceRow(r[1], r[2], r[3]) : r \in RowsOf(key)}
    IN Row(key, CHOOSE f \in rows : \A r \in rows : f <= r, Cardinality(rows))
Before(g, h) ==
    LET p == PartitionAt(g.key, MostBits)
        q == PartitionAt(h.key, MostBits)
    IN p < q \/ (p = q /\ g.first < h.first)

(* However the morsels fall to the workers, whenever a table is full and   *)
(* the bits are raised, and wherever the jobs are cut, the finish gives    *)
(* the groups of the input, and in order always the same order ("every     *)
(* run returns the same order whatever partitions the sinks reached").     *)
GroupsExact ==
    Done =>
        /\ Range(output) = {Group(k) : k \in {k \in Keys : RowsOf(k) # {}}}
        /\ Len(output) = Cardinality(Range(output))
        /\ ordered => \A i, j \in DOMAIN output : i < j => Before(output[i], output[j])
=============================================================================
