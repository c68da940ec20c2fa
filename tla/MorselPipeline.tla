--------------------------- MODULE MorselPipeline ---------------------------
(***************************************************************************)
(* A pipeline that materialises its rows (dataframe/pipeline.mojo,         *)
(* dataframe/vector/column_data_collection.mojo).  Workers take morsels    *)
(* from a shared cursor, send each through a chain of joins, and keep what *)
(* comes out per morsel, as a batch.  A right or full join flags the build *)
(* rows that were matched; after the source's morsels, one more round of   *)
(* the workers per such join sends its unmatched build rows through the    *)
(* rest of the chain.  The batches are merged by their numbers.            *)
(*                                                                         *)
(* A row is the sequence of its places: in the source, then in each build  *)
(* so far, 0 where a join had nothing to give.  Steps that only filter or  *)
(* project, the scan's filters and the other sinks are left out; so is a   *)
(* morsel that raises, after which the query has no result.                *)
(***************************************************************************)
EXTENDS Naturals, Sequences, FiniteSets, SequencesExt

CONSTANTS Workers,   \* a set of numbers: the order of the jobs
          Queries    \* [source : morsels of rows, steps : Seq([how, on, build, pairs])]

VARIABLES query,     \* the query that runs
          round,     \* 0 for the source, j while the unmatched rows of join j run
          cursor,    \* morsels taken in this round, `_Cursor`
          numbered,  \* first_morsel: the number of the round's first morsel
          taken,     \* the morsel each worker has, 0 for none
          working,   \* the workers whose job of this round has not ended
          found,     \* per step, the build rows some morsel matched
          batches,   \* each worker's sink: batches in the order it made them
          releases,  \* how often each worker's sink was released
          next,      \* materialize_finish: the next batch of each sink
          output     \* the frame
vars == <<query, round, cursor, numbered, taken, working, found, batches, releases, next, output>>

Steps == DOMAIN query.steps
Outer(j) == query.steps[j].how \in {"right", "full"}
LastOuter == IF \E j \in Steps : Outer(j)
             THEN CHOOSE j \in Steps : Outer(j) /\ \A i \in Steps : Outer(i) => i <= j
             ELSE 0

(* The morsels of a round: the source's, or those of a join's build rows   *)
(* (`_morsel_ranges`).                                                     *)
MorselsOf(j) == IF j = 0 THEN query.source ELSE query.steps[j].build
BuildRows(j) == FlattenSeq(query.steps[j].build)

(* A join of one row: a row per match (in a fixed order), and for a left   *)
(* or full join the row itself when it has none.  0 matches nothing.       *)
MatchesOf(j, row) ==
    SelectSeq(BuildRows(j), LAMBDA b : <<row[query.steps[j].on], b>> \in query.steps[j].pairs)
JoinRow(j, row) ==
    LET matches == MatchesOf(j, row)
    IN IF matches = <<>> /\ query.steps[j].how \in {"left", "full"}
       THEN <<Append(row, 0)>>
       ELSE [i \in DOMAIN matches |-> Append(row, matches[i])]
Join(j, rows) == FlattenSeq([i \in DOMAIN rows |-> JoinRow(j, rows[i])])

(* What goes into each step from `first` on, and out of the last.          *)
Through(first, rows) ==
    LET into[j \in first..Len(query.steps) + 1] ==
            IF j = first THEN rows ELSE Join(j - 1, into[j - 1])
    IN into

Nulls(n) == [i \in 1..n |-> 0]

(* The rows of the morsel a worker has: the source's, or the build rows of *)
(* it that no worker's morsel matched (`_unmatched`), with nulls before.   *)
Unmatched(j, rows) == SelectSeq(rows, LAMBDA b : b \notin found[j])
Input(k) ==
    LET rows == MorselsOf(round)[k]
    IN IF round = 0 THEN [i \in DOMAIN rows |-> <<rows[i]>>]
       ELSE LET left == Unmatched(round, rows)
            IN [i \in DOMAIN left |-> Append(Nulls(round), left[i])]

Batch == [number : Nat, rows : Seq(Seq(Nat))]

TypeOK ==
    /\ query \in Queries
    /\ round \in Steps \union {0}
    /\ cursor \in 0..Len(MorselsOf(round)) + Cardinality(Workers)
    /\ numbered \in Nat
    /\ taken \in [Workers -> 0..Len(MorselsOf(round))]
    /\ working \subseteq Workers
    /\ \A j \in Steps : found[j] \subseteq Range(BuildRows(j))
    /\ batches \in [Workers -> Seq(Batch)]
    /\ releases \in [Workers -> 0..1]
    /\ next \in [Workers -> Nat]

Init ==
    /\ query \in Queries
    /\ round = 0 /\ cursor = 0 /\ numbered = 0
    /\ taken = [w \in Workers |-> 0] /\ working = Workers
    /\ found = [j \in Steps |-> {}]
    /\ batches = [w \in Workers |-> <<>>]
    /\ releases = [w \in Workers |-> 0]
    /\ next = [w \in Workers |-> 1]
    /\ output = <<>>

(* A morsel from the cursor; past the last one the worker's job ends, and  *)
(* in the last round its sink is released (`finishes`).                    *)
Finishes == round = LastOuter
Take(w) ==
    /\ w \in working /\ taken[w] = 0
    /\ cursor' = cursor + 1
    /\ IF cursor < Len(MorselsOf(round))
       THEN /\ taken' = [taken EXCEPT ![w] = cursor + 1]
            /\ UNCHANGED <<working, releases>>
       ELSE /\ working' = working \ {w}
            /\ releases' = IF Finishes THEN [releases EXCEPT ![w] = @ + 1] ELSE releases
            /\ UNCHANGED taken
    /\ UNCHANGED <<query, round, numbered, found, batches, next, output>>

(* The morsel through the steps after the round's: matches are flagged,    *)
(* and what comes out of the last step is the worker's batch of the        *)
(* morsel's number, if there is anything.                                  *)
Sink(w) ==
    /\ taken[w] # 0
    /\ LET into == Through(round + 1, Input(taken[w]))
           rows == into[Len(query.steps) + 1]
           matched(j) == UNION {Range(MatchesOf(j, into[j][i])) : i \in DOMAIN into[j]}
       IN /\ found' = [j \in Steps |-> IF j > round THEN found[j] \union matched(j) ELSE found[j]]
          /\ batches' = IF rows = <<>> THEN batches
                        ELSE [batches EXCEPT ![w] =
                                 Append(@, [number |-> numbered + taken[w] - 1, rows |-> rows])]
    /\ taken' = [taken EXCEPT ![w] = 0]
    /\ UNCHANGED <<query, round, cursor, numbered, working, releases, next, output>>

\* A slip: every round numbers its morsels from 0.
NumberFromZero(j) == 0

(* The first number of the next round's morsels.                           *)
NumberAfter(j) == numbered + Len(MorselsOf(j))

(* The next right or full join with build rows; the last one's round runs  *)
(* even without, for the sinks to be released (`_emit_unmatched`).         *)
HasRound(j) == Outer(j) /\ (MorselsOf(j) # <<>> \/ j = LastOuter)
NextRound ==
    /\ working = {} /\ round # LastOuter
    /\ \E j \in Steps :
          /\ j > round /\ HasRound(j)
          /\ \A i \in Steps : i > round /\ HasRound(i) => j <= i
          /\ round' = j
    /\ numbered' = NumberAfter(round)
    /\ cursor' = 0
    /\ working' = Workers
    /\ UNCHANGED <<query, taken, found, batches, releases, next, output>>

(* materialize_finish, one batch: the lowest number at the head of a sink. *)
Heads == {w \in Workers : next[w] <= Len(batches[w])}
HeadNumber(w) == batches[w][next[w]].number
Merge ==
    /\ working = {} /\ round = LastOuter
    /\ \E w \in Heads :
          /\ \A v \in Heads : \/ HeadNumber(w) < HeadNumber(v)
                              \/ HeadNumber(w) = HeadNumber(v) /\ w <= v
          /\ output' = output \o batches[w][next[w]].rows
          /\ next' = [next EXCEPT ![w] = @ + 1]
    /\ UNCHANGED <<query, round, cursor, numbered, taken, working, found, batches, releases>>

Done == working = {} /\ round = LastOuter /\ Heads = {}

Next == NextRound \/ Merge \/ \E w \in Workers : Take(w) \/ Sink(w)

Spec == Init /\ [][Next]_vars

-----------------------------------------------------------------------------
(* The joins one after another over whole frames: each one's matches in    *)
(* the order of its input, then, for a right or full join, the build rows  *)
(* that nothing in its input matched.                                      *)
Frames ==
    LET source == FlattenSeq(query.source)
        whole[j \in 1..Len(query.steps) + 1] ==
            IF j = 1 THEN [i \in DOMAIN source |-> <<source[i]>>]
            ELSE LET into == whole[j - 1]
                     matched == UNION {Range(MatchesOf(j - 1, into[i])) : i \in DOMAIN into}
                     left == IF Outer(j - 1)
                             THEN SelectSeq(BuildRows(j - 1), LAMBDA b : b \notin matched)
                             ELSE <<>>
                 IN Join(j - 1, into)
                    \o [i \in DOMAIN left |-> Append(Nulls(j - 1), left[i])]
    IN whole

(* Whoever took which morsel when, the result is that of the joins one     *)
(* after another, row for row and in the same order; and every sink was    *)
(* released once, after its last batch.                                    *)
ResultInSourceOrder ==
    Done => /\ output = Frames[Len(query.steps) + 1]
            /\ \A w \in Workers : releases[w] = 1
=============================================================================
