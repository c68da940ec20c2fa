----------------------------- MODULE CalibrationFit -----------------------------
(***************************************************************************)
(* scripts/metal_calibration.py, `fit`: placement costs from captures.     *)
(*                                                                         *)
(* A capture record holds, for a query and layout (`key`) at a number of   *)
(* rows, the times of the CPU and of the GPU.  The script reads records,   *)
(* rejects what it cannot trust, and fits for every key an affine model of *)
(* each engine with one margin on the GPU's.  A pipeline that several keys *)
(* share gets a lower envelope of all its CPU times.                       *)
(*                                                                         *)
(* Times are integers and models exact rationals: the rounding of floating *)
(* point is left out.  A malformed field is one `fault` of the record.     *)
(***************************************************************************)
EXTENDS Integers, SequencesExt, FiniteSetsExt, TLC

CONSTANTS
    Captures,       \* the files of records to fit
    Pipelines       \* the keys in the reserved CPU pipeline namespace

(* What is wrong with a record: its schema, its identity, its build        *)
(* (development or unnamed), its worker count; and, looked at only if it   *)
(* was measured, a check it did not pass, its pipeline, rows or samples.   *)
IdentityFaults == {"schema", "identity", "build", "workers"}
MeasuredFaults == {"unverified", "pipeline key", "rows", "samples"}

CapturesOK ==
    \A capture \in Captures : \A i \in DOMAIN capture :
        LET r == capture[i]
        IN  /\ r.fault \in IdentityFaults \cup MeasuredFaults \cup {"none"}
            /\ r.measured \in BOOLEAN
            /\ r.measured /\ r.fault = "none" =>
                /\ r.pipeline \in Pipelines /\ r.rows \in Nat \ {0}
                /\ Len(r.cpu) >= 3 /\ Len(r.accel) >= 3
                /\ Range(r.cpu) \cup Range(r.accel) \subseteq Nat \ {0}

-------------------------------------------------------------------------------
(* Rationals, <<numerator, denominator>> in lowest terms.                  *)

gcd[m \in Nat, n \in Nat] == IF n = 0 THEN m ELSE gcd[n, m % n]

Rat(n, d) == LET s == IF d < 0 THEN -1 ELSE 1
                 g == gcd[IF n < 0 THEN -n ELSE n, s * d]
             IN  <<(s * n) \div g, (s * d) \div g>>
Zero == <<0, 1>>
One == <<1, 1>>
a ++ b == Rat(a[1] * b[2] + b[1] * a[2], a[2] * b[2])
a -- b == Rat(a[1] * b[2] - b[1] * a[2], a[2] * b[2])
a ** b == Rat(a[1] * b[1], a[2] * b[2])
a // b == Rat(a[1] * b[2], a[2] * b[1])
a \preceq b == a[1] * b[2] <= b[1] * a[2]
Larger(a, b) == IF a \preceq b THEN b ELSE a
Smaller(a, b) == IF a \preceq b THEN a ELSE b

Sorted(s) == SortSeq(s, LAMBDA a, b : a \preceq b /\ a # b)
Least(s) == Sorted(s)[1]

\* statistics.median
median(s) ==
    LET t == Sorted(s)
        h == Len(t) \div 2
    IN  IF Len(t) % 2 = 1 THEN t[h + 1] ELSE (t[h] ++ t[h + 1]) // <<2, 1>>

-------------------------------------------------------------------------------
(* Models: a fixed cost and a cost per row.  Points are <<rows, time>>.    *)

Model(fixed, row) == [fixed |-> fixed, row |-> row]

_ns(model, rows) == model.fixed ++ (model.row ** Rat(rows, 1))

Scale(model, factor) == Model(model.fixed ** factor, model.row ** factor)

\* The slopes between points at different numbers of rows.
Slopes(points) ==
    LET pairs == SetToSeq({p \in (DOMAIN points) \X (DOMAIN points) :
                    p[1] < p[2] /\ points[p[1]][1] # points[p[2]][1]})
    IN  [i \in DOMAIN pairs |->
            LET p == points[pairs[i][1]]
                q == points[pairs[i][2]]
            IN  (q[2] -- p[2]) // Rat(q[1] - p[1], 1)]

Residuals(points, slope) ==
    [i \in DOMAIN points |-> points[i][2] -- (slope ** Rat(points[i][1], 1))]
PerRow(points) == [i \in DOMAIN points |-> points[i][2] // Rat(points[i][1], 1)]

\* `_envelope(points, False)`: no point is below it, by a tenth.
_envelope(points) ==
    LET slope == Smaller(Larger(Zero, median(Slopes(points))),
                         Least(PerRow(points)))
        fixed == Larger(Zero, Least(Residuals(points, slope)))
    IN  Scale(Model(fixed, slope), <<9, 10>>)

_typical(points) ==
    LET slope == Larger(Zero, median(Slopes(points)))
        fixed == median(Residuals(points, slope))
    IN  IF fixed \preceq Zero /\ fixed # Zero
        THEN Model(Zero, median(PerRow(points)))
        ELSE Model(fixed, slope)

-------------------------------------------------------------------------------

VARIABLES
    capture,        \* the records, and how many have been read
    at,
    identity,       \* the identity of those read, None before the first
    entries,        \* the measured records, in order
    profile,        \* the operators and regions fitted
    outcome         \* "reading", "fitted", or "rejected": an exception

vars == <<capture, at, identity, entries, profile, outcome>>

None == "no identity"
NoProfile == [operators |-> <<>>, regions |-> <<>>]

TypeOK ==
    /\ capture \in Captures
    /\ at \in 0..Len(capture)
    /\ \A i \in DOMAIN entries : entries[i].measured /\ entries[i].fault = "none"
    /\ outcome \in {"reading", "fitted", "rejected"}
    /\ outcome # "fitted" => profile = NoProfile

Init ==
    /\ capture \in Captures
    /\ at = 0
    /\ identity = None
    /\ entries = <<>>
    /\ profile = NoProfile
    /\ outcome = "reading"

\* The checks of the loop's body: those of the identity come first.
Rejects(r) ==
    \/ r.fault \in IdentityFaults
    \/ identity # None /\ r.identity # identity
    \/ r.measured /\ r.fault \in MeasuredFaults

ReadRecord ==
    /\ outcome = "reading" /\ at < Len(capture)
    /\ LET r == capture[at + 1]
       IN  IF Rejects(r)
           THEN /\ outcome' = "rejected"
                /\ UNCHANGED <<at, identity, entries>>
           ELSE /\ at' = at + 1
                /\ identity' = r.identity
                /\ entries' = IF r.measured THEN Append(entries, r) ELSE entries
                /\ UNCHANGED outcome
    /\ UNCHANGED <<capture, profile>>

-------------------------------------------------------------------------------
(* The fit.                                                                *)

ScalesOf(es) == SetToSortSeq({e.rows : e \in Range(es)}, <)
Times(es) == [i \in DOMAIN es |-> Rat(es[i], 1)]
Joined(es, F(_)) == FoldLeft(LAMBDA all, e : all \o F(e), <<>>, es)
SameRows(es, n) == SelectSeq(es, LAMBDA e : e.rows = n)
OfKey(key) == SelectSeq(entries, LAMBDA e : e.key = key)
OfPipeline(key) == SelectSeq(entries, LAMBDA e : e.pipeline = key)
Keys == {e.key : e \in Range(entries)}
PipelineKeys == {e.pipeline : e \in Range(entries)}

CpuTimes(es, n) == Times(Joined(SameRows(es, n), LAMBDA e : e.cpu))
AccelTimes(es, n) == Times(Joined(SameRows(es, n), LAMBDA e : e.accel))
Points(es, F(_, _)) ==
    [i \in DOMAIN ScalesOf(es) |-> <<ScalesOf(es)[i], F(es, ScalesOf(es)[i])>>]

\* The ratios of CPU and GPU time at `n` rows: samples taken in pairs.
Paired(es, n) ==
    Joined(SameRows(es, n), LAMBDA e :
        [i \in 1..Min({Len(e.cpu), Len(e.accel)}) |-> Rat(e.cpu[i], e.accel[i])])

Observed(es, n) == median(Paired(es, n))

\* A slip: the margin covers the noise within a scale only.
GuardOfNoise(es, cpu, accel) ==
    LET off(n, i) == (Paired(es, n)[i] // Observed(es, n)) -- One
        errors == FoldLeft(
            LAMBDA all, n : all \o
                [i \in DOMAIN Paired(es, n) |->
                    Larger(off(n, i), Zero -- off(n, i))],
            <<>>, ScalesOf(es))
    IN  Larger(<<21, 20>>, One ++ (<<2, 1>> ** median(errors)))

\* `switch_margin` plus one: how far the fits overstate the GPU, and the noise
\* within a number of rows on top of that; at least five per cent.
GuardOf(es, cpu, accel) ==
    LET scales == ScalesOf(es)
        optimism == FoldLeft(
            LAMBDA most, n :
                Larger(most, (_ns(cpu, n) // _ns(accel, n)) // Observed(es, n)),
            One, scales)
        errors == FoldLeft(
            LAMBDA all, n : all \o
                [i \in DOMAIN Paired(es, n) |->
                    LET off == (Paired(es, n)[i] // Observed(es, n)) -- One
                    IN  Larger(off, Zero -- off)],
            <<>>, scales)
    IN  Larger(<<21, 20>>,
               optimism ** (One ++ (<<2, 1>> ** median(errors))))

Region(key) ==
    LET es == OfKey(key)
        cpu == _typical(Points(es, LAMBDA s, n : median(CpuTimes(s, n))))
        accel == _typical(Points(es, LAMBDA s, n : median(AccelTimes(s, n))))
    IN  [pipeline_key |-> es[1].pipeline,
         cpu_key |-> key,
         cpu |-> cpu,
         accel |-> Scale(accel, GuardOf(es, cpu, accel)),
         min_rows |-> ScalesOf(es)[1],
         max_rows |-> Last(ScalesOf(es))]

\* A slip: a pipeline's model is the typical one of its queries.
PipelineTypical(key) ==
    _typical(Points(OfPipeline(key), LAMBDA s, n : median(CpuTimes(s, n))))

\* A pipeline's fastest CPU times, of every query that shares it.
PipelineModel(key) ==
    _envelope(Points(OfPipeline(key), LAMBDA s, n : Least(CpuTimes(s, n))))

\* Every key has three scales and one pipeline, and is not a pipeline's.
Fits ==
    /\ entries # <<>>
    /\ \A key \in Keys :
        /\ Len(ScalesOf(OfKey(key))) >= 3
        /\ Cardinality({e.pipeline : e \in Range(OfKey(key))}) = 1
        /\ key \notin Pipelines
    /\ \A key \in PipelineKeys : Len(ScalesOf(OfPipeline(key))) >= 2

\* The operators: the pipelines' first, then the regions' own.
Operators ==
    [key \in Keys |-> Region(key).cpu] @@
        [key \in PipelineKeys |-> PipelineModel(key)]

Fit ==
    /\ outcome = "reading" /\ at = Len(capture)
    /\ IF Fits
       THEN /\ profile' = [operators |-> Operators,
                           regions |-> [key \in Keys |-> Region(key)]]
            /\ outcome' = "fitted"
       ELSE /\ outcome' = "rejected"
            /\ UNCHANGED profile
    /\ UNCHANGED <<capture, at, identity, entries>>

Next == ReadRecord \/ Fit

Spec == Init /\ [][Next]_vars

-------------------------------------------------------------------------------

Fitted == outcome = "fitted"

\* At every scale that was measured, a GPU that was not faster (by the median
\* of the paired samples) is not estimated faster: "no consistently slower
\* measured scale may be fitted as a GPU win" (metal_calibration.py:170-172).
\* dataframe_metal/handoff.mojo compares the two estimates.
NoLosingScaleWins ==
    Fitted => \A key \in Keys :
        \A i \in DOMAIN ScalesOf(OfKey(key)) :
            LET n == ScalesOf(OfKey(key))[i]
                region == profile.regions[key]
            IN  Observed(OfKey(key), n) \preceq One =>
                    _ns(region.cpu, n) \preceq _ns(region.accel, n)

NonNegative(model) == Zero \preceq model.fixed /\ Zero \preceq model.row

\* Every profile the script writes is one that its reader takes
\* (dataframe_metal/calibration.mojo:203-242): a region's CPU model is the one
\* its key has among the operators, and its pipeline has a model of its own,
\* which no query that shares the pipeline ever beat ("pooling does not
\* inflate CPU cost to favor Metal", docs/apple-metal.md).
ReaderTakesProfile ==
    Fitted => \A key \in DOMAIN profile.regions :
        LET region == profile.regions[key]
            floor == profile.operators[region.pipeline_key]
        IN  /\ region.pipeline_key \in Pipelines
            /\ region.cpu_key = key
            /\ profile.operators[region.cpu_key] = region.cpu
            /\ 1 <= region.min_rows /\ region.min_rows <= region.max_rows
            /\ NonNegative(region.cpu) /\ NonNegative(region.accel)
            /\ NonNegative(floor)
            /\ \A e \in Range(OfPipeline(region.pipeline_key)) :
                \A i \in DOMAIN e.cpu :
                    _ns(floor, e.rows) \preceq Rat(e.cpu[i], 1)
===============================================================================
