-------------------------------- MODULE MCScripts --------------------------------
(***************************************************************************)
(* The programs under scripts/ that check, fit and generate, one at a      *)
(* time: the run chooses one and steps it to its end.  They share nothing, *)
(* so one run holds them all: those that check are RepositoryChecks, and   *)
(* for the others s1 .. s12 are the variables of the one that runs, in the *)
(* order of its module, and Idle beyond them.                              *)
(***************************************************************************)
EXTENDS RepositoryChecks, Integers, Sequences, FiniteSets, TLC

CONSTANTS f1, f2, f3

VARIABLES s1, s2, s3, s4, s5, s6, s7, s8, s9, s10, s11, s12

work == <<s1, s2, s3, s4, s5, s6, s7, s8, s9, s10, s11, s12>>
vars == <<tool, search, check, work>>

-------------------------------------------------------------------------------
(* Tests and imports: three files, programs for the one, modules for the   *)
(* other.                                                                  *)

ThreeFiles == {f1, f2, f3}
FileSymmetry == Permutations(ThreeFiles)

\* For each check some of the layers its rules tell apart, those excepted from a
\* rule among them.  Two modules may be of one layer, and a module may import
\* itself.
SomeLayers == [
    query |-> {"planning.physical", "optimizer", "query_execution", "lazy_api"},
    aggregation |-> {"aggregation", "lazy_api", "frame"},
    joins |-> {"joins", "DataFrame", "lazy_api"},
    storage |-> {"storage", "nested", "series", "execution"},
    kernels |-> {"kernels", "BoundExpr", "legacy"},
    text |-> {"text", "unicode tables", "io"},
    json |-> {"json", "csv_numeric", "legacy"}]

-------------------------------------------------------------------------------
(* Captures: three scales with outliers and ties, GPU better and worse; and *)
(* what the script refuses.                                                *)

Record(key, n, cpu, accel) ==
    [fault |-> "none", identity |-> "this", measured |-> TRUE, key |-> key,
     pipeline |-> "p", rows |-> n, cpu |-> cpu, accel |-> accel]
Scale(n) == {Record("k", n, c, g) :
    c \in {<<2, 3, 3>>, <<2, 6, 9>>, <<5, 5, 8>>},
    g \in {<<1, 3, 4>>, <<4, 4, 9>>, <<5, 6, 12>>}}
Good == <<Record("k", 1, <<2, 3, 3>>, <<5, 5, 6>>),
          Record("k", 2, <<5, 5, 8>>, <<5, 5, 6>>),
          Record("k", 4, <<9, 12, 10>>, <<6, 6, 7>>)>>
Other == <<Record("l", 1, <<4, 4, 4>>, <<5, 5, 6>>),
           Record("l", 2, <<4, 3, 4>>, <<5, 5, 6>>),
           Record("l", 4, <<8, 8, 9>>, <<6, 6, 7>>)>>
Second(field, value) == [Good EXCEPT ![2] = (field :> value) @@ @]
Captures ==
    {<<a, b, c>> : a \in Scale(1), b \in Scale(2), c \in Scale(4)}
    \cup {Good \o Other, Other \o Good, <<>>, <<Good[1], Good[2]>>}
    \cup {Second("fault", f) : f \in {"schema", "identity", "build", "workers",
                "unverified", "pipeline key", "rows", "samples"}}
    \cup {Second("measured", FALSE), Second("identity", "other"),
          Second("pipeline", "q"), [i \in 1..3 |-> ("key" :> "p") @@ Good[i]],
          <<[Good[1] EXCEPT !.measured = FALSE, !.fault = "rows"]>> \o Good}
Pipelines == {"p", "q"}

-------------------------------------------------------------------------------
(* A small Unicode: sixteen code points in pages of four for the           *)
(* normalization, eight around two surrogates for the properties, four for *)
(* the case folding.                                                       *)

Decomposition(compat, parts) == [compat |-> compat, parts |-> parts]
Decompositions ==
    LET at9 == {Decomposition(FALSE, <<1, 8>>), Decomposition(TRUE, <<1, 8>>)}
        at10 == {Decomposition(FALSE, <<2, 8>>), Decomposition(FALSE, <<2, 1>>)}
        at12 == {Decomposition(FALSE, <<9, 8>>), Decomposition(TRUE, <<3, 4, 5>>),
                 Decomposition(FALSE, <<1, 2, 3, 4>>)}
    IN  {(9 :> a) @@ (10 :> b) @@ (12 :> c) @@ (15 :> Decomposition(FALSE, <<3, 8>>)) :
            a \in at9, b \in at10, c \in at12} \cup {12 :> c : c \in at12}
Values ==
    {[cp \in 0..15 |-> IF cp >= 8 /\ cp % 4 = 1 THEN 9 ELSE 0],
     [cp \in 0..15 |-> IF cp = 10 THEN 63 ELSE 0],
     [cp \in 0..15 |-> IF cp = 13 THEN 64 ELSE 0]}
Normalizations ==
    {[properties |-> v, records |-> d, excluded |-> e,
      hash |-> [p \in (0..15) \X (0..15) |-> h * p[1] + p[2] + 6]] :
        v \in Values, d \in Decompositions, e \in {{}, {10}}, h \in {1, 4}}

Ranges == {<<>>, <<<<0, 1>>>>, <<<<0, 0>>, <<2, 5>>>>, <<<<1, 2>>, <<6, 7>>>>,
           <<<<3, 4>>>>}
Upstream ==
    {[tables |->
        (<<"Age", 1>> :> a) @@ (<<"Age", 2>> :> b) @@ (<<"Age", 10>> :> <<<<5, 5>>>>)
        @@ (<<"General_Category", "Unassigned">> :> u)
        @@ (<<"Script", "X">> :> <<<<2, 3>>, <<4, 4>>>>)
        @@ (<<"Binary", "B">> :> <<<<2, 2>>, <<5, 7>>>>),
      properties |->
        (<<"a">> :> "Age") @@ (<<"g", "c">> :> "General_Category") @@ (<<"s">> :> "Script")
        @@ ((IF same THEN <<"x">> ELSE <<"c">>) :> "B") @@ (<<"n", "t">> :> "no table"),
      values |->
        [Age |-> (<<"1">> :> 1) @@ (<<"2">> :> 2) @@ (<<"1", "0">> :> 10),
         General_Category |-> (<<"c", "n">> :> "Unassigned") @@ (<<"n">> :> "no table"),
         Script |-> (IF same THEN <<"c", "n">> ELSE <<"x">>) :> "X"]] :
        a \in Ranges, b \in Ranges, u \in Ranges \cup {<<<<0, 7>>>>},
        same \in BOOLEAN}

\* Words as they are, with letters more or less, in capitals, with separators
\* and "is"; and what is in the index but no word of it.
NamesAsked ==
    {<<"C", "n">>, <<"c", "_", "N">>, <<"c">>, <<"n">>, <<"c", "n", "n">>, <<>>,
     <<"I", "s", " ", "C", "n">>, <<"i", "-", "s", "x">>, <<"i", "s">>,
     <<"i", "s", "i", "s", "x">>, <<"A", "=", "1">>, <<"a", "=", "1", "_", "0">>,
     <<"a", "=">>, <<"a">>, <<"g", "c", "=", "c", "n">>, <<"s", "=", "X">>,
     <<"x", ":", "0">>, <<"A", "n", "y">>, <<"A", "S", "C", "I", "I">>}

-------------------------------------------------------------------------------

Fit == INSTANCE CalibrationFit
    WITH capture <- s1, at <- s2, identity <- s3, entries <- s4,
         profile <- s5, outcome <- s6
Normal == INSTANCE NormalizationTables
    WITH Inputs <- Normalizations, LastCode <- 15, Base <- 8, PageSize <- 4,
         FirstSize <- 8, LongestRun <- 2, MaxSize <- 32,
         input <- s1, tables <- s2, unread <- s3, pairs <- s4, size <- s5,
         slots <- s6, left <- s7, result <- s8
Property == INSTANCE PropertyTables
    WITH Inputs <- Upstream, Names <- NamesAsked, LastAscii <- 1, LastCode <- 7,
         Surrogates <- {3, 4},
         upstream <- s1, tables <- s2, ages <- s3, aliases <- s4, left <- s5,
         key <- s6, ranges <- s7, merged <- s8, text <- s9, offsets <- s10,
         index <- s12, phase <- s11
Fold == INSTANCE CaseFolding
    WITH Codes <- 0..3, mapped <- s1, class <- s2, next <- s3, asked <- s4, out <- s5,
         at <- s6, k <- s7, member <- s8, phase <- s9
ASSUME InstanceAssumption ==
    Fit!CapturesOK /\ Normal!InputsOK /\ Property!UpstreamOK

NoWork ==
    /\ s1 = Idle /\ s2 = Idle /\ s3 = Idle /\ s4 = Idle /\ s5 = Idle /\ s6 = Idle
    /\ s7 = Idle /\ s8 = Idle /\ s9 = Idle /\ s10 = Idle /\ s11 = Idle /\ s12 = Idle

WorkInit ==
    \/ /\ tool = "fit" /\ Fit!Init /\ s7 = Idle /\ s8 = Idle /\ s9 = Idle
       /\ s10 = Idle /\ s11 = Idle /\ s12 = Idle
    \/ /\ tool = "normalization" /\ Normal!Init /\ s9 = Idle
       /\ s10 = Idle /\ s11 = Idle /\ s12 = Idle
    \/ tool = "properties" /\ Property!Init
    \/ /\ tool = "folding" /\ Fold!Init
       /\ s10 = Idle /\ s11 = Idle /\ s12 = Idle

WorkNext ==
    \/ /\ tool = "fit" /\ Fit!Next
       /\ UNCHANGED <<tool, s7, s8, s9, s10, s11, s12>>
    \/ /\ tool = "normalization" /\ Normal!Next
       /\ UNCHANGED <<tool, s9, s10, s11, s12>>
    \/ tool = "properties" /\ Property!Next /\ UNCHANGED tool
    \/ tool = "folding" /\ Fold!Next /\ UNCHANGED <<tool, s10, s11, s12>>

Init == (CheckInit /\ NoWork) \/ (NoSearch /\ NoCheck /\ WorkInit)

Next ==
    \/ CheckNext /\ UNCHANGED work
    \/ WorkNext /\ UNCHANGED <<search, check>>

Spec == Init /\ [][Next]_vars

-------------------------------------------------------------------------------

\* metal_calibration.py never fits a GPU win at a scale that was measured slower.
NoLosingScaleWins == tool = "fit" => Fit!TypeOK /\ Fit!NoLosingScaleWins

\* The profiles metal_calibration.py writes are those its reader accepts.
ReaderTakesProfile == tool = "fit" => Fit!ReaderTakesProfile

\* normalization_tables.py, regex_unicode_tables.py and the lookups of their
\* tables: what is looked up is what the Unicode database says, for every code
\* point and pair, and every set to fold.
TablesAnswer ==
    /\ tool = "normalization" => Normal!TypeOK /\ Normal!LookupsAgree
    /\ tool = "folding" => Fold!TypeOK /\ Fold!FoldCloses

\* regex_property_tables.py and property_class: a name of a property finds the
\* set it means, among the words of its index.
NamesAnswer == tool = "properties" => Property!TypeOK /\ Property!NamesFindTheirSets
=================================================================================
