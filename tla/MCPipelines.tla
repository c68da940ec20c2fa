---------------------------- MODULE MCPipelines ----------------------------
(***************************************************************************)
(* Three pipelines whose workers share the morsels of one source: a chain  *)
(* of joins that gathers its rows, a group-by, and the top-N of TopN.      *)
(* They share no state, so the run chooses one and checks it on its own:   *)
(* s1 .. s14 are the variables of the first two, in the order of their     *)
(* modules, and while one of them runs the top-N stays at its start.       *)
(***************************************************************************)
EXTENDS TopN

CONSTANTS w1, w2

VARIABLES part, s1, s2, s3, s4, s5, s6, s7, s8, s9, s10, s11, s12, s13, s14

joined == <<s1, s2, s3, s4, s5, s6, s7, s8, s9, s10, s11>>
grouped == <<joined, s12, s13, s14>>
mcVars == <<vars, part, grouped>>
Idle == "idle"
OtherWorkers == {1, 2, 3}

\* Two joins: every pair of kinds, the second on either column, over a build
\* side that has no chunks or whose rows match some of the source's.
Joining(how, on, build, pairs) == [how |-> how, on |-> on, build |-> build, pairs |-> pairs]
Hows == {"inner", "left", "right", "full"}
MCQueries ==
    {[source |-> <<<<1, 2>>, <<3>>, <<4>>>>,
      steps |-> <<Joining(first, 1, build, {<<1, 1>>, <<3, 1>>, <<3, 3>>}),
                  Joining(second, on, <<<<1>>, <<2>>>>, {<<1, 1>>, <<2, 2>>})>>] :
        first \in Hows, second \in Hows, on \in {1, 2}, build \in {<<>>, <<<<1, 2>>, <<3>>>>}}

\* Two or three morsels of up to three chunks.  a and b lie in one partition of one
\* bit and in two of two bits; b and c lie in one always.
MCInputs ==
    {<<<<<<"a">>, <<"b">>>>, <<<<"c">>, <<"a">>>>, <<<<"b">>>>>>,
     <<<<<<"b", "a">>>>, <<<<"c">>, <<"b">>>>, <<<<"d">>, <<"a">>>>>>,
     <<<<<<"d">>, <<"a">>, <<"b">>>>, <<<<"d">>>>>>,
     <<<<<<"c">>, <<"b">>, <<"c">>>>, <<<<"a">>, <<"b">>, <<"a">>>>, <<<<"b">>, <<"c">>>>>>}
MCHash == [k \in {"a", "b", "c", "d"} |-> CASE k = "a" -> 1 [] k = "d" -> 2 [] OTHER -> 0]

\* The best two of five rows, in three morsels of one or two vectors.
TopWorkers == {w1, w2}
ThreeKeys == {1, 2, 3}
ThreeMorsels == << << <<1, 2>> >>, << <<3>>, <<4>> >>, << <<5>> >> >>
WorkerSymmetry == Permutations(TopWorkers)

Join == INSTANCE MorselPipeline
    WITH Workers <- OtherWorkers, Queries <- MCQueries,
         query <- s1, round <- s2, cursor <- s3, numbered <- s4, taken <- s5, working <- s6,
         found <- s7, batches <- s8, releases <- s9, next <- s10, output <- s11
Group == INSTANCE AggregateTable
    WITH Workers <- OtherWorkers, Inputs <- MCInputs, Keys <- DOMAIN MCHash, Hash <- MCHash, InitialBits <- 1,
         MaxBits <- 2, Capacity <- 4, PartitionRows <- 1, MaxRows <- 4,
         input <- s1, grows <- s2, ordered <- s3, cursor <- s4, radix <- s5, at <- s6,
         morsel <- s7, chunk <- s8, sink <- s9, cuts <- s10, part <- s11, head <- s12,
         final <- s13, output <- s14

MCInit ==
    /\ Init
    /\ \/ part = "joins" /\ Join!Init /\ s12 = Idle /\ s13 = Idle /\ s14 = Idle
       \/ part = "groups" /\ Group!Init
       \/ part = "top" /\ s1 = Idle /\ s2 = Idle /\ s3 = Idle /\ s4 = Idle /\ s5 = Idle
          /\ s6 = Idle /\ s7 = Idle /\ s8 = Idle /\ s9 = Idle /\ s10 = Idle /\ s11 = Idle
          /\ s12 = Idle /\ s13 = Idle /\ s14 = Idle
    /\ part # "top" => key = [r \in Rows |-> 1] /\ ~maintain

MCNext ==
    \/ part = "joins" /\ Join!Next /\ UNCHANGED <<vars, part, s12, s13, s14>>
    \/ part = "groups" /\ Group!Next /\ UNCHANGED <<vars, part>>
    \/ part = "top" /\ Next /\ UNCHANGED <<part, grouped>>

MCSpec == MCInit /\ [][MCNext]_mcVars

-----------------------------------------------------------------------------
\* pipeline.mojo: the batch a chain of joins gathers is the rows of the
\* joins in source order, whichever worker took which morsel.
ResultInSourceOrder == part = "joins" => Join!TypeOK /\ Join!ResultInSourceOrder

\* hash_table.mojo: group rows are where the finish takes them to be, and the
\* groups are those of the input, in an order that does not depend on the
\* workers, however tables fill and bits are raised.
GroupsExact == part = "groups" => Group!TypeOK /\ Group!RowsInOrder /\ Group!GroupsExact
=============================================================================
