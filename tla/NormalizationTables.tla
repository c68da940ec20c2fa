--------------------------- MODULE NormalizationTables ---------------------------
(***************************************************************************)
(* scripts/normalization_tables.py, `generate`, and the lookups it writes  *)
(* into dataframe/text/unicode/normalization_tables.mojo.                  *)
(*                                                                         *)
(* Tables are sequences of digits below Base (128: ASCII strings), split   *)
(* into pages of which equal ones are stored once; pairs of code points    *)
(* that compose are in an open-addressing table that doubles until no run  *)
(* of occupied slots is longer than a bound.  The lookups never see what   *)
(* the tables were made of, only digits and offsets.                       *)
(*                                                                         *)
(* The files of the Unicode database are read by the parser's rules left   *)
(* out here; `Inputs` are what they say.                                   *)
(***************************************************************************)
EXTENDS Integers, SequencesExt, FiniteSetsExt

CONSTANTS
    Inputs,         \* [properties, records, excluded, hash]: see InputsOK
    LastCode,       \* 16r10FFFF
    Base,           \* 128, what an ASCII byte can hold
    PageSize,       \* 256
    FirstSize,      \* 2048, the slots of the first table
    LongestRun,     \* 16
    MaxSize         \* bound: no table grows past it

Codes == 0..LastCode

\* What is under Base is ASCII: it has no properties and no decomposition.  A
\* pair composes to one code point.  `hash` stands for the mixing of a pair,
\* any function.  The table has room for all pairs.
InputsOK ==
    /\ (LastCode + 1) % PageSize = 0 /\ Base % 2 = 0
    /\ LongestRun < FirstSize
    /\ \A in \in Inputs :
        /\ in.properties \in [Codes -> Nat]
        /\ \A cp \in 0..Base - 1 : in.properties[cp] = 0
        /\ DOMAIN in.records \subseteq Codes \ {0}
        /\ \A cp \in DOMAIN in.records :
            /\ in.records[cp].compat \in BOOLEAN
            /\ Range(in.records[cp].parts) \subseteq Codes
        /\ in.excluded \subseteq Codes
        /\ in.hash \in [Codes \X Codes -> Nat]
        /\ Cardinality(DOMAIN in.records) < FirstSize

-------------------------------------------------------------------------------
(* Digits.                                                                 *)

pack(value, width) ==
    [i \in 1..width |-> (value \div Base^(i - 1)) % Base]

\* _read2, _read3: a number of `width` digits from offset `at` on.
read(data, at, width) ==
    FoldLeft(LAMBDA n, i : n + data[at + i] * Base^(i - 1), 0,
             [i \in 1..width |-> i])

Packed(s, width) ==
    [i \in 1..width * Len(s) |->
        pack(s[((i - 1) \div width) + 1], width)[((i - 1) % width) + 1]]

\* The pages of a table over all code points: each distinct page once, in the
\* order met, and for every page the number of its copy.
Pages(values) ==
    LET Page == 0..((LastCode + 1) \div PageSize) - 1
        Content(k) == [i \in 0..PageSize - 1 |-> values[k * PageSize + i]]
        First(k) == Min({j \in Page : Content(j) = Content(k)})
        firsts == SetToSortSeq({First(k) : k \in Page}, <)
        Copy(i) == firsts[((i - 1) \div PageSize) + 1]
    IN  [numbers |-> Packed([k \in 1..Cardinality(Page) |->
                        Cardinality({f \in Range(firsts) : f < First(k - 1)})], 2),
         copies |-> Packed([i \in 1..PageSize * Len(firsts) |->
                        values[PageSize * Copy(i) + ((i - 1) % PageSize)]], 2)]

-------------------------------------------------------------------------------

VARIABLES
    input,
    tables,         \* the tables written so far
    unread,         \* the decompositions not yet tabulated
    pairs,          \* the pairs that compose, with what they compose to
    size,           \* the slots of the composition table, 0 before it is made
    slots,          \* what is in them
    left,           \* the pairs still to be placed, in order
    result          \* "running", "written", or "failed": an assertion

vars == <<input, tables, unread, pairs, size, slots, left, result>>

Free == <<0, 0, 0>>
NoTables == [pages |-> <<>>, props |-> <<>>, decomp |-> <<>>, values |-> <<>>,
             decompPages |-> <<>>, decompIds |-> <<>>, compose |-> <<>>]
records == input.records

TypeOK ==
    /\ input \in Inputs
    /\ DOMAIN tables = DOMAIN NoTables
    /\ \A t \in DOMAIN tables : Range(tables[t]) \subseteq 0..Base - 1
    /\ unread \subseteq DOMAIN records
    /\ Range(pairs) \cup Range(left) \subseteq Codes \X Codes \X Codes
    /\ size % FirstSize = 0
    /\ slots \in [0..size - 1 -> Codes \X Codes \X Codes]
    /\ result \in {"running", "written", "failed"}

Init ==
    /\ input \in Inputs
    /\ tables = NoTables
    /\ unread = DOMAIN input.records
    /\ pairs = <<>>
    /\ size = 0 /\ slots = <<>> /\ left = <<>>
    /\ result = "running"

Fail ==
    /\ result' = "failed"
    /\ UNCHANGED <<input, tables, unread, pairs, size, slots, left>>

\* The property pages.  `pack` asserts that a number fits its digits.
Properties ==
    /\ result = "running" /\ tables.pages = <<>>
    /\ IF \A cp \in Codes : input.properties[cp] < Base^2
       THEN /\ tables' = [tables EXCEPT
                    !.pages = Pages(input.properties).numbers,
                    !.props = Pages(input.properties).copies]
            /\ UNCHANGED <<input, unread, pairs, size, slots, left, result>>
       ELSE Fail

\* The next decomposition: an entry, its parts, and a pair if it composes.
Decompose ==
    /\ result = "running" /\ tables.pages # <<>> /\ unread # {}
    /\ LET cp == Min(unread)
           parts == records[cp].parts
           mark == IF records[cp].compat THEN Base \div 2 ELSE 0
       IN  IF Len(parts) < Base \div 2
           THEN /\ unread' = unread \ {cp}
                /\ tables' = [tables EXCEPT
                    !.decomp = @ \o pack(cp, 3) \o pack(Len(tables.values) \div 3, 3)
                                 \o pack(Len(parts) + mark, 1),
                    !.values = @ \o Packed(parts, 3)]
                /\ pairs' = IF /\ ~records[cp].compat /\ Len(parts) = 2
                               /\ cp \notin input.excluded
                            THEN Append(pairs, <<parts[1], parts[2], cp>>)
                            ELSE pairs
                /\ UNCHANGED <<input, size, slots, left, result>>
           ELSE Fail

NewSlots(n) ==
    /\ size' = n
    /\ slots' = [s \in 0..n - 1 |-> Free]
    /\ left' = pairs

\* The numbers of the entries, counted from one: none is 0.
Ids == [cp \in Codes |-> IF cp \in DOMAIN records
                         THEN Cardinality({r \in DOMAIN records : r <= cp})
                         ELSE 0]

\* Their pages, and the first, empty, composition table.
Number ==
    /\ result = "running" /\ tables.pages # <<>> /\ unread = {} /\ size = 0
    /\ IF \A i \in DOMAIN pairs : pairs[i][2] >= Base
       THEN /\ tables' = [tables EXCEPT !.decompPages = Pages(Ids).numbers,
                                        !.decompIds = Pages(Ids).copies]
            /\ NewSlots(FirstSize)
            /\ UNCHANGED <<input, unread, pairs, result>>
       ELSE Fail

\* A pair goes into the first free slot from its own on.
Place ==
    /\ result = "running" /\ left # <<>>
    /\ LET pair == Head(left)
           own == input.hash[<<pair[1], pair[2]>>]
           step == Min({d \in 0..size - 1 : slots[(own + d) % size] = Free})
       IN  slots' = [slots EXCEPT ![(own + step) % size] = pair]
    /\ left' = Tail(left)
    /\ UNCHANGED <<input, tables, unread, pairs, size, result>>

\* A slip: the slots are gone over once.
RunsOnce == {<<at, n>> \in (0..size - 1) \X (1..size) :
                /\ at + n <= size
                /\ \A d \in 0..n - 1 : slots[at + d] # Free}

\* The runs of occupied slots in the table taken twice over, as a run goes on
\* past the end: where one starts and how long it is.
Runs == {<<at, n>> \in (0..size - 1) \X (1..2 * size) :
            /\ at + n <= 2 * size
            /\ \A d \in 0..n - 1 : slots[(at + d) % size] # Free}
Longest == Max({0} \cup {run[2] : run \in Runs})

Grow ==
    /\ result = "running" /\ size # 0 /\ left = <<>>
    /\ Longest > LongestRun /\ size < MaxSize
    /\ NewSlots(2 * size)
    /\ UNCHANGED <<input, tables, unread, pairs, result>>

Write ==
    /\ result = "running" /\ size # 0 /\ left = <<>>
    /\ Longest <= LongestRun
    /\ tables' = [tables EXCEPT !.compose =
            [i \in 1..9 * size |-> Packed(slots[(i - 1) \div 9], 3)[((i - 1) % 9) + 1]]]
    /\ result' = "written"
    /\ UNCHANGED <<input, unread, pairs, size, slots, left>>

Next == Properties \/ Decompose \/ Number \/ Place \/ Grow \/ Write

Spec == Init /\ [][Next]_vars

-------------------------------------------------------------------------------
(* The generated lookups: they see `tables`, and the mask, size - 1.       *)

properties(cp) ==
    IF cp < Base THEN 0
    ELSE LET page == read(tables.pages, 2 * (cp \div PageSize), 2)
         IN  read(tables.props, 2 * PageSize * page + 2 * (cp % PageSize), 2)

\* Where the parts are and how many; <<0, 0>> if there are none.
decomposition(cp, compatible) ==
    LET page == read(tables.decompPages, 2 * (cp \div PageSize), 2)
        index == read(tables.decompIds,
                      2 * PageSize * page + 2 * (cp % PageSize), 2) - 1
        mark == tables.decomp[7 * index + 7]
    IN  IF index < 0 \/ (mark >= Base \div 2 /\ ~compatible)
        THEN <<0, 0>>
        ELSE <<read(tables.decomp, 7 * index + 3, 3), mark % (Base \div 2)>>

decomposition_value(index) == read(tables.values, 3 * index, 3)

\* What the loop finds at the `probes`-th slot of a pair, or that it goes on.
Probe(a, b, probes) ==
    LET at == 9 * ((input.hash[<<a, b>>] + probes) % size)
        cp == read(tables.compose, at + 6, 3)
    IN  IF cp = 0 THEN {-1}
        ELSE IF read(tables.compose, at, 3) = a /\ read(tables.compose, at + 3, 3) = b
        THEN {cp}
        ELSE {}

-------------------------------------------------------------------------------

\* The lookups give back, for every code point and pair, what the database
\* says, and a composition reads at most one slot more than the longest run
\* ("the longest occupied run is <=16", normalization_tables.py:149): pages
\* that are stored once, numbers cut into digits, and runs that go on past the
\* end of the table all come out right.
LookupsAgree ==
    result = "written" =>
        /\ \A cp \in Codes :
            /\ properties(cp) = input.properties[cp]
            /\ \A compatible \in BOOLEAN :
                LET found == decomposition(cp, compatible)
                    parts == IF cp \in DOMAIN records
                                /\ (records[cp].compat => compatible)
                             THEN records[cp].parts ELSE <<>>
                IN  parts = [i \in 1..found[2] |->
                                decomposition_value(found[1] + i - 1)]
        /\ \A a \in Codes, b \in Codes :
            LET composed == {p[3] : p \in {q \in Range(pairs) : q[1] = a /\ q[2] = b}}
            IN  \E n \in 0..LongestRun :
                    /\ \A m \in 0..n - 1 : Probe(a, b, m) = {}
                    /\ Probe(a, b, n) = IF composed = {} THEN {-1} ELSE composed
===============================================================================
