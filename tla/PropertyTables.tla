----------------------------- MODULE PropertyTables -----------------------------
(***************************************************************************)
(* scripts/regex_property_tables.py: the sets of code points behind \p{..} *)
(* in the regex engine, and the index that finds them by name.             *)
(*                                                                         *)
(* The upstream tables list, for a kind of property and a value, ranges of *)
(* code points.  The script accumulates the ages, complements Unassigned,  *)
(* resolves the aliases, merges every table into canonical ranges of       *)
(* scalar values, and writes them one after another into one text that the *)
(* index points into.  A range is one element of that text here, and a     *)
(* newline another.  The index is letter by letter what it is, as it is    *)
(* searched by comparing letters: a line is a word and two offsets.        *)
(***************************************************************************)
EXTENDS Integers, SequencesExt, FiniteSetsExt

CONSTANTS
    Inputs,         \* the upstream tables and aliases: see UpstreamOK
    Names,          \* bound: the names that are looked up
    LastAscii,      \* 127
    LastCode,       \* 16r10FFFF
    Surrogates      \* 16rD800..16rDFFF

Codes == 0..LastCode
FirstSurrogate == Min(Surrogates)
LastSurrogate == Max(Surrogates)
Scalars == Codes \ Surrogates

GC == "General_Category"
Covered(ranges) == UNION {r[1]..r[2] : r \in Range(ranges)}
Increasing(ranges) ==
    /\ \A i \in DOMAIN ranges : ranges[i][1] <= ranges[i][2]
    /\ \A i \in 1..Len(ranges) - 1 : ranges[i][2] < ranges[i + 1][1]

\* Words are sequences of letters.
Letters(string) == [i \in 1..Len(string) |-> SubSeq(string, i, i)]
Is == Letters("is")
Lower == [A |-> "a", B |-> "b", C |-> "c", D |-> "d", E |-> "e", F |-> "f", G |-> "g",
          H |-> "h", I |-> "i", J |-> "j", K |-> "k", L |-> "l", M |-> "m", N |-> "n",
          O |-> "o", P |-> "p", Q |-> "q", R |-> "r", S |-> "s", T |-> "t", U |-> "u",
          V |-> "v", W |-> "w", X |-> "x", Y |-> "y", Z |-> "z"]
Separators == {" ", "_", "-", "\t", "\n", "\r", "\f"}
Newline == "\n"

\* The words of the upstream tables are in lower case and have no separators,
\* and none begins with "is".
Plain(word) ==
    /\ Range(word) \cap (Separators \cup DOMAIN Lower \cup {":", "="}) = {}
    /\ ~IsPrefix(Is, word)

\* A table is <<kind, value>>; the value of an age is its version.  Words stand
\* for a property, and those of a kind for its values.
UpstreamOK ==
    /\ Surrogates # {} /\ Surrogates = FirstSurrogate..LastSurrogate
    /\ Surrogates \subseteq LastAscii + 1..LastCode - 1
    /\ \A in \in Inputs :
        /\ <<GC, "Unassigned">> \in DOMAIN in.tables
        /\ \A key \in DOMAIN in.tables :
            /\ Covered(in.tables[key]) \subseteq Codes
            /\ Increasing(in.tables[key])
            /\ key[1] = "Age" => key[2] \in Range(in.values["Age"])
        /\ {GC, "Script", "Age"} \subseteq DOMAIN in.values
        /\ \A word \in DOMAIN in.properties : Plain(word)
        /\ \A kind \in DOMAIN in.values : \A word \in DOMAIN in.values[kind] : Plain(word)

-------------------------------------------------------------------------------

VARIABLES
    upstream,       \* the input: tables, and the words that name them
    tables,         \* the tables as they are by now
    ages,           \* the ages not yet accumulated
    aliases,        \* the table each word stands for
    left,           \* the tables not yet written, once aliases are resolved
    key,            \* the one being merged
    ranges,         \* its ranges still to be merged, in order
    merged,         \* what they have been merged into
    text,           \* PROPERTY_RANGES
    offsets,        \* where each table written is in it
    index,          \* PROPERTY_INDEX
    phase

vars == <<upstream, tables, ages, aliases, left, key, ranges, merged,
          text, offsets, index, phase>>

None == <<"none", "none">>

TypeOK ==
    /\ upstream \in Inputs
    /\ ages \subseteq {k \in DOMAIN upstream.tables : k[1] = "Age"}
    /\ \A k \in DOMAIN tables : Covered(tables[k]) \subseteq Codes
    /\ \A word \in DOMAIN aliases : aliases[word] \in DOMAIN tables
    /\ left \subseteq DOMAIN tables
    /\ DOMAIN offsets \subseteq DOMAIN tables \ left
    /\ index # <<>> => phase = "written"
    /\ phase \in {"ages", "complement", "aliases", "pick", "merge", "index", "written"}

Init ==
    /\ upstream \in Inputs
    /\ tables = upstream.tables
    /\ ages = {k \in DOMAIN tables : k[1] = "Age"}
    /\ aliases = <<>> /\ left = {} /\ key = None
    /\ ranges = <<>> /\ merged = <<>> /\ text = <<>> /\ offsets = <<>>
    /\ index = <<>>
    /\ phase = "ages"

\* In Rust an age means assigned by that version, not in it.  The ages come in
\* the order of their names, which is not that of the versions ("V10_0" is
\* before "V1_1"): a table that is joined may have been accumulated already.
Accumulate(age) ==
    /\ phase = "ages" /\ age \in ages
    /\ LET older == {k \in DOMAIN tables : k[1] = "Age" /\ k[2] <= age[2]}
           all == UNION {Range(tables[k]) : k \in older}
       IN  tables' = [tables EXCEPT ![age] =
                SetToSortSeq(all, LAMBDA r, s : r[1] < s[1]
                                        \/ (r[1] = s[1] /\ r[2] < s[2]))]
    /\ ages' = ages \ {age}
    /\ phase' = IF ages' = {} THEN "complement" ELSE "ages"
    /\ UNCHANGED <<upstream, aliases, left, key, ranges, merged, text, offsets, index>>

\* The special categories; Assigned are the gaps of Unassigned.
Complement ==
    /\ phase = "complement"
    /\ LET un == tables[<<GC, "Unassigned">>]
           gap(i) == <<IF i = 1 THEN 0 ELSE un[i - 1][2] + 1,
                       IF i = Len(un) + 1 THEN LastCode ELSE un[i][1] - 1>>
           gaps == [i \in 1..Len(un) + 1 |-> gap(i)]
       IN  tables' =
             (<<GC, "Any">> :> <<<<0, FirstSurrogate - 1>>, <<LastSurrogate + 1, LastCode>>>>)
             @@ (<<GC, "ASCII">> :> <<<<0, LastAscii>>>>)
             @@ (<<GC, "Assigned">> :> SelectSeq(gaps, LAMBDA g : g[1] <= g[2]))
             @@ tables
    /\ phase' = "aliases"
    /\ UNCHANGED <<upstream, ages, aliases, left, key, ranges, merged, text, offsets, index>>

Specials == {<<Letters("any"), <<GC, "Any">>>>, <<Letters("ascii"), <<GC, "ASCII">>>>,
             <<Letters("assigned"), <<GC, "Assigned">>>>}

\* What the words of a kind, alone or after the property, stand for.
Values(kind) ==
    {<<word, <<kind, upstream.values[kind][word]>>>> : word \in DOMAIN upstream.values[kind]}
Valued(property) ==
    {<<property \o <<"=">> \o v[1], v[2]>> : v \in Values(upstream.properties[property])}

\* A word alone is what is set last: a special category, a category, a script or
\* a binary property.  Only the tables that an alias names are kept.
Alias ==
    /\ phase = "aliases"
    /\ LET dict(pairs) ==
               LET kept == {w \in pairs : w[2] \in DOMAIN tables}
               IN  [word \in {w[1] : w \in kept} |-> (CHOOSE w \in kept : w[1] = word)[2]]
           kinds == {p \in DOMAIN upstream.properties :
                        upstream.properties[p] \in DOMAIN upstream.values}
           binary == {<<p, <<"Binary", upstream.properties[p]>>>> :
                        p \in DOMAIN upstream.properties \ kinds}
       IN  aliases' = dict(Specials) @@ dict(Values(GC)) @@ dict(Values("Script"))
                        @@ dict(binary \cup UNION {Valued(p) : p \in kinds})
    /\ left' = Range(aliases')
    /\ phase' = "pick"
    /\ UNCHANGED <<upstream, tables, ages, key, ranges, merged, text, offsets, index>>

-------------------------------------------------------------------------------

\* The tables are written one by one, in a fixed order.
Pick ==
    /\ phase = "pick" /\ left # {}
    /\ LET k == CHOOSE k \in left : TRUE
       IN
        /\ key' = k
        /\ left' = left \ {k}
        /\ ranges' = tables[k]
    /\ merged' = <<>>
    /\ phase' = "merge"
    /\ UNCHANGED <<upstream, tables, ages, aliases, text, offsets, index>>

\* One piece goes into the last range if it overlaps or touches it.
With(list, piece) ==
    IF piece[1] > piece[2] THEN list
    ELSE IF list # <<>> /\ piece[1] <= Last(list)[2] + 1
    THEN Append(Front(list), <<Last(list)[1], Max({Last(list)[2], piece[2]})>>)
    ELSE Append(list, piece)

\* The next range, without its surrogates: what is before and what is after.
Merge ==
    /\ phase = "merge" /\ ranges # <<>>
    /\ LET low == Head(ranges)[1]
           high == Head(ranges)[2]
       IN  merged' = With(With(merged, <<low, Min({high, FirstSurrogate - 1})>>),
                          <<Max({low, LastSurrogate + 1}), high>>)
    /\ ranges' = Tail(ranges)
    /\ UNCHANGED <<upstream, tables, ages, aliases, left, key, text, offsets, index, phase>>

\* The blob of a table follows the last one's.
Write ==
    /\ phase = "merge" /\ ranges = <<>>
    /\ text' = text \o merged \o <<Newline>>
    /\ offsets' = [k \in DOMAIN offsets \cup {key} |->
            IF k = key THEN <<Len(text), Len(text) + Len(merged) + 1>>
            ELSE offsets[k]]
    /\ phase' = IF left = {} THEN "index" ELSE "pick"
    /\ UNCHANGED <<upstream, tables, ages, aliases, left, key, ranges, merged, index>>

Digit == <<"0", "1", "2", "3", "4", "5", "6", "7", "8", "9">>
digits[n \in Nat] == IF n < 10 THEN <<Digit[n + 1]>>
                     ELSE Append(digits[n \div 10], Digit[(n % 10) + 1])

\* The index: a line for every alias, in a fixed order.
WriteIndex ==
    /\ phase = "index"
    /\ LET line(alias) ==
               alias \o <<":">> \o digits[offsets[aliases[alias]][1]] \o <<":">>
                     \o digits[offsets[aliases[alias]][2]] \o <<Newline>>
       IN  index' = FoldSet(LAMBDA alias, lines : lines \o line(alias), <<>>, DOMAIN aliases)
    /\ phase' = "written"
    /\ UNCHANGED <<upstream, tables, ages, aliases, left, key, ranges, merged, text, offsets>>

Next == (\E age \in ages : Accumulate(age)) \/ Complement \/ Alias
            \/ Pick \/ Merge \/ Write \/ WriteIndex

Spec == Init /\ [][Next]_vars

-------------------------------------------------------------------------------

(* property_class (regex/charclass.mojo): sees the two texts only.         *)

Loose(name) ==
    LET kept == SelectSeq(name, LAMBDA c : c \notin Separators)
    IN  [i \in DOMAIN kept |-> IF kept[i] \in DOMAIN Lower THEN Lower[kept[i]] ELSE kept[i]]

Key(name) ==
    LET loose == Loose(name)
    IN  IF IsPrefix(Is, loose) THEN SubSeq(loose, Len(Is) + 1, Len(loose)) ELSE loose

\* A slip: the letters are compared, the number of them is not.
SpellsStart(at, end, wanted) ==
    \A i \in 1..Min({end - at, Len(wanted)}) : index[at + i - 1] = wanted[i]

\* The letters from `at` on, up to `end`, are those of the word.
Spells(at, end, wanted) ==
    /\ end - at = Len(wanted)
    /\ \A i \in DOMAIN wanted : index[at + i - 1] = wanted[i]

Number(letters) ==
    FoldLeft(LAMBDA n, c : 10 * n + (CHOOSE d \in 0..9 : Digit[d + 1] = c), 0, letters)

\* The offsets on the first line with the name's word; <<>> if there is none.
Lookup(name) ==
    LET end(at, mark) == Min({i \in at..Len(index) : index[i] = mark})
        scan[at \in 1..Len(index) + 1] ==
            IF at > Len(index) THEN <<>>
            ELSE LET start == end(at, ":") + 1
                     stop == end(start, ":") + 1
                     next == end(stop, Newline) + 1
                 IN  IF Spells(at, start - 1, Key(name))
                     THEN <<Number(SubSeq(index, start, stop - 2)),
                            Number(SubSeq(index, stop, next - 2))>>
                     ELSE scan[next]
    IN  scan[1]

\* The ranges between two offsets.
Found(at) == SelectSeq(SubSeq(text, at[1] + 1, at[2]), LAMBDA r : r # Newline)

-------------------------------------------------------------------------------

\* The tables a word may stand for; the first that it does stand for is meant
\* ("Rust's precedence order", regex_property_tables.py:119-120).
Stands(word) ==
    LET of(pairs) == {p[2] : p \in {q \in pairs : q[1] = word}} \cap DOMAIN tables
        binary == {<<p, <<"Binary", upstream.properties[p]>>>> : p \in DOMAIN upstream.properties}
        kinds == {p \in DOMAIN upstream.properties :
                    upstream.properties[p] \in DOMAIN upstream.values}
    IN  <<of(Specials), of(Values(GC)), of(Values("Script")), of(binary),
          of(UNION {Valued(p) : p \in kinds})>>

\* A name means what its letters spell, with "is" before it or without.
Meant(name) ==
    LET loose == Loose(name)
        words == {word \in {SubSeq(loose, i, Len(loose)) : i \in {1, 3}} :
                    /\ loose \in {word, Is \o word}
                    /\ \E i \in 1..5 : Stands(word)[i] # {}}
    IN  UNION {Stands(word)[Min({i \in 1..5 : Stands(word)[i] # {}})] : word \in words}

\* The code points the upstream tables give a property, without surrogates.
Meaning(k) ==
    LET of(key_) == Covered(upstream.tables[key_])
    IN  Scalars \cap
            (IF k[1] = "Age"
             THEN UNION {of(a) : a \in {b \in DOMAIN upstream.tables :
                                    b[1] = "Age" /\ b[2] <= k[2]}}
             ELSE IF k = <<GC, "Any">> THEN Codes
             ELSE IF k = <<GC, "ASCII">> THEN 0..LastAscii
             ELSE IF k = <<GC, "Assigned">> THEN Codes \ of(<<GC, "Unassigned">>)
             ELSE of(k))

\* Every name finds the set it means and no other, and a name that means none
\* finds none, whatever words begin alike or are in two kinds of property; and
\* the set is in canonical ranges (increasing, none touches the next unless
\* surrogates are between them, no surrogates): the ages whatever the order of
\* their names, the complement and the ranges that overlap or span the
\* surrogates, and the offsets of the blobs.
\* regex_property_tables.py:82-83, 132, 154-177: the oracle compares the same sets.
NamesFindTheirSets ==
    phase = "written" =>
        \A name \in Names \cup DOMAIN aliases :
            LET found == Found(Lookup(name))
            IN  IF Meant(name) = {} THEN Lookup(name) = <<>>
                ELSE /\ Lookup(name) # <<>>
                     /\ {Covered(found)} = {Meaning(k) : k \in Meant(name)}
                     /\ Increasing(found)
                     /\ \A i \in 1..Len(found) - 1 : found[i + 1][1] # found[i][2] + 1
===============================================================================
