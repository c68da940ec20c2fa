------------------------------- MODULE CaseFolding -------------------------------
(***************************************************************************)
(* scripts/regex_unicode_tables.py: the case-folding orbits behind (?i) in *)
(* the regex engine, and dataframe/regex/charclass.mojo, `Folds`, which    *)
(* closes a set of code points under them.                                 *)
(*                                                                         *)
(* The script asks a regex engine (external) which of the candidates,      *)
(* those with a case mapping in Python, match each other without case, and *)
(* links every orbit into a ring.  The reader goes around the rings.       *)
(***************************************************************************)
EXTENDS Integers, SequencesExt, FiniteSetsExt

CONSTANT Codes      \* the code points of the instance, without surrogates

VARIABLES
    mapped,         \* what Python maps each to: itself, another, or Several
    class,          \* the least member of each one's class in the engine
    next,           \* the ring: fold_keys and fold_next
    asked,          \* the ranges given to `fold`, in order
    out,            \* what it has appended
    at,             \* the index of the range it is in, of the key, and the
    k,              \* member it has come to (or None between keys)
    member,
    phase

unicode == <<mapped, class>>
vars == <<unicode, next, asked, out, at, k, member, phase>>

None == -1
Several == -2
Same(c) == {d \in Codes : class[d] = class[c]}

TypeOK ==
    /\ mapped \in [Codes -> Codes \cup {Several}]
    /\ class \in [Codes -> Codes]
    /\ next \in [DOMAIN next -> DOMAIN next] /\ DOMAIN next \subseteq Codes
    /\ out \in Seq(Codes)
    /\ at \in 1..Len(asked) + 1
    /\ member \in Codes \cup {None}
    /\ phase \in {"generate", "failed", "written", "fold", "canonical"}

Init ==
    /\ class \in [Codes -> Codes]
    /\ \A c \in Codes : class[c] = Min({d \in Codes : class[d] = class[c]})
    \* To any of its class; another image makes a candidate as Several does.
    /\ mapped \in {m \in [Codes -> Codes \cup {Several}] :
            \A c \in Codes : m[c] = Several \/ class[m[c]] = class[c]}
    /\ next = <<>>
    /\ asked = <<>> /\ out = <<>> /\ at = 1 /\ k = 1 /\ member = None
    /\ phase = "generate"

-------------------------------------------------------------------------------
(* The script.                                                             *)

\* With a mapping, or mapped to.
candidates ==
    LET cased == {c \in Codes : mapped[c] # c}
    IN  cased \cup ({mapped[c] : c \in cased} \ {Several})

Orbit(c) == Same(c) \cap candidates
orbits == {c \in candidates : Cardinality(Orbit(c)) > 1}

\* What matches a code point of an orbit and is in none.
stray == UNION {Same(c) : c \in orbits} \ orbits

\* The next of an orbit in order, and the first after the last.
After(c) == LET later == {d \in Orbit(c) : d > c}
            IN  IF later = {} THEN Min(Orbit(c)) ELSE Min(later)

Generate ==
    /\ phase = "generate"
    /\ IF stray = {}
       THEN /\ next' = [c \in orbits |-> After(c)]
            /\ phase' = "written"
       ELSE /\ phase' = "failed"
            /\ UNCHANGED next
    /\ UNCHANGED <<unicode, asked, out, at, k, member>>

-------------------------------------------------------------------------------
(* Folds.fold(ranges).                                                     *)

\* The code points with a ring, in order.
keys == SelectSeq([i \in 1..Cardinality(Codes) |-> i - 1], LAMBDA c : c \in DOMAIN next)

\* The first key from cp on.
_lower_bound(cp) == 1 + Cardinality({c \in DOMAIN next : c < cp})

\* The ranges of a class: one or two, increasing and apart.
Ask ==
    /\ phase = "written"
    /\ asked' \in {s \in UNION {[1..n -> Codes \X Codes] : n \in 1..2} :
                      /\ \A i \in DOMAIN s : s[i][1] <= s[i][2]
                      /\ Len(s) = 2 => s[1][2] + 1 < s[2][1]}
    /\ k' = _lower_bound(asked'[1][1])
    /\ phase' = "fold"
    /\ UNCHANGED <<unicode, next, out, at, member>>

Holds == k <= Len(keys) /\ keys[k] <= asked[at][2]

\* The next key that the range holds: its ring is entered.
EnterRing ==
    /\ phase = "fold" /\ member = None /\ at <= Len(asked)
    /\ Holds
    /\ member' = next[keys[k]]
    /\ UNCHANGED <<unicode, next, asked, out, at, k, phase>>

\* Around the ring until the key is met again.
GoRound ==
    /\ phase = "fold" /\ member # None
    /\ IF member # keys[k]
       THEN /\ out' = Append(out, member)
            /\ member' = next[keys[_lower_bound(member)]]
            /\ UNCHANGED k
       ELSE /\ k' = k + 1
            /\ member' = None
            /\ UNCHANGED out
    /\ UNCHANGED <<unicode, next, asked, at, phase>>

NextRange ==
    /\ phase = "fold" /\ member = None /\ at <= Len(asked)
    /\ ~Holds
    /\ at' = at + 1
    /\ k' = IF at' <= Len(asked) THEN _lower_bound(asked[at'][1]) ELSE k
    /\ phase' = IF at' <= Len(asked) THEN "fold" ELSE "canonical"
    /\ UNCHANGED <<unicode, next, asked, out, member>>

Next == Generate \/ Ask \/ EnterRing \/ GoRound \/ NextRange

Spec == Init /\ [][Next]_vars

-------------------------------------------------------------------------------

Asked == UNION {r[1]..r[2] : r \in Range(asked)}
Result == Asked \cup Range(out)

\* `fold` returns the set closed under case folding (charclass.mojo:236), for
\* the classes of which the script saw two members: every member of theirs is
\* there, nothing of another class is, and no ring is gone around twice.
FoldCloses ==
    /\ phase = "canonical" =>
        /\ \A c \in Asked : Cardinality(Orbit(c)) > 1 => Same(c) \subseteq Result
        /\ Result \subseteq UNION {Same(c) : c \in Asked}
    /\ Len(out) <= Cardinality(Codes) * Cardinality(Asked)
===============================================================================
