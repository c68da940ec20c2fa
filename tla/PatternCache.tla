---------------------------- MODULE PatternCache ----------------------------
(***************************************************************************)
(* The process-wide cache of compiled patterns                             *)
(* (dataframe/text/regex_cache.mojo).  A call looks its pattern up under   *)
(* the mutex, compiles outside of it when it is missing, and looks again   *)
(* before it enters what it compiled; a full cache evicts its oldest       *)
(* entry.  Entries and results are counted references to one compiled      *)
(* program, so an evicted program lives on with those who use it.          *)
(***************************************************************************)
EXTENDS Naturals, Sequences, SequencesExt

CONSTANTS Callers,    \* threads that bind expressions
          Patterns,   \* the patterns they use
          Invalid,    \* those that do not compile
          Capacity,   \* _CAPACITY
          MaxCalls    \* bound: calls in all

VARIABLES ready,      \* the mutex was made
          entries,    \* the compiled programs, the most recent at the end
          made,       \* programs compiled so far, which numbers them
          at,         \* where each caller is
          asked,      \* its pattern
          result,     \* what its last call returned, the error, or none
          calls,      \* calls so far
          recent      \* history: the valid patterns by last use, oldest first
vars == <<ready, entries, made, at, asked, result, calls, recent>>

\* What the theorems assume of the constants; TLC checks it of the run's.
CacheAssumption == Capacity \in Nat \ {0} /\ MaxCalls \in Nat /\ Patterns # {}

Program == [pattern : Patterns, number : Nat \ {0}]
NoProgram == [pattern |-> "none", number |-> 0]
Failed == [pattern |-> "error", number |-> 0]

TypeOK ==
    /\ ready \in BOOLEAN
    /\ entries \in Seq(Program) /\ Len(entries) <= Capacity
    /\ made \in Nat /\ calls \in 0..MaxCalls
    /\ at \in [Callers -> {"idle", "look", "compile", "enter"}]
    /\ asked \in [Callers -> Patterns]
    /\ result \in [Callers -> Program \union {NoProgram, Failed}]
    /\ recent \in Seq(Patterns)

Init ==
    /\ ready \in BOOLEAN
    /\ entries = <<>> /\ made = 0 /\ calls = 0 /\ recent = <<>>
    /\ at = [c \in Callers |-> "idle"]
    /\ asked \in [Callers -> {CHOOSE p \in Patterns : TRUE}]
    /\ result = [c \in Callers |-> NoProgram]

Goto(c, place) == at' = [at EXCEPT ![c] = place]
Return(c, program) == result' = [result EXCEPT ![c] = program] /\ Goto(c, "idle")

(* The patterns of a sequence of entries.                                  *)
PatternsOf(seq) == [i \in DOMAIN seq |-> seq[i].pattern]

(* _lookup: the entry is found from the end and moved there.               *)
Cached(p) == \E i \in DOMAIN entries : entries[i].pattern = p
EntryOf(p) == SelectLastInSeq(entries, LAMBDA entry : entry.pattern = p)
Touched(p) == Append(RemoveAt(entries, EntryOf(p)), entries[EntryOf(p)])

(* The use of a pattern, for the history.                                  *)
Used(p) == recent' = Append(RemoveFirst(recent, p), p)

Call(c, p) ==
    /\ at[c] = "idle" /\ calls < MaxCalls
    /\ calls' = calls + 1
    /\ asked' = [asked EXCEPT ![c] = p]
    /\ Goto(c, IF ready THEN "look" ELSE "compile")
    /\ UNCHANGED <<ready, entries, made, result, recent>>

(* The first lookup, under the mutex.                                      *)
Look(c) ==
    /\ at[c] = "look"
    /\ \/ /\ Cached(asked[c])
          /\ Return(c, entries[EntryOf(asked[c])])
          /\ entries' = Touched(asked[c])
          /\ Used(asked[c])
       \/ ~Cached(asked[c]) /\ Goto(c, "compile") /\ UNCHANGED <<entries, result, recent>>
    /\ UNCHANGED <<ready, made, asked, calls>>

(* Regex(pattern) outside the mutex; it raises for an invalid pattern.     *)
Compile(c) ==
    /\ at[c] = "compile"
    /\ \/ asked[c] \in Invalid /\ Return(c, Failed) /\ UNCHANGED made
       \/ /\ asked[c] \notin Invalid
          /\ made' = made + 1
          /\ result' = [result EXCEPT ![c] = [pattern |-> asked[c], number |-> made + 1]]
          /\ Goto(c, IF ready THEN "enter" ELSE "idle")
    /\ UNCHANGED <<ready, entries, asked, calls, recent>>

\* A slip: what was compiled is entered without a second look.
EnterUnchecked(c) ==
    /\ at[c] = "enter"
    /\ entries' = Append(IF Len(entries) = Capacity THEN Tail(entries) ELSE entries, result[c])
    /\ Return(c, result[c])
    /\ Used(asked[c])
    /\ UNCHANGED <<ready, made, asked, calls>>

(* Under the mutex again: another caller's program is taken if it is there *)
(* by now, else the own one is entered, in the oldest one's place when the *)
(* cache is full.                                                          *)
Enter(c) ==
    /\ at[c] = "enter"
    /\ IF Cached(asked[c])
       THEN /\ Return(c, entries[EntryOf(asked[c])])
            /\ entries' = Touched(asked[c])
       ELSE /\ entries' = Append(IF Len(entries) = Capacity THEN Tail(entries) ELSE entries,
                                 result[c])
            /\ Return(c, result[c])
    /\ Used(asked[c])
    /\ UNCHANGED <<ready, made, asked, calls>>

Next ==
    \E c \in Callers :
        \/ \E p \in Patterns : Call(c, p)
        \/ Look(c) \/ Compile(c) \/ Enter(c)

Spec == Init /\ [][Next]_vars

-----------------------------------------------------------------------------
(* The cache holds the patterns used last, in the order of their last use, *)
(* as many as it has room for, each once and none that does not compile;   *)
(* and whoever returns has a program of the pattern it asked for ("bounded *)
(* reuse"): with compilations that overlap, end in any order, fail, and    *)
(* meet a full cache.                                                      *)
HoldsTheLatest ==
    /\ PatternsOf(entries) =
          LET room == IF Len(recent) < Capacity THEN Len(recent) ELSE Capacity
          IN SubSeq(recent, Len(recent) - room + 1, Len(recent))
    /\ \A c \in Callers : at[c] = "idle" /\ result[c] # NoProgram =>
          /\ result[c] = Failed <=> asked[c] \in Invalid
          /\ result[c] # Failed => result[c].pattern = asked[c]
=============================================================================
