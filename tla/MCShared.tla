------------------------------ MODULE MCShared ------------------------------
(***************************************************************************)
(* What threads share without knowing of each other: the statistics on the *)
(* buffers of columns (ColumnStatistics, extended), a column's device      *)
(* residence, and the pattern cache.  The three share no state: the run    *)
(* chooses one, and the others stay as they began.                         *)
(***************************************************************************)
EXTENDS ColumnStatistics, Sequences

CONSTANTS Readers, MaxReads,                        \* of the residence
          Patterns, Invalid, Capacity, MaxCalls     \* of the cache

VARIABLES part,
          unified, empty, state, host, block, copies, releases, holders, at, got, reads,
          ready, entries, made, phase, asked, result, calls, recent

residence == <<unified, empty, state, host, block, copies, releases, holders, at, got, reads>>
cache == <<ready, entries, made, phase, asked, result, calls, recent>>

Residence == INSTANCE DeviceResidence WITH Threads <- Readers
Cache == INSTANCE PatternCache WITH Callers <- Threads, at <- phase

ASSUME SharedAssumption == StatisticsAssumption /\ Cache!CacheAssumption /\ MaxReads \in Nat

MCInit ==
    /\ part \in {"statistics", "residence", "patterns"}
    /\ Init
    /\ Residence!Init /\ (part # "residence" => ~unified /\ ~empty /\ holders = Readers)
    /\ Cache!Init /\ (part # "patterns" => ready)

ReadStep(t) == part = "residence" /\ Residence!Step(t) /\ UNCHANGED <<part, vars, cache>>

MCNext ==
    \/ part = "statistics" /\ Next /\ UNCHANGED <<part, residence, cache>>
    \/ part = "residence" /\ Residence!Next /\ UNCHANGED <<part, vars, cache>>
    \/ part = "patterns" /\ Cache!Next /\ UNCHANGED <<part, vars, residence>>

MCSpec ==
    /\ MCInit /\ [][MCNext]_<<part, vars, residence, cache>>
    /\ \A t \in Readers : WF_<<part, vars, residence, cache>>(ReadStep(t))

-----------------------------------------------------------------------------
\* buffer.mojo, segment_statistics.mojo: the statistics a column may read are
\* those of the values and the bitmap it has now.
RecordsAreTrue == TypeOK /\ StatisticsTrue

\* residence.mojo: one copy, whole before anybody has its address, freed with
\* the last reference; a failed copy raises for everybody.
OneWholeCopy == Residence!TypeOK /\ Residence!OneWholeCopy

\* regex_cache.mojo: the cache holds the patterns used last, each once, and a
\* caller gets a program of its own pattern.
HoldsTheLatest == Cache!TypeOK /\ Cache!HoldsTheLatest

\* Every host read of a device buffer ends, with the address or the error.
ReadsEnd == Residence!ReadsEnd
=============================================================================
