------------------------------- MODULE MCRunJobs -------------------------------
(***************************************************************************)
(* `run_jobs` to its end, with no crew and with one: calls that start      *)
(* threads of their own (SpawnedJobs), or two callers at once, each        *)
(* nesting a call, on a crew of one thread with one slot (module Crew).    *)
(* The run chooses one and the other stays as it began.                    *)
(***************************************************************************)
EXTENDS SpawnedJobs, Sequences

CONSTANTS c1, c2, t1

ASSUME PairAssumption == t1 \notin {c1, c2} /\ 0 \notin {c1, c2, t1}

VARIABLES crewed, claims, wanted, running, closed, made, jobs, taken, done, slots, outside,
          mutex, stack

crew == <<claims, wanted, running, closed, made, jobs, taken, done, slots, outside, mutex, stack>>

Pair == INSTANCE Crew
    WITH Callers <- {c1, c2}, CrewThreads <- {t1}, Postings <- 2, MaxCalls <- 2,
         MaxJobs <- 2, MaxDepth <- 2, Limit <- 1, next <- taken, helpers <- slots

MCInit == crewed \in BOOLEAN /\ Init /\ Pair!Init

MCNext ==
    \/ ~crewed /\ Next /\ UNCHANGED <<crewed, crew>>
    \/ crewed /\ Pair!Next /\ UNCHANGED <<crewed, vars>>

\* `Fairness` and `Pair!Fairness`, each asked of its half only while that is the
\* one that runs: the other does not move.
CallerMoves == ~crewed /\ CallerStep /\ UNCHANGED <<crewed, crew>>
ThreadMoves(t) == ~crewed /\ ThreadStep(t) /\ UNCHANGED <<crewed, crew>>

CrewMoves(t) ==
    /\ crewed
    /\ Pair!CallStep(t) \/ (t = t1 /\ Pair!CrewStep(t))
    /\ UNCHANGED <<crewed, vars>>
CrewSignals(t) == crewed /\ Pair!Signal(t) /\ UNCHANGED <<crewed, vars>>

MCSpec ==
    /\ MCInit /\ [][MCNext]_<<crewed, crew, vars>>
    /\ WF_<<crewed, crew, vars>>(CallerMoves)
    /\ \A t \in Threads : WF_<<crewed, crew, vars>>(ThreadMoves(t))
    /\ \A t \in {c1, c2, t1} :
        /\ WF_<<crewed, crew, vars>>(CrewMoves(t))
        /\ SF_<<crewed, crew, vars>>(CrewSignals(t))

-------------------------------------------------------------------------------
\* parallel.mojo: no job runs twice, every slot comes back, and with a crew
\* nobody is left in a posting that was given to another call.
MCInv == Inv /\ Pair!Inv /\ Pair!JoinedAreAlive

\* Every call ends, with a crew and without one.
CallsEnd == CallEnds /\ Pair!CallsEnd
===============================================================================
