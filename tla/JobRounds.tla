------------------------------- MODULE JobRounds -------------------------------
(***************************************************************************)
(* What dataframe/parallel.mojo promises the code that hands it a list of  *)
(* jobs, whatever threads run them: `Pool.run`, a produced round between   *)
(* `Pool.run_produced` and `finish`, and `run_jobs`.  A round is opened    *)
(* with some jobs (a producer may still add jobs while it is open), every  *)
(* job is run exactly once, by some thread, and the call returns only      *)
(* after all of them have.  A job that raises is a job that has been run:  *)
(* its slot keeps the error, which is raised once the round is over, and   *)
(* it never cuts the round short.                                          *)
(*                                                                         *)
(* Jobs are 0 .. size-1, their places in the list.                         *)
(***************************************************************************)
EXTENDS Naturals

CONSTANT MaxJobs        \* jobs a round has at most (a bound of the model)

VARIABLES
    open,       \* a round is running
    size,       \* jobs handed over so far in this round
    ran         \* the jobs that have been run in this round

jobVars == <<open, size, ran>>

TypeOK ==
    /\ open \in BOOLEAN
    /\ size \in 0..MaxJobs
    /\ ran \subseteq 0..(size - 1)

Init ==
    /\ open = FALSE
    /\ size = 0
    /\ ran = {}

\* A call opens a round with n jobs.
Begin(n) ==
    /\ ~open
    /\ open' = TRUE
    /\ size' = n
    /\ ran' = {}

\* A producer hands over one more job while the round is open.
Submit ==
    /\ open
    /\ size < MaxJobs
    /\ size' = size + 1
    /\ UNCHANGED <<open, ran>>

\* Some thread runs job j, which succeeds or raises.
Run(j) ==
    /\ open
    /\ j \in 0..(size - 1)
    /\ j \notin ran
    /\ ran' = ran \cup {j}
    /\ UNCHANGED <<open, size>>

\* The call returns: no job is left.
Return ==
    /\ open
    /\ ran = 0..(size - 1)
    /\ open' = FALSE
    /\ size' = 0
    /\ ran' = {}

Next ==
    \/ \E n \in 0..MaxJobs : Begin(n)
    \/ Submit
    \/ \E j \in 0..(MaxJobs - 1) : Run(j)
    \/ Return

Spec == Init /\ [][Next]_jobVars
================================================================================
