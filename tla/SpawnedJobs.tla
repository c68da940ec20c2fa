------------------------------- MODULE SpawnedJobs ------------------------------
(***************************************************************************)
(* A `run_jobs` call of dataframe/parallel.mojo that has no crew to post   *)
(* to, or finds every posting taken (`_run_jobs`): it reserves helpers,    *)
(* starts a thread for each, works itself, joins them and returns.  With a *)
(* slot for every other job, each thread runs one job and the caller the   *)
(* rest; with fewer, the threads and the caller claim jobs from a          *)
(* `_Claims` list.  A thread may fail to start: no further one is started, *)
(* the jobs run all the same, and the call raises once they have.          *)
(*                                                                         *)
(* Helper slots come from the process-wide budget (module HelperBudget);   *)
(* others may hold any part of it, so a reservation grants any number up   *)
(* to the one asked for.                                                   *)
(***************************************************************************)
EXTENDS Integers, FiniteSets

CONSTANTS
    MaxJobs,        \* most jobs of a call (a bound of the model)
    MaxCalls        \* calls in all (a bound of the model)

ASSUME SpawnedAssumption == MaxJobs \in Nat \ {0} /\ MaxCalls \in Nat

VARIABLES
    calls,          \* calls made
    size,           \* the jobs of the one in progress
    spawned,        \* helpers reserved for it
    started,        \* threads started: 0 .. started-1
    next,           \* next job of the list to claim
    finished,       \* the jobs that have been run
    helpers,        \* slots of the budget the call holds
    pc,             \* where each thread is
    job             \* the job it runs, or the caller's next one

call == <<calls, size, spawned>>
vars == <<call, started, next, finished, helpers, pc, job>>

Caller == MaxJobs               \* a call starts fewer threads than it has jobs
Threads == 0..(MaxJobs - 1)
Procs == 0..MaxJobs

TypeOK ==
    /\ calls \in 0..MaxCalls
    /\ size \in 0..MaxJobs
    /\ spawned \in 0..(MaxJobs - 1)
    /\ started \in 0..spawned
    /\ next \in Nat
    /\ finished \subseteq 0..(size - 1)
    /\ helpers \in 0..spawned
    /\ pc \in [Procs -> {"idle", "create", "rest", "claim", "run", "join", "release",
                         "unborn", "entry", "giveback", "exited"}]
    /\ job \in [Procs -> 0..MaxJobs]

Init ==
    /\ calls = 0
    /\ size = 0
    /\ spawned = 0
    /\ started = 0
    /\ next = 0
    /\ finished = {}
    /\ helpers = 0
    /\ pc = [p \in Procs |-> IF p = Caller THEN "idle" ELSE "unborn"]
    /\ job = [p \in Procs |-> 0]

Goto(p, there) == pc' = [pc EXCEPT ![p] = there]

\* Fewer threads than jobs besides the caller's: everyone claims.
Claiming == spawned < size - 1

\* A call with n jobs reserves helpers for all but one, or fewer if it is
\* limited to fewer threads.
Call(n) ==
    /\ pc[Caller] = "idle"
    /\ calls < MaxCalls
    /\ calls' = calls + 1
    /\ size' = n
    /\ \E granted \in 0..(n - 1) : spawned' = granted /\ helpers' = granted
    /\ started' = 0
    /\ next' = 0
    /\ Goto(Caller, "create")
    /\ UNCHANGED <<finished, job>>

\* Two slips: the caller begins with a job that a thread has; and with the
\* last one, although a thread did not start.
OwnPartEarly ==
    /\ Goto(Caller, IF Claiming THEN "claim" ELSE "rest")
    /\ job' = [job EXCEPT ![Caller] = IF started > 0 THEN started - 1 ELSE 0]

OwnPartLast ==
    /\ Goto(Caller, IF Claiming THEN "claim" ELSE "rest")
    /\ job' = [job EXCEPT ![Caller] = spawned]

\* The caller turns to its own part.
OwnPart ==
    /\ Goto(Caller, IF Claiming THEN "claim" ELSE "rest")
    /\ job' = [job EXCEPT ![Caller] = started]

Create ==
    /\ pc[Caller] = "create"
    /\ IF started < spawned
       THEN /\ started' = started + 1
            /\ Goto(started, "entry")
            /\ UNCHANGED job
       ELSE OwnPart /\ UNCHANGED started
    /\ UNCHANGED <<call, next, finished, helpers>>

CreateFails ==
    /\ pc[Caller] = "create"
    /\ started < spawned
    /\ OwnPart
    /\ UNCHANGED <<call, started, next, finished, helpers>>

\* `_claim_worker`, or `_helper_entry` with a job of its own.
Entry(t) ==
    /\ pc[t] = "entry"
    /\ Goto(t, IF Claiming THEN "claim" ELSE "run")
    /\ job' = [job EXCEPT ![t] = t]
    /\ UNCHANGED <<call, started, next, finished, helpers>>

\* A slip: the caller with no job left goes round until all its slots are
\* back, instead of joining the threads that did start.
ClaimUntilSlotsBack(p) ==
    /\ pc[p] = "claim"
    /\ IF next < size
       THEN next' = next + 1 /\ Goto(p, "run") /\ job' = [job EXCEPT ![p] = next]
       ELSE /\ Goto(p, IF p # Caller THEN "giveback" ELSE IF helpers > 0 THEN "claim" ELSE "join")
            /\ UNCHANGED <<next, job>>
    /\ UNCHANGED <<call, started, finished, helpers>>

\* `_Claims.run`: next.fetch_add(1).
Claim(p) ==
    /\ pc[p] = "claim"
    /\ next' = next + 1
    /\ IF next < size
       THEN Goto(p, "run") /\ job' = [job EXCEPT ![p] = next]
       ELSE Goto(p, IF p = Caller THEN "join" ELSE "giveback") /\ UNCHANGED job
    /\ UNCHANGED <<call, started, finished, helpers>>

\* Every job no thread was started for, the last one with them.
Rest ==
    /\ pc[Caller] = "rest"
    /\ Goto(Caller, IF job[Caller] < size THEN "run" ELSE "join")
    /\ UNCHANGED <<call, started, next, finished, helpers, job>>

\* The job returns or raises; `_Slot.run` keeps the error in the slot.
FinishJob(p) ==
    /\ pc[p] = "run"
    /\ finished' = finished \cup {job[p]}
    /\ \/ Claiming /\ Goto(p, "claim") /\ UNCHANGED job
       \/ ~Claiming /\ p # Caller /\ Goto(p, "giveback") /\ UNCHANGED job
       \/ /\ ~Claiming /\ p = Caller
          /\ Goto(p, "rest")
          /\ job' = [job EXCEPT ![p] = @ + 1]
    /\ UNCHANGED <<call, started, next, helpers>>

GiveBack(t) ==
    /\ pc[t] = "giveback"
    /\ helpers' = helpers - 1
    /\ Goto(t, "exited")
    /\ UNCHANGED <<call, started, next, finished, job>>

JoinThreads ==
    /\ pc[Caller] = "join"
    /\ \A t \in 0..(started - 1) : pc[t] = "exited"
    /\ pc' = [p \in Procs |-> IF p = Caller THEN "release" ELSE "unborn"]
    /\ UNCHANGED <<call, started, next, finished, helpers, job>>

\* The slots of the threads that did not start go back with the return, which
\* raises if one did not, or else the first error of a job.
Return ==
    /\ pc[Caller] = "release"
    /\ helpers' = helpers - (spawned - started)
    /\ size' = 0
    /\ spawned' = 0
    /\ started' = 0
    /\ finished' = {}
    /\ Goto(Caller, "idle")
    /\ UNCHANGED <<calls, next, job>>

CallerStep == Create \/ CreateFails \/ Claim(Caller) \/ Rest \/ FinishJob(Caller)
                  \/ JoinThreads \/ Return

ThreadStep(t) == Entry(t) \/ Claim(t) \/ FinishJob(t) \/ GiveBack(t)

\* No further call is made.
Over == pc[Caller] = "idle" /\ calls = MaxCalls /\ UNCHANGED vars

Next ==
    \/ \E n \in 1..MaxJobs : Call(n)
    \/ CallerStep
    \/ \E t \in Threads : ThreadStep(t)
    \/ Over

Spec == Init /\ [][Next]_vars

Fairness == WF_vars(CallerStep) /\ \A t \in Threads : WF_vars(ThreadStep(t))

FairSpec == Spec /\ Fairness

-------------------------------------------------------------------------------
(* Properties.                                                             *)

\* No two threads run one job and none is run again, though which thread
\* takes which depends on how many were granted and how many then started.
NoJobTwice ==
    \A p, q \in Procs : pc[p] = "run" =>
        /\ job[p] < size
        /\ job[p] \notin finished
        /\ (pc[q] = "run" /\ job[q] = job[p]) => p = q

\* Each thread that runs a job has a slot, the caller excepted, and the call
\* has given back every slot when it returns, those included that it reserved
\* for threads that did not start.
SlotsReturned ==
    /\ Cardinality({p \in Procs : pc[p] = "run"}) <= helpers + 1
    /\ pc[Caller] = "idle" => helpers = 0


\* The call as its caller sees it: each job run once, and a return, with the
\* results or an error, only when all have been.
Contract == INSTANCE JobRounds WITH
    open <- pc[Caller] # "idle",
    ran <- finished

ImplementsContract == Contract!Spec

\* A call ends.
CallEnds == pc[Caller] # "idle" ~> pc[Caller] = "idle"

-------------------------------------------------------------------------------
(* The invariant behind them (theorems in SpawnedJobsProofs): what each    *)
(* thread has run and still holds.                                         *)

CallerPcs == {"idle", "create", "rest", "claim", "run", "join", "release"}
ThreadPcs == {"unborn", "entry", "claim", "run", "giveback", "exited"}

\* Threads are about from their start to the join, and claim jobs or not as
\* the call decided.
Placed ==
    /\ pc[Caller] \in CallerPcs
    /\ \A t \in Threads :
        /\ pc[t] \in ThreadPcs
        /\ pc[t] # "unborn" <=> t < started /\ pc[Caller] \notin {"idle", "release"}
    /\ \A p \in Procs : pc[p] = "claim" => Claiming
    /\ pc[Caller] = "rest" => ~Claiming
    /\ IF pc[Caller] = "idle" THEN size = 0 /\ spawned = 0 /\ finished = {}
                              ELSE spawned < size

\* The reserved slots not yet given back: a joined thread has given back its.
Held == {t \in 0..(spawned - 1) :
            IF pc[Caller] = "release" THEN t >= started ELSE pc[t] # "exited"}

SlotsHeld == helpers = Cardinality(Held)

\* Without claims each thread runs the job of its number, and the caller the
\* others in order.
OwnJobs ==
    ~Claiming /\ pc[Caller] # "idle" =>
        /\ \A t \in Threads : pc[t] = "run" => job[t] = t
        /\ pc[Caller] # "create" => job[Caller] \in started..size
        /\ pc[Caller] = "run" => job[Caller] < size
        /\ pc[Caller] \in {"join", "release"} => job[Caller] = size
        /\ finished = {t \in 0..(started - 1) :
                          pc[t] \in {"giveback", "exited"} \/ pc[Caller] = "release"}
                      \cup {j \in started..(size - 1) :
                          pc[Caller] # "create" /\ j < job[Caller]}

\* With claims, the jobs before the next one are run or being run, and the
\* caller leaves when there is no next one.
ClaimedJobs ==
    Claiming =>
        /\ \A p \in Procs : pc[p] = "run" => job[p] < next
        /\ \A j \in 0..(size - 1) : j \in finished => j < next
        /\ \A j \in 0..(size - 1) : j < next =>
              j \in finished \/ \E p \in Procs : pc[p] = "run" /\ job[p] = j
        /\ pc[Caller] \in {"join", "release"} => next >= size

Inv ==
    /\ TypeOK
    /\ Placed
    /\ SlotsHeld
    /\ OwnJobs
    /\ ClaimedJobs
    /\ NoJobTwice
    /\ SlotsReturned
===============================================================================
