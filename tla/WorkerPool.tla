------------------------------ MODULE WorkerPool ------------------------------
(***************************************************************************)
(* `Pool` of dataframe/parallel.mojo: worker threads created once for an   *)
(* operation and woken for each of its rounds of jobs, together with       *)
(* `_ProducedJobs`, a round whose jobs the caller still produces while the *)
(* workers run them.                                                       *)
(*                                                                         *)
(* A worker (`_worker`) spins on `generation`, parks on the condition      *)
(* variable, takes its part of the round and arrives.  The caller          *)
(* publishes the round, bumps `generation`, takes a part itself, and waits *)
(* for `done` and then `arrived` before it lets go of the job list.        *)
(*                                                                         *)
(* An atomic load, store or fetch_add that another thread can observe is a *)
(* step; so is a critical section, which touches nothing that is also      *)
(* written outside the mutex while somebody may be inside.  Taking a job   *)
(* and finishing it are separate steps.  The fields the caller stores      *)
(* before the bump are one step, as no worker reads them before it.        *)
(*                                                                         *)
(* Helper slots come from the process-wide budget (module HelperBudget).   *)
(* Other operations may hold any part of it, so a reservation here grants  *)
(* any number up to the one asked for.                                     *)
(***************************************************************************)
EXTENDS Integers, FiniteSets

CONSTANTS
    MaxThreads,     \* most threads a pool starts (a bound of the model)
    MaxJobs,        \* most jobs of a round (a bound of the model)
    MaxRounds       \* rounds before the release (a bound of the model)

ASSUME PoolAssumption ==
    /\ MaxThreads \in Nat
    /\ MaxJobs \in Nat
    /\ MaxRounds \in Nat

VARIABLES
    \* _Shared
    threads,        \* workers started: 0 .. threads-1
    generation,     \* bumped for each round
    tasks,          \* the published job list (its round's number), 0 for none
    count,          \* its length
    next,           \* next job to claim
    done,           \* jobs finished
    arrived,        \* workers that have left the round
    mode,           \* how this round's jobs are shared out
    closed,         \* a produced round has no more jobs to come
    stopping,       \* the pool is being released
    participants,   \* workers taking part in the round
    \* the process-wide budget
    helpers,        \* helper slots this pool holds
    \* each thread
    pc,             \* where it is
    seen,           \* the generation a worker last observed
    list,           \* the job list a thread took from `tasks`
    length,         \* the `count` it took with it
    job,            \* the job it runs, or its next place in its static share
    \* the caller's round
    round,          \* rounds begun
    size,           \* jobs handed over in the round in progress
    finished        \* those of them that have been run

header == <<threads, generation, mode, closed, stopping, participants>>
shared == <<header, tasks, count, next, done, arrived>>
local == <<seen, list, length, job>>
work == <<size, finished>>
vars == <<shared, helpers, pc, local, round, work>>

Caller == MaxThreads            \* the thread that owns the pool
Procs == 0..MaxThreads
Workers == 0..(threads - 1)

Resting == {"spin", "lock", "parked"}
Parts == {"share", "claim", "produce", "starved", "run"}
WorkerPcs == Resting \cup Parts \cup
             {"unborn", "check", "enter", "giveback", "arrive", "exited"}
CallerPcs == Parts \cup {"idle", "inline", "inlineSubmit", "inlineJob", "wake",
                         "submit", "drain", "barrier", "join", "freed"}

PcOK ==
    /\ pc \in [Procs -> WorkerPcs \cup CallerPcs]
    /\ pc[Caller] \in CallerPcs
    /\ \A w \in Procs \ {Caller} : pc[w] \in WorkerPcs

TypeOK ==
    /\ PcOK
    /\ threads \in 0..MaxThreads
    /\ generation \in Nat
    /\ tasks \in Nat
    /\ count \in 0..MaxJobs
    /\ next \in Nat
    /\ done \in Nat
    /\ arrived \in Nat
    /\ mode \in {"static", "claim", "produced"}
    /\ closed \in BOOLEAN
    /\ stopping \in BOOLEAN
    /\ participants \in 0..MaxThreads
    /\ helpers \in Int
    /\ seen \in [Procs -> Nat]
    /\ list \in [Procs -> Nat]
    /\ length \in [Procs -> 0..MaxJobs]
    /\ job \in [Procs -> Nat]
    /\ round \in Nat
    /\ size \in 0..MaxJobs
    /\ finished \subseteq 0..(MaxJobs - 1)

\* `Pool._start`: any number of the threads asked for start, as
\* pthread_create may fail part way.
Init ==
    /\ threads \in 0..MaxThreads
    /\ generation = 0
    /\ tasks = 0
    /\ count = 0
    /\ next = 0
    /\ done = 0
    /\ arrived = 0
    /\ mode = "static"
    /\ closed = FALSE
    /\ stopping = FALSE
    /\ participants = 0
    /\ helpers = 0
    /\ pc = [p \in Procs |-> IF p = Caller THEN "idle"
                             ELSE IF p < threads THEN "spin" ELSE "unborn"]
    /\ seen = [p \in Procs |-> 0]
    /\ list = [p \in Procs |-> 0]
    /\ length = [p \in Procs |-> 0]
    /\ job = [p \in Procs |-> 0]
    /\ round = 0
    /\ size = 0
    /\ finished = {}

Goto(p, there) == pc' = [pc EXCEPT ![p] = there]

\* pthread_cond_broadcast under the mutex, with the caller's own move: every
\* waiting thread goes to look again.
Broadcast(there) ==
    pc' = [p \in Procs |-> IF p = Caller THEN there
                           ELSE IF pc[p] = "parked" THEN "lock"
                           ELSE IF pc[p] = "starved" THEN "produce"
                           ELSE pc[p]]

\* `_reserve_helpers`: some number up to `wanted`, the first workers' slots.
Reserve(granted) ==
    /\ helpers' = helpers + granted
    /\ participants' = granted

-------------------------------------------------------------------------------
(* The workers: `_worker`.                                                 *)

\* The spin ends at a new generation, at the stop flag, or at its limit.
Spin(w) ==
    /\ pc[w] = "spin"
    /\ Goto(w, IF generation # seen[w] \/ stopping THEN "check" ELSE "lock")
    /\ UNCHANGED <<shared, helpers, local, round, work>>

\* A slip: the worker parks without looking at the generation again.
ParkBlind(w) ==
    /\ pc[w] = "lock"
    /\ Goto(w, IF stopping THEN "check" ELSE "parked")
    /\ UNCHANGED <<shared, helpers, local, round, work>>

\* Under the mutex: wait while there is nothing new.
Park(w) ==
    /\ pc[w] = "lock"
    /\ Goto(w, IF generation = seen[w] /\ ~stopping THEN "parked" ELSE "check")
    /\ UNCHANGED <<shared, helpers, local, round, work>>

\* pthread_cond_wait may return without a broadcast.
SpuriousWakeup(w) ==
    /\ \/ pc[w] = "parked" /\ Goto(w, "lock")
       \/ pc[w] = "starved" /\ Goto(w, "produce")
    /\ UNCHANGED <<shared, helpers, local, round, work>>

Check(w) ==
    /\ pc[w] = "check"
    /\ IF stopping
       THEN Goto(w, "exited") /\ UNCHANGED seen
       ELSE Goto(w, "enter") /\ seen' = [seen EXCEPT ![w] = generation]
    /\ UNCHANGED <<shared, helpers, list, length, job, round, work>>

PartOf(m) == CASE m = "static" -> "share"
               [] m = "claim" -> "claim"
               [] m = "produced" -> "produce"

\* Thread p begins its part: it reads the list and its length.
BeginPart(p, index) ==
    /\ list' = [list EXCEPT ![p] = tasks]
    /\ length' = [length EXCEPT ![p] = count]
    /\ job' = [job EXCEPT ![p] = index]

\* The first `participants` workers take part, the others arrive at once.
Enter(w) ==
    /\ pc[w] = "enter"
    /\ IF w < participants
       THEN Goto(w, PartOf(mode)) /\ BeginPart(w, w)
       ELSE Goto(w, "arrive") /\ UNCHANGED <<list, length, job>>
    /\ UNCHANGED <<shared, helpers, seen, round, work>>

\* A slip: the worker's slot is not given back.
GiveBackNothing(w) ==
    /\ pc[w] = "giveback"
    /\ Goto(w, "arrive")
    /\ UNCHANGED <<shared, helpers, local, round, work>>

\* `_release_helpers(1)`, once the worker's part is done.
GiveBack(w) ==
    /\ pc[w] = "giveback"
    /\ helpers' = helpers - 1
    /\ Goto(w, "arrive")
    /\ UNCHANGED <<shared, local, round, work>>

Arrive(w) ==
    /\ pc[w] = "arrive"
    /\ arrived' = arrived + 1
    /\ Goto(w, "spin")
    /\ UNCHANGED <<header, tasks, count, next, done, helpers, local, round, work>>

-------------------------------------------------------------------------------
(* A part of a round, run by a worker or by the caller: `_run_share`,      *)
(* `_run_claim` and `_run_produced`.                                       *)

\* A part ends, and its local variables with it: a worker gives its slot
\* back, the caller waits for the rest.
Leave(p) ==
    /\ Goto(p, IF p = Caller THEN "drain" ELSE "giveback")
    /\ list' = [list EXCEPT ![p] = 0]
    /\ length' = [length EXCEPT ![p] = 0]
    /\ job' = [job EXCEPT ![p] = 0]

\* Take job j of the list `from`.
Take(p, j, from) ==
    /\ Goto(p, "run")
    /\ list' = [list EXCEPT ![p] = from]
    /\ job' = [job EXCEPT ![p] = j]
    /\ UNCHANGED length

\* The next job of a static share, if it has one left.
ShareNext(p) ==
    /\ pc[p] = "share"
    /\ IF job[p] < length[p] THEN Take(p, job[p], list[p]) ELSE Leave(p)
    /\ UNCHANGED <<shared, helpers, seen, round, work>>

\* next.fetch_add(1).
ClaimNext(p) ==
    /\ pc[p] = "claim"
    /\ next' = next + 1
    /\ IF next < length[p] THEN Take(p, next, list[p]) ELSE Leave(p)
    /\ UNCHANGED <<header, tasks, count, done, arrived>>
    /\ UNCHANGED <<helpers, seen, round, work>>

\* Under the mutex, with `tasks` and `count` read afresh: take the next job,
\* wait for one, or leave a round that is closed.
ProduceNext(p) ==
    /\ pc[p] = "produce"
    /\ \/ /\ next < count
          /\ next' = next + 1
          /\ Take(p, next, tasks)
       \/ /\ next >= count
          /\ UNCHANGED next
          /\ IF closed
             THEN Leave(p)
             ELSE Goto(p, "starved") /\ UNCHANGED <<list, length, job>>
    /\ UNCHANGED <<header, tasks, count, done, arrived>>
    /\ UNCHANGED <<helpers, seen, round, work>>

\* Job j returns or raises; `_Slot.run` keeps the error in the slot.
Finished(j) == finished' = finished \cup {j}

\* A slip: the stride of a static share leaves the caller out.
FinishJobShortStride(p) ==
    /\ pc[p] = "run"
    /\ Finished(job[p])
    /\ done' = done + 1
    /\ job' = IF mode = "static" THEN [job EXCEPT ![p] = @ + participants] ELSE job
    /\ Goto(p, PartOf(mode))
    /\ UNCHANGED <<header, tasks, count, next, arrived>>
    /\ UNCHANGED <<helpers, seen, list, length, round, size>>

\* The job is counted and the thread goes for its next one.
FinishJob(p) ==
    /\ pc[p] = "run"
    /\ Finished(job[p])
    /\ done' = done + 1
    /\ job' = IF mode = "static" THEN [job EXCEPT ![p] = @ + participants + 1]
                                 ELSE job
    /\ Goto(p, PartOf(mode))
    /\ UNCHANGED <<header, tasks, count, next, arrived>>
    /\ UNCHANGED <<helpers, seen, list, length, round, size>>

-------------------------------------------------------------------------------
(* The caller: `Pool.run`, `_ProducedJobs` and `Pool.release`.             *)

\* A new round with n jobs to begin with.
NewRound(n) ==
    /\ pc[Caller] = "idle"
    /\ round < MaxRounds
    /\ round' = round + 1
    /\ size' = n
    /\ finished' = {}

\* The call is over, and its jobs go back to whoever made it.
Return ==
    /\ Goto(Caller, "idle")
    /\ size' = 0
    /\ finished' = {}

\* `run` with no workers, or with one job: the caller runs them all.
RunInline(n) ==
    /\ threads = 0 \/ n = 1
    /\ NewRound(n)
    /\ Goto(Caller, "inline")
    /\ UNCHANGED <<shared, helpers, local>>

\* `_begin` with no workers or no slot free: each job runs when submitted.
ProduceInline ==
    /\ NewRound(0)
    /\ Goto(Caller, "inlineSubmit")
    /\ UNCHANGED <<shared, helpers, local>>

\* A slip: the caller stops one job short.
InlineNextShort ==
    /\ pc[Caller] = "inline"
    /\ IF Cardinality(finished) + 1 < size
       THEN Finished(Cardinality(finished)) /\ UNCHANGED <<pc, size>>
       ELSE Return
    /\ UNCHANGED <<shared, helpers, local, round>>

InlineNext ==
    /\ pc[Caller] = "inline"
    /\ IF Cardinality(finished) < size
       THEN Finished(Cardinality(finished)) /\ UNCHANGED <<pc, size>>
       ELSE Return
    /\ UNCHANGED <<shared, helpers, local, round>>

InlineSubmit ==
    /\ pc[Caller] = "inlineSubmit"
    /\ size < MaxJobs
    /\ size' = size + 1
    /\ Goto(Caller, "inlineJob")
    /\ UNCHANGED <<shared, helpers, local, round, finished>>

InlineJob ==
    /\ pc[Caller] = "inlineJob"
    /\ Finished(size - 1)
    /\ Goto(Caller, "inlineSubmit")
    /\ UNCHANGED <<shared, helpers, local, round, size>>

InlineClose ==
    /\ pc[Caller] = "inlineSubmit"
    /\ Return
    /\ UNCHANGED <<shared, helpers, local, round>>

\* A slip: the arrivals of the round before are still counted.
PublishKeepsArrived(m, n) ==
    /\ tasks' = round + 1
    /\ count' = n
    /\ next' = 0
    /\ done' = 0
    /\ arrived' = arrived
    /\ closed' = FALSE
    /\ mode' = m

\* The fields of a new round, before any worker is told of it.
Publish(m, n) ==
    /\ tasks' = round + 1
    /\ count' = n
    /\ next' = 0
    /\ done' = 0
    /\ arrived' = 0
    /\ closed' = FALSE
    /\ mode' = m

\* `run`: reserve and publish.
RunJobs(n, claim) ==
    /\ threads > 0
    /\ n > 1
    /\ NewRound(n)
    /\ \E granted \in 0..MaxThreads :
          granted <= threads /\ granted <= n - 1 /\ Reserve(granted)
    /\ Publish(IF claim THEN "claim" ELSE "static", n)
    /\ Goto(Caller, "wake")
    /\ UNCHANGED <<threads, generation, stopping, local>>

\* Bump the generation, wake the workers, and take the last part.
Wake ==
    /\ pc[Caller] = "wake"
    /\ generation' = generation + 1
    /\ Broadcast(PartOf(mode))
    /\ BeginPart(Caller, participants)
    /\ UNCHANGED <<threads, mode, closed, stopping, participants>>
    /\ UNCHANGED <<tasks, count, next, done, arrived, helpers, seen, round, work>>

\* `_begin`: a round with no jobs yet, opened under the mutex.
ProduceBegin ==
    /\ NewRound(0)
    /\ \E granted \in 1..MaxThreads : granted <= threads /\ Reserve(granted)
    /\ Publish("produced", 0)
    /\ generation' = generation + 1
    /\ Broadcast("submit")
    /\ UNCHANGED <<threads, stopping, local>>

\* `submit`, within the capacity the producer was made with.
Submit ==
    /\ pc[Caller] = "submit"
    /\ size < MaxJobs
    /\ size' = size + 1
    /\ count' = size + 1
    /\ Broadcast("submit")
    /\ UNCHANGED <<header, tasks, next, done, arrived>>
    /\ UNCHANGED <<helpers, local, round, finished>>

\* `_close`, from `finish` or from the destructor after a producer's error.
Close ==
    /\ pc[Caller] = "submit"
    /\ closed' = TRUE
    /\ Broadcast("produce")
    /\ UNCHANGED <<threads, generation, mode, stopping, participants>>
    /\ UNCHANGED <<tasks, count, next, done, arrived, helpers, local, round, work>>

\* Spin until every job is finished.
Drain ==
    /\ pc[Caller] = "drain"
    /\ done >= count
    /\ Goto(Caller, "barrier")
    /\ UNCHANGED <<shared, helpers, local, round, work>>

\* A slip: the caller waits for the jobs and not for the workers.
BarrierOnJobs ==
    /\ pc[Caller] = "barrier"
    /\ count' = 0
    /\ tasks' = 0
    /\ mode' = IF mode = "produced" THEN mode ELSE "static"
    /\ Return
    /\ UNCHANGED <<threads, generation, closed, stopping, participants>>
    /\ UNCHANGED <<next, done, arrived, helpers, local, round>>

\* Spin until every worker has left, then let go of the list and return.
Barrier ==
    /\ pc[Caller] = "barrier"
    /\ arrived >= threads
    /\ count' = 0
    /\ tasks' = 0
    /\ mode' = IF mode = "produced" THEN mode ELSE "static"
    /\ Return
    /\ UNCHANGED <<threads, generation, closed, stopping, participants>>
    /\ UNCHANGED <<next, done, arrived, helpers, local, round>>

\* A slip: the flag is set and nobody is woken to see it.
ReleaseSilently ==
    /\ pc[Caller] = "idle"
    /\ stopping' = TRUE
    /\ Goto(Caller, "join")
    /\ UNCHANGED <<threads, generation, mode, closed, participants>>
    /\ UNCHANGED <<tasks, count, next, done, arrived, helpers, local, round, work>>

\* `release`: wake every worker to return, and join them.
Release ==
    /\ pc[Caller] = "idle"
    /\ stopping' = TRUE
    /\ Broadcast("join")
    /\ UNCHANGED <<threads, generation, mode, closed, participants>>
    /\ UNCHANGED <<tasks, count, next, done, arrived, helpers, local, round, work>>

Join ==
    /\ pc[Caller] = "join"
    /\ \A w \in Workers : pc[w] = "exited"
    /\ Goto(Caller, "freed")
    /\ UNCHANGED <<shared, helpers, local, round, work>>

\* The released pool is gone.
Terminated == pc[Caller] = "freed" /\ UNCHANGED vars

-------------------------------------------------------------------------------

Begin ==
    \/ \E n \in 1..MaxJobs : RunInline(n)
    \/ ProduceInline
    \/ \E n \in 1..MaxJobs, claim \in BOOLEAN : RunJobs(n, claim)
    \/ ProduceBegin

PartStep(p) == ShareNext(p) \/ ClaimNext(p) \/ ProduceNext(p) \/ FinishJob(p)

WorkerStep(w) ==
    Spin(w) \/ Park(w) \/ Check(w) \/ Enter(w) \/ GiveBack(w) \/ Arrive(w)
        \/ PartStep(w)

\* What the caller does once it has begun a round or the release.
CallerStep ==
    InlineNext \/ InlineJob \/ InlineClose \/ Wake \/ Close \/ Drain
        \/ Barrier \/ Join \/ PartStep(Caller)

Next ==
    \/ Begin
    \/ InlineSubmit
    \/ Submit
    \/ CallerStep
    \/ Release
    \/ \E w \in Workers : WorkerStep(w) \/ SpuriousWakeup(w)
    \/ Terminated

Spec == Init /\ [][Next]_vars

\* The operating system keeps scheduling every thread, and a caller that has
\* begun a round goes through with it: a producer's input ends.  Nothing says
\* when a caller begins its next round or releases the pool.
Fairness ==
    /\ WF_vars(CallerStep)
    /\ \A w \in 0..(MaxThreads - 1) : WF_vars(w \in Workers /\ WorkerStep(w))

FairSpec == Spec /\ Fairness

-------------------------------------------------------------------------------
(* Properties.                                                             *)

InPart(p) == pc[p] \in Parts
InRound == pc[Caller] \in Parts \cup {"wake", "submit", "drain", "barrier"}

\* A thread that is in a part of a round uses the list of the round that is
\* in progress: no worker that wakes late reads a list the caller has
\* cleared, or one of the round before (the reason for `arrived`).
ListAlive ==
    \A p \in Procs : InPart(p) =>
        tasks # 0 /\ (pc[p] \notin {"produce", "starved"} => list[p] = tasks)

\* Whatever way the jobs of a round are shared out, no two threads run one
\* job, and no thread runs one again.
NoJobTwice ==
    \A p, q \in Procs : pc[p] = "run" =>
        /\ job[p] < size
        /\ job[p] \notin finished
        /\ (pc[q] = "run" /\ job[q] = job[p]) => p = q

\* The threads that run jobs are never more than the caller and as many
\* helpers as hold a slot, and a call that is over holds none.
SlotsCoverThreads ==
    /\ Cardinality({p \in Procs : pc[p] = "run"}) <= helpers + 1
    /\ ~InRound => helpers = 0

\* The round as its caller sees it: opened with some jobs, each run once, and
\* over only when all have been, failed ones included.
Contract == INSTANCE JobRounds WITH
    open <- pc[Caller] \notin {"idle", "join", "freed"},
    ran <- finished

ImplementsContract == Contract!Spec

\* A round that has begun ends: no wakeup is lost, no thread waits for a job
\* or for a worker that never comes.
RoundEnds == (pc[Caller] \notin {"idle", "join", "freed"}) ~> (pc[Caller] = "idle")

\* A release ends with every worker joined.
ReleaseEnds == (pc[Caller] = "join") ~> (pc[Caller] = "freed")

-------------------------------------------------------------------------------
(* The invariant behind ListAlive (theorems in WorkerPoolProofs): where     *)
(* each worker can be, given where the caller is.                          *)

Between == {"idle", "inline", "inlineSubmit", "inlineJob"}  \* no round is out
Open == Parts \cup {"submit", "drain", "barrier"}           \* one is
Ending == {"join", "freed"}

\* The workers that have left the round, or have been in none.
Out == {w \in Workers : seen[w] = generation /\ pc[w] \in Resting}

\* A worker has left, has not yet seen the bump, is in the round, or ends.
Place(w) ==
    \/ w \in Out
    \/ /\ pc[Caller] \in Open
       /\ seen[w] # generation
       /\ pc[w] \in Resting \cup {"check"}
    \/ /\ pc[Caller] \in Open
       /\ seen[w] = generation
       /\ pc[w] \in Parts \cup {"enter", "giveback", "arrive"}
    \/ /\ pc[Caller] \in Ending
       /\ pc[w] \in {"check", "exited"}

WorkerPlace == \A w \in Workers : Place(w)

\* `arrived` counts the workers that have left, from 0 at the publication.
ArrivedCounts ==
    /\ pc[Caller] \in Open => arrived = Cardinality(Out)
    /\ pc[Caller] = "wake" => arrived = 0

ListPublished ==
    /\ pc[Caller] \in Open \cup {"wake"} => tasks # 0
    /\ \A p \in Procs : pc[p] \in {"share", "claim", "run"} => list[p] = tasks

Unborn == \A p \in Procs : p # Caller /\ p \notin Workers => pc[p] = "unborn"

Stopping == stopping <=> pc[Caller] \in Ending

\* A job that runs is one of a list, and a submitted one is counted.
JobsExist ==
    /\ \A p \in Procs : pc[p] = "run" => job[p] < MaxJobs
    /\ pc[Caller] = "inlineJob" => size > 0

Placed ==
    /\ TypeOK
    /\ JobsExist
    /\ WorkerPlace
    /\ ArrivedCounts
    /\ ListPublished
    /\ Unborn
    /\ Stopping

-------------------------------------------------------------------------------
(* The invariant behind NoJobTwice, SlotsCoverThreads and the refinement    *)
(* (theorems in WorkerPoolJobProofs): which jobs are anybody's, and whose.  *)

\* A worker that takes part and has not begun.
Late(w) ==
    /\ w \in Workers
    /\ w < participants
    /\ pc[Caller] = "wake" \/ seen[w] # generation \/ pc[w] = "enter"

\* The workers that hold a slot: those that take part and have not given
\* theirs back.
Holding == {w \in Workers :
    InRound /\ w < participants /\ (Late(w) \/ InPart(w) \/ pc[w] = "giveback")}

SlotsHeld ==
    /\ helpers = Cardinality(Holding)
    /\ InRound => participants <= threads
    /\ \A w \in Workers : InPart(w) \/ pc[w] = "giveback" => w < participants

\* Each thread shares jobs out in the way of the round.
SharedOneWay ==
    /\ \A p \in Procs :
        /\ pc[p] = "share" => mode = "static"
        /\ pc[p] = "claim" => mode = "claim"
        /\ pc[p] \in {"produce", "starved"} => mode = "produced"
        /\ InPart(p) /\ mode # "produced" => length[p] = size
    /\ pc[Caller] = "wake" => mode # "produced"
    /\ pc[Caller] = "submit" => mode = "produced"

\* The caller's counters say what has been run.
RoundCounts ==
    /\ finished \subseteq 0..(size - 1)
    /\ InRound => count = size /\ done = Cardinality(finished)
    /\ pc[Caller] = "barrier" => done >= count
    /\ pc[Caller] = "wake" => finished = {}

\* Alone, the caller runs the jobs in their order.
RunInOrder ==
    /\ pc[Caller] = "inline" => finished = 0..(Cardinality(finished) - 1)
    /\ pc[Caller] = "inlineSubmit" => finished = 0..(size - 1)
    /\ pc[Caller] = "inlineJob" => finished = 0..(size - 2)
    /\ pc[Caller] \in Ending \cup {"idle"} => size = 0 /\ finished = {}

\* Jobs that are claimed come before the next one.
ClaimedBelowNext ==
    InRound /\ mode # "static" =>
        /\ \A j \in finished : j < next
        /\ \A p \in Procs : pc[p] = "run" => job[p] < next

\* A static share is every Stride-th job, the workers' first and the
\* caller's last, run in order.
Stride == participants + 1
Share(p) == IF p = Caller THEN participants ELSE p
InShare(p, j) == j % Stride = Share(p)

SharesApart ==
    InRound /\ mode = "static" =>
        /\ \A p \in Procs : InPart(p) =>
              /\ InShare(p, job[p])
              /\ \A j \in finished : InShare(p, j) => j < job[p]
        /\ \A p \in Workers : Late(p) => \A j \in finished : ~InShare(p, j)

JobsHeld ==
    /\ SharedOneWay
    /\ RoundCounts
    /\ RunInOrder
    /\ ClaimedBelowNext
    /\ SharesApart
    /\ NoJobTwice

Inv == Placed /\ SlotsHeld /\ JobsHeld
===============================================================================
