------------------------------ MODULE CrewLifecycle -----------------------------
(***************************************************************************)
(* How a crew of dataframe/parallel.mojo comes and goes: `Crew.start`,     *)
(* `Crew.release`, `Crew.shutdown`, `_Crew.spawn`, `_crew_spawner` and     *)
(* `_stop_crew`.  An operation takes the parked crew back or allocates     *)
(* one, makes it the current crew, and parks or stops it when it ends.     *)
(* The crew's threads are created by the first call that posts work.  An   *)
(* eager call that borrows a crew is an operation of one call.             *)
(*                                                                         *)
(* `current` and `parked` hold addresses and are changed by                *)
(* compare-and-swap; a freed address may be allocated again.  What a crew  *)
(* thread does with a posting is module Crew; here it looks for work,      *)
(* parks and exits.  Reading freed state is undefined: an operation that   *)
(* is about to takes no further step.                                      *)
(***************************************************************************)
EXTENDS Integers, FiniteSets

CONSTANTS
    Operations,     \* threads that run operations
    Addresses,      \* where a crew's state can be allocated
    Settings,       \* the values configured_workers() - 1 takes
    MaxHelpers,     \* the largest of them
    MaxStarts       \* operations begun in all (a bound of the model)

ASSUME LifecycleAssumption ==
    /\ MaxHelpers \in Nat \ {0}
    /\ Settings \subseteq 0..MaxHelpers
    /\ MaxStarts \in Nat
    /\ 0 \notin Addresses

None == 0
Workers == 1..MaxHelpers        \* a crew's threads; the first creates the rest

VARIABLES
    setting,        \* what DATAFRAME_THREADS says now
    starts,         \* operations begun
    current,        \* the running crew, or None
    parked,         \* the crew kept between operations, or None
    \* each crew's state
    live,           \* allocated and not freed
    wanted,         \* the threads it is sized for
    spawned,        \* 0 none created yet, 1 being created, 2 created
    threads,        \* how many were
    stopping,
    \* each crew's threads
    worker,
    \* each operation
    pc,
    after,          \* where it goes on when it has parked or stopped a crew
    mine,           \* the crew it owns: nobody else parks, stops or frees it
    helpers,        \* the setting its start read
    seen,           \* an address it has loaded
    joins           \* the threads its stop joins

globals == <<setting, starts, current, parked>>
crew == <<live, wanted, spawned, threads, stopping>>
local == <<after, mine, helpers, seen, joins>>
vars == <<globals, crew, worker, pc, local>>

Stopped == {"stop", "await", "join"}
Using == {"use", "spawn", "create", "post", "work"}

TypeOK ==
    /\ setting \in Settings
    /\ starts \in 0..MaxStarts
    /\ current \in Addresses \cup {None}
    /\ parked \in Addresses \cup {None}
    /\ live \in [Addresses -> BOOLEAN]
    /\ wanted \in [Addresses -> 0..MaxHelpers]
    /\ spawned \in [Addresses -> 0..2]
    /\ threads \in [Addresses -> 0..MaxHelpers]
    /\ stopping \in [Addresses -> BOOLEAN]
    /\ worker \in [Addresses -> [Workers ->
            {"none", "creating", "create", "look", "lock", "parked", "exited"}]]
    /\ pc \in [Operations -> {"idle", "start", "load", "take", "allocate",
            "publish", "body", "release", "offer", "park", "shutdown"}
            \cup Stopped \cup Using]
    /\ after \in [Operations -> {"idle", "allocate", "body"}]
    /\ mine \in [Operations -> Addresses \cup {None}]
    /\ helpers \in [Operations -> 0..MaxHelpers]
    /\ seen \in [Operations -> Addresses \cup {None}]
    /\ joins \in [Operations -> 0..MaxHelpers]

Init ==
    /\ setting \in Settings
    /\ starts = 0
    /\ current = None
    /\ parked = None
    /\ live = [a \in Addresses |-> FALSE]
    /\ wanted = [a \in Addresses |-> 0]
    /\ spawned = [a \in Addresses |-> 0]
    /\ threads = [a \in Addresses |-> 0]
    /\ stopping = [a \in Addresses |-> FALSE]
    /\ worker = [a \in Addresses |-> [t \in Workers |-> "none"]]
    /\ pc = [o \in Operations |-> "idle"]
    /\ after = [o \in Operations |-> "idle"]
    /\ mine = [o \in Operations |-> None]
    /\ helpers = [o \in Operations |-> 0]
    /\ seen = [o \in Operations |-> None]
    /\ joins = [o \in Operations |-> 0]

Goto(o, there) == pc' = [pc EXCEPT ![o] = there]
Then(o, there) == after' = [after EXCEPT ![o] = there]
Own(o, a) == mine' = [mine EXCEPT ![o] = a]
See(o, a) == seen' = [seen EXCEPT ![o] = a]

\* pthread_cond_broadcast under the mutex of crew a.
Broadcast(a) ==
    worker' = [worker EXCEPT ![a] = [t \in Workers |->
                  IF @[t] = "parked" THEN "lock" ELSE @[t]]]

\* DATAFRAME_THREADS is set, by whoever uses the library.
Configure(n) ==
    /\ n # setting
    /\ setting' = n
    /\ UNCHANGED <<starts, current, parked, crew, worker, pc, local>>

-------------------------------------------------------------------------------
(* `Crew.start`.                                                           *)

Begin(o) ==
    /\ pc[o] = "idle"
    /\ starts < MaxStarts
    /\ starts' = starts + 1
    /\ helpers' = [helpers EXCEPT ![o] = setting]
    /\ Goto(o, IF setting <= 0 THEN "body" ELSE "start")
    /\ UNCHANGED <<setting, current, parked, crew, worker, after, mine, seen, joins>>

\* A crew is running: this operation has none of its own.
CheckCurrent(o) ==
    /\ pc[o] = "start"
    /\ Goto(o, IF current # None THEN "body" ELSE "load")
    /\ UNCHANGED <<globals, crew, worker, local>>

LoadParked(o) ==
    /\ pc[o] = "load"
    /\ See(o, parked)
    /\ Goto(o, IF parked = None THEN "allocate" ELSE "take")
    /\ UNCHANGED <<globals, crew, worker, after, mine, helpers, joins>>

\* Two slips: the slot is cleared by a store, whoever took the crew since; and
\* a crew is taken back whatever its size.
TakeParkedByStore(o) ==
    /\ pc[o] = "take"
    /\ parked' = None
    /\ Own(o, seen[o])
    /\ Goto(o, "publish")
    /\ UNCHANGED <<setting, starts, current, crew, worker, after, helpers, seen, joins>>

TakeParkedOfAnySize(o) ==
    /\ pc[o] = "take"
    /\ IF parked = seen[o]
       THEN parked' = None /\ Own(o, seen[o]) /\ Goto(o, "publish")
       ELSE Goto(o, "allocate") /\ UNCHANGED <<parked, mine>>
    /\ UNCHANGED <<setting, starts, current, crew, worker, after, helpers, seen, joins>>

\* Take the parked crew back, if it is still there; one of another size is
\* stopped, and a new one allocated.
TakeParked(o) ==
    /\ pc[o] = "take"
    /\ IF parked = seen[o]
       THEN /\ parked' = None
            /\ Own(o, seen[o])
            /\ IF wanted[seen[o]] = helpers[o]
               THEN Goto(o, "publish") /\ UNCHANGED after
               ELSE Goto(o, "stop") /\ Then(o, "allocate")
       ELSE Goto(o, "allocate") /\ UNCHANGED <<parked, mine, after>>
    /\ UNCHANGED <<setting, starts, current, crew, worker, helpers, seen, joins>>

\* A new crew has no threads yet.
Allocate(o) ==
    /\ pc[o] = "allocate"
    /\ \E a \in Addresses :
        /\ ~live[a]
        /\ live' = [live EXCEPT ![a] = TRUE]
        /\ wanted' = [wanted EXCEPT ![a] = helpers[o]]
        /\ spawned' = [spawned EXCEPT ![a] = 0]
        /\ threads' = [threads EXCEPT ![a] = 0]
        /\ stopping' = [stopping EXCEPT ![a] = FALSE]
        /\ worker' = [worker EXCEPT ![a] = [t \in Workers |-> "none"]]
        /\ Own(o, a)
    /\ Goto(o, "publish")
    /\ UNCHANGED <<globals, after, helpers, seen, joins>>

\* The allocation fails: the operation goes on without a crew.
AllocateFails(o) ==
    /\ pc[o] = "allocate"
    /\ Goto(o, "body")
    /\ UNCHANGED <<globals, crew, worker, local>>

\* Make it the running crew, unless another operation started one first.
Publish(o) ==
    /\ pc[o] = "publish"
    /\ IF current = None
       THEN current' = mine[o] /\ Goto(o, "body") /\ UNCHANGED after
       ELSE Goto(o, "release") /\ Then(o, "body") /\ UNCHANGED current
    /\ UNCHANGED <<setting, starts, parked, crew, worker, mine, helpers, seen, joins>>

-------------------------------------------------------------------------------
(* A call of the operation: `_run_on_crew` and `_Crew.spawn`.              *)

\* The call loads the running crew's address, of whichever operation it is.
Call(o) ==
    /\ pc[o] = "body"
    /\ current # None
    /\ See(o, current)
    /\ Goto(o, "use")
    /\ UNCHANGED <<globals, crew, worker, after, mine, helpers, joins>>

Use(o) ==
    /\ pc[o] = "use"
    /\ live[seen[o]]
    /\ Goto(o, IF spawned[seen[o]] # 2 THEN "spawn" ELSE "post")
    /\ UNCHANGED <<globals, crew, worker, local>>

\* The caller that wins the flag creates the first thread, counted before it
\* starts; another goes on.
WinSpawn(o) ==
    /\ pc[o] = "spawn"
    /\ live[seen[o]]
    /\ IF spawned[seen[o]] = 0
       THEN /\ spawned' = [spawned EXCEPT ![seen[o]] = 1]
            /\ threads' = [threads EXCEPT ![seen[o]] = 1]
            /\ Goto(o, "create")
       ELSE Goto(o, "post") /\ UNCHANGED <<spawned, threads>>
    /\ UNCHANGED <<globals, live, wanted, stopping, worker, local>>

Create(o) ==
    /\ pc[o] = "create"
    /\ live[seen[o]]
    /\ worker' = [worker EXCEPT ![seen[o]][1] = "creating"]
    /\ Goto(o, "post")
    /\ UNCHANGED <<globals, crew, local>>

CreateFails(o) ==
    /\ pc[o] = "create"
    /\ live[seen[o]]
    /\ threads' = [threads EXCEPT ![seen[o]] = 0]
    /\ spawned' = [spawned EXCEPT ![seen[o]] = 2]
    /\ Goto(o, "post")
    /\ UNCHANGED <<globals, live, wanted, stopping, worker, local>>

\* `post` wakes the threads; the jobs run, and `retire` ends the call.
PostJobs(o) ==
    /\ pc[o] = "post"
    /\ live[seen[o]]
    /\ Broadcast(seen[o])
    /\ Goto(o, "work")
    /\ UNCHANGED <<globals, crew, local>>

Retire(o) ==
    /\ pc[o] = "work"
    /\ live[seen[o]]
    /\ See(o, None)
    /\ Goto(o, "body")
    /\ UNCHANGED <<globals, crew, worker, after, mine, helpers, joins>>

-------------------------------------------------------------------------------
(* `Crew.release`, `Crew.shutdown` and `_stop_crew`.                       *)

\* The operation ends; one that has no crew has nothing to release.
End(o) ==
    /\ pc[o] = "body"
    /\ Goto(o, IF mine[o] = None THEN "idle" ELSE "release")
    /\ Then(o, "idle")
    /\ UNCHANGED <<globals, crew, worker, mine, helpers, seen, joins>>

\* A slip: the crew goes on being the current one.
ReleaseStillCurrent(o) ==
    /\ pc[o] = "release"
    /\ Goto(o, "offer")
    /\ UNCHANGED <<globals, crew, worker, local>>

Release(o) ==
    /\ pc[o] = "release"
    /\ current' = IF current = mine[o] THEN None ELSE current
    /\ Goto(o, "offer")
    /\ UNCHANGED <<setting, starts, parked, crew, worker, local>>

\* Only a crew whose threads have been created is worth keeping.
Offer(o) ==
    /\ pc[o] = "offer"
    /\ Goto(o, IF spawned[mine[o]] = 2 /\ threads[mine[o]] > 0
               THEN "park" ELSE "stop")
    /\ UNCHANGED <<globals, crew, worker, local>>

Park(o) ==
    /\ pc[o] = "park"
    /\ IF parked = None
       THEN parked' = mine[o] /\ Own(o, None) /\ Goto(o, after[o])
       ELSE Goto(o, "stop") /\ UNCHANGED <<parked, mine>>
    /\ UNCHANGED <<setting, starts, current, crew, worker, after, helpers, seen, joins>>

LoadShutdown(o) ==
    /\ pc[o] = "idle"
    /\ parked # None
    /\ See(o, parked)
    /\ Goto(o, "shutdown")
    /\ UNCHANGED <<globals, crew, worker, after, mine, helpers, joins>>

TakeShutdown(o) ==
    /\ pc[o] = "shutdown"
    /\ IF parked = seen[o]
       THEN parked' = None /\ Own(o, seen[o]) /\ Goto(o, "stop") /\ Then(o, "idle")
       ELSE Goto(o, "idle") /\ UNCHANGED <<parked, mine, after>>
    /\ UNCHANGED <<setting, starts, current, crew, worker, helpers, seen, joins>>

\* A slip: the flag is set and nobody is woken to see it.
StopSilently(o) ==
    /\ pc[o] = "stop"
    /\ stopping' = [stopping EXCEPT ![mine[o]] = TRUE]
    /\ Goto(o, "await")
    /\ UNCHANGED <<globals, live, wanted, spawned, threads, worker, local>>

\* Under the mutex: set the flag and wake every thread to see it.
Stop(o) ==
    /\ pc[o] = "stop"
    /\ stopping' = [stopping EXCEPT ![mine[o]] = TRUE]
    /\ Broadcast(mine[o])
    /\ Goto(o, "await")
    /\ UNCHANGED <<globals, live, wanted, spawned, threads, local>>

\* A slip: the stop does not wait for the thread that creates the others.
AwaitNothing(o) ==
    /\ pc[o] = "await"
    /\ joins' = [joins EXCEPT ![o] = threads[mine[o]]]
    /\ Goto(o, "join")
    /\ UNCHANGED <<globals, crew, worker, after, mine, helpers, seen>>

\* The first thread may still be creating the others; how many threads there
\* are to join is read once it is not.
AwaitSpawn(o) ==
    /\ pc[o] = "await"
    /\ spawned[mine[o]] # 1
    /\ joins' = [joins EXCEPT ![o] = threads[mine[o]]]
    /\ Goto(o, "join")
    /\ UNCHANGED <<globals, crew, worker, after, mine, helpers, seen>>

Join(o) ==
    /\ pc[o] = "join"
    /\ \A t \in Workers : t <= joins[o] => worker[mine[o]][t] = "exited"
    /\ live' = [live EXCEPT ![mine[o]] = FALSE]
    /\ joins' = [joins EXCEPT ![o] = 0]
    /\ Own(o, None)
    /\ Goto(o, after[o])
    /\ UNCHANGED <<globals, wanted, spawned, threads, stopping, worker>>
    /\ UNCHANGED <<after, helpers, seen>>

-------------------------------------------------------------------------------
(* The crew's threads: `_crew_spawner` and `_crew_worker`.                 *)

Move(a, t, there) == worker' = [worker EXCEPT ![a][t] = there]

\* The first thread has marked the crew's threads created and works like them.
SpawnDone(a) ==
    /\ spawned' = [spawned EXCEPT ![a] = 2]
    /\ Move(a, 1, "look")

\* The first thread creates the next, unless the crew is being stopped; the
\* stop may begin between the check and the creation.
SpawnCheck(a) ==
    /\ worker[a][1] = "creating"
    /\ IF threads[a] < wanted[a] /\ ~stopping[a]
       THEN Move(a, 1, "create") /\ UNCHANGED spawned
       ELSE SpawnDone(a)
    /\ UNCHANGED <<globals, live, wanted, threads, stopping, pc, local>>

SpawnNext(a) ==
    /\ worker[a][1] = "create"
    /\ threads' = [threads EXCEPT ![a] = @ + 1]
    /\ worker' = [worker EXCEPT ![a] = [t \in Workers |->
                  IF t = 1 THEN "creating"
                  ELSE IF t = threads[a] + 1 THEN "look" ELSE @[t]]]
    /\ UNCHANGED <<globals, live, wanted, spawned, stopping, pc, local>>

SpawnFails(a) ==
    /\ worker[a][1] = "create"
    /\ SpawnDone(a)
    /\ UNCHANGED <<globals, live, wanted, threads, stopping, pc, local>>

\* Look for work until told to stop, or until it has found none for a while.
Look(a, t) ==
    /\ worker[a][t] = "look"
    /\ Move(a, t, IF stopping[a] THEN "exited" ELSE "lock")
    /\ UNCHANGED <<globals, crew, pc, local>>

\* Under the mutex: sleep if no posting wants a helper and the crew is up.
Sleep(a, t) ==
    /\ worker[a][t] = "lock"
    /\ \/ Move(a, t, "look")
       \/ ~stopping[a] /\ Move(a, t, "parked")
    /\ UNCHANGED <<globals, crew, pc, local>>

SpuriousWakeup(a, t) ==
    /\ worker[a][t] = "parked"
    /\ Move(a, t, "lock")
    /\ UNCHANGED <<globals, crew, pc, local>>

-------------------------------------------------------------------------------

StartStep(o) ==
    CheckCurrent(o) \/ LoadParked(o) \/ TakeParked(o) \/ Allocate(o)
        \/ AllocateFails(o) \/ Publish(o)

CallStep(o) ==
    Use(o) \/ WinSpawn(o) \/ Create(o) \/ CreateFails(o) \/ PostJobs(o) \/ Retire(o)

EndStep(o) ==
    Release(o) \/ Offer(o) \/ Park(o) \/ TakeShutdown(o)
        \/ Stop(o) \/ AwaitSpawn(o) \/ Join(o)

SpawnStep(a) == SpawnCheck(a) \/ SpawnNext(a) \/ SpawnFails(a)
WorkerStep(a, t) == Look(a, t) \/ Sleep(a, t)

Next ==
    \/ \E n \in Settings : Configure(n)
    \/ \E o \in Operations :
        \/ Begin(o) \/ Call(o) \/ End(o) \/ LoadShutdown(o)
        \/ StartStep(o) \/ CallStep(o) \/ EndStep(o)
    \/ \E a \in Addresses : SpawnStep(a)
    \/ \E a \in Addresses, t \in Workers : WorkerStep(a, t) \/ SpuriousWakeup(a, t)

Spec == Init /\ [][Next]_vars

\* Every thread keeps being scheduled; what begins or calls is up to the user.
Fairness ==
    /\ \A o \in Operations : WF_vars(StartStep(o) \/ CallStep(o) \/ EndStep(o))
    /\ \A a \in Addresses : WF_vars(SpawnStep(a))
    /\ \A a \in Addresses, t \in Workers : WF_vars(WorkerStep(a, t))

FairSpec == Spec /\ Fairness

-------------------------------------------------------------------------------
(* Properties.                                                             *)

Alive(a, t) == worker[a][t] \notin {"none", "exited"}

\* A crew has one owner until it is freed: the operation that holds it or the
\* parked slot, never both, never two.  So none is freed twice, none parked
\* and used as another's, and none lost with its threads running.
Owners(a) == {o \in Operations : mine[o] = a}

OwnedOnce ==
    \A a \in Addresses :
        Cardinality(Owners(a)) + (IF parked = a THEN 1 ELSE 0)
            = (IF live[a] THEN 1 ELSE 0)

\* The running crew is one that an operation owns and has not begun to stop:
\* what a call finds at `_current_crew` is the running crew's state.
CurrentRuns ==
    current # None =>
        /\ live[current] /\ ~stopping[current] /\ parked # current
        /\ \E o \in Operations :
              mine[o] = current /\ pc[o] \in {"body", "release"} \cup Using

\* A crew is kept only for the setting it was sized for: the one an operation
\* makes the running crew has the size its start read.
SizedForSetting ==
    \A o \in Operations :
        current # None /\ current = mine[o] => wanted[current] = helpers[o]

-------------------------------------------------------------------------------
(* Why they hold.                                                          *)

\* Where an operation has a crew of its own, of which size, and where it has
\* an address it has loaded.
Holding == {"publish", "release", "offer", "park"} \cup Stopped
Placed ==
    \A o \in Operations :
        /\ pc[o] \in Holding => mine[o] # None
        /\ pc[o] \notin Holding \cup Using \cup {"body"} => mine[o] = None
        /\ pc[o] \in {"take", "shutdown"} \cup Using => seen[o] # None
        /\ mine[o] # None /\ pc[o] \in {"publish", "body", "release"} \cup Using =>
              wanted[mine[o]] = helpers[o]
        /\ mine[o] # None /\ stopping[mine[o]] => pc[o] \in {"await", "join"}

\* A crew is owned by one operation or parked, and one that is parked or runs
\* is not being stopped.
Owned ==
    /\ \A a \in Addresses : live[a] <=> parked = a \/ \E o \in Operations : mine[o] = a
    /\ \A o, q \in Operations : mine[o] = mine[q] /\ mine[o] # None => o = q
    /\ parked # None => ~stopping[parked] /\ \A o \in Operations : mine[o] # parked
    /\ current # None =>
          \E o \in Operations : mine[o] = current /\ pc[o] \in {"body", "release"} \cup Using

\* The threads of a crew are those counted, and all that a stop joins: the
\* first is creating others only while the flag says so.
Counted ==
    /\ \A a \in Addresses :
        /\ \A t \in Workers :
              /\ Alive(a, t) => live[a] /\ t <= threads[a]
              /\ worker[a][t] \in {"creating", "create"} => t = 1 /\ spawned[a] = 1
        /\ worker[a][1] = "create" => threads[a] < wanted[a]
        /\ spawned[a] = 0 => threads[a] = 0
        /\ spawned[a] = 1 => threads[a] > 0
    /\ \A o \in Operations :
        /\ pc[o] = "create" =>
              /\ spawned[mine[o]] = 1
              /\ \A t \in Workers : ~Alive(mine[o], t)
        /\ pc[o] = "join" => spawned[mine[o]] # 1 /\ joins[o] = threads[mine[o]]

Inv ==
    /\ TypeOK /\ OwnedOnce /\ CurrentRuns /\ SizedForSetting
    /\ Placed /\ Owned /\ Counted

-------------------------------------------------------------------------------

\* No thread is left in a crew's state once it is freed, though the first may
\* still have been creating the others when the stop began.
JoinedBeforeFreed ==
    \A a \in Addresses, t \in Workers : Alive(a, t) => live[a]

\* A stop ends: no thread sleeps through it, and none is created behind it.
StopEnds == \A o \in Operations : pc[o] \in Stopped ~> pc[o] \notin Stopped

\* Until a call returns, the state of the crew it posted to is there.
CallsFindTheCrew == \A o \in Operations : pc[o] \in Using => live[seen[o]]

\* "The crew is joined when the operation ends, so no thread spins past it":
\* between operations no crew thread is looking for work.
NoneSpinsPastTheEnd ==
    (\A o \in Operations : pc[o] = "idle") =>
        \A a \in Addresses, t \in Workers : worker[a][t] # "look"
===============================================================================
