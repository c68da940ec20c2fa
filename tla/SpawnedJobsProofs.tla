--------------------------- MODULE SpawnedJobsProofs ---------------------------
(* Theorems of SpawnedJobs, for any number of jobs and of calls: whose     *)
(* each job and each slot is at every step, and that a call keeps the      *)
(* contract of JobRounds; and of the run, with what CrewProofs has proved  *)
(* of every crew.                                                          *)
EXTENDS MCRunJobs, FiniteSetTheorems, TLAPS

Core == TypeOK /\ Placed /\ SlotsHeld /\ OwnJobs /\ ClaimedJobs /\ NoJobTwice

LEMMA Bounds ==
    /\ MaxJobs \in Nat /\ MaxJobs > 0 /\ MaxCalls \in Nat
    /\ Caller \in Procs /\ Caller \notin Threads /\ Threads \subseteq Procs
    /\ \A p \in Procs : p \in Threads \/ p = Caller
BY SpawnedAssumption DEF Caller, Procs, Threads

LEMMA Facts ==
    ASSUME TypeOK, Placed
    PROVE  /\ size \in Nat /\ spawned \in Nat /\ started \in Nat /\ next \in Nat
           /\ started <= spawned /\ helpers \in Nat /\ size <= MaxJobs
           /\ finished \subseteq Int
           /\ pc[Caller] # "idle" => spawned < size /\ spawned < MaxJobs
           /\ 0..(started - 1) \subseteq Threads /\ 0..(spawned - 1) \subseteq Threads
           /\ \A p \in Procs : job[p] \in Nat
BY Bounds DEF TypeOK, Placed, Threads

LEMMA HeldFinite ==
    ASSUME TypeOK
    PROVE  /\ IsFiniteSet(Held) /\ Cardinality(Held) \in Nat
           /\ Cardinality(Held) <= spawned
<1>1. spawned \in Nat
  BY Bounds DEF TypeOK
<1>2. IsFiniteSet(0..(spawned - 1)) /\ Cardinality(0..(spawned - 1)) = spawned
  BY <1>1, FS_Interval
<1>3. Held \in SUBSET (0..(spawned - 1))
  BY DEF Held
<1>4. QED
  BY <1>2, <1>3, FS_Subset, FS_CardinalityType

\* Where one thread goes, the others stay.
LEMMA Moves ==
    ASSUME TypeOK, NEW p \in Procs, NEW q, Goto(p, q)
    PROVE  pc'[p] = q /\ \A r \in Procs \ {p} : pc'[r] = pc[r]
BY DEF Goto, TypeOK

LEMMA CallCore ==
    ASSUME Core, NEW n \in 1..MaxJobs, Call(n)
    PROVE  Core'
<1>1. TypeOK /\ Placed /\ SlotsHeld
  BY DEF Core
<1>2. PICK granted \in 0..(n - 1) : spawned' = granted /\ helpers' = granted
  BY DEF Call
<1>3. /\ pc[Caller] = "idle" /\ pc'[Caller] = "create"
      /\ \A t \in Threads : pc'[t] = "unborn"
      /\ size' = n /\ started' = 0 /\ next' = 0 /\ finished' = {} /\ job' = job
      /\ n \in Nat /\ granted \in Nat
  <2>1. pc[Caller] = "idle" /\ Goto(Caller, "create")
    BY DEF Call
  <2>2. pc'[Caller] = "create" /\ \A t \in Threads : pc'[t] = pc[t]
    BY <1>1, <2>1, Moves, Bounds
  <2>3. finished = {} /\ \A t \in Threads : pc[t] = "unborn"
    BY <1>1, <2>1 DEF Placed
  <2>4. QED
    BY <1>2, <2>1, <2>2, <2>3, Bounds DEF Call
<1>4. TypeOK'
  BY <1>1, <1>2, <1>3, Bounds DEF TypeOK, Call, Goto
<1>5. Placed'
  BY <1>2, <1>3, Bounds DEF Placed, CallerPcs, ThreadPcs, Threads
<1>6. SlotsHeld'
  <2>1. \A t \in 0..(granted - 1) : t \in Threads
    BY <1>3, Bounds DEF Threads
  <2>2. Held' = 0..(granted - 1)
    BY <1>2, <1>3, <2>1 DEF Held
  <2>3. Cardinality(0..(granted - 1)) = granted
    BY <1>3, FS_Interval
  <2>4. QED
    BY <1>2, <2>2, <2>3 DEF SlotsHeld
<1>7. \A p \in Procs : pc'[p] \in {"create", "unborn"}
  BY <1>3, Bounds
<1>8. OwnJobs' /\ ClaimedJobs' /\ NoJobTwice'
  BY <1>3, <1>7, Bounds DEF OwnJobs, ClaimedJobs, NoJobTwice
<1>9. QED
  BY <1>4, <1>5, <1>6, <1>8 DEF Core

LEMMA StartCore ==
    ASSUME Core, Create, started < spawned
    PROVE  Core'
<1>1. TypeOK /\ Placed /\ SlotsHeld
  BY DEF Core
<1>2. /\ pc[Caller] = "create" /\ started' = started + 1 /\ Goto(started, "entry")
      /\ UNCHANGED <<calls, size, spawned, next, finished, helpers, job>>
  BY DEF Create, call
<1>3. started \in Threads /\ started \in Nat /\ spawned \in Nat
  BY <1>1, <1>2, Facts, Bounds DEF Threads
<1>4. /\ pc'[started] = "entry" /\ pc[started] = "unborn"
      /\ \A p \in Procs \ {started} : pc'[p] = pc[p]
      /\ pc'[Caller] = "create"
  BY <1>1, <1>2, <1>3, Moves, Bounds DEF Placed
<1>5. TypeOK'
  BY <1>1, <1>2, <1>3, Bounds DEF TypeOK, Goto
<1>6. Placed'
  <2>1. ASSUME NEW t \in Threads
        PROVE  /\ pc'[t] \in ThreadPcs
               /\ pc'[t] # "unborn" <=> t < started + 1
    <3>1. CASE t = started
      BY <1>3, <1>4, <3>1 DEF ThreadPcs
    <3>2. CASE t # started
      BY <1>1, <1>2, <1>3, <1>4, <3>2, Bounds DEF Placed, Threads
    <3>3. QED
      BY <3>1, <3>2
  <2>2. QED
    BY <1>1, <1>2, <1>4, <2>1, Bounds DEF Placed, Claiming
<1>7. SlotsHeld'
  <2>1. Held' = Held
    BY <1>1, <1>2, <1>3, <1>4, Facts, Bounds DEF Held, Threads, Procs
  <2>2. QED
    BY <1>1, <1>2, <2>1 DEF SlotsHeld
<1>8. OwnJobs'
  <2>1. {t \in 0..started : pc'[t] \in {"giveback", "exited"} \/ pc'[Caller] = "release"}
        = {t \in 0..(started - 1) : pc[t] \in {"giveback", "exited"} \/ pc[Caller] = "release"}
    BY <1>2, <1>3, <1>4, Bounds DEF Threads, Procs
  <2>2. Claiming' = Claiming
    BY <1>2 DEF Claiming
  <2>3. QED
    BY <1>2, <1>3, <1>4, <2>1, <2>2, Bounds DEF Core, OwnJobs
<1>9. ClaimedJobs' /\ NoJobTwice'
  <2>1. \A p \in Procs : pc'[p] = "run" <=> pc[p] = "run"
    BY <1>3, <1>4, Bounds
  <2>2. QED
    BY <1>2, <1>4, <2>1 DEF Core, ClaimedJobs, NoJobTwice, Claiming
<1>10. QED
  BY <1>5, <1>6, <1>7, <1>8, <1>9 DEF Core

LEMMA OwnPartCore ==
    ASSUME Core, pc[Caller] = "create", OwnPart,
           UNCHANGED <<call, started, next, finished, helpers>>
    PROVE  Core'
<1>1. TypeOK /\ Placed /\ SlotsHeld
  BY DEF Core
<1>2. /\ Goto(Caller, IF Claiming THEN "claim" ELSE "rest")
      /\ job' = [job EXCEPT ![Caller] = started]
      /\ UNCHANGED <<calls, size, spawned, started, next, finished, helpers>>
  BY DEF OwnPart, call
<1>3. /\ pc'[Caller] = IF Claiming THEN "claim" ELSE "rest"
      /\ \A p \in Procs \ {Caller} : pc'[p] = pc[p] /\ job'[p] = job[p]
      /\ job'[Caller] = started
      /\ started \in Nat /\ size \in Nat /\ started < size /\ started \in 0..MaxJobs
  BY <1>1, <1>2, Moves, Bounds, Facts DEF TypeOK
<1>4. TypeOK'
  BY <1>1, <1>2, <1>3, Bounds DEF TypeOK, Goto
<1>5. Claiming' = Claiming
  BY <1>2 DEF Claiming
<1>6. Placed'
  BY <1>1, <1>2, <1>3, <1>5, Bounds DEF Placed, CallerPcs
<1>7. SlotsHeld'
  <2>1. Held' = Held
    BY <1>1, <1>2, <1>3, Facts, Bounds DEF Held, Threads, Procs
  <2>2. QED
    BY <1>1, <1>2, <2>1 DEF SlotsHeld
<1>8. OwnJobs'
  <2> SUFFICES ASSUME ~Claiming PROVE OwnJobs'
    BY <1>5 DEF OwnJobs
  <2>1. pc'[Caller] = "rest"
    BY <1>3
  <2>2. finished = {t \in 0..(started - 1) : pc[t] \in {"giveback", "exited"}}
    BY DEF Core, OwnJobs
  <2>3. \A t \in 0..(started - 1) : pc'[t] = pc[t]
    BY <1>1, <1>3, Facts, Bounds
  <2>4. \A t \in Threads : pc'[t] = pc[t] /\ job'[t] = job[t]
    BY <1>3, Bounds
  <2>5. QED
    BY <1>2, <1>3, <2>1, <2>2, <2>3, <2>4 DEF Core, OwnJobs
<1>9. ClaimedJobs' /\ NoJobTwice'
  <2>1. \A p \in Procs : /\ pc'[p] = "run" <=> pc[p] = "run"
                         /\ pc[p] = "run" => job'[p] = job[p]
    BY <1>3, Bounds
  <2>2. QED
    BY <1>2, <1>3, <1>5, <2>1 DEF Core, ClaimedJobs, NoJobTwice
<1>10. QED
  BY <1>4, <1>6, <1>7, <1>8, <1>9 DEF Core

LEMMA EntryCore ==
    ASSUME Core, NEW t \in Threads, Entry(t)
    PROVE  Core'
<1>1. TypeOK /\ Placed /\ SlotsHeld
  BY DEF Core
<1>2. /\ pc[t] = "entry" /\ Goto(t, IF Claiming THEN "claim" ELSE "run")
      /\ job' = [job EXCEPT ![t] = t]
      /\ UNCHANGED <<calls, size, spawned, started, next, finished, helpers>>
  BY DEF Entry, call
<1>3. /\ pc'[t] = IF Claiming THEN "claim" ELSE "run"
      /\ \A p \in Procs \ {t} : pc'[p] = pc[p] /\ job'[p] = job[p]
      /\ job'[t] = t /\ t \in Nat /\ t \in 0..MaxJobs /\ t \in Procs
      /\ t # Caller /\ t < started /\ pc[Caller] \notin {"idle", "release"}
      /\ started <= spawned /\ spawned < size
  BY <1>1, <1>2, Moves, Bounds, Facts DEF TypeOK, Placed, Threads
<1>4. TypeOK'
  BY <1>1, <1>2, <1>3, Bounds DEF TypeOK, Goto
<1>5. Claiming' = Claiming
  BY <1>2 DEF Claiming
<1>6. Placed'
  BY <1>1, <1>2, <1>3, <1>5, Bounds DEF Placed, ThreadPcs
<1>7. SlotsHeld'
  <2>1. Held' = Held
    BY <1>1, <1>2, <1>3, Facts, Bounds DEF Held, Threads, Procs
  <2>2. QED
    BY <1>1, <1>2, <2>1 DEF SlotsHeld
<1>8. OwnJobs'
  <2> SUFFICES ASSUME ~Claiming PROVE OwnJobs'
    BY <1>5 DEF OwnJobs
  <2>1. {u \in 0..(started - 1) : pc'[u] \in {"giveback", "exited"} \/ pc'[Caller] = "release"}
        = {u \in 0..(started - 1) : pc[u] \in {"giveback", "exited"} \/ pc[Caller] = "release"}
    BY <1>1, <1>2, <1>3, Bounds, Facts
  <2>2. pc'[Caller] = pc[Caller] /\ job'[Caller] = job[Caller]
    BY <1>3, Bounds
  <2>3. \A u \in Threads : pc'[u] = "run" => job'[u] = u
    BY <1>3, Bounds DEF Core, OwnJobs
  <2>4. QED
    BY <1>2, <1>3, <2>1, <2>2, <2>3 DEF Core, OwnJobs
<1>9. ClaimedJobs'
  <2> SUFFICES ASSUME Claiming PROVE ClaimedJobs'
    BY <1>5 DEF ClaimedJobs
  <2>1. \A p \in Procs : /\ pc'[p] = "run" <=> pc[p] = "run"
                         /\ pc[p] = "run" => job'[p] = job[p]
    BY <1>2, <1>3
  <2>2. QED
    BY <1>2, <1>3, <2>1, Bounds DEF Core, ClaimedJobs
<1>10. NoJobTwice'
  <2>1. CASE Claiming
    <3>1. \A p \in Procs : pc'[p] = "run" => pc[p] = "run" /\ job'[p] = job[p]
      BY <1>3, <2>1
    <3>2. QED
      BY <1>2, <3>1 DEF Core, NoJobTwice
  <2>2. CASE ~Claiming
    <3>1. t < size /\ t \notin finished
      <4>1. t \notin {j \in started..(size - 1) : pc[Caller] # "create" /\ j < job[Caller]}
        BY <1>1, <1>3, Facts
      <4>2. QED
        BY <1>1, <1>2, <1>3, <2>2, <4>1, Facts DEF Core, OwnJobs
    <3>2. \A p \in Procs \ {t} : pc[p] = "run" => job[p] # t
      BY <1>1, <1>3, <2>2, Facts, Bounds DEF Core, OwnJobs, Threads
    <3>3. QED
      BY <1>2, <1>3, <3>1, <3>2 DEF Core, NoJobTwice
  <2>3. QED
    BY <2>1, <2>2
<1>11. QED
  BY <1>4, <1>6, <1>7, <1>8, <1>9, <1>10 DEF Core

\* The next job of a thread that claims.
LEMMA ClaimCore ==
    ASSUME Core, NEW p \in Procs, Claim(p)
    PROVE  Core'
<1>1. TypeOK /\ Placed /\ SlotsHeld
  BY DEF Core
<1>2. /\ pc[p] = "claim" /\ next' = next + 1
      /\ UNCHANGED <<calls, size, spawned, started, finished, helpers>>
      /\ Claiming /\ Claiming'
  BY <1>1 DEF Claim, call, Placed, Claiming
<1>3. PICK q : /\ Goto(p, q)
               /\ \/ q = "run" /\ next < size /\ job' = [job EXCEPT ![p] = next]
                  \/ q = "join" /\ p = Caller /\ next >= size /\ job' = job
                  \/ q = "giveback" /\ p # Caller /\ next >= size /\ job' = job
  BY <1>1, Facts DEF Claim
<1>4. /\ pc'[p] = q
      /\ \A r \in Procs \ {p} : pc'[r] = pc[r] /\ job'[r] = job[r]
      /\ q = "run" => job'[p] = next
      /\ next \in Nat /\ size \in Nat /\ size <= MaxJobs
      /\ pc[Caller] \notin {"idle", "release"} /\ pc'[Caller] \notin {"idle", "release"}
  <2>1. pc'[p] = q /\ \A r \in Procs \ {p} : pc'[r] = pc[r]
    BY <1>1, <1>3, Moves
  <2>2. next \in Nat /\ size \in Nat /\ size <= MaxJobs
    BY <1>1, Facts
  <2>3. pc[Caller] \notin {"idle", "release"}
    BY <1>1, <1>2, Bounds DEF Placed
  <2>4. \A r \in Procs \ {p} : job'[r] = job[r]
    BY <1>1, <1>3 DEF TypeOK
  <2>5. q = "run" => job'[p] = next
    BY <1>1, <1>3 DEF TypeOK
  <2>6. QED
    BY <1>3, <2>1, <2>2, <2>3, <2>4, <2>5, Bounds
<1>5. TypeOK'
  <2>1. job' \in [Procs -> 0..MaxJobs]
    BY <1>1, <1>3, <1>4, Bounds DEF TypeOK
  <2>2. pc' \in [Procs -> {"idle", "create", "rest", "claim", "run", "join", "release",
                           "unborn", "entry", "giveback", "exited"}]
    BY <1>1, <1>3 DEF TypeOK, Goto
  <2>3. next' \in Nat
    BY <1>2, <1>4
  <2>4. QED
    BY <1>1, <1>2, <2>1, <2>2, <2>3 DEF TypeOK
<1>6. Placed'
  <2>1. pc'[Caller] \in CallerPcs /\ pc'[Caller] # "rest"
    BY <1>1, <1>2, <1>3, <1>4, Bounds DEF Placed, CallerPcs
  <2>2. ASSUME NEW t \in Threads
        PROVE  /\ pc'[t] \in ThreadPcs
               /\ pc'[t] # "unborn" <=> t < started
    BY <1>1, <1>2, <1>3, <1>4, Bounds DEF Placed, ThreadPcs
  <2>3. QED
    BY <1>1, <1>2, <1>4, <2>1, <2>2 DEF Placed
<1>7. SlotsHeld'
  <2>1. Held' = Held
    BY <1>1, <1>2, <1>3, <1>4, Facts, Bounds DEF Held, Threads, Procs
  <2>2. QED
    BY <1>1, <1>2, <2>1 DEF SlotsHeld
<1>8. \A r \in Procs \ {p} : pc'[r] = pc[r] /\ job'[r] = job[r]
  BY <1>4
<1>9. ClaimedJobs'
  <2>1. \A r \in Procs : pc'[r] = "run" => job'[r] < next + 1
    BY <1>1, <1>2, <1>4, Facts DEF Core, ClaimedJobs
  <2>2. \A j \in 0..(size - 1) : j \in finished => j < next + 1
    BY <1>2, <1>4 DEF Core, ClaimedJobs
  <2>3. ASSUME NEW j \in 0..(size - 1), j < next + 1, j \notin finished
        PROVE  \E r \in Procs : pc'[r] = "run" /\ job'[r] = j
    <3>1. CASE j = next
      BY <1>3, <1>4, <3>1
    <3>2. CASE j # next
      <4>1. j < next
        BY <1>4, <2>3, <3>2
      <4>2. PICK r \in Procs : pc[r] = "run" /\ job[r] = j
        BY <1>2, <2>3, <4>1 DEF Core, ClaimedJobs
      <4>3. QED
        BY <1>2, <1>8, <4>2
    <3>3. QED
      BY <3>1, <3>2
  <2>4. pc'[Caller] \in {"join", "release"} => next + 1 >= size
    BY <1>2, <1>3, <1>4, Bounds DEF Core, ClaimedJobs
  <2>5. QED
    BY <1>2, <2>1, <2>2, <2>3, <2>4 DEF ClaimedJobs
<1>10. NoJobTwice'
  <2>1. \A r \in Procs \ {p} : pc[r] = "run" => job[r] < next
    BY <1>2 DEF Core, ClaimedJobs
  <2>2. next < size => next \notin finished
    BY <1>2, <1>4 DEF Core, ClaimedJobs
  <2>3. QED
    BY <1>2, <1>3, <1>4, <2>1, <2>2 DEF Core, NoJobTwice
<1>11. OwnJobs'
  BY <1>2 DEF OwnJobs
<1>12. QED
  BY <1>5, <1>6, <1>7, <1>9, <1>10, <1>11 DEF Core

LEMMA RestCore ==
    ASSUME Core, Rest
    PROVE  Core'
<1>1. TypeOK /\ Placed /\ SlotsHeld
  BY DEF Core
<1>2. /\ pc[Caller] = "rest" /\ Goto(Caller, IF job[Caller] < size THEN "run" ELSE "join")
      /\ UNCHANGED <<calls, size, spawned, started, next, finished, helpers, job>>
      /\ ~Claiming /\ ~Claiming'
  BY <1>1 DEF Rest, call, Placed, Claiming
<1>3. /\ pc'[Caller] = IF job[Caller] < size THEN "run" ELSE "join"
      /\ \A p \in Procs \ {Caller} : pc'[p] = pc[p]
      /\ job[Caller] \in started..size /\ started \in Nat /\ size \in Nat
      /\ job[Caller] \in Nat
  BY <1>1, <1>2, Moves, Bounds, Facts DEF Core, OwnJobs
<1>4. TypeOK'
  BY <1>1, <1>2, <1>3, Bounds DEF TypeOK, Goto
<1>5. Placed'
  BY <1>1, <1>2, <1>3, Bounds DEF Placed, CallerPcs
<1>6. SlotsHeld'
  <2>1. Held' = Held
    BY <1>1, <1>2, <1>3, Facts, Bounds DEF Held, Threads, Procs
  <2>2. QED
    BY <1>1, <1>2, <2>1 DEF SlotsHeld
<1>7. \A t \in Threads : pc'[t] = pc[t]
  BY <1>3, Bounds
<1>8. OwnJobs'
  <2>1. \A t \in 0..(started - 1) : pc'[t] = pc[t]
    BY <1>1, <1>7, Facts
  <2>2. QED
    BY <1>2, <1>3, <1>7, <2>1 DEF Core, OwnJobs
<1>9. ClaimedJobs'
  BY <1>2 DEF ClaimedJobs
<1>10. NoJobTwice'
  <2>1. job[Caller] < size =>
           /\ job[Caller] \notin finished
           /\ \A t \in Threads : pc[t] = "run" => job[t] # job[Caller]
    <3>1. \A t \in Threads : pc[t] = "run" => job[t] = t /\ t < started /\ t \in Nat
      BY <1>1, <1>2 DEF Core, OwnJobs, Placed, Threads
    <3>2. QED
      BY <1>2, <1>3, <3>1 DEF Core, OwnJobs
  <2>2. QED
    BY <1>2, <1>3, <2>1, Bounds DEF Core, NoJobTwice
<1>11. QED
  BY <1>4, <1>5, <1>6, <1>8, <1>9, <1>10 DEF Core

LEMMA FinishCore ==
    ASSUME Core, NEW p \in Procs, FinishJob(p)
    PROVE  Core'
<1>1. TypeOK /\ Placed /\ SlotsHeld
  BY DEF Core
<1>2. /\ pc[p] = "run" /\ finished' = finished \cup {job[p]}
      /\ UNCHANGED <<calls, size, spawned, started, next, helpers>>
      /\ Claiming' = Claiming
  BY DEF FinishJob, call, Claiming
<1>3. PICK q : /\ Goto(p, q)
               /\ \/ Claiming /\ q = "claim" /\ job' = job
                  \/ ~Claiming /\ p # Caller /\ q = "giveback" /\ job' = job
                  \/ /\ ~Claiming /\ p = Caller /\ q = "rest"
                     /\ job' = [job EXCEPT ![p] = @ + 1]
  BY DEF FinishJob
<1>4. /\ pc'[p] = q
      /\ \A r \in Procs \ {p} : pc'[r] = pc[r]
      /\ \A r \in Procs \ {p} : job'[r] = job[r]
      /\ q # "rest" => job'[p] = job[p]
      /\ q = "rest" => job'[p] = job[p] + 1
      /\ job[p] \in Nat /\ job[p] < size /\ job[p] \notin finished
      /\ size \in Nat /\ size <= MaxJobs /\ started \in Nat /\ next \in Nat
      /\ finished \subseteq Int
  <2>1. pc'[p] = q /\ \A r \in Procs \ {p} : pc'[r] = pc[r]
    BY <1>1, <1>3, Moves
  <2>2. /\ size \in Nat /\ size <= MaxJobs /\ started \in Nat /\ next \in Nat
        /\ finished \subseteq Int /\ job[p] \in Nat
    BY <1>1, Facts
  <2>3. /\ \A r \in Procs \ {p} : job'[r] = job[r]
        /\ q # "rest" => job'[p] = job[p]
        /\ q = "rest" => job'[p] = job[p] + 1
    BY <1>1, <1>3 DEF TypeOK
  <2>4. job[p] < size /\ job[p] \notin finished
    BY <1>2 DEF Core, NoJobTwice
  <2>5. QED
    BY <2>1, <2>2, <2>3, <2>4
<1>5. pc[Caller] \notin {"idle", "release"} /\ pc'[Caller] \notin {"idle", "release"}
  <2>1. pc[Caller] \notin {"idle", "release"}
    BY <1>1, <1>2, Bounds DEF Placed
  <2>2. QED
    BY <1>3, <1>4, <2>1, Bounds
<1>6. TypeOK'
  <2>1. job' \in [Procs -> 0..MaxJobs]
    BY <1>1, <1>3, <1>4, Bounds DEF TypeOK
  <2>2. finished' \subseteq 0..(size - 1)
    <3>1. job[p] \in 0..(size - 1) /\ finished \subseteq 0..(size - 1)
      BY <1>1, <1>4 DEF TypeOK
    <3>2. QED
      BY <1>2, <3>1
  <2>3. QED
    BY <1>1, <1>2, <1>3, <1>4, <2>1, <2>2, Bounds DEF TypeOK, Goto
<1>7. Placed'
  <2>1. pc'[Caller] \in CallerPcs
    BY <1>1, <1>3, <1>4, Bounds DEF Placed, CallerPcs
  <2>2. ASSUME NEW t \in Threads
        PROVE  /\ pc'[t] \in ThreadPcs
               /\ pc'[t] # "unborn" <=> t < started
    BY <1>1, <1>2, <1>3, <1>4, <1>5, Bounds DEF Placed, ThreadPcs
  <2>3. \A r \in Procs : pc'[r] = "claim" => Claiming
    BY <1>1, <1>3, <1>4 DEF Placed
  <2>4. pc'[Caller] = "rest" => ~Claiming
    BY <1>1, <1>3, <1>4, Bounds DEF Placed
  <2>5. QED
    BY <1>1, <1>2, <1>5, <2>1, <2>2, <2>3, <2>4 DEF Placed
<1>8. SlotsHeld'
  <2>1. Held' = Held
    BY <1>1, <1>2, <1>3, <1>4, <1>5, Facts, Bounds DEF Held, Threads, Procs
  <2>2. QED
    BY <1>1, <1>2, <2>1 DEF SlotsHeld
<1>9. \A r \in Procs : pc'[r] = "run" => r # p /\ pc[r] = "run" /\ job'[r] = job[r]
  BY <1>3, <1>4
<1>10. NoJobTwice'
  <2>1. \A r \in Procs \ {p} : pc[r] = "run" => job[r] # job[p]
    BY <1>2 DEF Core, NoJobTwice
  <2>2. QED
    BY <1>2, <1>9, <2>1 DEF Core, NoJobTwice
<1>11. ClaimedJobs'
  <2> SUFFICES ASSUME Claiming PROVE ClaimedJobs'
    BY <1>2 DEF ClaimedJobs
  <2>1. \A r \in Procs : pc'[r] = "run" => job'[r] < next
    BY <1>9 DEF Core, ClaimedJobs
  <2>2. \A j \in 0..(size - 1) : j \in finished' => j < next
    BY <1>2 DEF Core, ClaimedJobs
  <2>3. ASSUME NEW j \in 0..(size - 1), j < next, j \notin finished'
        PROVE  \E r \in Procs : pc'[r] = "run" /\ job'[r] = j
    <3>1. j \notin finished /\ j # job[p]
      BY <1>2, <2>3
    <3>2. PICK r \in Procs : pc[r] = "run" /\ job[r] = j
      BY <2>3, <3>1 DEF Core, ClaimedJobs
    <3>3. QED
      BY <1>4, <3>1, <3>2
  <2>4. pc'[Caller] \in {"join", "release"} => pc[Caller] \in {"join", "release"}
    BY <1>3, <1>4, Bounds
  <2>5. QED
    BY <1>2, <2>1, <2>2, <2>3, <2>4 DEF Core, ClaimedJobs
<1>12. OwnJobs'
  <2> SUFFICES ASSUME ~Claiming PROVE OwnJobs'
    BY <1>2 DEF OwnJobs
  <2> DEFINE Theirs == {t \in 0..(started - 1) : pc[t] \in {"giveback", "exited"}}
             Mine == {j \in started..(size - 1) : pc[Caller] # "create" /\ j < job[Caller]}
             TheirsNow == {t \in 0..(started - 1) : pc'[t] \in {"giveback", "exited"}}
             MineNow == {j \in started..(size - 1) : pc'[Caller] # "create" /\ j < job'[Caller]}
  <2>1. finished = Theirs \cup Mine
    BY <1>5 DEF Core, OwnJobs
  <2>2. \A t \in Threads : pc[t] = "run" => job[t] = t /\ t \in Nat
    BY <1>5 DEF Core, OwnJobs, Threads
  <2>3. \A t \in 0..(started - 1) : t \in Threads /\ t \in Procs /\ t # Caller
    BY <1>1, Facts, Bounds
  <2>4. CASE p = Caller
    <3>1. q = "rest" /\ job[p] \in started..size
      BY <1>2, <1>3, <2>4 DEF Core, OwnJobs
    <3>2. TheirsNow = Theirs
      BY <1>4, <2>3, <2>4
    <3>3. MineNow = Mine \cup {job[p]}
      BY <1>2, <1>4, <2>4, <3>1
    <3>4. finished' = TheirsNow \cup MineNow
      BY <1>2, <2>1, <3>2, <3>3
    <3>5. pc'[Caller] = "rest" /\ job'[Caller] \in started..size
      BY <1>4, <2>4, <3>1
    <3>6. \A t \in Threads : pc'[t] = "run" => job'[t] = t
      BY <1>9, <2>2, Bounds
    <3>7. QED
      BY <1>2, <3>4, <3>5, <3>6 DEF OwnJobs
  <2>5. CASE p # Caller
    <3>1. q = "giveback" /\ p \in Threads /\ p \in Nat /\ p < started /\ job[p] = p
      BY <1>1, <1>2, <1>3, <2>2, <2>5, Bounds DEF Placed
    <3>2. TheirsNow = Theirs \cup {p}
      BY <1>4, <2>3, <3>1
    <3>3. pc'[Caller] = pc[Caller] /\ job'[Caller] = job[Caller]
      BY <1>4, <2>5, Bounds
    <3>4. finished' = TheirsNow \cup MineNow
      BY <1>2, <2>1, <3>1, <3>2, <3>3
    <3>5. \A t \in Threads : pc'[t] = "run" => job'[t] = t
      BY <1>9, <2>2, Bounds
    <3>6. QED
      BY <1>2, <1>5, <3>3, <3>4, <3>5 DEF Core, OwnJobs
  <2>6. QED
    BY <2>4, <2>5
<1>13. QED
  BY <1>6, <1>7, <1>8, <1>10, <1>11, <1>12 DEF Core

LEMMA GiveBackCore ==
    ASSUME Core, NEW t \in Threads, GiveBack(t)
    PROVE  Core'
<1>1. TypeOK /\ Placed /\ SlotsHeld
  BY DEF Core
<1>2. /\ pc[t] = "giveback" /\ Goto(t, "exited") /\ helpers' = helpers - 1
      /\ UNCHANGED <<calls, size, spawned, started, next, finished, job>>
      /\ Claiming' = Claiming
  BY DEF GiveBack, call, Claiming
<1>3. /\ pc'[t] = "exited"
      /\ \A p \in Procs \ {t} : pc'[p] = pc[p]
      /\ t \in Nat /\ t \in Procs /\ t # Caller /\ t < started
      /\ pc[Caller] \notin {"idle", "release"} /\ pc'[Caller] = pc[Caller]
      /\ started \in Nat /\ spawned \in Nat /\ started <= spawned
  BY <1>1, <1>2, Moves, Bounds, Facts DEF Placed, Threads
<1>4. Held' = Held \ {t} /\ t \in Held
  <2>1. \A u \in 0..(spawned - 1) : u \in Procs
    BY <1>1, Facts, Bounds
  <2>2. \A u \in 0..(spawned - 1) : u # t => pc'[u] = pc[u]
    BY <1>3, <2>1
  <2>3. t \in 0..(spawned - 1)
    BY <1>3
  <2>4. QED
    BY <1>2, <1>3, <2>2, <2>3 DEF Held
<1>5. SlotsHeld'
  <2>1. Cardinality(Held') = Cardinality(Held) - 1
    BY <1>1, <1>4, HeldFinite, FS_RemoveElement
  <2>2. QED
    BY <1>1, <1>2, <2>1 DEF SlotsHeld
<1>6. TypeOK'
  <2>1. helpers' \in 0..spawned
    <3>1. Cardinality(Held) # 0 /\ helpers = Cardinality(Held) /\ Cardinality(Held) \in Nat
      BY <1>1, <1>4, HeldFinite, FS_EmptySet DEF SlotsHeld
    <3>2. Cardinality(Held) <= spawned
      BY <1>1, HeldFinite
    <3>3. QED
      BY <1>2, <1>3, <3>1, <3>2
  <2>2. QED
    BY <1>1, <1>2, <1>3, <2>1 DEF TypeOK, Goto
<1>7. Placed'
  BY <1>1, <1>2, <1>3, Bounds DEF Placed, ThreadPcs
<1>8. \A p \in Procs : pc'[p] = "run" <=> pc[p] = "run"
  BY <1>2, <1>3
<1>9. NoJobTwice'
  BY <1>2, <1>8 DEF Core, NoJobTwice
<1>10. ClaimedJobs'
  BY <1>2, <1>3, <1>8 DEF Core, ClaimedJobs
<1>11. OwnJobs'
  <2>1. {u \in 0..(started - 1) : pc'[u] \in {"giveback", "exited"} \/ pc'[Caller] = "release"}
        = {u \in 0..(started - 1) : pc[u] \in {"giveback", "exited"} \/ pc[Caller] = "release"}
    <3>1. \A u \in 0..(started - 1) : u \in Procs
      BY <1>1, Facts, Bounds
    <3>2. QED
      BY <1>2, <1>3, <3>1
  <2>2. \A u \in Threads : pc'[u] = "run" => pc[u] = "run"
    BY <1>8, Bounds
  <2>3. QED
    BY <1>2, <1>3, <2>1, <2>2 DEF Core, OwnJobs
<1>12. QED
  BY <1>5, <1>6, <1>7, <1>9, <1>10, <1>11 DEF Core

LEMMA JoinCore ==
    ASSUME Core, JoinThreads
    PROVE  Core'
<1>1. TypeOK /\ Placed /\ SlotsHeld
  BY DEF Core
<1>2. /\ pc[Caller] = "join"
      /\ \A t \in 0..(started - 1) : pc[t] = "exited"
      /\ pc' = [p \in Procs |-> IF p = Caller THEN "release" ELSE "unborn"]
      /\ UNCHANGED <<calls, size, spawned, started, next, finished, helpers, job>>
      /\ Claiming' = Claiming
  BY DEF JoinThreads, call, Claiming
<1>3. /\ pc'[Caller] = "release" /\ \A t \in Threads : pc'[t] = "unborn"
      /\ started \in Nat /\ spawned \in Nat /\ started <= spawned /\ spawned < MaxJobs
  BY <1>1, <1>2, Bounds, Facts
<1>4. TypeOK'
  BY <1>1, <1>2, Bounds DEF TypeOK
<1>5. Placed'
  BY <1>1, <1>2, <1>3, Bounds DEF Placed, CallerPcs, ThreadPcs
<1>6. SlotsHeld'
  <2>1. \A t \in 0..(spawned - 1) : pc[t] # "exited" <=> t >= started
    <3>1. 0..(spawned - 1) \subseteq Threads
      BY <1>1, Facts
    <3>2. \A t \in 0..(spawned - 1) : t >= started => pc[t] = "unborn"
      BY <1>1, <1>3, <3>1 DEF Placed
    <3>3. QED
      BY <1>2, <1>3, <3>2
  <2>2. Held' = Held
    BY <1>2, <1>3, <2>1 DEF Held
  <2>3. QED
    BY <1>1, <1>2, <2>2 DEF SlotsHeld
<1>7. \A p \in Procs : pc'[p] # "run"
  BY <1>2
<1>8. \A p \in Procs : pc[p] # "run"
  <2>1. ASSUME NEW t \in Threads, pc[t] = "run" PROVE FALSE
    <3>1. t < started /\ t \in Nat
      BY <1>1, <2>1 DEF Placed, Threads
    <3>2. QED
      BY <1>2, <1>3, <2>1, <3>1
  <2>2. QED
    BY <1>2, <2>1, Bounds
<1>9. NoJobTwice'
  BY <1>7 DEF NoJobTwice
<1>10. ClaimedJobs'
  BY <1>2, <1>3, <1>7, <1>8 DEF Core, ClaimedJobs
<1>11. OwnJobs'
  <2>1. \A t \in Threads : pc'[t] # "run"
    BY <1>3
  <2>2. QED
    BY <1>2, <1>3, <2>1 DEF Core, OwnJobs
<1>12. QED
  BY <1>4, <1>5, <1>6, <1>9, <1>10, <1>11 DEF Core

LEMMA ReturnCore ==
    ASSUME Core, Return
    PROVE  Core'
<1>1. TypeOK /\ Placed /\ SlotsHeld
  BY DEF Core
<1>2. /\ pc[Caller] = "release" /\ Goto(Caller, "idle")
      /\ helpers' = helpers - (spawned - started)
      /\ size' = 0 /\ spawned' = 0 /\ started' = 0 /\ finished' = {}
      /\ UNCHANGED <<calls, next, job>>
  BY DEF Return
<1>3. /\ pc'[Caller] = "idle" /\ \A t \in Threads : pc'[t] = "unborn"
      /\ started \in Nat /\ spawned \in Nat /\ started <= spawned
  BY <1>1, <1>2, Moves, Bounds, Facts DEF Placed
<1>4. helpers' = 0
  <2>1. Held = started..(spawned - 1)
    BY <1>2, <1>3 DEF Held
  <2>2. Cardinality(started..(spawned - 1)) = spawned - started
    <3>1. spawned - 1 \in Int /\ started \in Int
      BY <1>3
    <3>2. Cardinality(started..(spawned - 1)) =
             IF started > spawned - 1 THEN 0 ELSE (spawned - 1) - started + 1
      BY <3>1, FS_Interval
    <3>3. QED
      BY <1>3, <3>2
  <2>3. QED
    BY <1>1, <1>2, <1>3, <2>1, <2>2 DEF SlotsHeld
<1>5. TypeOK'
  BY <1>1, <1>2, <1>4, Bounds DEF TypeOK, Goto
<1>6. Placed'
  BY <1>2, <1>3, Bounds DEF Placed, CallerPcs, ThreadPcs, Threads
<1>7. SlotsHeld'
  <2>1. Held' = {}
    BY <1>2 DEF Held
  <2>2. QED
    BY <1>4, <2>1, FS_EmptySet DEF SlotsHeld
<1>8. \A p \in Procs : pc'[p] # "run"
  BY <1>3, Bounds
<1>9. NoJobTwice' /\ OwnJobs' /\ ClaimedJobs'
  BY <1>2, <1>3, <1>8 DEF NoJobTwice, OwnJobs, ClaimedJobs, Claiming
<1>10. QED
  BY <1>5, <1>6, <1>7, <1>9 DEF Core

LEMMA CoreInit == Init => Core
<1> SUFFICES ASSUME Init PROVE Core
  OBVIOUS
<1>1. \A p \in Procs : pc[p] = IF p = Caller THEN "idle" ELSE "unborn"
  BY DEF Init
<1>2. TypeOK
  BY Bounds DEF Init, TypeOK
<1>3. Placed
  BY <1>1, Bounds DEF Init, Placed, CallerPcs, ThreadPcs, Threads
<1>4. SlotsHeld
  <2>1. Held = {}
    BY DEF Init, Held
  <2>2. QED
    BY <2>1, FS_EmptySet DEF Init, SlotsHeld
<1>5. NoJobTwice /\ OwnJobs /\ ClaimedJobs
  BY <1>1, Bounds DEF Init, NoJobTwice, OwnJobs, ClaimedJobs, Claiming
<1>6. QED
  BY <1>2, <1>3, <1>4, <1>5 DEF Core

LEMMA CoreNext == Core /\ [Next]_vars => Core'
<1> SUFFICES ASSUME Core, [Next]_vars PROVE Core'
  OBVIOUS
<1>1. CASE UNCHANGED vars
  <2>1. UNCHANGED <<calls, size, spawned, started, next, finished, helpers, pc, job>>
    BY <1>1 DEF vars, call
  <2>2. TypeOK' /\ NoJobTwice' /\ Claiming' = Claiming /\ Held' = Held
    BY <2>1 DEF Core, TypeOK, NoJobTwice, Claiming, Held
  <2>3. Placed' /\ SlotsHeld'
    BY <2>1, <2>2 DEF Core, Placed, SlotsHeld
  <2>4. OwnJobs' /\ ClaimedJobs'
    BY <2>1, <2>2 DEF Core, OwnJobs, ClaimedJobs
  <2>5. QED
    BY <2>2, <2>3, <2>4 DEF Core
<1>2. ASSUME NEW n \in 1..MaxJobs, Call(n) PROVE Core'
  BY <1>2, CallCore
<1>3. CASE Create
  <2>1. CASE started < spawned
    BY <1>3, <2>1, StartCore
  <2>2. CASE ~(started < spawned)
    BY <1>3, <2>2, OwnPartCore DEF Create
  <2>3. QED
    BY <2>1, <2>2
<1>4. CASE CreateFails
  BY <1>4, OwnPartCore DEF CreateFails
<1>5. CASE Claim(Caller) \/ Rest \/ FinishJob(Caller) \/ JoinThreads \/ Return
  BY <1>5, ClaimCore, RestCore, FinishCore, JoinCore, ReturnCore, Bounds
<1>6. ASSUME NEW t \in Threads, ThreadStep(t) PROVE Core'
  BY <1>6, EntryCore, ClaimCore, FinishCore, GiveBackCore, Bounds DEF ThreadStep
<1>7. CASE Over
  BY <1>1, <1>7 DEF Over
<1>8. QED
  BY <1>1, <1>2, <1>3, <1>4, <1>5, <1>6, <1>7 DEF Next, CallerStep

\* Each running thread but the caller has a slot of its own.
LEMMA SlotsSuffice == TypeOK /\ Placed /\ SlotsHeld => SlotsReturned
<1> SUFFICES ASSUME TypeOK, Placed, SlotsHeld PROVE SlotsReturned
  OBVIOUS
<1> DEFINE Running == {p \in Procs : pc[p] = "run"}
<1>1. IsFiniteSet(Held) /\ Cardinality(Held) \in Nat /\ helpers = Cardinality(Held)
  BY HeldFinite DEF SlotsHeld
<1>2. Running \in SUBSET (Held \cup {Caller})
  <2> SUFFICES ASSUME NEW p \in Procs, pc[p] = "run", p # Caller PROVE p \in Held
    OBVIOUS
  <2>1. p \in Threads /\ p \in Nat /\ p < started /\ pc[Caller] # "release"
    BY Bounds DEF Placed, Threads
  <2>2. QED
    BY <2>1, Facts DEF Held
<1>3. /\ IsFiniteSet(Held \cup {Caller})
      /\ Cardinality(Held \cup {Caller}) \in Nat
      /\ Cardinality(Held \cup {Caller}) <= helpers + 1
  <2>1. /\ IsFiniteSet(Held \cup {Caller})
        /\ Cardinality(Held \cup {Caller}) =
              IF Caller \in Held THEN Cardinality(Held) ELSE Cardinality(Held) + 1
    BY <1>1, FS_AddElement
  <2>2. QED
    BY <1>1, <2>1
<1>4. Cardinality(Running) \in Nat /\ Cardinality(Running) <= helpers + 1
  <2>1. IsFiniteSet(Running) /\ Cardinality(Running) <= Cardinality(Held \cup {Caller})
    BY <1>2, <1>3, FS_Subset
  <2>2. Cardinality(Running) \in Nat
    BY <2>1, FS_CardinalityType
  <2>3. QED
    BY <1>1, <1>3, <2>1, <2>2
<1>5. pc[Caller] = "idle" => helpers = 0
  <2>1. pc[Caller] = "idle" => Held = {}
    BY DEF Placed, Held
  <2>2. QED
    BY <1>1, <2>1, FS_EmptySet
<1>6. QED
  BY <1>4, <1>5 DEF SlotsReturned

\* At every step of `_run_jobs` no job is run by two threads or run again,
\* each running thread has a slot of its own, and a call that returns has
\* given back every slot, threads that failed to start included.
THEOREM Invariance == Spec => []Inv
<1>1. Core => Inv
  BY SlotsSuffice DEF Core, Inv
<1>2. QED
  BY <1>1, CoreInit, CoreNext, PTL DEF Spec

LEMMA CoreHolds == Spec => []Core
BY CoreInit, CoreNext, PTL DEF Spec

LEMMA ContractStep ==
    ASSUME Core, Core', [Next]_vars
    PROVE  [Contract!Next]_(Contract!jobVars)
<1> USE DEF Contract!Next, Contract!Begin, Contract!Run, Contract!Return, Contract!jobVars
<1>1. /\ TypeOK /\ Placed /\ size \in Nat /\ size <= MaxJobs
      /\ \A p \in Procs : job[p] \in Nat
      /\ Caller \in Procs /\ MaxJobs \in Nat /\ \A t \in Threads : t \in Procs /\ t # Caller
  BY Facts, Bounds DEF Core
<1>2. CASE UNCHANGED vars
  BY <1>2 DEF vars, call
<1>3. ASSUME NEW n \in 1..MaxJobs, Call(n)
      PROVE  \E m \in 0..MaxJobs : Contract!Begin(m)
  <2>1. pc[Caller] = "idle" /\ pc'[Caller] = "create" /\ size' = n /\ finished' = {}
    BY <1>1, <1>3, Moves DEF Call, Placed
  <2>2. Contract!Begin(n)
    BY <2>1
  <2>3. QED
    BY <1>1, <2>2
<1>4. ASSUME NEW p \in Procs, FinishJob(p)
      PROVE  \E j \in 0..(MaxJobs - 1) : Contract!Run(j)
  <2>1. /\ pc[p] = "run" /\ finished' = finished \cup {job[p]} /\ size' = size
        /\ job[p] < size /\ job[p] \notin finished
    BY <1>4 DEF FinishJob, call, Core, NoJobTwice
  <2>2. pc[Caller] # "idle"
    BY <1>1, <2>1, Bounds DEF Placed
  <2>3. pc'[Caller] # "idle"
    BY <1>1, <1>4, <2>2, Moves DEF FinishJob
  <2>4. Contract!Run(job[p]) /\ job[p] \in 0..(MaxJobs - 1)
    BY <1>1, <2>1, <2>2, <2>3
  <2>5. QED
    BY <2>4
<1>5. CASE Return
  <2>1. pc[Caller] = "release" /\ pc'[Caller] = "idle" /\ size' = 0 /\ finished' = {}
    BY <1>1, <1>5, Moves DEF Return
  <2>2. \A p \in Procs : pc[p] # "run"
    BY <1>1, <2>1, Bounds DEF Placed
  <2>3. finished = 0..(size - 1)
    <3>1. finished \subseteq 0..(size - 1) /\ started \in 0..size /\ next \in Nat
      BY <1>1, <2>1, Facts DEF TypeOK
    <3>2. CASE Claiming
      <4>1. \A j \in 0..(size - 1) : j \in finished
        BY <1>1, <2>1, <2>2, <3>1, <3>2 DEF Core, ClaimedJobs
      <4>2. QED
        BY <3>1, <4>1
    <3>3. CASE ~Claiming
      <4>1. finished = {t \in 0..(started - 1) : TRUE} \cup {j \in started..(size - 1) : j < size}
        BY <2>1, <3>3 DEF Core, OwnJobs
      <4>2. QED
        BY <1>1, <3>1, <4>1
    <3>4. QED
      BY <3>2, <3>3
  <2>4. QED
    BY <2>1, <2>3
<1>6. CASE Create \/ CreateFails \/ Rest \/ JoinThreads \/ Claim(Caller)
  <2>1. UNCHANGED <<size, finished>> /\ pc[Caller] # "idle"
    BY <1>6 DEF Create, CreateFails, Rest, JoinThreads, Claim, call
  <2>2. pc'[Caller] # "idle"
    <3>1. \A t \in Threads : \A q : Goto(t, q) => pc'[Caller] = pc[Caller]
      BY <1>1, Moves
    <3>2. \A q : Goto(Caller, q) => pc'[Caller] = q
      BY <1>1, Moves
    <3>3. started < spawned => started \in Threads
      BY <1>1, Facts, Bounds DEF Threads, TypeOK
    <3>4. CASE Create \/ CreateFails
      BY <2>1, <3>1, <3>2, <3>3, <3>4 DEF Create, CreateFails, OwnPart
    <3>5. CASE Rest \/ Claim(Caller)
      BY <3>2, <3>5 DEF Rest, Claim
    <3>6. CASE JoinThreads
      BY <1>1, <3>6 DEF JoinThreads
    <3>7. QED
      BY <1>6, <3>4, <3>5, <3>6
  <2>3. QED
    BY <2>1, <2>2
<1>7. ASSUME NEW t \in Threads, Entry(t) \/ Claim(t) \/ GiveBack(t)
      PROVE  UNCHANGED Contract!jobVars
  <2>1. UNCHANGED <<size, finished>> /\ \E q : Goto(t, q)
    BY <1>7 DEF Entry, Claim, GiveBack, call
  <2>2. pc'[Caller] = pc[Caller]
    BY <1>1, <2>1, Moves
  <2>3. QED
    BY <2>1, <2>2
<1>8. CASE Over
  BY <1>2, <1>8 DEF Over
<1>9. QED
  BY <1>1, <1>2, <1>3, <1>4, <1>5, <1>6, <1>7, <1>8 DEF Next, CallerStep, ThreadStep

\* A call runs each of its jobs once and returns only when all have been run,
\* however many helpers it was granted and however many of them started.
THEOREM KeepsContract == Spec => ImplementsContract
<1>1. Init => Contract!Init
  BY Bounds DEF Init, Contract!Init
<1>2. Core /\ Core' /\ [Next]_vars => [Contract!Next]_(Contract!jobVars)
  BY ContractStep
<1>3. QED
  BY <1>1, <1>2, CoreHolds, PTL DEF Spec, ImplementsContract, Contract!Spec

-------------------------------------------------------------------------------
(* Two callers on a crew of one thread: the other part of the run.         *)

\* Crew as the run instantiates it, with what is proved of it; the constants
\* and variables that module MCCrew adds say nothing here.
Crewed == INSTANCE CrewProofs
    WITH Callers <- {c1, c2}, CrewThreads <- {t1}, Postings <- 2, MaxCalls <- 2,
         MaxJobs <- 2, MaxDepth <- 2, Limit <- 1, next <- taken, helpers <- slots,
         w1 <- c1, w2 <- c1, o1 <- c1, o2 <- c1, a1 <- c1, a2 <- c1, a3 <- c1,
         part <- crewed, l1 <- crewed, l2 <- crewed, l3 <- crewed, l4 <- crewed,
         l5 <- crewed, l6 <- crewed, l7 <- crewed, l8 <- crewed, l9 <- crewed,
         l10 <- crewed, l11 <- crewed, l12 <- crewed, l13 <- crewed, l14 <- crewed,
         l15 <- crewed, l16 <- crewed

LEMMA CrewedAssumption == Crewed!CrewAssumption /\ Crewed!AddressesAssumption
<1>1. \A S : Crewed!IsFiniteSet(S) <=> IsFiniteSet(S)
  BY DEF Crewed!IsFiniteSet, IsFiniteSet
<1>2. IsFiniteSet({c1, c2}) /\ IsFiniteSet({t1})
  <2>1. IsFiniteSet({c1}) /\ IsFiniteSet({c2}) /\ IsFiniteSet({t1})
    BY FS_Singleton
  <2>2. IsFiniteSet({c1} \cup {c2})
    BY <2>1, FS_Union
  <2>3. {c1} \cup {c2} = {c1, c2}
    OBVIOUS
  <2> QED BY <2>1, <2>2, <2>3
<1> QED BY <1>1, <1>2, PairAssumption DEF Crewed!CrewAssumption, Crewed!AddressesAssumption

\* The instance of the proofs and that of the run say the same.
LEMMA CrewedInit == Pair!Init => Crewed!Init
BY DEF Crewed!Init, Crewed!None, Crewed!Threads, Crewed!Posts, Crewed!Calls,
       Crewed!Idle, Crewed!Resting, Crewed!Woken, Pair!Init, Pair!None,
       Pair!Threads, Pair!Posts, Pair!Calls, Pair!Idle, Pair!Resting,
       Pair!Woken

LEMMA CrewedStep == [Pair!Next]_crew => [Crewed!Next]_Crewed!vars
<1>1. ASSUME NEW t, NEW n, Pair!Post(t, n) PROVE Crewed!Post(t, n)
  <2>1. Crewed!Depth(t) = Pair!Depth(t)
    <3>1. \A S : Crewed!Cardinality(S) = Pair!Cardinality(S)
      BY DEF Crewed!Cardinality, Pair!Cardinality
    <3> QED BY <3>1 DEF Crewed!Depth, Pair!Depth
  <2> QED BY <1>1, <2>1
          DEF Crewed!Post, Crewed!None, Crewed!Posts, Crewed!At, Crewed!Top,
              Crewed!Push, Pair!Post, Pair!None, Pair!Posts, Pair!At, Pair!Top,
              Pair!Push
<1>2. ASSUME NEW t, Pair!CallStep(t) PROVE Crewed!CallStep(t)
  <2>1. Pair!Offer(t) => Crewed!Offer(t)
    BY DEF Crewed!Offer, Crewed!list, Crewed!Top, Crewed!At, Crewed!Goto,
        Crewed!Become, Pair!Offer, Pair!list, Pair!Top, Pair!At, Pair!Goto,
        Pair!Become
  <2>2. Pair!Signal(t) => Crewed!Signal(t)
    BY DEF Crewed!Signal, Crewed!Threads, Crewed!None, Crewed!posting, Crewed!list,
        Crewed!Woken, Crewed!Top, Crewed!At, Crewed!Idle, Pair!Signal,
        Pair!Threads, Pair!None, Pair!posting, Pair!list, Pair!Woken, Pair!Top,
        Pair!At, Pair!Idle
  <2>3. Pair!Claim(t) => Crewed!Claim(t)
    BY DEF Crewed!Claim, Crewed!posting, Crewed!Top, Crewed!At, Crewed!Goto,
        Crewed!Become, Pair!Claim, Pair!posting, Pair!Top, Pair!At, Pair!Goto,
        Pair!Become
  <2>4. Pair!FinishJob(t) => Crewed!FinishJob(t)
    BY DEF Crewed!FinishJob, Crewed!posting, Crewed!Top, Crewed!At, Crewed!Goto,
        Crewed!Become, Pair!FinishJob, Pair!posting, Pair!Top, Pair!At, Pair!Goto,
        Pair!Become
  <2>5. Pair!Close(t) => Crewed!Close(t)
    BY DEF Crewed!Close, Crewed!list, Crewed!Top, Crewed!At, Crewed!Goto,
        Crewed!Become, Pair!Close, Pair!list, Pair!Top, Pair!At, Pair!Goto,
        Pair!Become
  <2>6. Pair!Retire(t) => Crewed!Retire(t)
    BY DEF Crewed!Retire, Crewed!None, Crewed!list, Crewed!Top, Crewed!At,
        Crewed!Goto, Crewed!Pop, Crewed!Become, Pair!Retire, Pair!None, Pair!list,
        Pair!Top, Pair!At, Pair!Goto, Pair!Pop, Pair!Become
  <2>7. Pair!Help(t) => Crewed!Help(t)
    BY DEF Crewed!Help, Crewed!Posts, Crewed!None, Crewed!list, Crewed!Top,
        Crewed!At, Crewed!Join, Pair!Help, Pair!Posts, Pair!None, Pair!list,
        Pair!Top, Pair!At, Pair!Join
  <2>8. Pair!HelpNobody(t) => Crewed!HelpNobody(t)
    BY DEF Crewed!HelpNobody, Crewed!posting, Crewed!list, Crewed!At, Crewed!Goto,
        Crewed!Top, Crewed!Become, Pair!HelpNobody, Pair!posting, Pair!list,
        Pair!At, Pair!Goto, Pair!Top, Pair!Become
  <2>9. Pair!Enter(t) => Crewed!Enter(t)
    BY DEF Crewed!Enter, Crewed!posting, Crewed!list, Crewed!Top, Crewed!At,
        Crewed!Become, Pair!Enter, Pair!posting, Pair!list, Pair!Top, Pair!At,
        Pair!Become
  <2>10. Pair!GiveBack(t) => Crewed!GiveBack(t)
    BY DEF Crewed!GiveBack, Crewed!posting, Crewed!list, Crewed!At, Crewed!Goto,
        Crewed!Top, Crewed!Become, Pair!GiveBack, Pair!posting, Pair!list,
        Pair!At, Pair!Goto, Pair!Top, Pair!Become
  <2>11. Pair!Leave(t) => Crewed!Leave(t)
    BY DEF Crewed!Leave, Crewed!list, Crewed!Resting, Crewed!Top, Crewed!At,
        Crewed!Become, Crewed!Pop, Crewed!Idle, Crewed!None, Pair!Leave,
        Pair!list, Pair!Resting, Pair!Top, Pair!At, Pair!Become, Pair!Pop,
        Pair!Idle, Pair!None
  <2> QED BY <1>2, <2>1, <2>2, <2>3, <2>4, <2>5, <2>6, <2>7, <2>8, <2>9, <2>10, <2>11 DEF Crewed!CallStep, Pair!CallStep
<1>3. ASSUME NEW t, Pair!CrewStep(t) PROVE Crewed!CrewStep(t)
  <2>1. Pair!Take(t) => Crewed!Take(t)
    BY DEF Crewed!Take, Crewed!Posts, Crewed!list, Crewed!Idle, Crewed!At,
        Crewed!Become, Crewed!Join, Crewed!None, Crewed!Top, Pair!Take,
        Pair!Posts, Pair!list, Pair!Idle, Pair!At, Pair!Become, Pair!Join,
        Pair!None, Pair!Top
  <2>2. Pair!Reserve(t) => Crewed!Reserve(t)
    BY DEF Crewed!Reserve, Crewed!posting, Crewed!list, Crewed!Top, Crewed!At,
        Crewed!Become, Crewed!Goto, Pair!Reserve, Pair!posting, Pair!list,
        Pair!Top, Pair!At, Pair!Become, Pair!Goto
  <2>3. Pair!HandBack(t) => Crewed!HandBack(t)
    BY DEF Crewed!HandBack, Crewed!list, Crewed!Resting, Crewed!Top, Crewed!At,
        Crewed!Become, Crewed!Idle, Crewed!None, Pair!HandBack, Pair!list,
        Pair!Resting, Pair!Top, Pair!At, Pair!Become, Pair!Idle, Pair!None
  <2>4. Pair!Scan(t) => Crewed!Scan(t)
    BY DEF Crewed!Scan, Crewed!None, Crewed!posting, Crewed!list, Crewed!Idle,
        Crewed!At, Crewed!Become, Crewed!Top, Pair!Scan, Pair!None, Pair!posting,
        Pair!list, Pair!Idle, Pair!At, Pair!Become, Pair!Top
  <2>5. Pair!ScanNext(t) => Crewed!ScanNext(t)
    BY DEF Crewed!ScanNext, Crewed!None, Crewed!posting, Crewed!list, Crewed!Idle,
        Crewed!Resting, Crewed!Top, Crewed!At, Crewed!Become, Pair!ScanNext,
        Pair!None, Pair!posting, Pair!list, Pair!Idle, Pair!Resting, Pair!Top,
        Pair!At, Pair!Become
  <2> QED BY <1>3, <2>1, <2>2, <2>3, <2>4, <2>5 DEF Crewed!CrewStep, Pair!CrewStep
<1>4. ASSUME NEW t, Pair!SpuriousWakeup(t) PROVE Crewed!SpuriousWakeup(t)
  BY <1>4
     DEF Crewed!SpuriousWakeup, Crewed!posting, Crewed!list, Crewed!Woken,
         Crewed!At, Crewed!Become, Crewed!Idle, Crewed!Top, Crewed!None,
         Pair!SpuriousWakeup, Pair!posting, Pair!list, Pair!Woken, Pair!At,
         Pair!Become, Pair!Idle, Pair!Top, Pair!None
<1>5. Pair!OutsideTakes \/ Pair!OutsideGives => Crewed!OutsideTakes \/ Crewed!OutsideGives
  BY DEF Crewed!OutsideTakes, Crewed!OutsideGives, Crewed!posting, Crewed!list,
         Pair!OutsideTakes, Pair!OutsideGives, Pair!posting, Pair!list
<1>6. Pair!Next => Crewed!Next
  BY <1>1, <1>2, <1>3, <1>5, <1>4 DEF Crewed!Next, Pair!Next, Crewed!Threads, Pair!Threads
<1>7. crew' = crew => Crewed!vars' = Crewed!vars
  BY DEF crew, Crewed!vars, Crewed!posting, Crewed!list
<1> QED BY <1>6, <1>7

LEMMA CrewedSays == Crewed!Inv /\ Crewed!JoinedAreAlive => Pair!Inv /\ Pair!JoinedAreAlive
<1> DEFINE Same(s) == Crewed!Cardinality(s) = Pair!Cardinality(s)
<1>1. \A S : Same(S)
  BY DEF Crewed!Cardinality, Pair!Cardinality
<1>2. \A S : Crewed!IsFiniteSet(S) <=> Pair!IsFiniteSet(S)
  BY DEF Crewed!IsFiniteSet, Pair!IsFiniteSet
<1>3. Crewed!TypeOK => Pair!TypeOK
  BY DEF Crewed!TypeOK, Crewed!Frames, Crewed!Places, Crewed!Roles, Crewed!None,
         Crewed!Threads, Crewed!Posts, Crewed!Calls, Pair!TypeOK, Pair!Frames,
         Pair!Places, Pair!Roles, Pair!None, Pair!Threads, Pair!Posts,
         Pair!Calls
<1>4. Crewed!FramesFit => Pair!FramesFit
  BY DEF Crewed!FramesFit, Crewed!Shape, Crewed!OwnCall, Crewed!JoinedCall,
         Crewed!IsOwn, Crewed!IsIn, Crewed!Frame, Crewed!Height, Crewed!Joined,
         Crewed!None, Crewed!Threads, Crewed!Posts, Crewed!Calls, Crewed!Top,
         Pair!FramesFit, Pair!Shape, Pair!OwnCall, Pair!JoinedCall, Pair!IsOwn,
         Pair!IsIn, Pair!Frame, Pair!Height, Pair!Joined, Pair!None,
         Pair!Threads, Pair!Posts, Pair!Calls, Pair!Top
<1>5. Crewed!OneOwner /\ Crewed!YoungerAbove => Pair!OneOwner /\ Pair!YoungerAbove
  BY DEF Crewed!OneOwner, Crewed!YoungerAbove, Crewed!IsOwn, Crewed!Frame,
         Crewed!Height, Crewed!None, Crewed!Threads, Crewed!Posts,
         Pair!OneOwner, Pair!YoungerAbove, Pair!IsOwn, Pair!Frame, Pair!Height,
         Pair!None, Pair!Threads, Pair!Posts
<1>6. Crewed!Watched /\ Crewed!JoinedAreAlive => Pair!Watched /\ Pair!JoinedAreAlive
  BY DEF Crewed!Watched, Crewed!Watches, Crewed!Wanting, Crewed!IsOwn,
         Crewed!Frame, Crewed!Height, Crewed!None, Crewed!Threads, Crewed!Posts,
         Crewed!JoinedAreAlive, Crewed!Joined, Crewed!FramesOf, Pair!Watched,
         Pair!Watches, Pair!Wanting, Pair!IsOwn, Pair!Frame, Pair!Height,
         Pair!None, Pair!Threads, Pair!Posts, Pair!JoinedAreAlive, Pair!Joined,
         Pair!FramesOf
<1>7. Crewed!WordsExact /\ Crewed!JobsExact => Pair!WordsExact /\ Pair!JobsExact
  <2>1. \A k : Crewed!Inside(k) = Pair!Inside(k) /\ Crewed!Running(k) = Pair!Running(k)
    BY DEF Crewed!Inside, Crewed!Running, Crewed!Spots, Crewed!IsIn,
           Crewed!Frame, Crewed!Height, Crewed!Joined, Crewed!Threads,
           Pair!Inside, Pair!Running, Pair!Spots, Pair!IsIn, Pair!Frame,
           Pair!Height, Pair!Joined, Pair!Threads
  <2>2. Crewed!WordsExact => Pair!WordsExact
    BY <1>1, <1>2, <2>1 DEF Crewed!WordsExact, Pair!WordsExact, Crewed!Posts, Pair!Posts, Crewed!None, Pair!None
  <2>3. Crewed!JobsExact => Pair!JobsExact
    BY <1>1, <1>2, <2>1 DEF Crewed!JobsExact, Pair!JobsExact, Crewed!Calls, Pair!Calls
  <2> QED BY <2>2, <2>3
<1>8. Crewed!SlotsHeld /\ Crewed!SlotsExact /\ Crewed!BudgetPlusCallers
        => Pair!SlotsHeld /\ Pair!SlotsExact /\ Pair!BudgetPlusCallers
  <2>1. Crewed!SlotsHeld => Pair!SlotsHeld
    BY <1>1 DEF Crewed!SlotsHeld, Crewed!Helping, Crewed!Frame, Crewed!Height,
                 Pair!SlotsHeld, Pair!Helping, Pair!Frame, Pair!Height
  <2>2. Crewed!SlotsExact => Pair!SlotsExact
    BY <1>1 DEF Crewed!SlotsExact, Crewed!FramesOf, Pair!SlotsExact,
                 Pair!FramesOf
  <2>3. Crewed!BudgetPlusCallers => Pair!BudgetPlusCallers
    BY <1>1 DEF Crewed!BudgetPlusCallers, Crewed!At, Crewed!Top,
                 Crewed!Threads, Pair!BudgetPlusCallers, Pair!At, Pair!Top,
                 Pair!Threads
  <2> QED BY <2>1, <2>2, <2>3
<1> QED BY <1>3, <1>4, <1>5, <1>6, <1>7, <1>8 DEF Crewed!Inv, Pair!Inv

\* With threads of its own and with a crew, no job runs twice, every slot comes
\* back, and nobody is left in a posting that was given to another call
\* (`_run_jobs`, `_run_on_crew`).
THEOREM JobsAndPostingsHold == MCSpec => []MCInv
<1> DEFINE Both == Core /\ Crewed!IInv
<1>1. MCInit => Both
  BY CoreInit, CrewedAssumption, CrewedInit, Crewed!Initially DEF MCInit
<1>2. Both /\ [MCNext]_<<crewed, crew, vars>> => Both'
  <2>1. [MCNext]_<<crewed, crew, vars>> => [Next]_vars /\ [Pair!Next]_crew
    BY DEF MCNext
  <2>2. Core /\ [Next]_vars => Core'
    BY CoreNext
  <2>3. Crewed!IInv /\ [Crewed!Next]_Crewed!vars => Crewed!IInv'
    BY CrewedAssumption, Crewed!Inductive
  <2> QED BY <2>1, <2>2, <2>3, CrewedStep
<1>3. Both => MCInv
  <2>1. Core => Inv
    BY SlotsSuffice DEF Core, Inv
  <2>2. Crewed!IInv => Crewed!Inv /\ Crewed!JoinedAreAlive
    BY CrewedAssumption, Crewed!SlotsFollow, Crewed!BudgetFollows, Crewed!AliveFollows
       DEF Crewed!IInv, Crewed!Inv
  <2> QED BY <2>1, <2>2, CrewedSays DEF MCInv
<1> QED BY <1>1, <1>2, <1>3, PTL DEF MCSpec
===============================================================================
