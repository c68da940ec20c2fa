--------------------------- MODULE WorkerPoolProofs ----------------------------
(* Theorems of WorkerPool, for any number of threads, jobs and rounds.     *)
EXTENDS WorkerPool, FiniteSetTheorems, TLAPS

LEMMA Bounds == MaxThreads \in Nat /\ MaxJobs \in Nat /\ MaxRounds \in Nat
BY PoolAssumption

LEMMA CallerProc == Caller \in Procs
BY Bounds DEF Caller, Procs

LEMMA WorkerProcs ==
    ASSUME TypeOK
    PROVE  /\ Workers \subseteq Procs
           /\ Caller \notin Workers
           /\ threads \in Nat
<1>1. threads \in Nat /\ threads <= MaxThreads
  BY Bounds DEF TypeOK
<1>2. QED
  BY <1>1, Bounds DEF Workers, Procs, Caller

-------------------------------------------------------------------------------
(* Type correctness.                                                       *)

LEMMA TypeInit == Init => TypeOK
<1> SUFFICES ASSUME Init PROVE TypeOK
  OBVIOUS
<1>1. PcOK
  BY CallerProc DEF Init, PcOK, WorkerPcs, CallerPcs, Resting
<1>2. /\ seen \in [Procs -> Nat] /\ list \in [Procs -> Nat]
      /\ length \in [Procs -> 0..MaxJobs] /\ job \in [Procs -> Nat]
  BY Bounds DEF Init
<1>3. /\ generation = 0 /\ tasks = 0 /\ count = 0 /\ next = 0 /\ done = 0
      /\ arrived = 0 /\ participants = 0 /\ helpers = 0 /\ round = 0 /\ size = 0
      /\ finished = {} /\ mode = "static" /\ closed = FALSE /\ stopping = FALSE
      /\ threads \in 0..MaxThreads
  BY DEF Init
<1>4. /\ generation \in Nat /\ tasks \in Nat /\ count \in 0..MaxJobs
      /\ next \in Nat /\ done \in Nat /\ arrived \in Nat
      /\ participants \in 0..MaxThreads /\ helpers \in Int
      /\ round \in Nat /\ size \in 0..MaxJobs
  BY <1>3, Bounds
<1>5. finished \subseteq 0..(MaxJobs - 1)
  BY <1>3
<1>6. QED
  BY <1>1, <1>2, <1>3, <1>4, <1>5 DEF TypeOK

\* A thread that goes to a place of its own kind.
LEMMA GotoWorker ==
    ASSUME PcOK, NEW w \in Procs \ {Caller}, NEW there \in WorkerPcs, Goto(w, there)
    PROVE  PcOK'
BY CallerProc DEF PcOK, Goto

LEMMA GotoCaller ==
    ASSUME PcOK, NEW there \in CallerPcs, Goto(Caller, there)
    PROVE  PcOK'
BY CallerProc DEF PcOK, Goto

LEMMA BroadcastPc ==
    ASSUME PcOK, NEW there \in CallerPcs, Broadcast(there)
    PROVE  PcOK'
<1>1. "lock" \in WorkerPcs /\ "produce" \in WorkerPcs
  BY DEF WorkerPcs, Resting, Parts
<1>2. QED
  BY <1>1, CallerProc DEF PcOK, Broadcast

LEMMA PartOfPc == PartOf(mode) \in Parts \/ mode \notin {"static", "claim", "produced"}
BY DEF PartOf, Parts

LEMMA KindsOfPc ==
    /\ Parts \subseteq WorkerPcs /\ Parts \subseteq CallerPcs
    /\ {"spin", "lock", "parked", "check", "enter", "giveback", "arrive",
        "exited"} \subseteq WorkerPcs
    /\ {"idle", "inline", "inlineSubmit", "inlineJob", "wake", "submit", "drain",
        "barrier", "join", "freed"} \subseteq CallerPcs
BY DEF WorkerPcs, CallerPcs, Resting, Parts

\* A part of a round, on whatever thread.
LEMMA TypePart ==
    ASSUME TypeOK, JobsExist, NEW p \in Procs, PartStep(p)
    PROVE  TypeOK' /\ JobsExist'
<1> DEFINE out == IF p = Caller THEN "drain" ELSE "giveback"
<1>1. /\ Goto(p, out) => PcOK'
      /\ \A q \in Parts : Goto(p, q) => PcOK'
  <2>1. CASE p = Caller
    BY <2>1, GotoCaller, KindsOfPc DEF TypeOK
  <2>2. CASE p # Caller
    BY <2>2, GotoWorker, KindsOfPc DEF TypeOK
  <2>3. QED
    BY <2>1, <2>2
<1>2. {"run", "share", "claim", "produce", "starved"} = Parts
  BY DEF Parts
<1>3. PcOK'
  <2>1. CASE ShareNext(p) \/ ClaimNext(p) \/ ProduceNext(p)
    BY <2>1, <1>1, <1>2 DEF ShareNext, ClaimNext, ProduceNext, Take, Leave
  <2>2. CASE FinishJob(p)
    BY <2>2, <1>1, PartOfPc DEF FinishJob, TypeOK
  <2>3. QED
    BY <2>1, <2>2 DEF PartStep
<1>4. JobsExist'
  <2>1. pc'[Caller] = "inlineJob" => pc[Caller] = "inlineJob"
    BY CallerProc DEF PartStep, ShareNext, ClaimNext, ProduceNext, FinishJob,
          Take, Leave, Goto, TypeOK, PcOK, PartOf
  <2>2. size' = size
    BY DEF PartStep, ShareNext, ClaimNext, ProduceNext, FinishJob, work
  <2>3. ASSUME NEW q \in Procs, pc'[q] = "run" PROVE job'[q] < MaxJobs
    <3>1. CASE q # p
      BY <3>1, <2>3 DEF PartStep, ShareNext, ClaimNext, ProduceNext, FinishJob,
          Take, Leave, Goto, TypeOK, PcOK, JobsExist
    <3>2. CASE q = p
      <4>1. CASE FinishJob(p)
        BY <3>2, <2>3, <4>1 DEF FinishJob, Goto, PartOf, TypeOK, PcOK
      <4>2. CASE ShareNext(p)
        BY <3>2, <2>3, <4>2, Bounds DEF ShareNext, Take, Leave, Goto, TypeOK, PcOK
      <4>3. CASE ClaimNext(p)
        BY <3>2, <2>3, <4>3, Bounds DEF ClaimNext, Take, Leave, Goto, TypeOK, PcOK
      <4>4. CASE ProduceNext(p)
        BY <3>2, <2>3, <4>4, Bounds DEF ProduceNext, Take, Leave, Goto, TypeOK, PcOK
      <4>5. QED
        BY <4>1, <4>2, <4>3, <4>4 DEF PartStep
    <3>3. QED
      BY <3>1, <3>2
  <2>4. QED
    BY <2>1, <2>2, <2>3 DEF JobsExist
<1>5. TypeOK'
  <2>1. CASE ShareNext(p)
    BY <2>1, <1>3, Bounds DEF ShareNext, Take, Leave, TypeOK, shared, header, work
  <2>2. CASE ClaimNext(p)
    BY <2>2, <1>3, Bounds DEF ClaimNext, Take, Leave, TypeOK, header, work
  <2>3. CASE ProduceNext(p)
    BY <2>3, <1>3, Bounds DEF ProduceNext, Take, Leave, TypeOK, header, work
  <2>4. CASE FinishJob(p)
    <3>1. job[p] \in 0..(MaxJobs - 1)
      BY <2>4, Bounds DEF FinishJob, JobsExist, TypeOK
    <3>2. job' \in [Procs -> Nat]
      BY <2>4, Bounds DEF FinishJob, TypeOK
    <3>3. finished' \subseteq 0..(MaxJobs - 1)
      BY <2>4, <3>1 DEF FinishJob, Finished, TypeOK
    <3>4. done' \in Nat
      BY <2>4 DEF FinishJob, TypeOK
    <3>5. QED
      BY <2>4, <3>2, <3>3, <3>4, <1>3 DEF FinishJob, TypeOK, header
  <2>5. QED
    BY <2>1, <2>2, <2>3, <2>4 DEF PartStep
<1>6. QED
  BY <1>4, <1>5

\* What an action of a worker outside its part keeps.
LEMMA TypeWorker ==
    ASSUME TypeOK, JobsExist, NEW w \in Workers,
           \/ Spin(w) \/ Park(w) \/ SpuriousWakeup(w)
           \/ Check(w) \/ Enter(w) \/ GiveBack(w) \/ Arrive(w)
    PROVE  TypeOK' /\ JobsExist'
<1>1. w \in Procs \ {Caller}
  BY WorkerProcs
<1>2. PcOK'
  <2>1. \A q \in WorkerPcs : Goto(w, q) => PcOK'
    BY <1>1, GotoWorker DEF TypeOK
  <2>2. CASE Spin(w) \/ Park(w) \/ SpuriousWakeup(w) \/ Check(w)
    BY <2>1, <2>2, KindsOfPc DEF Spin, Park, SpuriousWakeup, Check, Parts
  <2>3. CASE Enter(w) \/ GiveBack(w) \/ Arrive(w)
    BY <2>1, <2>3, KindsOfPc, PartOfPc DEF Enter, GiveBack, Arrive, TypeOK
  <2>4. QED
    BY <2>2, <2>3
<1>3. TypeOK'
  <2>1. CASE Spin(w) \/ Park(w) \/ SpuriousWakeup(w)
    <3>1. UNCHANGED <<shared, helpers, local, round, work>>
      BY <2>1 DEF Spin, Park, SpuriousWakeup
    <3>2. QED
      BY <3>1, <1>2 DEF TypeOK, shared, header, local, work
  <2>4. CASE GiveBack(w)
    BY <2>4, <1>2 DEF GiveBack, TypeOK, shared, header, local, work
  <2>5. CASE Arrive(w)
    BY <2>5, <1>2 DEF Arrive, TypeOK, header, local, work
  <2>2. CASE Check(w)
    BY <2>2, <1>2 DEF Check, TypeOK, shared, header, work
  <2>3. CASE Enter(w)
    <3>1. w \in Nat
      BY <1>1, Bounds DEF Procs
    <3>2. QED
      BY <2>3, <3>1, <1>2 DEF Enter, BeginPart, TypeOK, shared, header, work
  <2>6. QED
    BY <2>1, <2>2, <2>3, <2>4, <2>5
<1>4. JobsExist'
  <2>1. \A q \in Procs : pc'[q] = "run" => pc[q] = "run" /\ job'[q] = job[q]
    BY <1>1, PartOfPc DEF Spin, Park, SpuriousWakeup, Check, Enter, GiveBack, Arrive, Goto,
          BeginPart, PartOf, TypeOK, PcOK, local
  <2>2. pc'[Caller] = pc[Caller] /\ size' = size
    BY <1>1, CallerProc DEF Spin, Park, SpuriousWakeup, Check, Enter, GiveBack,
          Arrive, Goto, TypeOK, PcOK, work
  <2>3. QED
    BY <2>1, <2>2 DEF JobsExist
<1>5. QED
  BY <1>3, <1>4

\* The caller's own steps outside a part.
CallerAlone ==
    \/ \E n \in 1..MaxJobs : RunInline(n)
    \/ \E n \in 1..MaxJobs, claim \in BOOLEAN : RunJobs(n, claim)
    \/ ProduceInline \/ InlineNext \/ InlineSubmit \/ InlineJob \/ InlineClose
    \/ Drain \/ Barrier \/ Join

Broadcasts == Wake \/ ProduceBegin \/ Submit \/ Close \/ Release

\* The caller alone moves, or it moves and wakes the waiting threads.
LEMMA CallerAlonePc ==
    ASSUME TypeOK, CallerAlone
    PROVE  \E there \in CallerPcs \ Parts : Goto(Caller, there)
<1>1. {"idle", "inline", "inlineSubmit", "inlineJob", "wake", "submit", "drain",
       "barrier", "join", "freed"} \subseteq CallerPcs \ Parts
  BY DEF CallerPcs, Parts
<1>2. CASE InlineNext
  <2>1. CASE pc' = pc
    <3>1. pc' = [pc EXCEPT ![Caller] = "inline"]
      BY <1>2, <2>1, CallerProc DEF InlineNext, TypeOK, PcOK
    <3>2. QED
      BY <3>1, <1>1 DEF Goto
  <2>2. CASE pc' # pc
    BY <1>2, <2>2, <1>1 DEF InlineNext, Return
  <2>3. QED
    BY <2>1, <2>2
<1>3. CASE ~InlineNext
  BY <1>1, <1>3 DEF CallerAlone, RunInline, RunJobs, ProduceInline, InlineSubmit,
        InlineJob, InlineClose, Drain, Barrier, Join, Return
<1>4. QED
  BY <1>2, <1>3

LEMMA BroadcastsPc ==
    ASSUME TypeOK, Broadcasts
    PROVE  \E there \in CallerPcs : Broadcast(there)
<1>1. PartOf(mode) \in CallerPcs
  BY PartOfPc, KindsOfPc DEF TypeOK
<1>2. QED
  BY <1>1, KindsOfPc
     DEF Broadcasts, Wake, ProduceBegin, Submit, Close, Release, Parts

LEMMA TypeCaller ==
    ASSUME TypeOK, JobsExist, CallerAlone \/ Broadcasts
    PROVE  TypeOK' /\ JobsExist'
<1>1. PcOK'
  BY CallerAlonePc, BroadcastsPc, GotoCaller, BroadcastPc DEF TypeOK
<1>2. ASSUME NEW n \in 1..MaxJobs, RunInline(n) PROVE TypeOK'
  BY <1>1, <1>2, Bounds DEF RunInline, NewRound, TypeOK, shared, header, local
<1>3. ASSUME NEW n \in 1..MaxJobs, NEW claim \in BOOLEAN, RunJobs(n, claim)
      PROVE  TypeOK'
  <2>1. helpers' \in Int /\ participants' \in 0..MaxThreads
    BY <1>3, Bounds DEF RunJobs, Reserve, TypeOK
  <2>2. /\ tasks' \in Nat /\ count' \in 0..MaxJobs /\ next' = 0 /\ done' = 0
        /\ arrived' = 0 /\ mode' \in {"static", "claim"} /\ closed' = FALSE
    BY <1>3, Bounds DEF RunJobs, Publish, TypeOK
  <2>3. round' \in Nat /\ size' \in 0..MaxJobs /\ finished' \subseteq 0..(MaxJobs - 1)
    BY <1>3, Bounds DEF RunJobs, NewRound, TypeOK
  <2>4. UNCHANGED <<threads, generation, stopping, seen, list, length, job>>
    BY <1>3 DEF RunJobs, local
  <2>5. QED
    BY <1>1, <2>1, <2>2, <2>3, <2>4 DEF TypeOK
<1>4. ASSUME ProduceInline PROVE TypeOK'
  BY <1>1, <1>4, Bounds DEF ProduceInline, NewRound, TypeOK, shared, header, local
<1>5. ASSUME ProduceBegin PROVE TypeOK'
  <2>1. helpers' \in Int /\ participants' \in 0..MaxThreads
    BY <1>5, Bounds DEF ProduceBegin, Reserve, TypeOK
  <2>2. /\ tasks' \in Nat /\ count' = 0 /\ next' = 0 /\ done' = 0
        /\ arrived' = 0 /\ mode' = "produced" /\ closed' = FALSE
    BY <1>5, Bounds DEF ProduceBegin, Publish, TypeOK
  <2>3. round' \in Nat /\ size' \in 0..MaxJobs /\ finished' \subseteq 0..(MaxJobs - 1)
    BY <1>5, Bounds DEF ProduceBegin, NewRound, TypeOK
  <2>4. generation' \in Nat /\ UNCHANGED <<threads, stopping, seen, list, length, job>>
    BY <1>5 DEF ProduceBegin, TypeOK, local
  <2>5. /\ tasks' \in Nat /\ count' \in 0..MaxJobs /\ next' \in Nat /\ done' \in Nat
        /\ arrived' \in Nat /\ mode' \in {"static", "claim", "produced"}
    BY <2>2, Bounds
  <2>6. closed' \in BOOLEAN
    BY <2>2
  <2>7. QED
    BY <1>1, <2>1, <2>3, <2>4, <2>5, <2>6 DEF TypeOK
<1>6. ASSUME InlineNext PROVE TypeOK'
  <2>1. finished' \subseteq 0..(MaxJobs - 1) /\ size' \in 0..MaxJobs
    <3>1. CASE Cardinality(finished) < size
      <4>1. IsFiniteSet(finished)
        <5>1. IsFiniteSet(0..(MaxJobs - 1))
          BY FS_Interval, Bounds
        <5>2. finished \in SUBSET (0..(MaxJobs - 1))
          BY DEF TypeOK
        <5>3. QED
          BY <5>1, <5>2, FS_Subset
      <4>2. Cardinality(finished) \in Nat
        BY <4>1, FS_CardinalityType
      <4>3. Cardinality(finished) \in 0..(MaxJobs - 1)
        BY <4>2, <3>1, Bounds DEF TypeOK
      <4>4. QED
        BY <1>6, <3>1, <4>3 DEF InlineNext, Finished, TypeOK
    <3>2. CASE ~(Cardinality(finished) < size)
      BY <1>6, <3>2, Bounds DEF InlineNext, Return, TypeOK
    <3>3. QED
      BY <3>1, <3>2
  <2>2. QED
    BY <1>6, <2>1, <1>1 DEF InlineNext, TypeOK, shared, header, local
<1>7. ASSUME InlineSubmit \/ InlineClose PROVE TypeOK'
  <2>1. size' \in 0..MaxJobs /\ finished' \subseteq 0..(MaxJobs - 1)
    <3>1. \/ size' = size + 1 /\ size < MaxJobs /\ finished' = finished
          \/ size' = 0 /\ finished' = {}
      BY <1>7 DEF InlineSubmit, InlineClose, Return
    <3>2. finished' \subseteq 0..(MaxJobs - 1)
      BY <3>1 DEF TypeOK
    <3>3. size' \in 0..MaxJobs
      BY <3>1, Bounds DEF TypeOK
    <3>4. QED
      BY <3>2, <3>3
  <2>2. UNCHANGED <<shared, helpers, local, round>>
    BY <1>7 DEF InlineSubmit, InlineClose
  <2>3. QED
    BY <1>1, <2>1, <2>2 DEF TypeOK, shared, header, local
<1>8. ASSUME InlineJob PROVE TypeOK'
  <2>1. finished' \subseteq 0..(MaxJobs - 1)
    BY <1>8, Bounds DEF InlineJob, Finished, TypeOK, JobsExist
  <2>2. QED
    BY <1>8, <2>1, <1>1 DEF InlineJob, TypeOK, shared, header, local
<1>9. ASSUME Drain \/ Join PROVE TypeOK'
  <2>1. UNCHANGED <<shared, helpers, local, round, work>>
    BY <1>9 DEF Drain, Join
  <2>2. QED
    BY <2>1, <1>1 DEF TypeOK, shared, header, local, work
<1>10. ASSUME Barrier PROVE TypeOK'
  BY <1>1, <1>10, Bounds DEF Barrier, Return, TypeOK, local
<1>11. ASSUME Wake PROVE TypeOK'
  <2>1. participants \in Nat
    BY Bounds DEF TypeOK
  <2>2. /\ list' \in [Procs -> Nat] /\ length' \in [Procs -> 0..MaxJobs]
        /\ job' \in [Procs -> Nat] /\ generation' \in Nat
    <3>1. /\ list' = [list EXCEPT ![Caller] = tasks]
          /\ length' = [length EXCEPT ![Caller] = count]
          /\ job' = [job EXCEPT ![Caller] = participants]
          /\ generation' = generation + 1
      BY <1>11 DEF Wake, BeginPart
    <3>2. list' \in [Procs -> Nat]
      BY <3>1 DEF TypeOK
    <3>3. length' \in [Procs -> 0..MaxJobs]
      BY <3>1 DEF TypeOK
    <3>4. job' \in [Procs -> Nat]
      BY <3>1, <2>1 DEF TypeOK
    <3>5. generation' \in Nat
      BY <3>1 DEF TypeOK
    <3>6. QED
      BY <3>2, <3>3, <3>4, <3>5
  <2>3. QED
    BY <1>1, <1>11, <2>2 DEF Wake, TypeOK, work
<1>12. ASSUME Submit PROVE TypeOK'
  BY <1>1, <1>12, Bounds DEF Submit, TypeOK, header, local
<1>13. ASSUME Close \/ Release PROVE TypeOK'
  BY <1>1, <1>13 DEF Close, Release, TypeOK, local, work
<1>14. TypeOK'
  BY <1>2, <1>3, <1>4, <1>5, <1>6, <1>7, <1>8, <1>9, <1>10, <1>11, <1>12, <1>13
     DEF CallerAlone, Broadcasts
<1>15. JobsExist'
  <2>1. pc'[Caller] = "inlineJob" => size' > 0
    <3>1. CASE InlineSubmit
      BY <3>1, Bounds DEF InlineSubmit, TypeOK
    <3>2. CASE ~InlineSubmit
      <4>1. pc'[Caller] # "inlineJob"
        BY <3>2, CallerProc, PartOfPc
           DEF CallerAlone, Broadcasts, RunInline, RunJobs, ProduceInline,
               InlineNext, InlineJob, InlineClose, Drain, Barrier, Join, Wake,
               ProduceBegin, Submit, Close, Release, Return, Goto, Broadcast,
               Parts, TypeOK, PcOK
      <4>2. QED
        BY <4>1
    <3>3. QED
      BY <3>1, <3>2
  <2>2. ASSUME NEW q \in Procs, pc'[q] = "run" PROVE job'[q] < MaxJobs
    <3>1. CASE q = Caller
      <4>1. pc'[Caller] # "run"
        BY CallerProc
           DEF CallerAlone, Broadcasts, RunInline, RunJobs, ProduceInline,
               InlineNext, InlineSubmit, InlineJob, InlineClose, Drain, Barrier,
               Join, Wake, ProduceBegin, Submit, Close, Release, Return, Goto,
               Broadcast, PartOf, TypeOK, PcOK
      <4>2. QED
        BY <2>2, <3>1, <4>1
    <3>2. CASE q # Caller
      <4>1. pc[q] = "run"
        BY <2>2, <3>2, CallerAlonePc, BroadcastsPc DEF Goto, Broadcast, TypeOK, PcOK
      <4>2. job'[q] = job[q]
        BY <3>2
           DEF CallerAlone, Broadcasts, RunInline, RunJobs, ProduceInline,
               InlineNext, InlineSubmit, InlineJob, InlineClose, Drain, Barrier,
               Join, Wake, ProduceBegin, Submit, Close, Release, BeginPart, local,
               TypeOK
      <4>3. QED
        BY <4>1, <4>2 DEF JobsExist
    <3>3. QED
      BY <3>1, <3>2
  <2>3. QED
    BY <2>1, <2>2 DEF JobsExist
<1>16. QED
  BY <1>14, <1>15

\* Each step is one of a worker, of a part, or of the caller.
LEMMA StepKinds ==
    ASSUME Next
    PROVE  \/ \E w \in Workers :
                 \/ Spin(w) \/ Park(w) \/ SpuriousWakeup(w)
                 \/ Check(w) \/ Enter(w) \/ GiveBack(w) \/ Arrive(w)
           \/ \E w \in Workers : PartStep(w)
           \/ PartStep(Caller)
           \/ CallerAlone \/ Broadcasts
           \/ UNCHANGED vars
BY DEF Next, Begin, CallerStep, WorkerStep, CallerAlone, Broadcasts, Terminated

LEMMA TypeNext == TypeOK /\ JobsExist /\ [Next]_vars => TypeOK' /\ JobsExist'
<1> SUFFICES ASSUME TypeOK, JobsExist, [Next]_vars PROVE TypeOK' /\ JobsExist'
  OBVIOUS
<1>1. CASE UNCHANGED vars
  BY <1>1 DEF vars, shared, header, local, work, TypeOK, PcOK, JobsExist
<1>2. CASE Next /\ ~UNCHANGED vars
  BY <1>2, StepKinds, TypeWorker, TypePart, TypeCaller, WorkerProcs, CallerProc
<1>3. QED
  BY <1>1, <1>2

\* Type correctness, for every number of threads, jobs and rounds.
THEOREM TypeCorrect == Spec => []TypeOK
<1>1. Init => TypeOK /\ JobsExist
  BY TypeInit, CallerProc DEF Init, JobsExist
<1>2. QED
  BY <1>1, TypeNext, PTL DEF Spec

-------------------------------------------------------------------------------
(* No worker uses a list that is gone.                                     *)

Core == WorkerPlace /\ ArrivedCounts /\ ListPublished /\ Unborn /\ Stopping

LEMMA OutFacts ==
    ASSUME TypeOK
    PROVE  /\ IsFiniteSet(Workers) /\ Cardinality(Workers) = threads
           /\ IsFiniteSet(Out) /\ Cardinality(Out) \in Nat
           /\ Out = Workers \/ Cardinality(Out) < threads
<1>1. threads \in Nat
  BY WorkerProcs
<1>2. IsFiniteSet(Workers) /\ Cardinality(Workers) = threads
  BY <1>1, FS_Interval DEF Workers
<1>3. Out \in SUBSET Workers
  BY DEF Out
<1>4. /\ IsFiniteSet(Out)
      /\ Cardinality(Out) <= Cardinality(Workers)
      /\ Cardinality(Workers) = Cardinality(Out) => Workers = Out
  BY <1>2, <1>3, FS_Subset
<1>5. Cardinality(Out) \in Nat
  BY <1>4, FS_CardinalityType
<1>6. QED
  BY <1>1, <1>2, <1>4, <1>5

\* Between rounds every worker has left.
LEMMA AllOut ==
    ASSUME TypeOK, Core, pc[Caller] \in Between \cup {"wake"}
    PROVE  Out = Workers
<1>1. pc[Caller] \notin Open \cup Ending
  BY DEF Between, Open, Ending, Parts
<1>2. QED
  BY <1>1 DEF Core, WorkerPlace, Place, Out

\* A worker that is not resting is in the round or on its way out of the pool.
LEMMA InRoundOpen ==
    ASSUME TypeOK, Core, NEW w \in Workers,
           pc[w] \in Parts \cup {"enter", "giveback", "arrive"}
    PROVE  pc[Caller] \in Open /\ seen[w] = generation /\ w \notin Out
BY DEF Core, WorkerPlace, Place, Out, Resting, Parts

\* A step of one worker moves no other.
LEMMA OthersStay ==
    ASSUME TypeOK, Core, NEW w \in Workers, NEW q, Goto(w, q),
           UNCHANGED <<threads, generation>>,
           \A u \in Workers \ {w} : seen'[u] = seen[u]
    PROVE  /\ Workers' = Workers
           /\ pc'[Caller] = pc[Caller] /\ pc'[w] = q
           /\ \A p \in Procs \ {w} : pc'[p] = pc[p]
           /\ \A u \in Workers \ {w} : (u \in Out)' <=> u \in Out
           /\ \A u \in Workers \ {w} : Place(u)'
           /\ Unborn'
<1>1. w \in Procs /\ w # Caller
  BY WorkerProcs
<1>2. Workers' = Workers
  BY DEF Workers
<1>3. pc'[w] = q /\ \A p \in Procs \ {w} : pc'[p] = pc[p]
  BY <1>1 DEF Goto, TypeOK, PcOK
<1>4. pc'[Caller] = pc[Caller]
  BY <1>1, <1>3, CallerProc
<1>5. \A u \in Workers \ {w} : (u \in Out)' <=> u \in Out
  BY <1>2, <1>3, WorkerProcs DEF Out
<1>6. \A u \in Workers \ {w} : Place(u)'
  <2> SUFFICES ASSUME NEW u \in Workers \ {w} PROVE Place(u)'
    OBVIOUS
  <2>1. Place(u) /\ seen'[u] = seen[u] /\ pc'[u] = pc[u]
    BY <1>3, WorkerProcs DEF Core, WorkerPlace
  <2>2. QED
    BY <2>1, <1>4, <1>5 DEF Place
<1>7. Unborn'
  BY <1>1, <1>2, <1>3 DEF Core, Unborn
<1>8. QED
  BY <1>2, <1>3, <1>4, <1>5, <1>6, <1>7

\* A step of one worker that changes neither the caller's fields nor whether
\* the worker is out keeps the whole invariant.
LEMMA WorkerKeepsCore ==
    ASSUME TypeOK, Core, NEW w \in Workers, NEW q, Goto(w, q),
           UNCHANGED <<threads, generation, arrived, tasks, stopping>>,
           \A u \in Workers \ {w} : seen'[u] = seen[u],
           \A p \in Procs \ {w} : list'[p] = list[p],
           Place(w)', (w \in Out)' <=> w \in Out,
           q \in {"share", "claim", "run"} => list'[w] = tasks
    PROVE  Core'
<1>1. /\ Workers' = Workers
      /\ pc'[Caller] = pc[Caller] /\ pc'[w] = q
      /\ \A p \in Procs \ {w} : pc'[p] = pc[p]
      /\ \A u \in Workers \ {w} : (u \in Out)' <=> u \in Out
      /\ \A u \in Workers \ {w} : Place(u)'
      /\ Unborn'
  BY OthersStay
<1>2. Out' = Out
  <2>1. Out \subseteq Workers /\ Out' \subseteq Workers'
    BY DEF Out
  <2>2. QED
    BY <1>1, <2>1
<1>3. WorkerPlace'
  BY <1>1 DEF WorkerPlace
<1>4. ArrivedCounts'
  BY <1>1, <1>2 DEF Core, ArrivedCounts
<1>5. ListPublished'
  BY <1>1 DEF Core, ListPublished
<1>6. Stopping'
  BY <1>1 DEF Core, Stopping
<1>7. QED
  BY <1>1, <1>3, <1>4, <1>5, <1>6 DEF Core

\* Looking for a round: spin, park, wake up without reason.
LEMMA RestCore ==
    ASSUME TypeOK, Core, NEW w \in Workers,
           Spin(w) \/ Park(w) \/ SpuriousWakeup(w)
    PROVE  Core'
<1>1. /\ UNCHANGED <<threads, generation, arrived, tasks, stopping, seen, list>>
      /\ Workers' = Workers
  BY DEF Spin, Park, SpuriousWakeup, shared, header, local, Workers
<1>2. w \in Procs /\ w # Caller /\ Place(w)
  BY WorkerProcs DEF Core, WorkerPlace
<1>3. stopping <=> pc[Caller] \in Ending
  BY DEF Core, Stopping
<1>4. Open \cap Ending = {}
  BY DEF Open, Ending, Parts
<1>5. ASSUME NEW q, Goto(w, q), q \in Resting,
             pc[w] \in Resting
      PROVE  Core'
  <2>1. pc'[w] = q /\ pc'[Caller] = pc[Caller]
    BY <1>2, <1>5, OthersStay, <1>1
  <2>2. (w \in Out)' <=> w \in Out
    BY <2>1, <1>1, <1>5 DEF Out
  <2>3. q \notin {"share", "claim", "run", "check", "exited"}
    BY <1>5 DEF Resting
  <2>4. Place(w)'
    BY <1>1, <1>2, <1>5, <2>1, <2>2 DEF Place, Resting, Parts
  <2>5. QED
    BY <1>1, <1>5, <2>2, <2>3, <2>4, WorkerKeepsCore
<1>6. ASSUME Goto(w, "check"), pc[w] \in Resting, generation # seen[w] \/ stopping
      PROVE  Core'
  <2>1. pc'[w] = "check" /\ pc'[Caller] = pc[Caller]
    BY <1>1, <1>6, OthersStay
  <2>2. CASE pc[Caller] \in Ending
    <3>1. Place(w)'
      BY <2>1, <2>2 DEF Place
    <3>2. /\ Workers' = Workers /\ Unborn'
          /\ \A u \in Workers \ {w} : Place(u)'
          /\ \A r \in Procs \ {w} : pc'[r] = pc[r]
      BY <1>1, <1>6, OthersStay
    <3>3. WorkerPlace'
      BY <3>1, <3>2 DEF WorkerPlace
    <3>4. pc'[Caller] \notin Open \cup {"wake"}
      BY <2>1, <2>2, <1>4 DEF Ending
    <3>5. ArrivedCounts'
      BY <3>4 DEF ArrivedCounts
    <3>6. ListPublished'
      BY <3>2, <3>4, <2>1, <1>1 DEF Core, ListPublished
    <3>7. Stopping'
      BY <1>1, <2>1 DEF Core, Stopping
    <3>8. QED
      BY <3>2, <3>3, <3>5, <3>6, <3>7 DEF Core
  <2>3. CASE pc[Caller] \notin Ending
    <3>1. generation # seen[w] /\ w \notin Out
      BY <1>3, <1>6, <2>3 DEF Out
    <3>2. pc[Caller] \in Open
      BY <1>2, <3>1, <2>3 DEF Place
    <3>3. (w \in Out)' <=> w \in Out
      BY <1>1, <3>1 DEF Out
    <3>4. Place(w)'
      BY <1>1, <2>1, <3>1, <3>2 DEF Place
    <3>5. QED
      BY <1>1, <1>6, <3>3, <3>4, WorkerKeepsCore
  <2>4. QED
    BY <2>2, <2>3
<1>7. ASSUME Goto(w, "produce"), pc[w] = "starved" PROVE Core'
  <2>1. pc[Caller] \in Open /\ seen[w] = generation /\ w \notin Out
    BY <1>7, InRoundOpen DEF Parts
  <2>2. pc'[w] = "produce" /\ pc'[Caller] = pc[Caller]
    BY <1>1, <1>7, OthersStay
  <2>3. Place(w)' /\ ~(w \in Out)'
    BY <1>1, <2>1, <2>2 DEF Place, Out, Resting, Parts
  <2>4. QED
    BY <1>1, <1>7, <2>1, <2>3, WorkerKeepsCore
<1>8. CASE Spin(w)
  BY <1>5, <1>6, <1>8 DEF Spin, Resting
<1>9. CASE Park(w)
  BY <1>5, <1>6, <1>9 DEF Park, Resting
<1>10. CASE SpuriousWakeup(w)
  BY <1>5, <1>7, <1>10 DEF SpuriousWakeup, Resting
<1>11. QED
  BY <1>8, <1>9, <1>10

\* The worker has seen the bump, or the stop.
LEMMA CheckCore ==
    ASSUME TypeOK, Core, NEW w \in Workers, Check(w)
    PROVE  Core'
<1>1. /\ UNCHANGED <<threads, generation, arrived, tasks, stopping, list>>
      /\ pc[w] = "check" /\ w \notin Out
  BY DEF Check, shared, header, Out, Resting
<1>2. w \in Procs /\ w # Caller /\ Place(w)
  BY WorkerProcs DEF Core, WorkerPlace
<1>3. CASE stopping
  <2>1. Goto(w, "exited") /\ seen' = seen /\ pc[Caller] \in Ending
    BY <1>3 DEF Check, Core, Stopping
  <2>2. pc'[w] = "exited" /\ pc'[Caller] = pc[Caller]
    BY <1>1, <2>1, OthersStay
  <2>3. Place(w)' /\ ~(w \in Out)'
    BY <2>1, <2>2 DEF Place, Out, Resting
  <2>4. QED
    BY <1>1, <2>1, <2>3, WorkerKeepsCore
<1>4. CASE ~stopping
  <2>1. Goto(w, "enter") /\ seen' = [seen EXCEPT ![w] = generation]
    BY <1>4 DEF Check
  <2>2. \A u \in Workers \ {w} : seen'[u] = seen[u]
    BY <2>1, WorkerProcs DEF TypeOK
  <2>3. pc[Caller] \in Open
    BY <1>1, <1>2, <1>4 DEF Place, Core, Stopping, Resting, Parts
  <2>4. pc'[w] = "enter" /\ pc'[Caller] = pc[Caller] /\ seen'[w] = generation
    BY <1>1, <1>2, <2>1, <2>2, OthersStay DEF TypeOK
  <2>5. Place(w)' /\ ~(w \in Out)'
    BY <1>1, <2>3, <2>4 DEF Place, Out, Resting
  <2>6. QED
    BY <1>1, <2>1, <2>2, <2>5, WorkerKeepsCore
<1>5. QED
  BY <1>3, <1>4

\* Whatever thread takes or finishes a job, it keeps the list it took.
LEMMA PartKeepsList ==
    ASSUME TypeOK, Core, NEW p \in Procs, PartStep(p)
    PROVE  pc'[p] \in {"share", "claim", "run"} => list'[p] = tasks
<1>1. list[p] = tasks \/ pc[p] \notin {"share", "claim", "run"}
  BY DEF Core, ListPublished
<1>2. CASE ShareNext(p)
  <2>1. list[p] = tasks
    BY <1>1, <1>2 DEF ShareNext
  <2>2. CASE Take(p, job[p], list[p])
    BY <2>1, <2>2 DEF Take, TypeOK
  <2>3. CASE Leave(p)
    BY <2>3 DEF Leave, Goto, TypeOK, PcOK
  <2>4. QED
    BY <1>2, <2>2, <2>3 DEF ShareNext
<1>3. CASE ClaimNext(p)
  <2>1. list[p] = tasks
    BY <1>1, <1>3 DEF ClaimNext
  <2>2. CASE Take(p, next, list[p])
    BY <2>1, <2>2 DEF Take, TypeOK
  <2>3. CASE Leave(p)
    BY <2>3 DEF Leave, Goto, TypeOK, PcOK
  <2>4. QED
    BY <1>3, <2>2, <2>3 DEF ClaimNext
<1>4. CASE ProduceNext(p)
  <2>2. CASE Take(p, next, tasks)
    BY <2>2 DEF Take, TypeOK
  <2>3. CASE Leave(p)
    BY <2>3 DEF Leave, Goto, TypeOK, PcOK
  <2>4. CASE Goto(p, "starved")
    BY <2>4 DEF Goto, TypeOK, PcOK
  <2>5. QED
    BY <1>4, <2>2, <2>3, <2>4 DEF ProduceNext
<1>5. CASE FinishJob(p)
  BY <1>1, <1>5 DEF FinishJob
<1>6. QED
  BY <1>2, <1>3, <1>4, <1>5 DEF PartStep

\* In the round: a worker that takes part, or gives its slot back.
LEMMA InRoundCore ==
    ASSUME TypeOK, Core, NEW w \in Workers,
           Enter(w) \/ GiveBack(w) \/ PartStep(w)
    PROVE  Core'
<1>1. pc[w] \in Parts \cup {"enter", "giveback", "arrive"}
  BY DEF Enter, GiveBack, PartStep, ShareNext, ClaimNext, ProduceNext, FinishJob, Parts
<1>2. pc[Caller] \in Open /\ seen[w] = generation /\ w \notin Out
  BY <1>1, InRoundOpen
<1>3. w \in Procs /\ w # Caller /\ mode \in {"static", "claim", "produced"}
  BY WorkerProcs DEF TypeOK
<1>4. UNCHANGED <<threads, generation, arrived, tasks, stopping, seen>>
  BY DEF Enter, GiveBack, PartStep, ShareNext, ClaimNext, ProduceNext, FinishJob,
         shared, header, local
<1>5. \A p \in Procs \ {w} : list'[p] = list[p]
  BY <1>3 DEF Enter, BeginPart, GiveBack, PartStep, ShareNext, ClaimNext,
         ProduceNext, FinishJob, Take, Leave, local, TypeOK
<1>6. \E q \in Parts \cup {"giveback", "arrive"} : Goto(w, q)
  <2>1. PartOf(mode) \in Parts
    BY <1>3, PartOfPc
  <2>2. {"run", "starved", "produce"} \subseteq Parts
    BY DEF Parts
  <2>3. QED
    BY <1>3, <2>1, <2>2 DEF Enter, GiveBack, PartStep, ShareNext, ClaimNext,
         ProduceNext, FinishJob, Take, Leave
<1>7. pc'[w] \in {"share", "claim", "run"} => list'[w] = tasks
  <2>1. CASE Enter(w) \/ GiveBack(w)
    BY <2>1, <1>3 DEF Enter, GiveBack, BeginPart, Goto, TypeOK, PcOK
  <2>2. CASE PartStep(w)
    BY <2>2, <1>3, PartKeepsList
  <2>3. QED
    BY <2>1, <2>2
<1>8. PICK q \in Parts \cup {"giveback", "arrive"} : Goto(w, q)
  BY <1>6
<1>9. pc'[w] = q /\ pc'[Caller] = pc[Caller]
  BY <1>4, <1>8, OthersStay
<1>10. ~(w \in Out)' /\ Place(w)'
  BY <1>2, <1>4, <1>8, <1>9 DEF Out, Place, Resting, Parts
<1>11. QED
  BY <1>2, <1>4, <1>5, <1>7, <1>8, <1>9, <1>10, WorkerKeepsCore

\* The worker leaves the round: one more is out, and `arrived` counts it.
LEMMA ArriveCore ==
    ASSUME TypeOK, Core, NEW w \in Workers, Arrive(w)
    PROVE  Core'
<1>1. /\ UNCHANGED <<threads, generation, tasks, stopping, seen, list>>
      /\ arrived' = arrived + 1 /\ Goto(w, "spin") /\ pc[w] = "arrive"
  BY DEF Arrive, header, local
<1>2. pc[Caller] \in Open /\ seen[w] = generation /\ w \notin Out
  BY <1>1, InRoundOpen
<1>3. /\ Workers' = Workers
      /\ pc'[Caller] = pc[Caller] /\ pc'[w] = "spin"
      /\ \A p \in Procs \ {w} : pc'[p] = pc[p]
      /\ \A u \in Workers \ {w} : (u \in Out)' <=> u \in Out
      /\ \A u \in Workers \ {w} : Place(u)'
      /\ Unborn'
  BY <1>1, OthersStay
<1>4. (w \in Out)'
  BY <1>1, <1>2, <1>3 DEF Out, Resting
<1>5. Out' = Out \cup {w}
  <2>1. Out \subseteq Workers /\ Out' \subseteq Workers'
    BY DEF Out
  <2>2. QED
    BY <1>3, <1>4, <2>1
<1>6. Cardinality(Out') = Cardinality(Out) + 1
  BY <1>2, <1>5, OutFacts, FS_AddElement
<1>7. ArrivedCounts'
  BY <1>1, <1>2, <1>3, <1>6 DEF Core, ArrivedCounts, Open, Parts
<1>8. WorkerPlace'
  BY <1>3, <1>4 DEF WorkerPlace, Place
<1>9. ListPublished'
  BY <1>1, <1>3 DEF Core, ListPublished
<1>10. Stopping'
  BY <1>1, <1>3 DEF Core, Stopping
<1>11. QED
  BY <1>3, <1>7, <1>8, <1>9, <1>10 DEF Core

\* A step of the caller that wakes nobody and keeps the generation.
LEMMA CallerMoves ==
    ASSUME TypeOK, Core, NEW there, Goto(Caller, there),
           UNCHANGED <<threads, generation, seen>>
    PROVE  /\ Workers' = Workers /\ Out' = Out /\ Unborn'
           /\ pc'[Caller] = there
           /\ \A p \in Procs \ {Caller} : pc'[p] = pc[p]
<1>1. Workers' = Workers
  BY DEF Workers
<1>2. pc'[Caller] = there /\ \A p \in Procs \ {Caller} : pc'[p] = pc[p]
  BY CallerProc DEF Goto, TypeOK, PcOK
<1>3. Out' = Out
  BY <1>1, <1>2, WorkerProcs DEF Out
<1>4. Unborn'
  BY <1>1, <1>2 DEF Core, Unborn
<1>5. QED
  BY <1>1, <1>2, <1>3, <1>4

\* With every worker out, no worker is in a part of a round.
LEMMA NobodyInPart ==
    ASSUME TypeOK, Core, Out = Workers
    PROVE  \A p \in Procs \ {Caller} : pc[p] \notin Parts
<1>1. \A w \in Workers : pc[w] \notin Parts
  BY DEF Out, Resting, Parts
<1>2. QED
  BY <1>1 DEF Core, Unborn, Parts

\* The caller's part of the round.
LEMMA CallerPartCore ==
    ASSUME TypeOK, Core, PartStep(Caller)
    PROVE  Core'
<1>1. UNCHANGED <<threads, generation, arrived, tasks, stopping, seen>>
  BY DEF PartStep, ShareNext, ClaimNext, ProduceNext, FinishJob, shared, header
<1>2. pc[Caller] \in Open
  BY DEF PartStep, ShareNext, ClaimNext, ProduceNext, FinishJob, Open, Parts
<1>3. PICK there \in Parts \cup {"drain"} : Goto(Caller, there)
  <2>1. PartOf(mode) \in Parts
    BY PartOfPc DEF TypeOK
  <2>2. {"run", "starved"} \subseteq Parts
    BY DEF Parts
  <2>3. QED
    BY <2>1, <2>2 DEF PartStep, ShareNext, ClaimNext, ProduceNext, FinishJob, Take,
                      Leave
<1>4. /\ Workers' = Workers /\ Out' = Out /\ Unborn'
      /\ pc'[Caller] = there
      /\ \A p \in Procs \ {Caller} : pc'[p] = pc[p]
  BY <1>1, <1>3, CallerMoves
<1>5. pc'[Caller] \in Open
  BY <1>4 DEF Open
<1>6. WorkerPlace'
  BY <1>1, <1>2, <1>4, <1>5, WorkerProcs
     DEF Core, WorkerPlace, Place, Open, Ending, Parts
<1>7. ArrivedCounts'
  BY <1>1, <1>2, <1>4, <1>5 DEF Core, ArrivedCounts, Open, Parts
<1>8. ListPublished'
  <2>1. pc'[Caller] \in {"share", "claim", "run"} => list'[Caller] = tasks
    BY PartKeepsList, CallerProc
  <2>2. \A p \in Procs \ {Caller} : list'[p] = list[p]
    BY CallerProc DEF PartStep, ShareNext, ClaimNext, ProduceNext, FinishJob, Take,
           Leave, TypeOK
  <2>3. QED
    BY <1>1, <1>2, <1>4, <2>1, <2>2 DEF Core, ListPublished
<1>9. Stopping'
  BY <1>1, <1>2, <1>5 DEF Core, Stopping, Open, Ending, Parts
<1>10. QED
  BY <1>4, <1>6, <1>7, <1>8, <1>9 DEF Core

\* Between rounds: the caller runs jobs itself, or has nothing to do.
LEMMA BetweenCore ==
    ASSUME TypeOK, Core,
           \/ \E n \in 1..MaxJobs : RunInline(n)
           \/ ProduceInline \/ InlineNext \/ InlineSubmit \/ InlineJob \/ InlineClose
    PROVE  Core'
<1>1. /\ UNCHANGED <<threads, generation, arrived, tasks, stopping, seen, list>>
      /\ pc[Caller] \in Between
  BY DEF RunInline, ProduceInline, InlineNext, InlineSubmit, InlineJob, InlineClose,
         NewRound, shared, header, local, Between
<1>2. Out = Workers
  BY <1>1, AllOut
<1>3. PICK there \in Between : Goto(Caller, there)
  <2>1. CASE InlineNext /\ pc' = pc
    <3>1. pc' = [pc EXCEPT ![Caller] = "inline"]
      BY <2>1, CallerProc DEF InlineNext, TypeOK, PcOK
    <3>2. QED
      BY <3>1 DEF Goto, Between
  <2>2. CASE ~(InlineNext /\ pc' = pc)
    BY <2>2 DEF RunInline, ProduceInline, InlineNext, InlineSubmit, InlineJob,
                InlineClose, Return, Between
  <2>3. QED
    BY <2>1, <2>2
<1>4. /\ Workers' = Workers /\ Out' = Out /\ Unborn' /\ pc'[Caller] = there
      /\ \A p \in Procs \ {Caller} : pc'[p] = pc[p]
  BY <1>1, <1>3, CallerMoves
<1>5. pc'[Caller] \notin Open \cup Ending \cup {"wake"} \cup Parts
  BY <1>4 DEF Between, Open, Ending, Parts
<1>6. pc[Caller] \notin Ending
  BY <1>1 DEF Between, Ending
<1>7. WorkerPlace'
  BY <1>2, <1>4 DEF WorkerPlace, Place
<1>8. ListPublished'
  BY <1>1, <1>2, <1>4, <1>5, NobodyInPart DEF ListPublished, Parts
<1>9. ArrivedCounts' /\ Stopping'
  BY <1>1, <1>5, <1>6 DEF Core, ArrivedCounts, Stopping
<1>10. QED
  BY <1>4, <1>7, <1>8, <1>9 DEF Core

\* Reserving and publishing a round that no worker is told of yet.
LEMMA PublishCore ==
    ASSUME TypeOK, Core, NEW n, NEW claim, RunJobs(n, claim)
    PROVE  Core'
<1>1. /\ UNCHANGED <<threads, generation, stopping, seen, list>>
      /\ pc[Caller] = "idle" /\ Goto(Caller, "wake")
      /\ tasks' = round + 1 /\ arrived' = 0
  BY DEF RunJobs, NewRound, Publish, local
<1>2. Out = Workers
  BY <1>1, AllOut DEF Between
<1>3. /\ Workers' = Workers /\ Out' = Out /\ Unborn' /\ pc'[Caller] = "wake"
      /\ \A p \in Procs \ {Caller} : pc'[p] = pc[p]
  BY <1>1, CallerMoves
<1>4. WorkerPlace'
  BY <1>2, <1>3 DEF WorkerPlace, Place
<1>5. ArrivedCounts'
  BY <1>1, <1>3 DEF ArrivedCounts, Open, Parts
<1>6. ListPublished'
  <2>1. tasks' # 0
    BY <1>1 DEF TypeOK
  <2>2. QED
    BY <2>1, <1>2, <1>3, NobodyInPart DEF ListPublished, Parts
<1>7. Stopping'
  BY <1>1, <1>3 DEF Core, Stopping, Ending
<1>8. QED
  BY <1>3, <1>4, <1>5, <1>6, <1>7 DEF Core

\* Draining, and joining: nothing the invariant reads changes.
LEMMA WaitCore ==
    ASSUME TypeOK, Core, Drain \/ Join
    PROVE  Core'
<1>1. UNCHANGED <<threads, generation, arrived, tasks, stopping, seen, list>>
  BY DEF Drain, Join, shared, header, local
<1>2. PICK there : /\ Goto(Caller, there)
                   /\ \/ pc[Caller] = "drain" /\ there = "barrier"
                      \/ pc[Caller] = "join" /\ there = "freed"
  BY DEF Drain, Join
<1>3. /\ Workers' = Workers /\ Out' = Out /\ Unborn' /\ pc'[Caller] = there
      /\ \A p \in Procs \ {Caller} : pc'[p] = pc[p]
  BY <1>1, <1>2, CallerMoves
<1>4. /\ pc[Caller] \in Open <=> pc'[Caller] \in Open
      /\ pc[Caller] \in Ending <=> pc'[Caller] \in Ending
      /\ pc[Caller] # "wake" /\ pc'[Caller] # "wake" /\ pc'[Caller] \notin Parts
  BY <1>2, <1>3 DEF Open, Ending, Parts
<1>5. WorkerPlace'
  BY <1>1, <1>3, <1>4, WorkerProcs DEF Core, WorkerPlace, Place
<1>6. ArrivedCounts' /\ Stopping'
  BY <1>1, <1>3, <1>4 DEF Core, ArrivedCounts, Stopping
<1>7. ListPublished'
  BY <1>1, <1>3, <1>4 DEF Core, ListPublished, Parts
<1>8. QED
  BY <1>3, <1>5, <1>6, <1>7 DEF Core

\* The barrier: `arrived` counts every worker, so every worker is out.
LEMMA BarrierCore ==
    ASSUME TypeOK, Core, Barrier
    PROVE  Core'
<1>1. /\ UNCHANGED <<threads, generation, stopping, seen, list>>
      /\ pc[Caller] = "barrier" /\ Goto(Caller, "idle") /\ arrived >= threads
  BY DEF Barrier, Return, local
<1>2. Out = Workers
  <2>1. arrived = Cardinality(Out)
    BY <1>1 DEF Core, ArrivedCounts, Open
  <2>2. QED
    BY <2>1, <1>1, OutFacts, WorkerProcs
<1>3. /\ Workers' = Workers /\ Out' = Out /\ Unborn' /\ pc'[Caller] = "idle"
      /\ \A p \in Procs \ {Caller} : pc'[p] = pc[p]
  BY <1>1, CallerMoves
<1>4. WorkerPlace'
  BY <1>2, <1>3 DEF WorkerPlace, Place
<1>5. ArrivedCounts' /\ Stopping'
  BY <1>1, <1>3 DEF Core, ArrivedCounts, Stopping, Open, Parts, Ending
<1>6. ListPublished'
  BY <1>2, <1>3, NobodyInPart DEF ListPublished, Open, Parts
<1>7. QED
  BY <1>3, <1>4, <1>5, <1>6 DEF Core

\* A broadcast keeps a resting worker resting and a working one working.
LEMMA BroadcastMoves ==
    ASSUME TypeOK, Core, NEW there, Broadcast(there), UNCHANGED <<threads, seen>>
    PROVE  /\ Workers' = Workers /\ pc'[Caller] = there /\ Unborn'
           /\ \A p \in Procs \ {Caller} :
                 /\ pc[p] \in Resting <=> pc'[p] \in Resting
                 /\ pc[p] \in Parts <=> pc'[p] \in Parts
                 /\ pc[p] \notin {"parked", "starved"} => pc'[p] = pc[p]
                 /\ pc'[p] \in {"share", "claim", "run"} => pc'[p] = pc[p]
<1>1. Workers' = Workers
  BY DEF Workers
<1>2. /\ pc'[Caller] = there
      /\ \A p \in Procs \ {Caller} :
            pc'[p] = IF pc[p] = "parked" THEN "lock"
                     ELSE IF pc[p] = "starved" THEN "produce" ELSE pc[p]
  BY CallerProc DEF Broadcast
<1>3. Unborn'
  BY <1>1, <1>2 DEF Core, Unborn
<1>4. QED
  BY <1>1, <1>2, <1>3 DEF Resting, Parts

\* Opening a round: every worker is out, and has the bump to see.
LEMMA OpenCore ==
    ASSUME TypeOK, Core, Out = Workers, NEW there \in Open, Broadcast(there),
           UNCHANGED <<threads, stopping, seen>>, generation' = generation + 1,
           arrived' = 0, tasks' # 0, pc[Caller] \notin Ending,
           \A p \in Procs \ {Caller} : list'[p] = list[p],
           there \in {"share", "claim", "run"} => list'[Caller] = tasks'
    PROVE  Core'
<1>1. /\ Workers' = Workers /\ pc'[Caller] = there /\ Unborn'
      /\ \A p \in Procs \ {Caller} :
            /\ pc[p] \in Resting <=> pc'[p] \in Resting
            /\ pc[p] \in Parts <=> pc'[p] \in Parts
  BY BroadcastMoves
<1>2. \A w \in Workers : seen'[w] # generation' /\ pc'[w] \in Resting
  BY <1>1, WorkerProcs DEF Out, TypeOK
<1>3. Out' = {}
  BY <1>1, <1>2 DEF Out
<1>4. WorkerPlace'
  BY <1>1, <1>2 DEF WorkerPlace, Place
<1>5. there # "wake" /\ there \notin Ending
  BY DEF Open, Ending, Parts
<1>6. ArrivedCounts'
  BY <1>1, <1>3, <1>5, FS_EmptySet DEF ArrivedCounts
<1>7. ListPublished'
  BY <1>1, NobodyInPart DEF ListPublished, Parts
<1>8. Stopping'
  BY <1>1, <1>5 DEF Core, Stopping
<1>9. QED
  BY <1>1, <1>4, <1>6, <1>7, <1>8 DEF Core

LEMMA WakeCore ==
    ASSUME TypeOK, Core, Wake
    PROVE  Core'
<1>1. /\ pc[Caller] = "wake" /\ Broadcast(PartOf(mode))
      /\ UNCHANGED <<threads, stopping, seen, tasks, arrived>>
      /\ generation' = generation + 1
      /\ list' = [list EXCEPT ![Caller] = tasks]
  BY DEF Wake, BeginPart
<1>2. Out = Workers
  BY <1>1, AllOut
<1>3. arrived = 0 /\ tasks # 0 /\ pc[Caller] \notin Ending
  BY <1>1 DEF Core, ArrivedCounts, ListPublished, Ending
<1>4. PartOf(mode) \in Open
  BY PartOfPc DEF TypeOK, Open
<1>5. list'[Caller] = tasks /\ \A p \in Procs \ {Caller} : list'[p] = list[p]
  BY <1>1, CallerProc DEF TypeOK
<1>6. QED
  BY <1>1, <1>2, <1>3, <1>4, <1>5, OpenCore

LEMMA ProduceBeginCore ==
    ASSUME TypeOK, Core, ProduceBegin
    PROVE  Core'
<1>1. /\ pc[Caller] = "idle" /\ Broadcast("submit")
      /\ UNCHANGED <<threads, stopping, seen, list>>
      /\ generation' = generation + 1 /\ tasks' = round + 1 /\ arrived' = 0
  BY DEF ProduceBegin, NewRound, Publish, local
<1>2. Out = Workers
  BY <1>1, AllOut DEF Between
<1>3. tasks' # 0 /\ pc[Caller] \notin Ending /\ "submit" \in Open
  BY <1>1 DEF TypeOK, Ending, Open
<1>4. QED
  BY <1>1, <1>2, <1>3, OpenCore

\* Handing over a job, and closing the round: the workers stay in it.
LEMMA SubmitCore ==
    ASSUME TypeOK, Core, Submit \/ Close
    PROVE  Core'
<1>1. /\ UNCHANGED <<threads, generation, arrived, tasks, stopping, seen, list>>
      /\ pc[Caller] = "submit"
  BY DEF Submit, Close, header, local
<1>2. PICK there \in {"submit", "produce"} : Broadcast(there)
  BY DEF Submit, Close
<1>3. /\ Workers' = Workers /\ pc'[Caller] = there /\ Unborn'
      /\ \A p \in Procs \ {Caller} :
            /\ pc[p] \in Resting <=> pc'[p] \in Resting
            /\ pc[p] \in Parts <=> pc'[p] \in Parts
            /\ pc[p] \notin {"parked", "starved"} => pc'[p] = pc[p]
            /\ pc'[p] \in {"share", "claim", "run"} => pc'[p] = pc[p]
  BY <1>1, <1>2, BroadcastMoves
<1>4. pc[Caller] \in Open /\ pc'[Caller] \in Open
  BY <1>1, <1>3 DEF Open, Parts
<1>5. Out' = Out
  BY <1>1, <1>3, WorkerProcs DEF Out
<1>6. WorkerPlace'
  <2> SUFFICES ASSUME NEW w \in Workers PROVE Place(w)'
    BY <1>3 DEF WorkerPlace
  <2>1. Place(w) /\ w \in Procs \ {Caller}
    BY WorkerProcs DEF Core, WorkerPlace
  <2>2. CASE pc[w] \in Resting
    BY <1>1, <1>3, <1>4, <1>5, <2>1, <2>2 DEF Place, Open, Ending, Parts, Resting
  <2>3. CASE pc[w] \in Parts
    BY <1>1, <1>3, <1>4, <1>5, <2>1, <2>3 DEF Place, Out, Open, Ending, Parts, Resting
  <2>4. CASE pc[w] \notin Resting \cup Parts
    <3>1. pc'[w] = pc[w]
      BY <1>3, <2>1, <2>4 DEF Resting, Parts
    <3>2. QED
      BY <1>1, <1>4, <1>5, <2>1, <3>1 DEF Place, Open, Ending, Parts
  <2>5. QED
    BY <2>2, <2>3, <2>4
<1>7. ArrivedCounts'
  BY <1>1, <1>3, <1>4, <1>5 DEF Core, ArrivedCounts
<1>8. ListPublished'
  BY <1>1, <1>3, <1>4 DEF Core, ListPublished
<1>9. Stopping'
  BY <1>1, <1>4 DEF Core, Stopping, Open, Ending, Parts
<1>10. QED
  BY <1>3, <1>6, <1>7, <1>8, <1>9 DEF Core

LEMMA ReleaseCore ==
    ASSUME TypeOK, Core, Release
    PROVE  Core'
<1>1. /\ UNCHANGED <<threads, generation, arrived, tasks, seen, list>>
      /\ pc[Caller] = "idle" /\ Broadcast("join") /\ stopping' = TRUE
  BY DEF Release, local
<1>2. Out = Workers
  BY <1>1, AllOut DEF Between
<1>3. /\ Workers' = Workers /\ pc'[Caller] = "join" /\ Unborn'
      /\ \A p \in Procs \ {Caller} :
            /\ pc[p] \in Resting <=> pc'[p] \in Resting
            /\ pc[p] \in Parts <=> pc'[p] \in Parts
  BY <1>1, BroadcastMoves
<1>4. Out' = Workers
  BY <1>1, <1>2, <1>3, WorkerProcs DEF Out
<1>5. WorkerPlace'
  BY <1>3, <1>4 DEF WorkerPlace, Place
<1>6. ArrivedCounts' /\ Stopping'
  BY <1>1, <1>3 DEF ArrivedCounts, Stopping, Open, Ending, Parts
<1>7. ListPublished'
  BY <1>1, <1>2, <1>3, NobodyInPart DEF ListPublished, Open, Parts
<1>8. QED
  BY <1>3, <1>5, <1>6, <1>7 DEF Core

LEMMA CoreNext == TypeOK /\ Core /\ [Next]_vars => Core'
<1> SUFFICES ASSUME TypeOK, Core, [Next]_vars PROVE Core'
  OBVIOUS
<1>1. CASE UNCHANGED vars
  BY <1>1 DEF vars, shared, header, local, Core, WorkerPlace, Place, ArrivedCounts,
              ListPublished, Unborn, Stopping, Out, Workers
<1>2. ASSUME NEW w \in Workers,
             \/ Spin(w) \/ Park(w) \/ SpuriousWakeup(w)
             \/ Check(w) \/ Enter(w) \/ GiveBack(w) \/ Arrive(w)
             \/ PartStep(w)
      PROVE  Core'
  BY <1>2, RestCore, CheckCore, InRoundCore, ArriveCore
<1>3. CASE PartStep(Caller)
  BY <1>3, CallerPartCore
<1>4. CASE CallerAlone
  BY <1>4, BetweenCore, PublishCore, WaitCore, BarrierCore DEF CallerAlone
<1>5. CASE Broadcasts
  BY <1>5, WakeCore, ProduceBeginCore, SubmitCore, ReleaseCore DEF Broadcasts
<1>6. QED
  BY <1>1, <1>2, <1>3, <1>4, <1>5, StepKinds

LEMMA CoreInit == Init => Core
<1> SUFFICES ASSUME Init PROVE Core
  OBVIOUS
<1>1. TypeOK
  BY TypeInit
<1>2. pc[Caller] = "idle"
  BY CallerProc DEF Init
<1>3. \A w \in Workers : w \in Out
  <2>1. \A w \in Workers : pc[w] = "spin" /\ seen[w] = 0
    BY <1>1, WorkerProcs DEF Init, Workers
  <2>2. QED
    BY <2>1 DEF Out, Resting, Init
<1>4. Unborn /\ \A p \in Procs : pc[p] \notin {"share", "claim", "run"}
  <2>1. \A p \in Procs : p < threads /\ p # Caller => p \in Workers
    BY <1>1, Bounds, WorkerProcs DEF Procs, Workers
  <2>2. QED
    BY <2>1 DEF Init, Unborn
<1>5. QED
  BY <1>2, <1>3, <1>4
     DEF Init, Core, WorkerPlace, Place, ArrivedCounts, ListPublished, Stopping,
         Open, Ending, Parts

\* The inductive invariant behind it: where each worker can be.
THEOREM PlacesHold == Spec => []Placed
<1>1. Init => TypeOK /\ JobsExist /\ Core
  BY TypeInit, CoreInit, CallerProc DEF Init, JobsExist
<1>2. TypeOK /\ JobsExist /\ Core /\ [Next]_vars => (TypeOK /\ JobsExist /\ Core)'
  BY TypeNext, CoreNext
<1>3. TypeOK /\ JobsExist /\ Core <=> Placed
  BY DEF Placed, Core
<1>4. QED
  BY <1>1, <1>2, <1>3, PTL DEF Spec

\* No thread that is in a part of a round reads a list that its caller has
\* cleared or replaced: the caller gets past `arrived >= threads` only when
\* every worker has left.
THEOREM NoLateReader == Spec => []ListAlive
<1>1. Placed => ListAlive
  <2> SUFFICES ASSUME Placed, NEW p \in Procs, pc[p] \in Parts
               PROVE  tasks # 0 /\ (pc[p] \notin {"produce", "starved"} => list[p] = tasks)
    BY DEF ListAlive, InPart
  <2>1. TypeOK /\ Core
    BY DEF Placed, Core
  <2>2. pc[Caller] \in Open
    <3>1. CASE p = Caller
      BY <3>1 DEF Open
    <3>2. CASE p \in Workers
      BY <3>2, <2>1, InRoundOpen
    <3>3. CASE p \notin Workers /\ p # Caller
      BY <3>3, <2>1 DEF Core, Unborn, Parts
    <3>4. QED
      BY <3>1, <3>2, <3>3
  <2>3. QED
    BY <2>1, <2>2 DEF Core, ListPublished, Parts
<1>2. QED
  BY <1>1, PlacesHold, PTL

\* A caller that has returned has left nobody in its round: between rounds
\* every worker is out of the last one.
THEOREM RoundsAreClosed == Spec => [](pc[Caller] \in Between => Out = Workers)
<1>1. Placed => (pc[Caller] \in Between => Out = Workers)
  BY AllOut DEF Placed, Core
<1>2. QED
  BY <1>1, PlacesHold, PTL

-------------------------------------------------------------------------------
(* Whose the jobs and the slots are, and that the pool keeps the contract  *)
(* of JobRounds.                                                           *)

LEMMA PlacedFacts ==
    ASSUME Placed
    PROVE  /\ TypeOK /\ Core /\ JobsExist
           /\ threads \in Nat /\ participants \in Nat
           /\ Workers \subseteq Procs \ {Caller} /\ Caller \in Procs
           /\ \A w \in Workers : w \in Nat /\ w < threads
<1>1. TypeOK /\ Core /\ JobsExist
  BY DEF Placed, Core
<1>2. threads \in Nat /\ participants \in Nat
  BY <1>1, Bounds, WorkerProcs DEF TypeOK
<1>3. QED
  BY <1>1, <1>2, WorkerProcs, CallerProc DEF Workers

LEMMA WorkersNext == Placed' => (Workers \subseteq Procs)'
<1>1. Placed => Workers \subseteq Procs
  BY PlacedFacts
<1>2. QED
  BY <1>1, PTL

\* The places and the invariant of the places after a step.
LEMMA PlacedNext == Placed /\ [Next]_vars => Placed'
BY TypeNext, CoreNext DEF Placed, Core

\* A thread in a part is in the round in progress.
LEMMA PartInRound ==
    ASSUME Placed, NEW p \in Procs, InPart(p) \/ pc[p] = "giveback"
    PROVE  /\ InRound /\ pc[Caller] \in Open /\ pc[Caller] # "wake"
           /\ p = Caller \/ (p \in Workers /\ seen[p] = generation /\ p \notin Out)
<1>1. TypeOK /\ Core
  BY PlacedFacts
<1>2. pc[Caller] \in Open => InRound /\ pc[Caller] # "wake"
  BY DEF Open, InRound, Parts
<1>3. CASE p = Caller
  <2>1. pc[Caller] # "giveback"
    BY <1>1 DEF TypeOK, PcOK, CallerPcs, Parts
  <2>2. pc[Caller] \in Open
    BY <1>3, <2>1 DEF InPart, Open
  <2>3. QED
    BY <1>2, <1>3, <2>2
<1>4. CASE p \in Workers
  BY <1>1, <1>2, <1>4, InRoundOpen DEF InPart
<1>5. CASE p # Caller /\ p \notin Workers
  BY <1>1, <1>5 DEF Core, Unborn, InPart, Parts
<1>6. QED
  BY <1>3, <1>4, <1>5

\* So outside a round nobody is in a part, before a step and after it.
Apart == ~InRound => \A p \in Procs : ~InPart(p) /\ pc[p] # "giveback"

LEMMA NobodyApart == Placed => Apart
BY PartInRound DEF Apart

LEMMA NobodyApartNext == Placed' => Apart'
BY NobodyApart, PTL

-------------------------------------------------------------------------------
(* Slots.                                                                  *)

LEMMA HoldingFinite ==
    ASSUME Placed
    PROVE  IsFiniteSet(Holding) /\ Cardinality(Holding) \in Nat
<1>1. IsFiniteSet(Workers)
  BY PlacedFacts, OutFacts
<1>2. Holding \in SUBSET Workers
  BY DEF Holding
<1>3. QED
  BY <1>1, <1>2, FS_Subset, FS_CardinalityType

\* Outside a round, and once every worker has left, nobody holds a slot.
LEMMA NobodyHolds ==
    /\ ~InRound => Holding = {}
    /\ Out = Workers /\ pc[Caller] # "wake" => Holding = {}
BY DEF Holding, Late, Out, InPart, Resting, Parts

\* A step of one worker that does not give a slot back.
LEMMA SameHolding ==
    ASSUME Placed, SlotsHeld, Placed', NEW w \in Workers, NEW q, Goto(w, q),
           UNCHANGED <<threads, generation, participants, helpers>>,
           \A u \in Workers \ {w} : seen'[u] = seen[u],
           (w \in Holding)' <=> w \in Holding,
           q \in Parts \cup {"giveback"} => w < participants
    PROVE  SlotsHeld'
<1>1. /\ Workers' = Workers /\ pc'[Caller] = pc[Caller] /\ pc'[w] = q
      /\ \A u \in Workers \ {w} : pc'[u] = pc[u]
  BY PlacedFacts, OthersStay
<1>2. InRound' = InRound
  BY <1>1 DEF InRound
<1>3. \A u \in Workers \ {w} : (u \in Holding)' <=> u \in Holding
  BY <1>1, <1>2 DEF Holding, Late, InPart
<1>4. Holding' = Holding
  BY <1>1, <1>3 DEF Holding
<1>5. \A u \in Workers' : InPart(u)' \/ pc'[u] = "giveback" => u < participants'
  BY <1>1 DEF SlotsHeld, InPart
<1>6. QED
  BY <1>1, <1>2, <1>4, <1>5 DEF SlotsHeld

LEMMA WorkerSlots ==
    ASSUME Placed, SlotsHeld, Placed', NEW w \in Workers,
           \/ Spin(w) \/ Park(w) \/ SpuriousWakeup(w)
           \/ Check(w) \/ Enter(w) \/ GiveBack(w) \/ Arrive(w)
    PROVE  SlotsHeld'
<1>1. TypeOK /\ Core /\ w \in Procs \ {Caller} /\ Caller \in Procs /\ pc \in [Procs -> WorkerPcs \cup CallerPcs]
  BY PlacedFacts DEF TypeOK, PcOK
<1> USE <1>1
<1>2. CASE Spin(w) \/ Park(w)
  <2>1. /\ pc[w] \in {"spin", "lock"}
        /\ UNCHANGED <<threads, generation, participants, helpers, seen>>
        /\ \E q \in {"check", "lock", "parked"} : Goto(w, q)
    BY <1>2 DEF Spin, Park, shared, header, local
  <2>2. PICK q \in {"check", "lock", "parked"} : Goto(w, q)
    BY <2>1
  <2>3. pc'[w] = q /\ pc'[Caller] = pc[Caller] /\ Workers' = Workers
    BY <2>1, <2>2 DEF Goto, Workers
  <2>4. (w \in Holding)' <=> w \in Holding
    BY <2>1, <2>3 DEF Holding, Late, InPart, InRound, Parts
  <2>5. QED
    BY <2>1, <2>2, <2>4, SameHolding DEF Parts
<1>3. CASE SpuriousWakeup(w)
  <2>1. UNCHANGED <<threads, generation, participants, helpers, seen>>
    BY <1>3 DEF SpuriousWakeup, shared, header, local
  <2>2. \E q : \/ pc[w] = "parked" /\ q = "lock" /\ Goto(w, q)
               \/ pc[w] = "starved" /\ q = "produce" /\ Goto(w, q)
    BY <1>3 DEF SpuriousWakeup
  <2>3. PICK q : \/ pc[w] = "parked" /\ q = "lock" /\ Goto(w, q)
                 \/ pc[w] = "starved" /\ q = "produce" /\ Goto(w, q)
    BY <2>2
  <2>4. pc'[w] = q /\ pc'[Caller] = pc[Caller] /\ Workers' = Workers
    BY <2>1, <2>3 DEF Goto, Workers
  <2>5. (w \in Holding)' <=> w \in Holding
    BY <2>1, <2>3, <2>4 DEF Holding, Late, InPart, InRound, Parts
  <2>6. pc[w] = "starved" => w < participants
    BY DEF SlotsHeld, InPart, Parts
  <2>7. QED
    BY <2>1, <2>3, <2>5, <2>6, SameHolding DEF Parts
<1>4. CASE Check(w)
  <2>1. /\ pc[w] = "check" /\ UNCHANGED <<threads, generation, participants, helpers>>
        /\ \A u \in Workers \ {w} : seen'[u] = seen[u]
    BY <1>4, PlacedFacts DEF Check, shared, header, TypeOK
  <2>2. PICK q \in {"exited", "enter"} :
          /\ Goto(w, q)
          /\ q = "exited" => stopping
          /\ q = "enter" => ~stopping
    BY <1>4 DEF Check
  <2>3. pc'[w] = q /\ pc'[Caller] = pc[Caller] /\ Workers' = Workers
    BY <2>1, <2>2 DEF Goto, Workers
  <2>4. CASE q = "exited"
    <3>1. ~InRound
      BY <2>2, <2>4 DEF Core, Stopping, InRound, Ending, Parts
    <3>2. (w \in Holding)' <=> w \in Holding
      BY <3>1, <2>3 DEF Holding, InRound
    <3>3. QED
      BY <2>1, <2>2, <2>4, <3>2, SameHolding DEF Parts
  <2>5. CASE q = "enter"
    <3>1. pc[Caller] \in Open /\ seen[w] # generation
      BY <2>1, <2>2, <2>5 DEF Core, WorkerPlace, Place, Out, Resting, Parts, Stopping
    <3>2. (w \in Holding)' <=> w \in Holding
      BY <2>1, <2>3, <2>5, <3>1 DEF Holding, Late, InRound
    <3>3. QED
      BY <2>1, <2>2, <2>5, <3>2, SameHolding DEF Parts
  <2>6. QED
    BY <2>2, <2>4, <2>5
<1>5. CASE Enter(w)
  <2>1. pc[w] = "enter" /\ UNCHANGED <<threads, generation, participants, helpers, seen>>
    BY <1>5 DEF Enter, shared, header
  <2>2. CASE w < participants
    <3>1. Goto(w, PartOf(mode)) /\ PartOf(mode) \in Parts
      BY <1>5, <2>2, PartOfPc DEF Enter, TypeOK
    <3>2. pc'[w] \in Parts /\ pc'[Caller] = pc[Caller] /\ Workers' = Workers
      BY <2>1, <3>1 DEF Goto, Workers
    <3>3. (w \in Holding)' <=> w \in Holding
      BY <2>1, <2>2, <3>2 DEF Holding, Late, InRound, InPart
    <3>4. QED
      BY <2>1, <2>2, <3>1, <3>3, SameHolding
  <2>3. CASE ~(w < participants)
    <3>1. Goto(w, "arrive")
      BY <1>5, <2>3 DEF Enter
    <3>2. (w \in Holding)' <=> w \in Holding
      BY <2>1, <2>3 DEF Holding
    <3>3. QED
      BY <2>1, <3>1, <3>2, SameHolding DEF Parts
  <2>4. QED
    BY <2>2, <2>3
<1>6. CASE Arrive(w)
  <2>1. /\ pc[w] = "arrive" /\ Goto(w, "spin")
        /\ UNCHANGED <<threads, generation, participants, helpers, seen>>
    BY <1>6 DEF Arrive, header, local
  <2>2. pc[Caller] \in Open /\ seen[w] = generation
    BY <2>1, InRoundOpen
  <2>3. pc[Caller] # "wake"
    BY <2>2 DEF Open, Parts
  <2>4. pc'[w] = "spin" /\ pc'[Caller] = pc[Caller] /\ Workers' = Workers
    BY <2>1 DEF Goto, Workers
  <2>5. (w \in Holding)' <=> w \in Holding
    BY <2>1, <2>2, <2>3, <2>4 DEF Holding, Late, InPart, InRound, Parts
  <2>6. QED
    BY <2>1, <2>5, SameHolding DEF Parts
<1>7. CASE GiveBack(w)
  <2>1. /\ pc[w] = "giveback" /\ Goto(w, "arrive") /\ helpers' = helpers - 1
        /\ UNCHANGED <<threads, generation, participants, seen>>
    BY <1>7 DEF GiveBack, shared, header, local
  <2>2. InRound /\ pc[Caller] # "wake" /\ seen[w] = generation
    BY <2>1, PartInRound
  <2>3. /\ Workers' = Workers /\ pc'[Caller] = pc[Caller] /\ pc'[w] = "arrive"
        /\ \A u \in Workers \ {w} : pc'[u] = pc[u]
    BY <2>1, PlacedFacts DEF Workers, Goto
  <2>4. w \in Holding
    BY <2>1, <2>2 DEF Holding, SlotsHeld
  <2>5. InRound' = InRound
    BY <2>3 DEF InRound
  <2>6. \A u \in Workers \ {w} : (u \in Holding)' <=> u \in Holding
    <3> SUFFICES ASSUME NEW u \in Workers \ {w} PROVE (u \in Holding)' <=> u \in Holding
      OBVIOUS
    <3>1. pc'[u] = pc[u] /\ seen'[u] = seen[u]
      BY <2>1, <2>3
    <3>2. QED
      BY <2>1, <2>3, <2>5, <3>1 DEF Holding, Late, InPart
  <2>7. w \notin Holding'
    BY <2>1, <2>2, <2>3 DEF Holding, Late, InPart, Parts
  <2>8. Holding' = Holding \ {w}
    BY <2>3, <2>4, <2>6, <2>7 DEF Holding
  <2>9. Cardinality(Holding') = Cardinality(Holding) - 1
    BY <2>4, <2>8, HoldingFinite, FS_RemoveElement
  <2>10. \A u \in Workers' : InPart(u)' \/ pc'[u] = "giveback" => u < participants'
    BY <2>1, <2>3 DEF SlotsHeld, InPart, Parts
  <2>11. QED
    BY <2>1, <2>2, <2>3, <2>5, <2>9, <2>10 DEF SlotsHeld
<1>8. QED
  BY <1>2, <1>3, <1>4, <1>5, <1>6, <1>7

\* Where a step of a part leads.
LEMMA PartGoes ==
    ASSUME Placed, NEW p \in Procs, PartStep(p)
    PROVE  /\ InPart(p)
           /\ UNCHANGED <<threads, generation, participants, mode, helpers, seen, count, size>>
           /\ \E q \in Parts \cup {IF p = Caller THEN "drain" ELSE "giveback"} : Goto(p, q)
<1>1. TypeOK
  BY PlacedFacts
<1>2. PartOf(mode) \in Parts
  BY <1>1, PartOfPc DEF TypeOK
<1>3. {"run", "share", "claim", "produce", "starved"} = Parts
  BY DEF Parts
<1>4. CASE ShareNext(p)
  BY <1>3, <1>4 DEF ShareNext, Take, Leave, InPart, shared, header, work
<1>5. CASE ClaimNext(p)
  BY <1>3, <1>5 DEF ClaimNext, Take, Leave, InPart, header, work
<1>6. CASE ProduceNext(p)
  BY <1>3, <1>6 DEF ProduceNext, Take, Leave, InPart, header, work
<1>7. CASE FinishJob(p)
  BY <1>2, <1>3, <1>7 DEF FinishJob, InPart, header
<1>8. QED
  BY <1>4, <1>5, <1>6, <1>7 DEF PartStep

LEMMA PartSlots ==
    ASSUME Placed, SlotsHeld, Placed', NEW p \in Procs, PartStep(p)
    PROVE  SlotsHeld'
<1>1. /\ TypeOK /\ Workers \subseteq Procs \ {Caller} /\ Caller \in Procs
      /\ pc \in [Procs -> WorkerPcs \cup CallerPcs]
  BY PlacedFacts DEF TypeOK, PcOK
<1>2. /\ InPart(p)
      /\ UNCHANGED <<threads, generation, participants, helpers, seen>>
  BY PartGoes
<1>3. PICK q \in Parts \cup {IF p = Caller THEN "drain" ELSE "giveback"} : Goto(p, q)
  BY PartGoes
<1>4. InRound /\ pc[Caller] # "wake"
  BY <1>2, PartInRound
<1>5. CASE p = Caller
  <2>1. pc'[Caller] = q /\ \A w \in Workers : pc'[w] = pc[w]
    BY <1>1, <1>3, <1>5 DEF Goto
  <2>2. InRound' /\ pc'[Caller] # "wake"
    BY <1>3, <1>5, <2>1 DEF InRound, Parts
  <2>3. Workers' = Workers
    BY <1>2 DEF Workers
  <2>4. \A w \in Workers : (w \in Holding)' <=> w \in Holding
    <3> SUFFICES ASSUME NEW w \in Workers PROVE (w \in Holding)' <=> w \in Holding
      OBVIOUS
    <3>1. pc'[w] = pc[w] /\ seen'[w] = seen[w]
      BY <1>2, <2>1
    <3>2. QED
      BY <1>2, <1>4, <2>2, <2>3, <3>1 DEF Holding, Late, InPart
  <2>5. Holding' = Holding
    BY <2>3, <2>4 DEF Holding
  <2>6. QED
    BY <1>2, <1>4, <2>1, <2>2, <2>3, <2>5 DEF SlotsHeld, InPart
<1>6. CASE p # Caller
  <2>1. p \in Workers /\ seen[p] = generation
    BY <1>2, <1>6, PartInRound
  <2>2. p < participants
    BY <1>2, <2>1 DEF SlotsHeld
  <2>3. pc'[p] = q /\ pc'[Caller] = pc[Caller] /\ Workers' = Workers
    BY <1>1, <1>2, <1>3, <1>6 DEF Goto, Workers
  <2>4. (p \in Holding)' <=> p \in Holding
    BY <1>2, <1>3, <1>4, <1>6, <2>1, <2>2, <2>3 DEF Holding, InPart, InRound
  <2>5. QED
    BY <1>2, <1>3, <2>1, <2>2, <2>4, SameHolding
<1>7. QED
  BY <1>5, <1>6

\* The caller's steps between rounds, and those that end one.
LEMMA OutOfRoundSlots ==
    ASSUME Placed, SlotsHeld, Placed', ~InRound', helpers' = helpers, Out = Workers \/ ~InRound,
           pc[Caller] # "wake"
    PROVE  SlotsHeld'
<1>1. Holding = {} /\ Holding' = {}
  BY NobodyHolds DEF Holding
<1>2. \A w \in Workers' : ~InPart(w)' /\ pc'[w] # "giveback"
  <2>1. Workers' \subseteq Procs
    BY WorkersNext
  <2>2. QED
    BY <2>1, NobodyApartNext DEF Apart
<1>3. QED
  BY <1>1, <1>2 DEF SlotsHeld

\* The caller's steps inside a round that share out no slots.
LEMMA InRoundSlots ==
    ASSUME Placed, SlotsHeld, InRound, InRound',
           UNCHANGED <<threads, participants, helpers, seen>>,
           \A w \in Workers :
              /\ InPart(w)' <=> InPart(w)
              /\ pc'[w] = "giveback" <=> pc[w] = "giveback"
              /\ Late(w)' <=> Late(w)
    PROVE  SlotsHeld'
<1>1. Workers' = Workers
  BY DEF Workers
<1>2. Holding' = Holding
  BY <1>1 DEF Holding
<1>3. QED
  BY <1>1, <1>2 DEF SlotsHeld

\* The caller reserves slots for the workers that are to take part.
LEMMA ReserveSlots ==
    ASSUME Placed, SlotsHeld, Placed', pc[Caller] = "idle",
           NEW granted \in 0..MaxThreads, granted <= threads, Reserve(granted),
           UNCHANGED <<threads, seen>>, InRound',
           \/ pc'[Caller] = "wake" /\ UNCHANGED generation
           \/ generation' = generation + 1,
           \A w \in Workers :
              /\ InPart(w)' => InPart(w)
              /\ pc'[w] = "giveback" => pc[w] = "giveback"
    PROVE  SlotsHeld'
<1>1. ~InRound /\ pc[Caller] \in Between
  BY DEF InRound, Parts, Between
<1>2. Out = Workers /\ helpers = 0 /\ generation \in Nat
  BY <1>1, AllOut, PlacedFacts, NobodyHolds, FS_EmptySet DEF SlotsHeld, TypeOK
<1>3. \A w \in Workers : ~InPart(w) /\ pc[w] # "giveback"
  BY <1>1, PlacedFacts, NobodyApart DEF Apart
<1>4. Workers' = Workers /\ participants' = granted /\ helpers' = granted
  BY <1>2 DEF Workers, Reserve
<1>5. \A w \in Workers : w < granted => Late(w)'
  BY <1>2, <1>4 DEF Late, Out
<1>6. Holding' = 0..(granted - 1)
  <2>1. \A w : w \in Holding' <=> w \in Workers /\ w < granted
    BY <1>4, <1>5 DEF Holding
  <2>2. \A w : w \in Workers /\ w < granted <=> w \in 0..(granted - 1)
    BY PlacedFacts, Bounds DEF Workers
  <2>3. QED
    BY <2>1, <2>2
<1>7. Cardinality(Holding') = granted
  BY <1>6, FS_Interval, Bounds
<1>8. QED
  BY <1>3, <1>4, <1>7 DEF SlotsHeld

LEMMA CallerSlots ==
    ASSUME Placed, SlotsHeld, Placed', CallerAlone \/ Broadcasts
    PROVE  SlotsHeld'
<1>1. /\ TypeOK /\ Core /\ Workers \subseteq Procs \ {Caller} /\ Caller \in Procs
      /\ pc \in [Procs -> WorkerPcs \cup CallerPcs]
  BY PlacedFacts DEF TypeOK, PcOK
<1>2. ASSUME NEW there, Goto(Caller, there)
      PROVE  pc'[Caller] = there /\ \A w \in Workers : pc'[w] = pc[w]
  BY <1>1, <1>2 DEF Goto
<1>3. ASSUME NEW there, Broadcast(there)
      PROVE  /\ pc'[Caller] = there
             /\ \A w \in Workers :
                   /\ InPart(w)' <=> InPart(w)
                   /\ pc'[w] = "giveback" <=> pc[w] = "giveback"
                   /\ pc'[w] = "enter" <=> pc[w] = "enter"
  BY <1>1, <1>3 DEF Broadcast, InPart, Parts
<1>4. pc[Caller] \in Between => Out = Workers /\ ~InRound /\ pc[Caller] # "wake"
  BY <1>1, AllOut DEF InRound, Parts, Between
<1>5. CASE \/ \E n \in 1..MaxJobs : RunInline(n)
           \/ ProduceInline \/ InlineNext \/ InlineSubmit \/ InlineJob \/ InlineClose
  <2>1. pc[Caller] \in Between /\ helpers' = helpers
    BY <1>5 DEF RunInline, ProduceInline, InlineNext, InlineSubmit, InlineJob,
          InlineClose, NewRound, Between
  <2>2. pc'[Caller] \in Between
    BY <1>2, <1>5 DEF RunInline, ProduceInline, InlineNext, InlineSubmit, InlineJob,
          InlineClose, Return, Between
  <2>3. ~InRound'
    BY <2>2 DEF InRound, Parts, Between
  <2>4. QED
    BY <1>4, <2>1, <2>3, OutOfRoundSlots
<1>6. ASSUME NEW n \in 1..MaxJobs, NEW claim \in BOOLEAN, RunJobs(n, claim)
      PROVE  SlotsHeld'
  <2>1. PICK granted \in 0..MaxThreads : granted <= threads /\ Reserve(granted)
    BY <1>6 DEF RunJobs
  <2>2. pc[Caller] = "idle" /\ Goto(Caller, "wake") /\ UNCHANGED <<threads, generation, seen>>
    BY <1>6 DEF RunJobs, NewRound, local
  <2>3. pc'[Caller] = "wake" /\ \A w \in Workers : pc'[w] = pc[w]
    BY <1>2, <2>2
  <2>4. InRound'
    BY <2>3 DEF InRound
  <2>5. QED
    BY <2>1, <2>2, <2>3, <2>4, ReserveSlots DEF InPart
<1>7. CASE ProduceBegin
  <2>1. PICK granted \in 1..MaxThreads : granted <= threads /\ Reserve(granted)
    BY <1>7 DEF ProduceBegin
  <2>2. /\ pc[Caller] = "idle" /\ Broadcast("submit") /\ UNCHANGED <<threads, seen>>
        /\ generation' = generation + 1
    BY <1>7 DEF ProduceBegin, NewRound, local
  <2>3. InRound'
    BY <1>3, <2>2 DEF InRound
  <2>4. granted \in 0..MaxThreads
    BY Bounds
  <2>5. QED
    BY <1>3, <2>1, <2>2, <2>3, <2>4, ReserveSlots
<1>8. CASE Wake
  <2>1. /\ pc[Caller] = "wake" /\ Broadcast(PartOf(mode)) /\ generation' = generation + 1
        /\ UNCHANGED <<threads, participants, helpers, seen>>
    BY <1>8 DEF Wake
  <2>2. PartOf(mode) \in Parts
    BY <1>1, PartOfPc DEF TypeOK
  <2>3. InRound /\ InRound'
    BY <1>3, <2>1, <2>2 DEF InRound
  <2>4. \A w \in Workers : Late(w)' <=> Late(w)
    <3>1. generation \in Nat /\ Out = Workers
      BY <1>1, <2>1, AllOut DEF TypeOK
    <3>2. QED
      BY <2>1, <3>1 DEF Late, Out, Workers
  <2>5. QED
    BY <1>3, <2>1, <2>3, <2>4, InRoundSlots
<1>9. CASE Submit \/ Close
  <2>1. /\ pc[Caller] = "submit" /\ UNCHANGED <<threads, generation, participants, helpers, seen>>
        /\ \E there \in {"submit", "produce"} : Broadcast(there)
    BY <1>9 DEF Submit, Close, header, local
  <2>2. InRound /\ InRound' /\ pc'[Caller] # "wake"
    BY <1>3, <2>1 DEF InRound, Parts
  <2>3. \A w \in Workers : Late(w)' <=> Late(w)
    BY <1>3, <2>1, <2>2 DEF Late, Workers
  <2>4. QED
    BY <1>3, <2>1, <2>2, <2>3, InRoundSlots
<1>10. CASE Drain
  <2>1. /\ pc[Caller] = "drain" /\ Goto(Caller, "barrier")
        /\ UNCHANGED <<threads, generation, participants, helpers, seen>>
    BY <1>10 DEF Drain, shared, header, local
  <2>2. pc'[Caller] = "barrier" /\ \A w \in Workers : pc'[w] = pc[w]
    BY <1>2, <2>1
  <2>3. InRound /\ InRound'
    BY <2>1, <2>2 DEF InRound
  <2>4. \A w \in Workers : (Late(w)' <=> Late(w)) /\ (InPart(w)' <=> InPart(w))
    BY <2>1, <2>2 DEF Late, InPart, Workers
  <2>5. QED
    BY <2>1, <2>2, <2>3, <2>4, InRoundSlots
<1>11. CASE Barrier
  <2>1. pc[Caller] = "barrier" /\ arrived >= threads /\ helpers' = helpers /\ Goto(Caller, "idle")
    BY <1>11 DEF Barrier, Return
  <2>2. Out = Workers
    <3>1. arrived = Cardinality(Out)
      BY <1>1, <2>1 DEF Core, ArrivedCounts, Open
    <3>2. QED
      BY <1>1, <2>1, <3>1, OutFacts, PlacedFacts
  <2>3. ~InRound'
    BY <1>2, <2>1 DEF InRound, Parts
  <2>4. QED
    BY <2>1, <2>2, <2>3, OutOfRoundSlots
<1>12. CASE Release \/ Join
  <2>1. /\ pc[Caller] \in {"idle", "join"} /\ helpers' = helpers
        /\ Broadcast("join") \/ Goto(Caller, "freed")
    BY <1>12 DEF Release, Join
  <2>2. pc'[Caller] \in {"join", "freed"}
    BY <1>2, <1>3, <2>1
  <2>3. ~InRound /\ ~InRound'
    BY <2>1, <2>2 DEF InRound, Parts
  <2>4. QED
    BY <2>1, <2>3, OutOfRoundSlots
<1>13. QED
  BY <1>5, <1>6, <1>7, <1>8, <1>9, <1>10, <1>11, <1>12 DEF CallerAlone, Broadcasts

-------------------------------------------------------------------------------
(* Jobs.                                                                   *)

\* Thread p goes on with what it was at, or waits for a produced job, or is in
\* no part.
GoesOn(p) ==
    InPart(p)' =>
        \/ pc'[p] \in {"produce", "starved"} /\ mode = "produced"
        \/ pc'[p] = pc[p] /\ length'[p] = length[p] /\ job'[p] = job[p]

LEMMA JobsFacts ==
    ASSUME Placed, JobsHeld
    PROVE  /\ size \in 0..MaxJobs /\ size \in Nat /\ next \in Nat /\ done \in Nat
           /\ participants \in Nat /\ Stride \in Nat /\ Stride > 0
           /\ finished \subseteq 0..(size - 1)
           /\ IsFiniteSet(finished) /\ Cardinality(finished) \in Nat
           /\ Cardinality(finished) <= size
           /\ Cardinality(finished) = size => finished = 0..(size - 1)
           /\ \A p \in Procs : job[p] \in Nat /\ Share(p) \in Nat
           /\ \A p \in Workers : Share(p) = p
<1>1. /\ size \in 0..MaxJobs /\ size \in Nat /\ next \in Nat /\ done \in Nat
      /\ participants \in Nat /\ \A p \in Procs : job[p] \in Nat
  BY Bounds, PlacedFacts DEF TypeOK
<1>2. Stride \in Nat /\ Stride > 0
  BY <1>1 DEF Stride
<1>3. \A p \in Procs : Share(p) \in Nat
  BY <1>1, Bounds DEF Share, Procs
<1>4. finished \in SUBSET (0..(size - 1))
  BY DEF JobsHeld, RoundCounts
<1>5. IsFiniteSet(0..(size - 1)) /\ Cardinality(0..(size - 1)) = size
  BY <1>1, FS_Interval
<1>6. /\ IsFiniteSet(finished) /\ Cardinality(finished) \in Nat
      /\ Cardinality(finished) <= size
      /\ Cardinality(finished) = size => finished = 0..(size - 1)
  BY <1>4, <1>5, FS_Subset, FS_CardinalityType
<1>7. \A p \in Workers : Share(p) = p
  BY PlacedFacts DEF Share
<1>8. QED
  BY <1>1, <1>2, <1>3, <1>4, <1>6, <1>7

\* The rest of the remainders of naturals (tlapm has no theorems of them).
LEMMA Multiple ==
    ASSUME NEW s \in Nat, 0 < s, NEW d \in Int
    PROVE  /\ d >= 1 => s * d >= s
           /\ d <= -1 => s * d <= -s
OBVIOUS

LEMMA Divides ==
    ASSUME NEW i \in Nat, NEW s \in Nat, 0 < s
    PROVE  i \div s \in Int /\ i % s \in 0..(s - 1) /\ i = s * (i \div s) + (i % s)
OBVIOUS

LEMMA SameRemainder ==
    ASSUME NEW s \in Nat, 0 < s, NEW a \in Int, NEW b \in Int,
           NEW q \in 0..(s - 1), NEW r \in 0..(s - 1), s * a + q = s * b + r
    PROVE  q = r
<1> DEFINE d == a - b
<1>1. d \in Int /\ s * d = s * a - s * b
  OBVIOUS
<1>2. s * d = r - q
  <2> HIDE DEF d
  <2>1. s * a \in Int /\ s * b \in Int
    OBVIOUS
  <2>2. QED
    BY <1>1, <2>1
<1> HIDE DEF d
<1>3. s * d < s /\ s * d > -s
  BY <1>2
<1>4. d = 0
  BY <1>1, <1>3, Multiple
<1>5. QED
  BY <1>2, <1>4

LEMMA NextOfShare ==
    ASSUME NEW i \in Nat, NEW s \in Nat, 0 < s
    PROVE  (i + s) % s = i % s
<1> DEFINE a == (i + s) \div s
           b == i \div s
           q == (i + s) % s
           r == i % s
<1>1. i + s \in Nat
  OBVIOUS
<1>2. a \in Int /\ q \in 0..(s - 1) /\ i + s = s * a + q
  BY <1>1, Divides
<1>3. b \in Int /\ r \in 0..(s - 1) /\ i = s * b + r
  BY Divides
<1> HIDE DEF a, b, q, r
<1>4. s * b \in Int /\ s * (b + 1) = s * b + s /\ b + 1 \in Int
  BY <1>3
<1>5. s * (b + 1) + r = i + s
  BY <1>3, <1>4
<1>6. q = r
  BY <1>2, <1>3, <1>4, <1>5, SameRemainder
<1>7. QED
  BY <1>6 DEF q, r

LEMMA FirstOfShare ==
    ASSUME NEW i \in Nat, NEW s \in Nat, i < s
    PROVE  i % s = i
OBVIOUS

\* A step that runs no job and gives none to anybody.
LEMMA QuietJobs ==
    ASSUME Placed, JobsHeld, \A p \in Procs : GoesOn(p),
           UNCHANGED <<threads, size, finished, mode, participants, done, count>>,
           next' \in Nat, next' >= next, InRound' => InRound, RunInOrder',
           pc'[Caller] = "barrier" => done >= count,
           pc'[Caller] \in {"wake", "submit"} => pc[Caller] = pc'[Caller],
           \A w \in Workers : Late(w)' => Late(w)
    PROVE  JobsHeld'
<1>1. /\ \A p \in Procs : GoesOn(p)
      /\ Workers' = Workers /\ next \in Nat /\ "run" \in Parts /\ "share" \in Parts
      /\ "claim" \in Parts /\ "produce" \in Parts /\ "starved" \in Parts
      /\ size \in Nat /\ finished \subseteq Int
  BY JobsFacts DEF Workers, Parts
<1>2. ASSUME NEW p \in Procs, pc'[p] = "run"
      PROVE  pc[p] = "run" /\ job'[p] = job[p]
  BY <1>1, <1>2 DEF GoesOn, InPart
<1>3. SharedOneWay'
  BY <1>1 DEF GoesOn, InPart, JobsHeld, SharedOneWay
<1>4. RoundCounts'
  BY DEF JobsHeld, RoundCounts
<1>5. ClaimedBelowNext'
  <2>1. \A p \in Procs : job[p] \in Int
    BY JobsFacts
  <2>2. QED
    BY <1>1, <1>2, <2>1 DEF JobsHeld, ClaimedBelowNext
<1>6. SharesApart'
  <2>1. \A p \in Procs, j \in Int : InShare(p, j)' = InShare(p, j)
    BY DEF InShare, Share, Stride
  <2>2. ASSUME NEW p \in Procs, mode = "static", InPart(p)'
        PROVE  InPart(p) /\ job'[p] = job[p] /\ job[p] \in Int
    BY <1>1, <2>2, JobsFacts DEF GoesOn, InPart
  <2>3. ASSUME InRound', mode' = "static"
        PROVE  InRound /\ mode = "static"
    BY <2>3
  <2>4. ASSUME InRound', mode' = "static", NEW p \in Procs, InPart(p)'
        PROVE  /\ InShare(p, job[p])' /\ job'[p] = job[p]
               /\ \A j \in finished : InShare(p, j)' => j < job[p]
    BY <1>1, <2>1, <2>2, <2>3, <2>4 DEF JobsHeld, SharesApart
  <2>5. ASSUME InRound', mode' = "static", NEW p \in Workers, Late(p)'
        PROVE  \A j \in finished : ~InShare(p, j)'
    <3>1. p \in Procs
      BY PlacedFacts
    <3>2. QED
      BY <1>1, <2>1, <2>3, <2>5, <3>1 DEF JobsHeld, SharesApart
  <2>6. QED
    BY <1>1, <2>4, <2>5 DEF SharesApart, InShare
<1>7. NoJobTwice'
  BY <1>2 DEF JobsHeld, NoJobTwice
<1>8. QED
  BY <1>3, <1>4, <1>5, <1>6, <1>7 DEF JobsHeld

\* Threads whose shares have a job in common are one.
LEMMA SharesDiffer ==
    ASSUME Placed, SlotsHeld, NEW p \in Procs, NEW q \in Procs, NEW j,
           InPart(p), InPart(q), InShare(p, j), InShare(q, j)
    PROVE  p = q
<1>1. Share(p) = Share(q)
  BY DEF InShare
<1>2. \A r \in {p, q} : r = Caller \/ (r \in Workers /\ r < participants /\ r # Caller)
  BY PartInRound, PlacedFacts DEF SlotsHeld
<1>3. participants \in Nat /\ \A w \in Workers : w \in Nat
  BY PlacedFacts
<1>4. QED
  BY <1>1, <1>2, <1>3 DEF Share

\* A thread begins its part of a round that is not produced.
LEMMA BeginJobs ==
    ASSUME Placed, JobsHeld, NEW p \in Procs, \A q \in Procs \ {p} : GoesOn(q),
           UNCHANGED <<threads, size, finished, mode, participants, next, done, count>>,
           InRound, RunInOrder',
           pc'[Caller] # "wake", pc'[Caller] = "barrier" => done >= count,
           pc'[Caller] = "submit" => pc[Caller] = "submit",
           \A w \in Workers : Late(w)' => Late(w),
           \/ mode = "static" /\ pc'[p] = "share"
           \/ mode = "claim" /\ pc'[p] = "claim",
           length'[p] = count, job'[p] = Share(p), Share(p) < Stride,
           mode = "static" => \A j \in finished : ~InShare(p, j)
    PROVE  JobsHeld'
<1>1. /\ \A q \in Procs \ {p} : GoesOn(q)
      /\ Workers' = Workers /\ next \in Nat /\ "run" \in Parts /\ "share" \in Parts
      /\ "claim" \in Parts /\ "produce" \in Parts /\ "starved" \in Parts
      /\ size \in Nat /\ finished \subseteq Int
  BY JobsFacts DEF Workers, Parts
<1>2. ASSUME NEW q \in Procs, pc'[q] = "run"
      PROVE  q # p /\ pc[q] = "run" /\ job'[q] = job[q]
  BY <1>1, <1>2 DEF GoesOn, InPart
<1>3. SharedOneWay'
  <2>1. count = size
    BY DEF JobsHeld, RoundCounts
  <2>2. ASSUME NEW q \in Procs
        PROVE  (/\ pc[q] = "share" => mode = "static"
                /\ pc[q] = "claim" => mode = "claim"
                /\ pc[q] \in {"produce", "starved"} => mode = "produced"
                /\ InPart(q) /\ mode # "produced" => length[q] = size)'
    <3>1. CASE q = p
      BY <2>1, <3>1
    <3>2. CASE q # p
      BY <1>1, <3>2 DEF GoesOn, InPart, JobsHeld, SharedOneWay
    <3>3. QED
      BY <3>1, <3>2
  <2>3. QED
    BY <2>2 DEF JobsHeld, SharedOneWay
<1>4. RoundCounts'
  BY DEF JobsHeld, RoundCounts
<1>5. ClaimedBelowNext'
  <2>1. \A q \in Procs : job[q] \in Int
    BY JobsFacts
  <2>2. QED
    BY <1>1, <1>2, <2>1 DEF JobsHeld, ClaimedBelowNext
<1>6. SharesApart'
  <2>1. \A q \in Procs, j \in Int : InShare(q, j)' = InShare(q, j)
    BY DEF InShare, Share, Stride
  <2>2. ASSUME mode' = "static", NEW q \in Procs, InPart(q)'
        PROVE  /\ InShare(q, job[q])'
               /\ \A j \in finished' : InShare(q, j)' => j < job'[q]
    <3>1. CASE q = p
      <4>1. InShare(p, Share(p)) /\ Share(p) \in Int
        BY JobsFacts, FirstOfShare DEF InShare
      <4>2. InShare(p, job[p])'
        BY <4>1 DEF InShare, Share, Stride
      <4>3. \A j \in finished' : j \in Int /\ ~InShare(p, j)
        BY <1>1, <2>2
      <4>4. QED
        BY <2>1, <3>1, <4>2, <4>3
    <3>2. CASE q # p
      <4>1. InPart(q) /\ job'[q] = job[q] /\ job[q] \in Int
        BY <1>1, <2>2, <3>2, JobsFacts DEF GoesOn, InPart
      <4>2. /\ InShare(q, job[q]) /\ \A j \in finished : InShare(q, j) => j < job[q]
        BY <2>2, <4>1 DEF JobsHeld, SharesApart
      <4>3. QED
        BY <1>1, <2>1, <4>1, <4>2 DEF InShare, Share, Stride
    <3>3. QED
      BY <3>1, <3>2
  <2>3. ASSUME mode' = "static", NEW q \in Workers, Late(q)'
        PROVE  \A j \in finished : ~InShare(q, j)'
    <3>1. q \in Procs
      BY PlacedFacts
    <3>2. QED
      BY <1>1, <2>1, <2>3, <3>1 DEF JobsHeld, SharesApart
  <2>4. QED
    BY <1>1, <2>2, <2>3 DEF SharesApart
<1>7. NoJobTwice'
  BY <1>2 DEF JobsHeld, NoJobTwice
<1>8. QED
  BY <1>3, <1>4, <1>5, <1>6, <1>7 DEF JobsHeld

\* A thread in a part takes a job that nobody has.
LEMMA TakeJob ==
    ASSUME Placed, SlotsHeld, JobsHeld, NEW p \in Procs, InPart(p), PartStep(p),
           UNCHANGED <<threads, size, finished, mode, participants, done, count>>,
           next' \in Nat, next' >= next,
           pc' = [pc EXCEPT ![p] = "run"], length' = length,
           NEW j \in Nat, j < size, j \notin finished,
           job' = [job EXCEPT ![p] = j],
           \A q \in Procs : pc[q] = "run" => job[q] # j,
           mode # "static" => j < next',
           mode = "static" => InShare(p, j) /\ \A i \in finished : InShare(p, i) => i < j
    PROVE  JobsHeld'
<1>1. /\ InRound /\ pc[Caller] # "wake" /\ pc[Caller] \in Open
      /\ pc'[p] = "run" /\ job'[p] = j
      /\ \A q \in Procs \ {p} : pc'[q] = pc[q] /\ job'[q] = job[q]
      /\ "run" \in Parts /\ next \in Nat /\ finished \subseteq Int /\ Caller \in Procs
      /\ Workers' = Workers /\ Workers \subseteq Procs
  <2>1. /\ pc'[p] = "run" /\ job'[p] = j
        /\ \A q \in Procs \ {p} : pc'[q] = pc[q] /\ job'[q] = job[q]
    BY PlacedFacts DEF TypeOK, PcOK
  <2>2. "run" \in Parts /\ next \in Nat /\ finished \subseteq Int
    BY JobsFacts DEF Parts
  <2>3. Workers' = Workers /\ Workers \subseteq Procs /\ Caller \in Procs
    BY PlacedFacts DEF Workers
  <2>4. QED
    BY <2>1, <2>2, <2>3, PartInRound
<1>2. UNCHANGED <<seen, generation>>
  BY PartGoes
<1>3. InRound' /\ pc'[Caller] # "wake" /\ RunInOrder'
  BY <1>1 DEF InRound, RunInOrder, Ending, Parts
<1>4. SharedOneWay'
  <2>1. \A q \in Procs : InPart(q)' => InPart(q)
    BY <1>1 DEF InPart
  <2>2. QED
    BY <1>1, <2>1 DEF JobsHeld, SharedOneWay
<1>5. RoundCounts'
  <2>1. pc'[Caller] = "barrier" => pc[Caller] = "barrier"
    BY <1>1
  <2>2. QED
    BY <1>1, <1>3, <2>1 DEF JobsHeld, RoundCounts
<1>6. ClaimedBelowNext'
  <2>1. \A q \in Procs : job[q] \in Int
    BY JobsFacts
  <2>2. QED
    BY <1>1, <2>1 DEF JobsHeld, ClaimedBelowNext
<1>7. SharesApart'
  <2>1. \A q \in Procs, i \in Int : InShare(q, i)' = InShare(q, i)
    BY DEF InShare, Share, Stride
  <2>2. ASSUME mode' = "static", NEW q \in Procs, InPart(q)'
        PROVE  /\ InShare(q, job[q])'
               /\ \A i \in finished' : InShare(q, i)' => i < job'[q]
    <3>1. CASE q = p
      BY <1>1, <2>1, <2>2, <3>1 DEF InShare, Share, Stride
    <3>2. CASE q # p
      <4>1. InPart(q) /\ job'[q] = job[q] /\ job[q] \in Int
        BY <1>1, <2>2, <3>2, JobsFacts DEF InPart
      <4>2. InShare(q, job[q]) /\ \A i \in finished : InShare(q, i) => i < job[q]
        BY <1>1, <2>2, <4>1 DEF JobsHeld, SharesApart
      <4>3. QED
        BY <1>1, <2>1, <4>1, <4>2 DEF InShare, Share, Stride
    <3>3. QED
      BY <3>1, <3>2
  <2>3. ASSUME mode' = "static", NEW q \in Workers, Late(q)'
        PROVE  \A i \in finished : ~InShare(q, i)'
    <3>1. q \in Procs /\ Late(q)
      BY <1>1, <1>2, <1>3, <2>3 DEF Late
    <3>2. QED
      BY <1>1, <2>1, <2>3, <3>1 DEF JobsHeld, SharesApart
  <2>4. QED
    BY <1>1, <2>2, <2>3 DEF SharesApart
<1>8. NoJobTwice'
  <2>1. ASSUME NEW q \in Procs, pc'[q] = "run"
        PROVE  job'[q] < size /\ job'[q] \notin finished
    BY <1>1, <2>1 DEF JobsHeld, NoJobTwice
  <2>2. ASSUME NEW q \in Procs, NEW r \in Procs, pc'[q] = "run", pc'[r] = "run",
               job'[q] = job'[r]
        PROVE  q = r
    <3>1. \A u \in {q, r} : u # p => pc[u] = "run" /\ job'[u] = job[u] /\ job[u] # j
      BY <1>1, <2>2
    <3>2. CASE q = p \/ r = p
      BY <1>1, <2>2, <3>1, <3>2
    <3>3. CASE q # p /\ r # p
      BY <2>2, <3>1, <3>3 DEF JobsHeld, NoJobTwice
    <3>4. QED
      BY <3>2, <3>3
  <2>3. QED
    BY <2>1, <2>2 DEF NoJobTwice
<1>9. QED
  BY <1>3, <1>4, <1>5, <1>6, <1>7, <1>8 DEF JobsHeld

\* A job ends: it is nobody's any more, and its thread's share moves on.
LEMMA FinishJobs ==
    ASSUME Placed, SlotsHeld, JobsHeld, NEW p \in Procs, FinishJob(p)
    PROVE  JobsHeld'
<1>1. /\ pc[p] = "run" /\ finished' = finished \cup {job[p]} /\ done' = done + 1
      /\ Goto(p, PartOf(mode)) /\ PartOf(mode) \in Parts
      /\ job' = IF mode = "static" THEN [job EXCEPT ![p] = @ + participants + 1] ELSE job
      /\ UNCHANGED <<threads, generation, participants, seen, mode, next, count, length, size>>
  BY PlacedFacts, PartOfPc DEF FinishJob, Finished, header, TypeOK
<1>2. /\ InPart(p) /\ InRound /\ pc[Caller] # "wake" /\ pc[Caller] \in Open
      /\ p = Caller \/ p \in Workers
  BY <1>1, PartInRound DEF InPart, Parts
<1>3. /\ pc'[p] = PartOf(mode) /\ Workers' = Workers /\ Workers \subseteq Procs
      /\ \A q \in Procs \ {p} : pc'[q] = pc[q] /\ job'[q] = job[q]
      /\ next \in Nat /\ finished \subseteq Int /\ Caller \in Procs
      /\ mode = "static" => job'[p] = job[p] + Stride
      /\ mode \in {"static", "claim", "produced"}
      /\ \A q \in Procs : job[q] \in Nat
  <2>1. TypeOK /\ participants \in Nat
    BY PlacedFacts
  <2>2. pc'[p] = PartOf(mode) /\ \A q \in Procs \ {p} : pc'[q] = pc[q]
    BY <1>1, <2>1 DEF Goto, TypeOK, PcOK
  <2>3. Workers' = Workers /\ Workers \subseteq Procs /\ Caller \in Procs
    BY <1>1, PlacedFacts DEF Workers
  <2>4. next \in Nat /\ finished \subseteq Int /\ \A q \in Procs : job[q] \in Nat
    BY JobsFacts
  <2>5. mode \in {"static", "claim", "produced"} /\ job \in [Procs -> Nat]
    BY <2>1 DEF TypeOK
  <2>6. mode = "static" => job'[p] = job[p] + participants + 1
    BY <1>1, <2>5
  <2>7. job[p] + participants + 1 = job[p] + Stride
    BY <2>1, <2>4 DEF Stride
  <2>8. \A q \in Procs \ {p} : job'[q] = job[q]
    BY <1>1, <2>5
  <2>9. QED
    BY <2>2, <2>3, <2>4, <2>5, <2>6, <2>7, <2>8
<1>4. InRound' /\ pc'[Caller] # "wake" /\ RunInOrder'
  <2>1. pc'[Caller] \in Open /\ pc'[Caller] \notin {"wake"}
    BY <1>1, <1>2, <1>3 DEF Open, Parts
  <2>2. QED
    BY <2>1 DEF InRound, RunInOrder, Ending, Open, Parts
<1>5. /\ job[p] < size /\ job[p] \notin finished /\ job[p] \in Nat
      /\ \A q \in Procs \ {p} : pc[q] = "run" => job[q] # job[p]
  BY <1>1, <1>3 DEF JobsHeld, NoJobTwice
<1>6. SharedOneWay'
  <2>1. \A q \in Procs : InPart(q)' => InPart(q)
    BY <1>2, <1>3 DEF InPart
  <2>2. \A q \in Procs \ {p} : pc'[q] = pc[q]
    BY <1>3
  <2>3. pc'[Caller] = "submit" => pc[Caller] = "submit"
    BY <1>1, <1>3 DEF Parts
  <2>4. ASSUME NEW q \in Procs
        PROVE  (/\ pc[q] = "share" => mode = "static"
                /\ pc[q] = "claim" => mode = "claim"
                /\ pc[q] \in {"produce", "starved"} => mode = "produced"
                /\ InPart(q) /\ mode # "produced" => length[q] = size)'
    <3>1. CASE q = p
      BY <1>1, <1>2, <1>3, <3>1 DEF JobsHeld, SharedOneWay, PartOf
    <3>2. CASE q # p
      BY <1>1, <1>3, <3>2 DEF InPart, JobsHeld, SharedOneWay
    <3>3. QED
      BY <3>1, <3>2
  <2>5. QED
    BY <1>1, <1>4, <2>3, <2>4 DEF JobsHeld, SharedOneWay
<1>7. RoundCounts'
  <2>1. Cardinality(finished') = Cardinality(finished) + 1
    BY <1>1, <1>5, JobsFacts, FS_AddElement
  <2>2. pc'[Caller] = "barrier" => pc[Caller] = "barrier"
    BY <1>1, <1>3 DEF Parts
  <2>3. finished' \subseteq 0..(size - 1)
    BY <1>1, <1>5, JobsFacts
  <2>4. done \in Nat /\ size \in Nat
    BY JobsFacts
  <2>5. QED
    BY <1>1, <1>2, <1>4, <2>1, <2>2, <2>3, <2>4 DEF JobsHeld, RoundCounts
<1>8. ASSUME NEW q \in Procs, pc'[q] = "run"
      PROVE  q # p /\ pc[q] = "run" /\ job'[q] = job[q]
  BY <1>3, <1>8 DEF PartOf
<1>9. ClaimedBelowNext'
  BY <1>1, <1>2, <1>3, <1>8 DEF JobsHeld, ClaimedBelowNext
<1>10. SharesApart'
  <2>1. \A q \in Procs, i \in Int : InShare(q, i)' = InShare(q, i)
    BY <1>1 DEF InShare, Share, Stride
  <2>2. ASSUME mode' = "static", NEW q \in Procs, InPart(q)'
        PROVE  /\ InShare(q, job[q])'
               /\ \A i \in finished' : InShare(q, i)' => i < job'[q]
    <3>0. mode = "static" /\ InPart(q) /\ job[q] \in Nat
      BY <1>1, <1>2, <1>3, <2>2 DEF InPart
    <3>1. InShare(q, job[q]) /\ \A i \in finished : InShare(q, i) => i < job[q]
      BY <1>2, <3>0 DEF JobsHeld, SharesApart
    <3>2. CASE q = p
      <4>1. job'[p] = job[p] + Stride /\ Stride \in Nat /\ Stride > 0
        BY <1>3, <3>0, JobsFacts
      <4>2. InShare(p, job'[p])
        <5>1. (job[p] + Stride) % Stride = job[p] % Stride
          BY <3>0, <3>2, <4>1, NextOfShare
        <5> QED BY <3>1, <3>2, <4>1, <5>1 DEF InShare
      <4>3. InShare(p, job[p])'
        BY <1>1, <4>2 DEF InShare, Share, Stride
      <4>4. \A i \in finished' : InShare(p, i) => i < job'[p]
        <5>1. \A i \in finished : i \in Int
          BY <1>3
        <5>2. QED
          BY <1>1, <3>0, <3>1, <3>2, <4>1, <5>1
      <4>5. \A i \in finished' : i \in Int
        BY <1>1, <1>3, <1>5
      <4>6. QED
        BY <2>1, <3>2, <4>3, <4>4, <4>5
    <3>3. CASE q # p
      <4>1. ~InShare(q, job[p])
        <5>1. InShare(p, job[p])
          BY <1>2, <3>0 DEF JobsHeld, SharesApart
        <5>2. QED
          BY <1>2, <3>0, <3>3, <5>1, SharesDiffer
      <4>2. InShare(q, job[q])'
        <5>1. job'[q] = job[q] /\ participants' = participants
          BY <1>1, <1>3, <3>3
        <5> QED BY <3>1, <5>1 DEF InShare, Share, Stride
      <4>3. \A i \in finished' : i \in Int /\ (InShare(q, i) => i < job'[q])
        BY <1>1, <1>3, <3>1, <3>3, <4>1
      <4>4. QED
        BY <2>1, <4>2, <4>3
    <3>4. QED
      BY <3>2, <3>3
  <2>3. ASSUME mode' = "static", NEW q \in Workers, Late(q)'
        PROVE  \A i \in finished' : ~InShare(q, i)'
    <3>1. q \in Procs /\ q < participants /\ q \in Nat
      BY <1>1, <1>3, <2>3, PlacedFacts DEF Late
    <3>2. Late(q) /\ q # p
      <4>1. pc'[q] = "enter" => pc[q] = "enter" /\ q # p
        BY <1>1, <1>3, <3>1 DEF Parts
      <4>2. seen[q] # generation => q # p
        BY <1>2, PartInRound, PlacedFacts
      <4>3. QED
        BY <1>1, <1>4, <2>3, <4>1, <4>2 DEF Late
    <3>3. \A i \in finished : ~InShare(q, i)
      BY <1>1, <1>2, <2>3, <3>2 DEF JobsHeld, SharesApart
    <3>4. ~InShare(q, job[p])
      <4>1. InShare(p, job[p])
        BY <1>1, <1>2, <2>3 DEF JobsHeld, SharesApart
      <4>2. Share(q) = q /\ Share(p) # q
        BY <1>2, <3>1, <3>2, JobsFacts DEF Share
      <4>3. QED
        BY <4>1, <4>2 DEF InShare
    <3>5. \A i \in finished' : i \in Int /\ ~InShare(q, i)
      BY <1>1, <1>3, <3>3, <3>4
    <3>6. QED
      BY <2>1, <3>1, <3>5
  <2>4. QED
    BY <1>1, <1>3, <2>2, <2>3 DEF SharesApart
<1>11. NoJobTwice'
  <2>1. \A q \in Procs : pc'[q] = "run" => job'[q] # job[p]
    BY <1>5, <1>8
  <2>2. QED
    BY <1>1, <1>8, <2>1 DEF JobsHeld, NoJobTwice
<1>12. QED
  BY <1>4, <1>6, <1>7, <1>9, <1>10, <1>11 DEF JobsHeld

\* A worker outside its part, but for one that begins it.
LEMMA WorkerJobs ==
    ASSUME Placed, JobsHeld, NEW w \in Workers,
           \/ Spin(w) \/ Park(w) \/ SpuriousWakeup(w) \/ Check(w) \/ GiveBack(w) \/ Arrive(w)
    PROVE  JobsHeld'
<1>1. /\ UNCHANGED <<threads, generation, participants, mode, count, next, done>>
      /\ UNCHANGED <<length, job, size, finished>>
  BY DEF Spin, Park, SpuriousWakeup, Check, GiveBack, Arrive, shared, header, local, work
<1>2. TypeOK /\ Core /\ w \in Procs \ {Caller} /\ Caller \in Procs /\ Workers \subseteq Procs
  BY PlacedFacts
<1>3. PICK q : /\ Goto(w, q)
               /\ \/ q \in {"check", "lock", "parked", "arrive", "spin", "exited"}
                  \/ q = "enter" /\ Check(w)
                  \/ q = "produce" /\ pc[w] = "starved"
  BY DEF Spin, Park, SpuriousWakeup, Check, GiveBack, Arrive
<1>4. pc'[w] = q /\ \A p \in Procs \ {w} : pc'[p] = pc[p]
  BY <1>2, <1>3 DEF Goto, TypeOK, PcOK
<1>5. InRound' = InRound /\ RunInOrder' /\ pc'[Caller] = pc[Caller] /\ Workers' = Workers
  BY <1>1, <1>2, <1>4 DEF InRound, JobsHeld, RunInOrder, Workers
<1>6. \A p \in Procs : GoesOn(p)
  <2> SUFFICES ASSUME NEW p \in Procs PROVE GoesOn(p)
    OBVIOUS
  <2>1. CASE p = w
    BY <1>3, <1>4, <2>1 DEF GoesOn, InPart, Parts, JobsHeld, SharedOneWay
  <2>2. CASE p # w
    BY <1>1, <1>4, <2>2 DEF GoesOn
  <2>3. QED
    BY <2>1, <2>2
<1>7. \A u \in Workers : Late(u)' => Late(u)
  <2> SUFFICES ASSUME NEW u \in Workers, Late(u)' PROVE Late(u)
    OBVIOUS
  <2>1. CASE u # w
    <3>1. pc'[u] = pc[u] /\ u \in Procs
      BY <1>2, <1>4, <2>1
    <3>2. seen'[u] = seen[u]
      <4>1. CASE Check(w)
        BY <4>1, <2>1, <3>1, <1>2 DEF Check, TypeOK
      <4>2. CASE ~Check(w)
        BY <4>2 DEF Spin, Park, SpuriousWakeup, GiveBack, Arrive, local
      <4>3. QED
        BY <4>1, <4>2
    <3>3. QED
      BY <1>1, <1>5, <3>1, <3>2 DEF Late
  <2>2. CASE u = w /\ Check(w)
    <3>1. pc[w] = "check" /\ (q = "enter" => ~stopping)
      BY <1>2, <1>3, <1>4, <2>2 DEF Check, Goto, TypeOK, PcOK
    <3>2. CASE q = "enter"
      <4>1. pc[Caller] \in Open /\ seen[w] # generation
        BY <1>2, <3>1, <3>2 DEF Core, WorkerPlace, Place, Out, Resting, Parts, Stopping
      <4>2. QED
        BY <1>1, <2>2, <4>1 DEF Late
    <3>3. CASE q # "enter"
      <4>1. seen' = seen
        BY <2>2, <1>2, <1>3, <1>4, <3>3 DEF Check, Goto, TypeOK, PcOK
      <4>2. QED
        BY <1>1, <1>4, <1>5, <2>2, <3>3, <4>1 DEF Late
    <3>4. QED
      BY <3>2, <3>3
  <2>3. CASE u = w /\ ~Check(w)
    <3>1. seen' = seen
      BY <2>3 DEF Spin, Park, SpuriousWakeup, GiveBack, Arrive, local
    <3>2. QED
      BY <1>1, <1>3, <1>4, <1>5, <2>3, <3>1 DEF Late
  <2>4. QED
    BY <2>1, <2>2, <2>3
<1>8. next \in Nat /\ (pc[Caller] = "barrier" => done >= count)
  BY JobsFacts DEF JobsHeld, RoundCounts
<1>9. QED
  BY <1>1, <1>5, <1>6, <1>7, <1>8, QuietJobs

LEMMA EnterJobs ==
    ASSUME Placed, JobsHeld, NEW w \in Workers, Enter(w)
    PROVE  JobsHeld'
<1>1. /\ pc[w] = "enter"
      /\ UNCHANGED <<threads, generation, participants, seen, mode, count, next, done, size, finished>>
  BY DEF Enter, shared, header, work
<1>2. TypeOK /\ w \in Procs \ {Caller} /\ Caller \in Procs /\ w \in Nat /\ participants \in Nat
  BY PlacedFacts
<1>3. PICK q : /\ Goto(w, q)
               /\ \/ w < participants /\ q = PartOf(mode) /\ BeginPart(w, w)
                  \/ q = "arrive" /\ UNCHANGED <<length, job>>
  BY DEF Enter
<1>4. pc'[w] = q /\ \A p \in Procs \ {w} : pc'[p] = pc[p]
  BY <1>2, <1>3 DEF Goto, TypeOK, PcOK
<1>5. InRound' = InRound /\ RunInOrder' /\ pc'[Caller] = pc[Caller] /\ Workers' = Workers
  BY <1>1, <1>2, <1>4 DEF InRound, JobsHeld, RunInOrder, Workers
<1>6. /\ \A p \in Procs \ {w} : length'[p] = length[p] /\ job'[p] = job[p]
      /\ q # "arrive" => length'[w] = count /\ job'[w] = w
  BY <1>2, <1>3 DEF BeginPart, TypeOK, PartOf
<1>7. \A p \in Procs \ {w} : GoesOn(p)
  BY <1>4, <1>6 DEF GoesOn
<1>8. \A u \in Workers : Late(u)' => Late(u)
  <2> SUFFICES ASSUME NEW u \in Workers, Late(u)' PROVE Late(u)
    OBVIOUS
  <2>1. CASE u # w
    BY <1>1, <1>4, <1>5, <2>1, PlacedFacts DEF Late
  <2>2. CASE u = w
    BY <1>1, <1>5, <2>2 DEF Late
  <2>3. QED
    BY <2>1, <2>2
<1>9. next \in Nat /\ (pc[Caller] = "barrier" => done >= count)
  BY JobsFacts DEF JobsHeld, RoundCounts
<1>10. InRound /\ pc[Caller] # "wake"
  <2>1. pc[Caller] \in Open
    BY <1>1, PlacedFacts, InRoundOpen
  <2>2. QED
    BY <2>1 DEF Open, InRound, Parts
<1>11. CASE q = "arrive" \/ mode = "produced"
  <2>1. GoesOn(w)
    BY <1>3, <1>4, <1>11 DEF GoesOn, InPart, Parts, PartOf
  <2>2. \A p \in Procs : GoesOn(p)
    BY <1>7, <2>1
  <2>3. QED
    BY <1>1, <1>5, <1>8, <1>9, <2>2, QuietJobs
<1>12. CASE q # "arrive" /\ mode # "produced"
  <2>1. /\ w < participants /\ q = PartOf(mode) /\ BeginPart(w, w)
        /\ \/ mode = "static" /\ q = "share"
           \/ mode = "claim" /\ q = "claim"
    BY <1>2, <1>3, <1>12 DEF PartOf, TypeOK
  <2>2. Share(w) = w /\ w < Stride
    BY <1>2, <2>1 DEF Share, Stride
  <2>3. Late(w)
    BY <1>1, <2>1 DEF Late
  <2>4. mode = "static" => \A j \in finished : ~InShare(w, j)
    BY <1>10, <2>3 DEF JobsHeld, SharesApart
  <2>5. length'[w] = count /\ job'[w] = Share(w)
    BY <1>6, <1>12, <2>2
  <2>6. \/ mode = "static" /\ pc'[w] = "share"
        \/ mode = "claim" /\ pc'[w] = "claim"
    BY <1>4, <2>1
  <2>7. QED
    BY <1>1, <1>2, <1>5, <1>7, <1>8, <1>9, <1>10, <2>2, <2>4, <2>5, <2>6, BeginJobs
<1>13. QED
  BY <1>11, <1>12

\* The next job of a part, or its end.
LEMMA NextJobs ==
    ASSUME Placed, SlotsHeld, JobsHeld, NEW p \in Procs,
           ShareNext(p) \/ ClaimNext(p) \/ ProduceNext(p)
    PROVE  JobsHeld'
<1>1. /\ UNCHANGED <<threads, generation, participants, mode, count, done, seen, size, finished>>
      /\ PartStep(p) /\ InPart(p)
  BY DEF ShareNext, ClaimNext, ProduceNext, PartStep, shared, header, work, InPart, Parts
<1>2. /\ TypeOK /\ Caller \in Procs /\ Workers \subseteq Procs
      /\ InRound /\ pc[Caller] # "wake" /\ pc[Caller] \in Open
      /\ p = Caller \/ (p \in Workers /\ seen[p] = generation)
  BY <1>1, PlacedFacts, PartInRound
<1>3. next \in Nat /\ size \in Nat /\ count = size /\ job[p] \in Nat /\ (pc[Caller] = "barrier" => done >= count)
  BY <1>2, JobsFacts DEF JobsHeld, RoundCounts
<1>4. ASSUME NEW q \in {"starved", "drain", "giveback"}, Goto(p, q),
             q = "starved" => mode = "produced",
             q = "drain" => p = Caller, q = "giveback" => p # Caller,
             next' \in Nat, next' >= next,
             \A r \in Procs \ {p} : length'[r] = length[r] /\ job'[r] = job[r]
      PROVE  JobsHeld'
  <2>1. pc'[p] = q /\ \A r \in Procs \ {p} : pc'[r] = pc[r]
    BY <1>2, <1>4 DEF Goto, TypeOK, PcOK
  <2>2. \A r \in Procs : GoesOn(r)
    <3> SUFFICES ASSUME NEW r \in Procs PROVE GoesOn(r)
      OBVIOUS
    <3>1. CASE r = p
      BY <1>4, <2>1, <3>1 DEF GoesOn, InPart, Parts
    <3>2. CASE r # p
      BY <1>4, <2>1, <3>2 DEF GoesOn
    <3>3. QED
      BY <3>1, <3>2
  <2>3. pc'[Caller] \in {"starved", "drain"} \/ pc'[Caller] = pc[Caller]
    BY <1>2, <1>4, <2>1, PlacedFacts DEF TypeOK, PcOK, CallerPcs, Parts
  <2>4. RunInOrder'
    BY <1>1, <1>2, <2>3 DEF JobsHeld, RunInOrder, Ending, Open, Parts
  <2>5. \A u \in Workers : Late(u)' => Late(u)
    <3> SUFFICES ASSUME NEW u \in Workers, Late(u)' PROVE Late(u)
      OBVIOUS
    <3>1. pc'[Caller] # "wake" /\ pc'[u] = "enter" => pc[u] = "enter"
      BY <1>2, <1>4, <2>1, <2>3
    <3>2. QED
      BY <1>1, <1>2, <2>3, <3>1 DEF Late
  <2>6. QED
    BY <1>1, <1>2, <1>3, <1>4, <2>2, <2>3, <2>4, <2>5, QuietJobs
<1>5. CASE ShareNext(p)
  <2>1. pc[p] = "share" /\ next' = next /\ mode = "static" /\ length[p] = size
    BY <1>1, <1>5 DEF ShareNext, shared, JobsHeld, SharedOneWay
  <2>2. InShare(p, job[p]) /\ \A i \in finished : InShare(p, i) => i < job[p]
    BY <1>1, <1>2, <2>1 DEF JobsHeld, SharesApart
  <2>3. CASE job[p] < length[p]
    <3>1. /\ pc' = [pc EXCEPT ![p] = "run"] /\ length' = length
          /\ job' = [job EXCEPT ![p] = job[p]]
      BY <1>5, <2>3 DEF ShareNext, Take, Goto
    <3>2. job[p] \notin finished
      BY <1>3, <2>2
    <3>3. \A q \in Procs : pc[q] = "run" => job[q] # job[p]
      <4> SUFFICES ASSUME NEW q \in Procs, pc[q] = "run", job[q] = job[p] PROVE FALSE
        OBVIOUS
      <4>1. InPart(q)
        BY DEF InPart, Parts
      <4>2. InShare(q, job[p])
        BY <1>2, <2>1, <4>1 DEF JobsHeld, SharesApart
      <4>3. p = q
        BY <1>1, <2>2, <4>1, <4>2, SharesDiffer
      <4>4. QED
        BY <2>1, <4>3
    <3>4. QED
      <4>1. /\ job[p] < size /\ job[p] \in Nat /\ next' \in Nat /\ next' >= next
            /\ mode = "static" => InShare(p, job[p]) /\ \A i \in finished : InShare(p, i) => i < job[p]
            /\ mode # "static" => job[p] < next'
        BY <1>3, <2>1, <2>2, <2>3
      <4>2. QED
        BY <1>1, <3>1, <3>2, <3>3, <4>1, TakeJob
  <2>4. CASE ~(job[p] < length[p])
    <3>1. Leave(p)
      BY <1>5, <2>4 DEF ShareNext
    <3>2. QED
      BY <1>2, <1>3, <1>4, <2>1, <3>1 DEF Leave, TypeOK
  <2>5. QED
    BY <2>3, <2>4
<1>6. CASE ClaimNext(p)
  <2>1. pc[p] = "claim" /\ next' = next + 1 /\ mode = "claim" /\ length[p] = size
    BY <1>1, <1>6 DEF ClaimNext, JobsHeld, SharedOneWay
  <2>2. CASE next < length[p]
    <3>1. /\ pc' = [pc EXCEPT ![p] = "run"] /\ length' = length
          /\ job' = [job EXCEPT ![p] = next]
      BY <1>6, <2>2 DEF ClaimNext, Take, Goto
    <3>2. next \notin finished /\ \A q \in Procs : pc[q] = "run" => job[q] # next
      BY <1>2, <1>3, <2>1 DEF JobsHeld, ClaimedBelowNext
    <3>3. QED
      <4>1. /\ next < size /\ next \in Nat /\ next' \in Nat /\ next' >= next
            /\ mode # "static" /\ next < next'
        BY <1>3, <2>1, <2>2
      <4>2. QED
        BY <1>1, <3>1, <3>2, <4>1, TakeJob
  <2>3. CASE ~(next < length[p])
    <3>1. Leave(p)
      BY <1>6, <2>3 DEF ClaimNext
    <3>2. QED
      BY <1>2, <1>3, <1>4, <2>1, <3>1 DEF Leave, TypeOK
  <2>4. QED
    BY <2>2, <2>3
<1>7. CASE ProduceNext(p)
  <2>1. pc[p] = "produce" /\ mode = "produced"
    BY <1>1, <1>7 DEF ProduceNext, JobsHeld, SharedOneWay
  <2>2. CASE next < count /\ next' = next + 1 /\ Take(p, next, tasks)
    <3>1. /\ pc' = [pc EXCEPT ![p] = "run"] /\ length' = length
          /\ job' = [job EXCEPT ![p] = next]
      BY <2>2 DEF Take, Goto
    <3>2. next \notin finished /\ \A q \in Procs : pc[q] = "run" => job[q] # next
      BY <1>2, <1>3, <2>1 DEF JobsHeld, ClaimedBelowNext
    <3>3. QED
      <4>1. /\ next < size /\ next \in Nat /\ next' \in Nat /\ next' >= next
            /\ mode # "static" /\ next < next'
        BY <1>3, <2>1, <2>2
      <4>2. QED
        BY <1>1, <3>1, <3>2, <4>1, TakeJob
  <2>3. CASE next' = next /\ Leave(p)
    BY <1>2, <1>3, <1>4, <2>1, <2>3 DEF Leave, TypeOK
  <2>4. CASE next' = next /\ Goto(p, "starved") /\ UNCHANGED <<length, job>>
    BY <1>3, <1>4, <2>1, <2>4
  <2>5. QED
    BY <1>7, <2>2, <2>3, <2>4 DEF ProduceNext
<1>8. QED
  BY <1>5, <1>6, <1>7

\* A round is over, or its caller runs the jobs alone.
LEMMA ApartJobs ==
    ASSUME Placed', ~InRound', finished' \subseteq 0..(size' - 1), RunInOrder'
    PROVE  JobsHeld'
<1>1. \A p \in Procs : ~InPart(p)'
  BY NobodyApartNext DEF Apart
<1>2. \A p \in Procs : pc'[p] \notin Parts
  BY <1>1 DEF InPart
<1>3. pc'[Caller] \notin {"wake", "submit", "barrier"}
  BY DEF InRound
<1>4. SharedOneWay' /\ NoJobTwice'
  BY <1>1, <1>2, <1>3 DEF SharedOneWay, NoJobTwice, Parts
<1>5. RoundCounts' /\ ClaimedBelowNext' /\ SharesApart'
  BY <1>3 DEF RoundCounts, ClaimedBelowNext, SharesApart
<1>6. QED
  BY <1>4, <1>5 DEF JobsHeld

\* A round is published: nobody is in a part of it.
LEMMA PublishJobs ==
    ASSUME size' \in Nat, finished' = {}, count' = size', done' = 0,
           \A p \in Procs : ~InPart(p)',
           \/ pc'[Caller] = "wake" /\ mode' # "produced"
           \/ pc'[Caller] = "submit" /\ mode' = "produced"
    PROVE  JobsHeld'
<1>1. \A p \in Procs : pc'[p] \notin Parts
  BY DEF InPart
<1>2. pc'[Caller] # "barrier"
  OBVIOUS
<1>3. SharedOneWay'
  BY <1>1 DEF SharedOneWay, Parts
<1>4. NoJobTwice' /\ ClaimedBelowNext'
  BY <1>1 DEF NoJobTwice, ClaimedBelowNext, Parts
<1>5. RoundCounts'
  BY <1>2, FS_EmptySet DEF RoundCounts
<1>6. RunInOrder'
  BY DEF RunInOrder, Ending
<1>7. SharesApart'
  BY DEF SharesApart
<1>8. QED
  BY <1>3, <1>4, <1>5, <1>6, <1>7 DEF JobsHeld

\* The caller's steps with no round out.
LEMMA AloneJobs ==
    ASSUME Placed, JobsHeld, Placed',
           \/ \E n \in 1..MaxJobs : RunInline(n)
           \/ ProduceInline \/ InlineNext \/ InlineSubmit \/ InlineJob \/ InlineClose
           \/ Barrier \/ Release \/ Join
    PROVE  JobsHeld'
<1>1. /\ TypeOK /\ JobsExist /\ Caller \in Procs /\ pc \in [Procs -> WorkerPcs \cup CallerPcs]
      /\ finished \subseteq 0..(size - 1) /\ size \in Nat
      /\ IsFiniteSet(finished) /\ Cardinality(finished) \in Nat
  BY PlacedFacts, JobsFacts DEF TypeOK, PcOK
<1>2. ASSUME NEW there, Goto(Caller, there) \/ Broadcast(there)
      PROVE  pc'[Caller] = there
  BY <1>1, <1>2 DEF Goto, Broadcast
<1>3. ASSUME NEW there \in Between \cup Ending, Goto(Caller, there) \/ Broadcast(there),
             finished' \subseteq 0..(size' - 1),
             there = "inline" => finished' = 0..(Cardinality(finished') - 1),
             there = "inlineSubmit" => finished' = 0..(size' - 1),
             there = "inlineJob" => finished' = 0..(size' - 2),
             there \in Ending \cup {"idle"} => size' = 0 /\ finished' = {}
      PROVE  JobsHeld'
  <2>1. pc'[Caller] = there
    BY <1>2, <1>3
  <2>2. ~InRound'
    BY <2>1, <1>3 DEF InRound, Parts, Between, Ending
  <2>3. RunInOrder'
    BY <2>1, <1>3 DEF RunInOrder
  <2>4. QED
    BY <1>3, <2>2, <2>3, ApartJobs
<1>4. 0..(0 - 1) = {} /\ Cardinality({}) = 0
  BY FS_EmptySet
<1>5. ASSUME NEW n \in 1..MaxJobs, RunInline(n)
      PROVE  JobsHeld'
  <2>1. finished' = {} /\ Goto(Caller, "inline")
    BY <1>5 DEF RunInline, NewRound
  <2>2. finished' = 0..(Cardinality(finished') - 1)
    BY <1>4, <2>1
  <2>3. QED
    BY <1>3, <2>1, <2>2 DEF Between, Ending
<1>6. CASE ProduceInline
  BY <1>3, <1>4, <1>6 DEF ProduceInline, NewRound, Between, Ending
<1>7. CASE Return \/ InlineClose \/ Barrier
  BY <1>3, <1>7 DEF InlineClose, Barrier, Return, Between, Ending
<1>8. CASE InlineNext /\ ~Return
  <2>1. /\ pc[Caller] = "inline" /\ Cardinality(finished) < size
        /\ finished' = finished \cup {Cardinality(finished)} /\ pc' = pc /\ size' = size
    BY <1>8 DEF InlineNext, Finished
  <2>2. finished = 0..(Cardinality(finished) - 1)
    BY <2>1 DEF JobsHeld, RunInOrder
  <2>3. finished' = 0..Cardinality(finished)
    BY <1>1, <2>1, <2>2
  <2>4. Cardinality(finished') = Cardinality(finished) + 1
    BY <1>1, <2>3, FS_Interval
  <2>5. Goto(Caller, "inline")
    BY <1>1, <2>1 DEF Goto
  <2>6. finished' \subseteq 0..(size' - 1) /\ finished' = 0..(Cardinality(finished') - 1)
    BY <1>1, <2>1, <2>3, <2>4
  <2>7. QED
    BY <1>3, <2>5, <2>6 DEF Between, Ending
<1>9. CASE InlineSubmit
  <2>1. finished = 0..(size - 1) /\ finished' = finished /\ size' = size + 1
    BY <1>9 DEF InlineSubmit, JobsHeld, RunInOrder
  <2>2. finished' \subseteq 0..(size' - 1) /\ finished' = 0..(size' - 2)
    BY <1>1, <2>1
  <2>3. QED
    BY <1>3, <1>9, <2>2 DEF InlineSubmit, Between, Ending
<1>10. CASE InlineJob
  <2>1. finished = 0..(size - 2) /\ finished' = finished \cup {size - 1} /\ size' = size /\ size > 0
    BY <1>1, <1>10 DEF InlineJob, Finished, JobsHeld, RunInOrder, JobsExist
  <2>2. finished' = 0..(size' - 1)
    BY <1>1, <2>1
  <2>3. QED
    BY <1>3, <1>10, <2>2 DEF InlineJob, Between, Ending
<1>11. CASE Release \/ Join
  <2>1. pc[Caller] \in Ending \cup {"idle"} /\ UNCHANGED <<size, finished>>
    BY <1>11 DEF Release, Join, Ending, work
  <2>2. size' = 0 /\ finished' = {}
    BY <2>1 DEF JobsHeld, RunInOrder
  <2>3. Broadcast("join") \/ Goto(Caller, "freed")
    BY <1>11 DEF Release, Join
  <2>4. QED
    BY <1>3, <2>2, <2>3 DEF Between, Ending
<1>12. QED
  BY <1>5, <1>6, <1>7, <1>8, <1>9, <1>10, <1>11

\* The caller publishes a round, shares it out, adds to it and waits.
LEMMA CallerJobs ==
    ASSUME Placed, SlotsHeld, JobsHeld, Placed',
           \/ \E n \in 1..MaxJobs, claim \in BOOLEAN : RunJobs(n, claim)
           \/ ProduceBegin \/ Wake \/ Submit \/ Close \/ Drain
    PROVE  JobsHeld'
<1>1. /\ TypeOK /\ Core /\ Caller \in Procs /\ Workers \subseteq Procs \ {Caller}
      /\ pc \in [Procs -> WorkerPcs \cup CallerPcs]
      /\ next \in Nat /\ size \in Nat /\ finished \subseteq 0..(size - 1) /\ participants \in Nat
  BY PlacedFacts, JobsFacts DEF TypeOK, PcOK
<1>2. ASSUME NEW there, Goto(Caller, there)
      PROVE  pc'[Caller] = there /\ \A p \in Procs \ {Caller} : pc'[p] = pc[p]
  BY <1>1, <1>2 DEF Goto
<1>3. ASSUME NEW there, Broadcast(there)
      PROVE  /\ pc'[Caller] = there
             /\ \A p \in Procs \ {Caller} :
                   /\ InPart(p)' <=> InPart(p)
                   /\ pc'[p] = "enter" <=> pc[p] = "enter"
                   /\ \/ pc'[p] = pc[p] \/ ~InPart(p)
                      \/ pc'[p] = "produce" /\ pc[p] = "starved"
  BY <1>1, <1>3 DEF Broadcast, InPart, Parts
<1>4. ASSUME ~InRound \/ pc[Caller] = "wake"
      PROVE  \A p \in Procs : ~InPart(p)
  BY <1>4, PartInRound
<1>5. \A w \in Workers : w \in Procs \ {Caller}
  BY <1>1
<1>6. ASSUME NEW n \in 1..MaxJobs, NEW claim \in BOOLEAN, RunJobs(n, claim)
      PROVE  JobsHeld'
  <2>1. /\ pc[Caller] = "idle" /\ Goto(Caller, "wake") /\ size' = n /\ finished' = {}
        /\ count' = n /\ done' = 0 /\ mode' # "produced"
    BY <1>6 DEF RunJobs, NewRound, Publish
  <2>2. pc'[Caller] = "wake" /\ \A p \in Procs : ~InPart(p)'
    BY <1>2, <1>4, <2>1 DEF InPart, InRound, Parts
  <2>3. n \in Nat
    BY Bounds
  <2>4. QED
    BY <2>1, <2>2, <2>3, PublishJobs
<1>7. CASE ProduceBegin
  <2>1. /\ pc[Caller] = "idle" /\ Broadcast("submit") /\ size' = 0 /\ finished' = {}
        /\ count' = 0 /\ done' = 0 /\ mode' = "produced"
    BY <1>7 DEF ProduceBegin, NewRound, Publish
  <2>2. ~InRound
    BY <2>1 DEF InRound, Parts
  <2>3. pc'[Caller] = "submit" /\ \A p \in Procs : ~InPart(p)'
    BY <1>3, <1>4, <2>1, <2>2 DEF InPart, Parts
  <2>4. QED
    BY <2>1, <2>3, PublishJobs
<1>8. CASE Wake
  <2>1. /\ pc[Caller] = "wake" /\ Broadcast(PartOf(mode)) /\ BeginPart(Caller, participants)
        /\ UNCHANGED <<threads, size, finished, mode, participants, next, done, count>>
    BY <1>8 DEF Wake, work
  <2>2. mode \in {"static", "claim"} /\ finished = {}
    BY <1>1, <2>1 DEF JobsHeld, SharedOneWay, RoundCounts, TypeOK
  <2>3. pc'[Caller] = PartOf(mode)
    BY <1>3, <2>1
  <2>4. \/ mode = "static" /\ pc'[Caller] = "share"
        \/ mode = "claim" /\ pc'[Caller] = "claim"
    BY <2>2, <2>3 DEF PartOf
  <2>5. \A q \in Procs \ {Caller} : GoesOn(q)
    BY <1>3, <1>4, <2>1 DEF GoesOn
  <2>6. InRound
    BY <2>1 DEF InRound
  <2>7. RunInOrder'
    BY <2>4 DEF RunInOrder, Ending
  <2>8. \A w \in Workers : Late(w)' => Late(w)
    BY <2>1 DEF Late
  <2>9. length'[Caller] = count /\ job'[Caller] = Share(Caller) /\ Share(Caller) < Stride
    BY <1>1, <2>1 DEF BeginPart, Share, Stride, TypeOK
  <2>10. QED
    BY <1>1, <2>1, <2>2, <2>4, <2>5, <2>6, <2>7, <2>8, <2>9, BeginJobs
<1>9. CASE Submit
  <2>1. /\ pc[Caller] = "submit" /\ size' = size + 1 /\ count' = size + 1 /\ Broadcast("submit")
        /\ UNCHANGED <<threads, generation, participants, mode, next, done, length, job, finished>>
    BY <1>9 DEF Submit, header, local
  <2>2. mode = "produced" /\ InRound
    BY <2>1 DEF JobsHeld, SharedOneWay, InRound
  <2>3. /\ pc'[Caller] = "submit" /\ InRound'
        /\ \A p \in Procs : pc'[p] \in Parts => pc[p] = pc'[p] \/ pc'[p] = "produce"
    BY <1>3, <2>1 DEF InRound, InPart, Parts
  <2>4. \A p \in Procs : pc'[p] = "run" => pc[p] = "run"
    BY <2>3 DEF Parts
  <2>5. SharedOneWay'
    BY <2>1, <2>2, <2>3 DEF JobsHeld, SharedOneWay, Parts
  <2>6. RoundCounts' /\ RunInOrder'
    BY <1>1, <2>1, <2>2, <2>3 DEF JobsHeld, RoundCounts, RunInOrder, Ending
  <2>7. ClaimedBelowNext' /\ SharesApart'
    BY <2>1, <2>2, <2>4 DEF JobsHeld, ClaimedBelowNext, SharesApart
  <2>8. NoJobTwice'
    <3>1. \A p \in Procs : job[p] \in Nat
      BY JobsFacts
    <3>2. QED
      BY <1>1, <2>1, <2>4, <3>1 DEF JobsHeld, NoJobTwice
  <2>9. QED
    BY <2>5, <2>6, <2>7, <2>8 DEF JobsHeld
<1>10. CASE Close
  <2>1. /\ pc[Caller] = "submit" /\ Broadcast("produce")
        /\ UNCHANGED <<threads, generation, participants, mode, next, done, count, seen>>
        /\ UNCHANGED <<length, job, size, finished>>
    BY <1>10 DEF Close, local, work
  <2>2. mode = "produced" /\ InRound
    BY <2>1 DEF JobsHeld, SharedOneWay, InRound
  <2>3. \A p \in Procs : GoesOn(p)
    BY <1>3, <2>1, <2>2 DEF GoesOn
  <2>4. pc'[Caller] = "produce" /\ RunInOrder'
    BY <1>3, <2>1 DEF RunInOrder, Ending
  <2>5. \A w \in Workers : Late(w)' => Late(w)
    BY <1>3, <1>5, <2>1, <2>4 DEF Late
  <2>6. QED
    BY <1>1, <2>1, <2>2, <2>3, <2>4, <2>5, QuietJobs
<1>11. CASE Drain
  <2>1. /\ pc[Caller] = "drain" /\ Goto(Caller, "barrier") /\ done >= count
        /\ UNCHANGED <<threads, generation, participants, mode, next, done, count, seen>>
        /\ UNCHANGED <<length, job, size, finished>>
    BY <1>11 DEF Drain, shared, header, local, work
  <2>2. pc'[Caller] = "barrier" /\ \A p \in Procs \ {Caller} : pc'[p] = pc[p]
    BY <1>2, <2>1
  <2>3. \A p \in Procs : GoesOn(p)
    BY <2>1, <2>2 DEF GoesOn, InPart, Parts
  <2>4. InRound /\ RunInOrder'
    BY <2>1, <2>2 DEF InRound, RunInOrder, Ending
  <2>5. \A w \in Workers : Late(w)' => Late(w)
    BY <1>5, <2>1, <2>2 DEF Late
  <2>6. QED
    BY <1>1, <2>1, <2>2, <2>3, <2>4, <2>5, QuietJobs
<1>12. QED
  BY <1>6, <1>7, <1>8, <1>9, <1>10, <1>11

-------------------------------------------------------------------------------
(* The theorems.                                                           *)

LEMMA InvInit == Init => Inv
<1> SUFFICES ASSUME Init PROVE Inv
  OBVIOUS
<1>1. Placed
  BY TypeInit, CoreInit, CallerProc DEF Init, JobsExist, Placed, Core
<1>2. /\ pc[Caller] = "idle" /\ helpers = 0 /\ size = 0 /\ finished = {}
      /\ \A p \in Procs : pc[p] \in {"idle", "spin", "unborn"}
  BY CallerProc DEF Init
<1>3. ~InRound
  BY <1>2 DEF InRound, Parts
<1>4. \A p \in Procs : ~InPart(p) /\ pc[p] # "giveback"
  BY <1>1, <1>3, NobodyApart DEF Apart
<1>5. SlotsHeld
  <2>1. Holding = {}
    BY <1>3 DEF Holding
  <2>2. QED
    BY <1>1, <1>2, <1>3, <1>4, <2>1, PlacedFacts, FS_EmptySet DEF SlotsHeld
<1>6. JobsHeld
  <2>1. \A p \in Procs : pc[p] \notin Parts
    BY <1>4 DEF InPart
  <2>2. SharedOneWay /\ NoJobTwice
    BY <1>2, <1>4, <2>1 DEF SharedOneWay, NoJobTwice, Parts
  <2>3. RoundCounts /\ RunInOrder /\ ClaimedBelowNext /\ SharesApart
    BY <1>2, <1>3 DEF RoundCounts, RunInOrder, ClaimedBelowNext, SharesApart
  <2>4. QED
    BY <2>2, <2>3 DEF JobsHeld
<1>7. QED
  BY <1>1, <1>5, <1>6 DEF Inv

LEMMA InvNext == Inv /\ [Next]_vars => Inv'
<1> SUFFICES ASSUME Inv, [Next]_vars PROVE Inv'
  OBVIOUS
<1>1. Placed /\ SlotsHeld /\ JobsHeld
  BY DEF Inv
<1>2. Placed'
  BY <1>1, PlacedNext
<1>3. CASE UNCHANGED vars
  <2>1. SlotsHeld'
    BY <1>1, <1>3 DEF SlotsHeld, Holding, Late, InPart, InRound, Workers, vars, shared,
          header, local, work
  <2>2. SharedOneWay' /\ NoJobTwice' /\ ClaimedBelowNext'
    BY <1>1, <1>3 DEF JobsHeld, SharedOneWay, NoJobTwice, ClaimedBelowNext, InPart,
          InRound, vars, shared, header, local, work
  <2>3. RoundCounts' /\ RunInOrder'
    BY <1>1, <1>3 DEF JobsHeld, RoundCounts, RunInOrder,
          InRound, vars, shared, header, local, work
  <2>4. SharesApart'
    BY <1>1, <1>3 DEF JobsHeld, SharesApart, InShare, Share, Stride, Late, Workers, InPart,
          InRound, vars, shared, header, local, work
  <2>5. QED
    BY <1>2, <2>1, <2>2, <2>3, <2>4 DEF Inv, JobsHeld
<1>4. ASSUME NEW w \in Workers,
             \/ Spin(w) \/ Park(w) \/ SpuriousWakeup(w)
             \/ Check(w) \/ Enter(w) \/ GiveBack(w) \/ Arrive(w)
      PROVE  Inv'
  BY <1>1, <1>2, <1>4, WorkerSlots, WorkerJobs, EnterJobs DEF Inv
<1>5. ASSUME NEW p \in Procs, PartStep(p)
      PROVE  Inv'
  BY <1>1, <1>2, <1>5, PartSlots, NextJobs, FinishJobs DEF Inv, PartStep
<1>6. CASE CallerAlone \/ Broadcasts
  <2>1. SlotsHeld'
    BY <1>1, <1>2, <1>6, CallerSlots
  <2>2. JobsHeld'
    BY <1>1, <1>2, <1>6, AloneJobs, CallerJobs DEF CallerAlone, Broadcasts
  <2>3. QED
    BY <1>2, <2>1, <2>2 DEF Inv
<1>7. Workers \subseteq Procs /\ Caller \in Procs
  BY <1>1, PlacedFacts
<1>8. QED
  BY <1>3, <1>4, <1>5, <1>6, <1>7, StepKinds

\* At every step each thread is where its round allows, each slot is some
\* worker's, and every job is one thread's to run (`Pool`, `_worker`).
THEOREM Invariance == Spec => []Inv
BY InvInit, InvNext, PTL DEF Spec

\* No job of a round is run by two threads, or run again, whether the jobs are
\* dealt out (`_run_share`), claimed (`_run_claim`) or produced
\* (`_run_produced`).
THEOREM JobsRunOnce == Spec => []NoJobTwice
<1>1. Inv => NoJobTwice
  BY DEF Inv, JobsHeld
<1>2. QED
  BY <1>1, Invariance, PTL

\* Every thread that runs a job holds a slot of the budget, the caller apart,
\* and a call that has returned holds none.
THEOREM SlotsAreEnough == Spec => []SlotsCoverThreads
<1>1. Inv => SlotsCoverThreads
  <2> SUFFICES ASSUME Inv PROVE SlotsCoverThreads
    OBVIOUS
  <2> DEFINE Running == {p \in Procs : pc[p] = "run"}
  <2>1. Placed /\ SlotsHeld
    BY DEF Inv
  <2>2. IsFiniteSet(Holding) /\ helpers = Cardinality(Holding) /\ helpers \in Nat
    BY <2>1, HoldingFinite DEF SlotsHeld
  <2>3. Running \in SUBSET (Holding \cup {Caller})
    <3> SUFFICES ASSUME NEW p \in Procs, pc[p] = "run", p # Caller PROVE p \in Holding
      OBVIOUS
    <3>1. InPart(p)
      BY DEF InPart, Parts
    <3>2. QED
      BY <2>1, <3>1, PartInRound DEF Holding, SlotsHeld
  <2>4. /\ IsFiniteSet(Holding \cup {Caller})
        /\ Cardinality(Holding \cup {Caller}) \in Nat
        /\ Cardinality(Holding \cup {Caller}) <= helpers + 1
    <3>1. /\ IsFiniteSet(Holding \cup {Caller})
          /\ Cardinality(Holding \cup {Caller}) =
                IF Caller \in Holding THEN Cardinality(Holding) ELSE Cardinality(Holding) + 1
      BY <2>2, FS_AddElement
    <3>2. QED
      BY <2>2, <3>1
  <2>5. Cardinality(Running) \in Nat /\ Cardinality(Running) <= helpers + 1
    <3>1. /\ Cardinality(Running) <= Cardinality(Holding \cup {Caller})
          /\ IsFiniteSet(Running)
      BY <2>3, <2>4, FS_Subset
    <3>2. Cardinality(Running) \in Nat
      BY <3>1, FS_CardinalityType
    <3>3. QED
      BY <2>2, <2>4, <3>1, <3>2
  <2>6. ~InRound => helpers = 0
    BY <2>2, NobodyHolds, FS_EmptySet
  <2>7. QED
    BY <2>5, <2>6 DEF SlotsCoverThreads
<1>2. QED
  BY <1>1, Invariance, PTL

-------------------------------------------------------------------------------
(* The contract of a round.                                                *)

RoundOpen == pc[Caller] \notin {"idle", "join", "freed"}

LEMMA ContractStep ==
    ASSUME Inv, Inv', [Next]_vars
    PROVE  [Contract!Next]_(Contract!jobVars)
<1> USE DEF Contract!Next, Contract!Begin, Contract!Submit, Contract!Run,
            Contract!Return, Contract!jobVars
<1>1. /\ Placed /\ Placed' /\ SlotsHeld /\ JobsHeld /\ JobsHeld'
      /\ TypeOK /\ JobsExist /\ Caller \in Procs /\ Workers \subseteq Procs \ {Caller}
      /\ pc \in [Procs -> WorkerPcs \cup CallerPcs]
  BY PlacedFacts DEF Inv, TypeOK, PcOK
<1>2. /\ size \in Nat /\ size \in 0..MaxJobs /\ finished \subseteq 0..(size - 1)
      /\ Cardinality(finished) \in Nat
      /\ Cardinality(finished) <= size
      /\ Cardinality(finished) = size => finished = 0..(size - 1)
      /\ MaxJobs \in Nat
  BY <1>1, JobsFacts, Bounds
<1>3. ASSUME NEW there, Goto(Caller, there) \/ Broadcast(there)
      PROVE  pc'[Caller] = there
  BY <1>1, <1>3 DEF Goto, Broadcast
<1>4. CASE UNCHANGED vars
  BY <1>4 DEF vars, work
<1>5. ASSUME NEW w \in Workers,
             \/ Spin(w) \/ Park(w) \/ SpuriousWakeup(w)
             \/ Check(w) \/ Enter(w) \/ GiveBack(w) \/ Arrive(w)
      PROVE  UNCHANGED Contract!jobVars
  <2>1. UNCHANGED <<size, finished>> /\ \E q : Goto(w, q)
    BY <1>5 DEF Spin, Park, SpuriousWakeup, Check, Enter, GiveBack, Arrive, work
  <2>2. pc'[Caller] = pc[Caller]
    BY <1>1, <2>1 DEF Goto
  <2>3. QED
    BY <2>1, <2>2
<1>6. ASSUME NEW p \in Procs, PartStep(p)
      PROVE  \/ UNCHANGED Contract!jobVars
             \/ \E j \in 0..(MaxJobs - 1) : Contract!Run(j)
  <2>1. /\ InPart(p) /\ size' = size
        /\ \E q \in Parts \cup {IF p = Caller THEN "drain" ELSE "giveback"} : Goto(p, q)
    BY <1>1, <1>6, PartGoes
  <2>2. pc[Caller] \in Open
    BY <1>1, <2>1, PartInRound
  <2>3. pc'[Caller] \in Open
    BY <1>1, <2>1, <2>2 DEF Goto, Open
  <2>4. RoundOpen /\ RoundOpen'
    BY <2>2, <2>3 DEF RoundOpen, Open, Parts
  <2>5. CASE FinishJob(p)
    <3>1. /\ pc[p] = "run" /\ finished' = finished \cup {job[p]}
          /\ job[p] < size /\ job[p] \notin finished /\ job[p] \in Nat
      BY <1>1, <2>5, JobsFacts DEF FinishJob, Finished, JobsHeld, NoJobTwice
    <3>2. job[p] \in 0..(MaxJobs - 1) /\ job[p] \in 0..(size - 1)
      BY <1>2, <3>1
    <3>3. QED
      BY <2>1, <2>4, <3>1, <3>2 DEF RoundOpen
  <2>6. CASE ~FinishJob(p)
    <3>1. finished' = finished
      BY <1>6, <2>6 DEF PartStep, ShareNext, ClaimNext, ProduceNext, work
    <3>2. QED
      BY <2>1, <2>4, <3>1 DEF RoundOpen
  <2>7. QED
    BY <2>5, <2>6
<1>7. ASSUME NEW n \in 0..MaxJobs, NewRound(n), NEW there,
             there \in {"inline", "inlineSubmit", "wake", "submit"},
             Goto(Caller, there) \/ Broadcast(there)
      PROVE  Contract!Begin(n)
  BY <1>3, <1>7 DEF NewRound
<1>8. CASE \/ \E n \in 1..MaxJobs : RunInline(n)
           \/ \E n \in 1..MaxJobs, claim \in BOOLEAN : RunJobs(n, claim)
           \/ ProduceInline \/ ProduceBegin
  <2>1. \A n \in 1..MaxJobs : n \in 0..MaxJobs
    OBVIOUS
  <2>2. 0 \in 0..MaxJobs
    BY <1>2
  <2>3. \E n \in 0..MaxJobs : Contract!Begin(n)
    BY <1>7, <1>8, <2>1, <2>2 DEF RunInline, RunJobs, ProduceInline, ProduceBegin
  <2>4. QED
    BY <2>3
<1>9. CASE (InlineNext /\ ~(Cardinality(finished) < size)) \/ InlineClose \/ Barrier
  <2>1. pc'[Caller] = "idle" /\ size' = 0 /\ finished' = {}
    BY <1>3, <1>9 DEF InlineNext, InlineClose, Barrier, Return
  <2>2. finished = 0..(size - 1)
    <3>1. CASE InlineNext /\ ~(Cardinality(finished) < size)
      BY <1>2, <3>1
    <3>2. CASE InlineClose
      BY <1>1, <3>2 DEF InlineClose, JobsHeld, RunInOrder
    <3>3. CASE Barrier
      <4>1. pc[Caller] = "barrier" /\ InRound
        BY <3>3 DEF Barrier, InRound
      <4>2. Cardinality(finished) = size
        BY <1>1, <1>2, <4>1 DEF JobsHeld, RoundCounts
      <4>3. QED
        BY <1>2, <4>2
    <3>4. QED
      BY <1>9, <3>1, <3>2, <3>3
  <2>3. RoundOpen
    BY <1>9 DEF InlineNext, InlineClose, Barrier, RoundOpen
  <2>4. Contract!Return
    BY <2>1, <2>2, <2>3 DEF RoundOpen
  <2>5. QED
    BY <2>4
<1>10. CASE InlineNext /\ Cardinality(finished) < size
  <2>1. /\ pc[Caller] = "inline" /\ pc' = pc /\ size' = size
        /\ finished' = finished \cup {Cardinality(finished)}
    BY <1>10 DEF InlineNext, Finished
  <2>2. /\ finished = 0..(Cardinality(finished) - 1)
        /\ Cardinality(finished) \in 0..(MaxJobs - 1) /\ Cardinality(finished) \in 0..(size - 1)
    BY <1>1, <1>2, <1>10, <2>1 DEF JobsHeld, RunInOrder
  <2>3. Cardinality(finished) \notin finished
    BY <1>2, <2>2
  <2>4. Contract!Run(Cardinality(finished))
    BY <2>1, <2>2, <2>3
  <2>5. QED
    BY <2>2, <2>4
<1>11. CASE InlineJob
  <2>1. pc[Caller] = "inlineJob" /\ Goto(Caller, "inlineSubmit")
    BY <1>11 DEF InlineJob
  <2>2. pc'[Caller] = "inlineSubmit" /\ size' = size /\ finished' = finished \cup {size - 1}
    BY <1>3, <1>11, <2>1 DEF InlineJob, Finished
  <2>3. finished = 0..(size - 2) /\ size > 0
    BY <1>1, <2>1 DEF JobsHeld, RunInOrder, JobsExist
  <2>4. size - 1 \in 0..(MaxJobs - 1) /\ size - 1 \in 0..(size - 1) /\ size - 1 \notin finished
    BY <1>2, <2>3
  <2>5. Contract!Run(size - 1)
    BY <2>1, <2>2, <2>4
  <2>6. QED
    BY <2>4, <2>5
<1>12. CASE InlineSubmit \/ Submit
  <2>1. /\ size < MaxJobs /\ size' = size + 1 /\ finished' = finished
        /\ pc[Caller] \in {"inlineSubmit", "submit"}
        /\ Goto(Caller, "inlineJob") \/ Broadcast("submit")
    BY <1>12 DEF InlineSubmit, Submit
  <2>2. pc'[Caller] \in {"inlineJob", "submit"}
    BY <1>3, <2>1
  <2>3. Contract!Submit
    BY <2>1, <2>2
  <2>4. QED
    BY <2>3
<1>13. CASE Wake \/ Close \/ Drain
  <2>1. /\ UNCHANGED <<size, finished>> /\ pc[Caller] \in {"wake", "submit", "drain"}
        /\ Broadcast(PartOf(mode)) \/ Broadcast("produce") \/ Goto(Caller, "barrier")
    BY <1>13 DEF Wake, Close, Drain, work
  <2>2. PartOf(mode) \in Parts
    BY <1>1, PartOfPc DEF TypeOK
  <2>3. pc'[Caller] \in Open
    BY <1>3, <2>1, <2>2 DEF Open, Parts
  <2>4. RoundOpen /\ RoundOpen'
    BY <2>1, <2>3 DEF RoundOpen, Open, Parts
  <2>5. QED
    BY <2>1, <2>4 DEF RoundOpen
<1>14. CASE Release \/ Join
  <2>1. /\ UNCHANGED <<size, finished>> /\ pc[Caller] \in {"idle", "join"}
        /\ Broadcast("join") \/ Goto(Caller, "freed")
    BY <1>14 DEF Release, Join, work
  <2>2. pc'[Caller] \in {"join", "freed"}
    BY <1>3, <2>1
  <2>3. QED
    BY <2>1, <2>2
<1>15. [Contract!Next]_(Contract!jobVars) \/ ~(CallerAlone \/ Broadcasts)
  BY <1>8, <1>9, <1>10, <1>11, <1>12, <1>13, <1>14 DEF CallerAlone, Broadcasts
<1>16. Workers \subseteq Procs
  BY <1>1
<1>17. QED
  BY <1>4, <1>5, <1>6, <1>15, <1>16, <1>1, StepKinds

\* A call of the pool opens a round with its jobs, each is run once by some
\* thread, jobs a producer adds included, and the call returns only after all
\* of them have been run (`Pool.run`, `_ProducedJobs`).
THEOREM KeepsContract == Spec => ImplementsContract
<1>1. Init => Contract!Init
  BY CallerProc DEF Init, Contract!Init
<1>2. Inv /\ Inv' /\ [Next]_vars => [Contract!Next]_(Contract!jobVars)
  BY ContractStep
<1>3. QED
  BY <1>1, <1>2, Invariance, PTL DEF Spec, ImplementsContract, Contract!Spec
===============================================================================
