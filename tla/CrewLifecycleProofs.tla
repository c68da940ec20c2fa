--------------------------- MODULE CrewLifecycleProofs --------------------------
(***************************************************************************)
(* Proofs about module CrewLifecycle, for any addresses, sizes and         *)
(* settings, any number of starts and any set of operations, finite or     *)
(* not.                                                                    *)
(*                                                                         *)
(* Ownership is proved of every behaviour, those in which a call posts to  *)
(* another operation's crew included: GInv says where an operation has a   *)
(* crew and that a crew has one owner or is parked (Placed, Owned), and    *)
(* the steps of the pool take, publish, release and park it as one.  What  *)
(* a stop needs is true only as long as calls post to their own            *)
(* operation's crew: then a crew's threads are those it counts (Counted),  *)
(* so that joining as many as are counted leaves none.  With one operation *)
(* there is no other crew to post to, and OwnCalls is itself an            *)
(* invariant: the model checker refutes the same properties with two.      *)
(***************************************************************************)
EXTENDS CrewLifecycle, FiniteSetTheorems, TLAPS

Places == {"idle", "start", "load", "take", "allocate", "publish", "body", "release",
           "offer", "park", "shutdown"} \cup Stopped \cup Using
States == {"none", "creating", "create", "look", "lock", "parked", "exited"}

\* The types that hold of every behaviour: the counts of threads and of joins
\* have a bound only where calls are an operation's own.
Typed ==
    /\ setting \in 0..MaxHelpers
    /\ current \in Addresses \cup {None}
    /\ parked \in Addresses \cup {None}
    /\ live \in [Addresses -> BOOLEAN]
    /\ wanted \in [Addresses -> 0..MaxHelpers]
    /\ spawned \in [Addresses -> 0..2]
    /\ threads \in [Addresses -> Nat]
    /\ stopping \in [Addresses -> BOOLEAN]
    /\ worker \in [Addresses -> [Workers -> States]]
    /\ pc \in [Operations -> Places]
    /\ after \in [Operations -> {"idle", "allocate", "body"}]
    /\ mine \in [Operations -> Addresses \cup {None}]
    /\ helpers \in [Operations -> 0..MaxHelpers]
    /\ seen \in [Operations -> Addresses \cup {None}]
    /\ joins \in [Operations -> Nat]

\* What holds whichever crew a call posts to.
GInv == Typed /\ Placed /\ Owned

\* A thread's place and a crew's flag keep their types.
LEMMA WorkerMoves ==
    ASSUME worker \in [Addresses -> [Workers -> States]],
           NEW a \in Addresses, NEW t, NEW there \in States
    PROVE  [worker EXCEPT ![a][t] = there] \in [Addresses -> [Workers -> States]]
<1>1. [worker[a] EXCEPT ![t] = there] \in [Workers -> States]
  OBVIOUS
<1> QED BY <1>1

LEMMA MineMoves ==
    ASSUME mine \in [Operations -> Addresses \cup {None}],
           NEW o, NEW a \in Addresses \cup {None}
    PROVE  [mine EXCEPT ![o] = a] \in [Operations -> Addresses \cup {None}]
OBVIOUS

LEMMA FlagMoves ==
    ASSUME spawned \in [Addresses -> 0..2], NEW a, NEW n \in 0..2
    PROVE  [spawned EXCEPT ![a] = n] \in [Addresses -> 0..2]
OBVIOUS

\* The parked crew becomes an operation's.
LEMMA Taken ==
    ASSUME GInv, NEW o \in Operations, mine[o] = None, parked # None, parked' = None,
           mine' = [mine EXCEPT ![o] = parked], UNCHANGED <<current, live, stopping>>,
           \A q \in Operations : q # o => pc'[q] = pc[q]
    PROVE  Owned'
<1> USE DEF GInv, Typed, Owned, None
<1>1. mine'[o] = parked /\ \A q \in Operations : q # o => mine'[q] = mine[q]
  OBVIOUS
<1>2. ASSUME NEW a \in Addresses
      PROVE  live'[a] <=> parked' = a \/ \E q \in Operations : mine'[q] = a
  <2>1. CASE a = parked
    BY <1>1, <2>1
  <2>2. CASE a # parked
    <3>1. a # None
      BY LifecycleAssumption
    <3>2. \A q \in Operations : mine'[q] = a <=> mine[q] = a
      BY <1>1, <2>2, <3>1
    <3> QED BY <2>2, <3>1, <3>2
  <2> QED BY <2>1, <2>2
<1>3. \A q, r \in Operations : mine'[q] = mine'[r] /\ mine'[q] # None => q = r
  BY <1>1
<1>4. ASSUME current # None
      PROVE  \E q \in Operations : mine'[q] = current /\ pc'[q] \in {"body", "release"} \cup Using
  <2>1. PICK q \in Operations : mine[q] = current /\ pc[q] \in {"body", "release"} \cup Using
    BY <1>4
  <2>2. q # o
    BY <1>4, <2>1
  <2> QED BY <1>1, <2>1, <2>2
<1> QED BY <1>2, <1>3, <1>4

LEMMA StartStepGeneral ==
    ASSUME GInv, NEW o \in Operations, StartStep(o)
    PROVE  GInv'
<1> USE LifecycleAssumption
    DEF GInv, Typed, Placed, Owned, Goto, Then, Own, See, Broadcast, globals, crew,
        local, Places, States, Stopped, Using, Holding, None
<1>1. CASE CheckCurrent(o)
  BY <1>1 DEF CheckCurrent
<1>2. CASE LoadParked(o)
  BY <1>2 DEF LoadParked
<1>3. CASE TakeParked(o)
  <2>1. Typed'
    <3> HIDE DEF Placed, Owned
    <3>1. parked' \in Addresses \cup {None} /\ mine' \in [Operations -> Addresses \cup {None}]
      <4>1. /\ parked' \in {parked, None}
            /\ mine' = mine \/ mine' = [mine EXCEPT ![o] = seen[o]]
        BY <1>3 DEF TakeParked
      <4>2. seen[o] \in Addresses \cup {None} /\ parked \in Addresses \cup {None}
        OBVIOUS
      <4>3. mine \in [Operations -> Addresses \cup {None}]
        OBVIOUS
      <4> HIDE DEF GInv, Typed
      <4> QED BY <4>1, <4>2, <4>3, MineMoves
    <3>2. /\ pc' \in [Operations -> Places]
          /\ after' \in [Operations -> {"idle", "allocate", "body"}]
      <4>1. /\ \E there \in {"publish", "stop", "allocate"} : pc' = [pc EXCEPT ![o] = there]
            /\ after' = after \/ after' = [after EXCEPT ![o] = "allocate"]
        BY <1>3 DEF TakeParked
      <4>2. /\ pc \in [Operations -> Places]
            /\ after \in [Operations -> {"idle", "allocate", "body"}]
        OBVIOUS
      <4> HIDE DEF GInv, Typed
      <4> QED BY <4>1, <4>2
    <3>3. UNCHANGED <<setting, current, crew, worker, helpers, seen, joins>>
      BY <1>3 DEF TakeParked
    <3> QED BY <3>1, <3>2, <3>3
  <2>2. Placed'
    BY <1>3 DEF TakeParked
  <2>3. Owned'
    <3>1. CASE parked = seen[o]
      <4>1. mine[o] = None /\ parked # None
        BY <1>3, <3>1 DEF TakeParked
      <4>2. /\ parked' = None /\ mine' = [mine EXCEPT ![o] = parked]
            /\ UNCHANGED <<current, live, stopping>>
            /\ \A q \in Operations : q # o => pc'[q] = pc[q]
        BY <1>3, <3>1 DEF TakeParked
      <4> HIDE DEF GInv, Owned
      <4> QED BY <4>1, <4>2, Taken
    <3>2. CASE parked # seen[o]
      BY <1>3, <3>2 DEF TakeParked
    <3> QED BY <3>1, <3>2
  <2> QED BY <2>1, <2>2, <2>3
<1>4. CASE Allocate(o)
  <2>1. Typed'
    <3> HIDE DEF Placed, Owned
    <3> QED BY <1>4 DEF Allocate
  <2>2. Placed'
    BY <1>4 DEF Allocate
  <2>3. Owned'
    <3>1. PICK a \in Addresses :
              /\ ~live[a] /\ live' = [live EXCEPT ![a] = TRUE]
              /\ stopping' = [stopping EXCEPT ![a] = FALSE]
              /\ mine' = [mine EXCEPT ![o] = a]
      BY <1>4 DEF Allocate
    <3>2. mine[o] = None /\ parked' = parked /\ current' = current /\ a # None
      <4>1. pc[o] = "allocate" /\ parked' = parked /\ current' = current
        BY <1>4 DEF Allocate
      <4> HIDE DEF Owned, Typed
      <4> QED BY <4>1
    <3>3. \A q \in Operations : q # o => mine'[q] = mine[q] /\ pc'[q] = pc[q]
      BY <1>4, <3>1 DEF Allocate
    <3>4. mine'[o] = a /\ parked # a /\ \A q \in Operations : mine[q] # a
      BY <3>1
    <3>5. ASSUME NEW b \in Addresses
          PROVE  live'[b] <=> parked' = b \/ \E q \in Operations : mine'[q] = b
      <4>1. CASE b = a
        BY <3>1, <3>4, <4>1
      <4>2. CASE b # a
        <5>1. b # None /\ live'[b] = live[b]
          BY <3>1, <4>2
        <5>2. \A q \in Operations : mine'[q] = b <=> mine[q] = b
          BY <3>2, <3>3, <3>4, <4>2, <5>1
        <5> QED BY <3>2, <5>1, <5>2
      <4> QED BY <4>1, <4>2
    <3>6. \A q, r \in Operations : mine'[q] = mine'[r] /\ mine'[q] # None => q = r
      BY <3>3, <3>4
    <3>7. parked' # None => ~stopping'[parked'] /\ \A q \in Operations : mine'[q] # parked'
      BY <3>1, <3>2, <3>3, <3>4
    <3>8. ASSUME current # None
          PROVE  \E q \in Operations :
                    mine'[q] = current /\ pc'[q] \in {"body", "release"} \cup Using
      <4>1. PICK q \in Operations :
                mine[q] = current /\ pc[q] \in {"body", "release"} \cup Using
        BY <3>8
      <4>2. q # o
        BY <3>2, <3>8, <4>1
      <4> QED BY <3>3, <4>1, <4>2
    <3> QED BY <3>2, <3>5, <3>6, <3>7, <3>8
  <2> QED BY <2>1, <2>2, <2>3
<1>5. CASE AllocateFails(o)
  BY <1>5 DEF AllocateFails
<1>6. CASE Publish(o)
  <2>1. Typed'
    <3> HIDE DEF Placed, Owned
    <3> QED BY <1>6 DEF Publish
  <2>2. Placed'
    BY <1>6 DEF Publish
  <2>3. Owned'
    BY <1>6 DEF Publish
  <2> QED BY <2>1, <2>2, <2>3
<1> QED BY <1>1, <1>2, <1>3, <1>4, <1>5, <1>6 DEF StartStep

LEMMA CallStepGeneral ==
    ASSUME GInv, NEW o \in Operations, CallStep(o)
    PROVE  GInv'
<1> USE LifecycleAssumption
    DEF GInv, Typed, Placed, Owned, Goto, Then, Own, See, Broadcast, globals, crew,
        local, Places, States, Stopped, Using, Holding, None
<1>1. CASE Use(o)
  BY <1>1 DEF Use
<1>2. CASE WinSpawn(o)
  <2>1. Typed'
    <3> HIDE DEF Placed, Owned
    <3>1. CASE spawned[seen[o]] = 0
      <4>1. /\ spawned' = [spawned EXCEPT ![seen[o]] = 1]
            /\ threads' = [threads EXCEPT ![seen[o]] = 1]
            /\ pc' = [pc EXCEPT ![o] = "create"]
        BY <1>2, <3>1 DEF WinSpawn
      <4>2. threads' \in [Addresses -> Nat] /\ pc' \in [Operations -> Places]
        BY <4>1
      <4>3. spawned' \in [Addresses -> 0..2]
        BY <4>1, FlagMoves
      <4> QED BY <1>2, <4>2, <4>3 DEF WinSpawn
    <3>2. CASE spawned[seen[o]] # 0
      BY <1>2, <3>2 DEF WinSpawn
    <3> QED BY <3>1, <3>2
  <2>2. Placed'
    <3>1. /\ pc[o] = "spawn" /\ UNCHANGED <<stopping, mine, after, helpers, seen, parked>>
          /\ UNCHANGED <<live, current, wanted, setting>>
          /\ \/ pc' = [pc EXCEPT ![o] = "create"]
             \/ pc' = [pc EXCEPT ![o] = "post"]
      BY <1>2 DEF WinSpawn
    <3>2. /\ \A q \in Operations : q # o => pc'[q] = pc[q]
          /\ pc'[o] \in {"create", "post"}
      BY <3>1
    <3>3. /\ seen[o] # None
          /\ mine[o] # None => wanted[mine[o]] = helpers[o] /\ ~stopping[mine[o]]
      BY <3>1
    <3> HIDE DEF GInv, Typed, Owned
    <3> QED BY <3>1, <3>2, <3>3 DEF GInv
  <2>3. Owned'
    BY <1>2 DEF WinSpawn, Workers
  <2> QED BY <2>1, <2>2, <2>3
<1>3. CASE Create(o)
  <2>1. Typed'
    <3> HIDE DEF Placed, Owned
    <3> QED BY <1>3 DEF Create, Workers
  <2>2. Placed'
    BY <1>3 DEF Create, Workers
  <2>3. Owned'
    BY <1>3 DEF Create, Workers
  <2> QED BY <2>1, <2>2, <2>3
<1>4. CASE CreateFails(o)
  BY <1>4 DEF CreateFails
<1>5. CASE PostJobs(o)
  BY <1>5 DEF PostJobs
<1>6. CASE Retire(o)
  BY <1>6 DEF Retire
<1> QED BY <1>1, <1>2, <1>3, <1>4, <1>5, <1>6 DEF CallStep

LEMMA EndStepGeneral ==
    ASSUME GInv, NEW o \in Operations, EndStep(o)
    PROVE  GInv'
<1> USE LifecycleAssumption
    DEF GInv, Typed, Placed, Owned, Goto, Then, Own, See, Broadcast, globals, crew,
        local, Places, States, Stopped, Using, Holding, None
<1>1. CASE Release(o)
  BY <1>1 DEF Release
<1>2. CASE Offer(o)
  BY <1>2 DEF Offer
<1>3. CASE Park(o)
  <2>1. Typed'
    <3> HIDE DEF Placed, Owned
    <3>1. parked' \in Addresses \cup {None} /\ mine' \in [Operations -> Addresses \cup {None}]
      <4>1. /\ parked' \in {parked, mine[o]}
            /\ mine' = mine \/ mine' = [mine EXCEPT ![o] = None]
        BY <1>3 DEF Park
      <4>2. mine[o] \in Addresses \cup {None} /\ parked \in Addresses \cup {None}
        OBVIOUS
      <4>3. mine \in [Operations -> Addresses \cup {None}]
        OBVIOUS
      <4> HIDE DEF GInv, Typed
      <4> QED BY <4>1, <4>2, <4>3, MineMoves
    <3>2. pc' \in [Operations -> Places]
      <4>1. pc' = [pc EXCEPT ![o] = after[o]] \/ pc' = [pc EXCEPT ![o] = "stop"]
        BY <1>3 DEF Park
      <4>2. pc \in [Operations -> Places] /\ after[o] \in {"idle", "allocate", "body"}
        OBVIOUS
      <4> HIDE DEF GInv, Typed
      <4> QED BY <4>1, <4>2
    <3>3. UNCHANGED <<setting, current, crew, worker, after, helpers, seen, joins>>
      BY <1>3 DEF Park
    <3> QED BY <3>1, <3>2, <3>3
  <2>2. Placed'
    <3>1. CASE parked = None
      BY <1>3, <3>1 DEF Park
    <3>2. CASE parked # None
      BY <1>3, <3>2 DEF Park
    <3> QED BY <3>1, <3>2
  <2>3. Owned'
    <3>1. CASE parked = None
      <4>1. /\ parked' = mine[o] /\ mine[o] # None /\ mine'[o] = None
            /\ \A q \in Operations : q # o => mine'[q] = mine[q] /\ pc'[q] = pc[q]
            /\ live' = live /\ stopping' = stopping /\ current' = current
            /\ pc[o] = "park" /\ ~stopping[mine[o]]
        BY <1>3, <3>1 DEF Park
      <4>2. ASSUME NEW b \in Addresses
            PROVE  live'[b] <=> parked' = b \/ \E q \in Operations : mine'[q] = b
        <5>1. b # None
          OBVIOUS
        <5>2. CASE b = mine[o]
          BY <4>1, <5>2
        <5>3. CASE b # mine[o]
          <6>1. \A q \in Operations : mine'[q] = b <=> mine[q] = b
            BY <4>1, <5>1, <5>3
          <6> QED BY <3>1, <4>1, <5>1, <5>3, <6>1
        <5> QED BY <5>2, <5>3
      <4>3. \A q, r \in Operations : mine'[q] = mine'[r] /\ mine'[q] # None => q = r
        BY <4>1
      <4>4. ~stopping'[parked'] /\ \A q \in Operations : mine'[q] # parked'
        BY <4>1
      <4>5. ASSUME current # None
            PROVE  \E q \in Operations :
                      mine'[q] = current /\ pc'[q] \in {"body", "release"} \cup Using
        <5>1. PICK q \in Operations :
                  mine[q] = current /\ pc[q] \in {"body", "release"} \cup Using
          BY <4>5
        <5>2. q # o
          BY <4>1, <5>1
        <5> QED BY <4>1, <5>1, <5>2
      <4> QED BY <4>1, <4>2, <4>3, <4>4, <4>5
    <3>2. CASE parked # None
      BY <1>3, <3>2 DEF Park
    <3> QED BY <3>1, <3>2
  <2> QED BY <2>1, <2>2, <2>3
<1>4. CASE TakeShutdown(o)
  <2>1. Typed'
    <3> HIDE DEF Placed, Owned
    <3>1. parked' \in Addresses \cup {None} /\ mine' \in [Operations -> Addresses \cup {None}]
      <4>1. /\ parked' \in {parked, None}
            /\ mine' = mine \/ mine' = [mine EXCEPT ![o] = seen[o]]
        BY <1>4 DEF TakeShutdown
      <4>2. seen[o] \in Addresses \cup {None} /\ parked \in Addresses \cup {None}
        OBVIOUS
      <4>3. mine \in [Operations -> Addresses \cup {None}]
        OBVIOUS
      <4> HIDE DEF GInv, Typed
      <4> QED BY <4>1, <4>2, <4>3, MineMoves
    <3>2. /\ pc' \in [Operations -> Places]
          /\ after' \in [Operations -> {"idle", "allocate", "body"}]
      BY <1>4 DEF TakeShutdown
    <3>3. UNCHANGED <<setting, current, crew, worker, helpers, seen, joins>>
      BY <1>4 DEF TakeShutdown
    <3> QED BY <3>1, <3>2, <3>3
  <2>2. Placed'
    BY <1>4 DEF TakeShutdown
  <2>3. Owned'
    <3>1. CASE parked = seen[o]
      <4>1. mine[o] = None /\ parked # None
        BY <1>4, <3>1 DEF TakeShutdown
      <4>2. /\ parked' = None /\ mine' = [mine EXCEPT ![o] = parked]
            /\ UNCHANGED <<current, live, stopping>>
            /\ \A q \in Operations : q # o => pc'[q] = pc[q]
        BY <1>4, <3>1 DEF TakeShutdown
      <4> HIDE DEF GInv, Owned
      <4> QED BY <4>1, <4>2, Taken
    <3>2. CASE parked # seen[o]
      BY <1>4, <3>2 DEF TakeShutdown
    <3> QED BY <3>1, <3>2
  <2> QED BY <2>1, <2>2, <2>3
<1>5. CASE Stop(o)
  BY <1>5 DEF Stop
<1>6. CASE AwaitSpawn(o)
  BY <1>6 DEF AwaitSpawn
<1>7. CASE Join(o)
  BY <1>7 DEF Join
<1> QED BY <1>1, <1>2, <1>3, <1>4, <1>5, <1>6, <1>7 DEF EndStep

LEMMA OtherGeneral ==
    ASSUME GInv, NEW o \in Operations, Begin(o) \/ Call(o) \/ End(o) \/ LoadShutdown(o)
    PROVE  GInv'
<1> USE LifecycleAssumption
    DEF GInv, Typed, Placed, Owned, Goto, Then, Own, See, Broadcast, globals, crew,
        local, Places, States, Stopped, Using, Holding, None
<1>1. CASE Begin(o)
  BY <1>1 DEF Begin
<1>2. CASE Call(o)
  BY <1>2 DEF Call
<1>3. CASE End(o)
  BY <1>3 DEF End
<1>4. CASE LoadShutdown(o)
  BY <1>4 DEF LoadShutdown
<1> QED BY <1>1, <1>2, <1>3, <1>4

LEMMA SpawnGeneral ==
    ASSUME GInv, NEW a \in Addresses, SpawnStep(a)
    PROVE  GInv'
<1> USE LifecycleAssumption
    DEF GInv, Typed, Placed, Owned, Move, SpawnDone, globals, crew, local, Places,
        States, Stopped, Using, Holding, None, Workers
<1>1. CASE SpawnCheck(a)
  <2>1. Typed'
    <3> HIDE DEF Placed, Owned
    <3>1. UNCHANGED <<globals, live, wanted, threads, stopping, pc, local>>
      BY <1>1 DEF SpawnCheck
    <3>2. /\ \/ worker' = [worker EXCEPT ![a][1] = "create"]
             \/ worker' = [worker EXCEPT ![a][1] = "look"]
          /\ spawned' = spawned \/ spawned' = [spawned EXCEPT ![a] = 2]
      BY <1>1 DEF SpawnCheck
    <3>3. /\ worker \in [Addresses -> [Workers -> States]] /\ spawned \in [Addresses -> 0..2]
          /\ "create" \in States /\ "look" \in States /\ 2 \in 0..2
      OBVIOUS
    <3>4. worker' \in [Addresses -> [Workers -> States]]
      <4> HIDE DEF GInv, Typed, States, Workers
      <4>1. [worker EXCEPT ![a][1] = "create"] \in [Addresses -> [Workers -> States]]
        BY <3>3, WorkerMoves
      <4>2. [worker EXCEPT ![a][1] = "look"] \in [Addresses -> [Workers -> States]]
        BY <3>3, WorkerMoves
      <4> QED BY <3>2, <4>1, <4>2
    <3>5. spawned' \in [Addresses -> 0..2]
      BY <3>2, <3>3, FlagMoves
    <3> QED BY <3>1, <3>4, <3>5
  <2>2. Placed'
    BY <1>1 DEF SpawnCheck
  <2>3. Owned'
    BY <1>1 DEF SpawnCheck
  <2> QED BY <2>1, <2>2, <2>3
<1>2. CASE SpawnNext(a)
  BY <1>2 DEF SpawnNext
<1>3. CASE SpawnFails(a)
  BY <1>3 DEF SpawnFails
<1> QED BY <1>1, <1>2, <1>3 DEF SpawnStep

LEMMA WorkerGeneral ==
    ASSUME GInv, NEW a \in Addresses, NEW t \in Workers, WorkerStep(a, t) \/ SpuriousWakeup(a, t)
    PROVE  GInv'
<1> USE LifecycleAssumption
    DEF GInv, Typed, Placed, Owned, Move, globals, crew, local, Places, States,
        Stopped, Using, Holding, None, Workers
<1>1. CASE Look(a, t)
  BY <1>1 DEF Look
<1>2. CASE Sleep(a, t)
  <2>1. Typed'
    <3> HIDE DEF Placed, Owned
    <3>1. UNCHANGED <<globals, crew, pc, local>>
      BY <1>2 DEF Sleep
    <3>2. \/ worker' = [worker EXCEPT ![a][t] = "look"]
          \/ worker' = [worker EXCEPT ![a][t] = "parked"]
      BY <1>2 DEF Sleep
    <3>3. /\ worker \in [Addresses -> [Workers -> States]]
          /\ "look" \in States /\ "parked" \in States
      OBVIOUS
    <3>4. worker' \in [Addresses -> [Workers -> States]]
      BY <3>2, <3>3, WorkerMoves
    <3> QED BY <3>1, <3>4
  <2>2. Placed'
    BY <1>2 DEF Sleep
  <2>3. Owned'
    BY <1>2 DEF Sleep
  <2> QED BY <2>1, <2>2, <2>3
<1>3. CASE SpuriousWakeup(a, t)
  BY <1>3 DEF SpuriousWakeup
<1> QED BY <1>1, <1>2, <1>3 DEF WorkerStep

LEMMA GeneralInit == Init => GInv
<1> SUFFICES ASSUME Init PROVE GInv
  OBVIOUS
<1> USE LifecycleAssumption DEF Init, None
<1>1. Typed
  BY DEF Typed, Places, States
<1>2. Placed
  BY DEF Placed, Holding, Stopped, Using
<1>3. Owned
  BY DEF Owned
<1> QED BY <1>1, <1>2, <1>3 DEF GInv

LEMMA ConfigureGeneral ==
    ASSUME GInv, NEW n \in Settings, Configure(n)
    PROVE  GInv'
BY LifecycleAssumption DEF Configure, GInv, Typed, Placed, Owned, crew, local

LEMMA GeneralStep == GInv /\ [Next]_vars => GInv'
<1> SUFFICES ASSUME GInv, [Next]_vars PROVE GInv'
  OBVIOUS
<1>1. ASSUME NEW o \in Operations,
             \/ Begin(o) \/ Call(o) \/ End(o) \/ LoadShutdown(o)
             \/ StartStep(o) \/ CallStep(o) \/ EndStep(o)
      PROVE  GInv'
  BY <1>1, OtherGeneral, StartStepGeneral, CallStepGeneral, EndStepGeneral
<1>2. CASE UNCHANGED vars
  BY <1>2 DEF GInv, Typed, Placed, Owned, vars, globals, crew, local
<1> QED BY <1>1, <1>2, ConfigureGeneral, SpawnGeneral, WorkerGeneral DEF Next

LEMMA General == Spec => []GInv
BY GeneralInit, GeneralStep, PTL DEF Spec

LEMMA OwnedOnceFollows == GInv => OwnedOnce
<1> SUFFICES ASSUME GInv, NEW a \in Addresses
             PROVE  Cardinality(Owners(a)) + (IF parked = a THEN 1 ELSE 0)
                       = (IF live[a] THEN 1 ELSE 0)
  BY DEF OwnedOnce
<1>1. a # None /\ live[a] \in BOOLEAN
  BY LifecycleAssumption DEF GInv, Typed, None
<1>2. CASE Owners(a) = {}
  <2>1. Cardinality(Owners(a)) = 0
    BY <1>2, FS_EmptySet
  <2>2. live[a] <=> parked = a
    BY <1>2 DEF GInv, Owned, Owners
  <2> QED BY <2>1, <2>2
<1>3. CASE Owners(a) # {}
  <2>1. PICK o \in Operations : mine[o] = a
    BY <1>3 DEF Owners
  <2>2. Owners(a) = {o}
    BY <1>1, <2>1 DEF GInv, Owned, Owners
  <2>3. Cardinality(Owners(a)) = 1
    BY <2>2, FS_Singleton
  <2>4. live[a] /\ parked # a
    BY <1>1, <2>1 DEF GInv, Owned
  <2> QED BY <2>3, <2>4
<1> QED BY <1>2, <1>3

LEMMA CurrentFollows == GInv => CurrentRuns /\ SizedForSetting
<1> SUFFICES ASSUME GInv, current # None PROVE CurrentRuns /\ SizedForSetting
  BY DEF CurrentRuns, SizedForSetting
<1>1. PICK o \in Operations : mine[o] = current /\ pc[o] \in {"body", "release"} \cup Using
  BY DEF GInv, Owned
<1>2. live[current] /\ parked # current /\ current \in Addresses
  BY <1>1 DEF GInv, Typed, Owned
<1>3. ~stopping[current] /\ wanted[current] = helpers[o]
  BY <1>1 DEF GInv, Placed, Using
<1>4. \A q \in Operations : mine[q] = current => q = o
  BY <1>1 DEF GInv, Owned
<1> QED BY <1>1, <1>2, <1>3, <1>4 DEF CurrentRuns, SizedForSetting

\* Every call under way has posted to its operation's own crew.
OwnCalls == \A o \in Operations : pc[o] \in Using => seen[o] = mine[o]

\* What TypeOK says beyond Typed.
Bounded ==
    /\ setting \in Settings
    /\ starts \in 0..MaxStarts
    /\ \A a \in Addresses : threads[a] <= MaxHelpers
    /\ \A o \in Operations : joins[o] <= MaxHelpers

\* What holds while calls are their operations' own.
SInv == GInv /\ Counted /\ Bounded

\* A step that changes no crew, and brings no operation to a creation or a
\* join.
LEMMA CountedKept ==
    ASSUME SInv, UNCHANGED <<setting, starts, live, wanted, spawned, threads, worker, joins>>,
           \A q \in Operations : pc'[q] \in {"create", "join"} =>
               pc[q] = pc'[q] /\ mine'[q] = mine[q]
    PROVE  Counted' /\ Bounded'
<1>1. Counted'
  BY DEF SInv, Counted, Alive
<1>2. Bounded'
  BY DEF SInv, Bounded
<1> QED BY <1>1, <1>2

LEMMA WinSpawnCounted ==
    ASSUME SInv, OwnCalls, NEW o \in Operations, WinSpawn(o)
    PROVE  Counted' /\ Bounded'
<1> DEFINE a == mine[o]
<1>1. /\ a \in Addresses /\ seen[o] = a /\ live[a] /\ pc[o] = "spawn"
      /\ spawned \in [Addresses -> 0..2] /\ threads \in [Addresses -> Nat]
      /\ pc \in [Operations -> Places] /\ None \notin Addresses
  <2>1. /\ seen[o] = mine[o] /\ seen[o] # None /\ live[seen[o]] /\ pc[o] = "spawn"
    BY DEF WinSpawn, SInv, GInv, OwnCalls, Placed, Using
  <2> QED BY <2>1, LifecycleAssumption DEF SInv, GInv, Typed, None
<1>2. /\ setting' = setting /\ starts' = starts /\ live' = live /\ wanted' = wanted
      /\ worker' = worker /\ joins' = joins /\ mine' = mine
  BY DEF WinSpawn, globals, local
<1>3. \A q \in Operations : q # o => mine[q] # a
  BY <1>1 DEF SInv, GInv, Owned
<1>4. Counted /\ Bounded
  BY DEF SInv
<1>5. CASE spawned[a] = 0
  <2>1. /\ spawned' = [spawned EXCEPT ![a] = 1]
        /\ threads' = [threads EXCEPT ![a] = 1]
        /\ pc' = [pc EXCEPT ![o] = "create"]
    BY <1>1, <1>5 DEF WinSpawn, Goto
  <2>2. /\ spawned'[a] = 1 /\ threads'[a] = 1 /\ pc'[o] = "create"
        /\ \A b \in Addresses : b # a => spawned'[b] = spawned[b] /\ threads'[b] = threads[b]
        /\ \A q \in Operations : q # o => pc'[q] = pc[q]
    BY <1>1, <2>1
  <2>3. threads[a] = 0 /\ \A t \in Workers : ~Alive(a, t)
    <3>1. threads[a] = 0 /\ \A t \in Workers : Alive(a, t) => t <= threads[a]
      BY <1>1, <1>4, <1>5 DEF Counted
    <3> QED BY <3>1, LifecycleAssumption DEF Workers
  <2>4. \A b \in Addresses, t \in Workers : Alive(b, t)' <=> Alive(b, t)
    BY <1>2 DEF Alive
  <2>5. \A t \in Workers : worker[a][t] \notin {"creating", "create"}
    BY <2>3 DEF Alive
  <2>6. \A t \in Workers : t = 1 \/ t > 1
    BY DEF Workers
  <2>7. 1 \in Workers
    BY LifecycleAssumption DEF Workers
  <2>8. ASSUME NEW b \in Addresses
        PROVE  /\ \A t \in Workers :
                      /\ Alive(b, t)' => live'[b] /\ t <= threads'[b]
                      /\ worker'[b][t] \in {"creating", "create"} => t = 1 /\ spawned'[b] = 1
               /\ worker'[b][1] = "create" => threads'[b] < wanted'[b]
               /\ spawned'[b] = 0 => threads'[b] = 0
               /\ spawned'[b] = 1 => threads'[b] > 0
    <3>1. CASE b = a
      BY <1>2, <2>2, <2>3, <2>4, <2>5, <2>7, <3>1
    <3>2. CASE b # a
      BY <1>2, <1>4, <2>2, <2>4, <3>2 DEF Counted
    <3> QED BY <3>1, <3>2
  <2>9. ASSUME NEW q \in Operations
        PROVE  /\ pc'[q] = "create" =>
                      /\ spawned'[mine'[q]] = 1
                      /\ \A t \in Workers : ~Alive(mine[q], t)
               /\ pc'[q] = "join" => spawned'[mine'[q]] # 1 /\ joins'[q] = threads'[mine'[q]]
    <3>1. CASE q = o
      BY <1>2, <2>2, <2>3, <3>1
    <3>2. CASE q # o
      <4>1. pc[q] = "create" => mine[q] # None
        <5>1. OwnCalls => (pc[q] = "create" => seen[q] = mine[q])
          BY DEF OwnCalls, Using
        <5> QED BY <5>1 DEF SInv, GInv, Placed, Using
      <4>2. pc[q] = "join" => mine[q] # None
        BY DEF SInv, GInv, Placed, Holding, Stopped
      <4>3. mine[q] # None => mine[q] \in Addresses /\ mine[q] # a
        BY <1>3, <3>2 DEF SInv, GInv, Typed
      <4> QED BY <1>2, <1>4, <2>2, <3>2, <4>1, <4>2, <4>3 DEF Counted
    <3> QED BY <3>1, <3>2
  <2>10. Counted'
    BY <1>2, <2>4, <2>8, <2>9 DEF Counted, Alive
  <2>11. Bounded'
    <3>1. 1 <= MaxHelpers
      BY LifecycleAssumption
    <3> QED BY <1>2, <1>4, <2>2, <3>1 DEF Bounded
  <2> QED BY <2>10, <2>11
<1>6. CASE spawned[a] # 0
  <2>1. spawned' = spawned /\ threads' = threads /\ pc' = [pc EXCEPT ![o] = "post"]
    BY <1>1, <1>6 DEF WinSpawn, Goto
  <2>2. \A q \in Operations : pc'[q] \in {"create", "join"} => pc[q] = pc'[q]
    BY <1>1, <2>1
  <2> HIDE DEF a
  <2> QED BY <1>2, <2>1, <2>2, CountedKept
<1> QED BY <1>5, <1>6

LEMMA JoinCounted ==
    ASSUME SInv, OwnCalls, NEW o \in Operations, Join(o)
    PROVE  Counted' /\ Bounded'
<1> DEFINE a == mine[o]
<1>1. a \in Addresses /\ pc[o] = "join" /\ joins[o] = threads[a] /\ Counted /\ Bounded
  <2>1. pc[o] = "join" /\ mine[o] # None
    BY DEF Join, SInv, GInv, Placed, Holding, Stopped
  <2> QED BY <2>1 DEF SInv, GInv, Typed, Counted
<1>2. \A t \in Workers : ~Alive(a, t)
  <2>1. \A t \in Workers : t <= threads[a] => worker[a][t] = "exited"
    BY <1>1 DEF Join
  <2> QED BY <1>1, <2>1 DEF Counted, Alive
<1>3. /\ UNCHANGED <<setting, starts, wanted, spawned, threads, worker>>
      /\ live' = [live EXCEPT ![a] = FALSE] /\ joins' = [joins EXCEPT ![o] = 0]
      /\ pc' = [pc EXCEPT ![o] = after[o]] /\ mine' = [mine EXCEPT ![o] = None]
  BY DEF Join, globals, Own, Goto
<1>4. /\ \A b \in Addresses : b # a => live'[b] = live[b]
      /\ joins'[o] = 0 /\ pc'[o] \in {"idle", "allocate", "body"}
      /\ \A q \in Operations :
            q # o => pc'[q] = pc[q] /\ mine'[q] = mine[q] /\ joins'[q] = joins[q]
  <2>1. /\ live \in [Addresses -> BOOLEAN] /\ joins \in [Operations -> Nat]
        /\ pc \in [Operations -> Places] /\ mine \in [Operations -> Addresses \cup {None}]
        /\ after[o] \in {"idle", "allocate", "body"}
    BY DEF SInv, GInv, Typed
  <2> QED BY <1>3, <2>1
<1>5. \A b \in Addresses, t \in Workers : Alive(b, t)' <=> Alive(b, t)
  BY <1>3 DEF Alive
<1>6. \A b \in Addresses, t \in Workers : Alive(b, t) => live'[b]
  BY <1>1, <1>2, <1>4 DEF Counted
<1>7. Counted'
  <2>1. \A q \in Operations :
            /\ pc'[q] = "create" =>
                  spawned[mine'[q]] = 1 /\ \A t \in Workers : ~Alive(mine'[q], t)
            /\ pc'[q] = "join" =>
                  spawned[mine'[q]] # 1 /\ joins'[q] = threads[mine'[q]]
    BY <1>1, <1>4 DEF Counted
  <2>2. \A q \in Operations : pc'[q] = "create" => \A t \in Workers : ~Alive(mine[q], t)'
    BY <1>3, <1>4, <2>1 DEF Alive
  <2> QED BY <1>1, <1>3, <1>5, <1>6, <2>1, <2>2 DEF Counted, Alive
<1>8. Bounded'
  <2>1. 0 <= MaxHelpers
    BY LifecycleAssumption
  <2> QED BY <1>1, <1>3, <1>4, <2>1 DEF Bounded
<1> QED BY <1>7, <1>8

\* Of a crew whose first thread is creating others, no owner is at a creation
\* or a join.
LEMMA Creating ==
    ASSUME SInv, NEW a \in Addresses, worker[a][1] \in {"creating", "create"}
    PROVE  /\ spawned[a] = 1 /\ live[a] /\ 1 \in Workers
           /\ \A q \in Operations : pc[q] \in {"create", "join"} => mine[q] # a
<1>1. 1 \in Workers
  BY LifecycleAssumption DEF Workers
<1>2. Alive(a, 1)
  BY DEF Alive
<1> QED BY <1>1, <1>2 DEF SInv, Counted

LEMMA FirstMoves ==
    ASSUME SInv, OwnCalls, NEW a \in Addresses, worker[a][1] \in {"creating", "create"},
           NEW there \in {"create", "look"}, worker' = [worker EXCEPT ![a][1] = there],
           spawned' = IF there = "look" THEN [spawned EXCEPT ![a] = 2] ELSE spawned,
           there = "create" => threads[a] < wanted[a],
           UNCHANGED <<setting, starts, live, wanted, threads, pc, mine, joins>>
    PROVE  Counted' /\ Bounded'
<1>1. /\ spawned[a] = 1 /\ live[a] /\ 1 \in Workers /\ Alive(a, 1)
      /\ \A q \in Operations : pc[q] \in {"create", "join"} => mine[q] # a
  BY Creating DEF Alive
<1>2. Counted /\ worker \in [Addresses -> [Workers -> States]]
      /\ spawned \in [Addresses -> 0..2]
  BY DEF SInv, GInv, Typed
<1>3. /\ worker'[a][1] = there
      /\ \A t \in Workers : t # 1 => worker'[a][t] = worker[a][t]
      /\ \A b \in Addresses : b # a => worker'[b] = worker[b] /\ spawned'[b] = spawned[b]
      /\ spawned'[a] = (IF there = "look" THEN 2 ELSE 1)
  BY <1>1, <1>2
<1>4. \A b \in Addresses, t \in Workers : Alive(b, t)' <=> Alive(b, t)
  BY <1>1, <1>3 DEF Alive
<1>5. ASSUME NEW b \in Addresses
      PROVE  /\ \A t \in Workers :
                    /\ Alive(b, t)' => live[b] /\ t <= threads[b]
                    /\ worker'[b][t] \in {"creating", "create"} => t = 1 /\ spawned'[b] = 1
             /\ worker'[b][1] = "create" => threads[b] < wanted[b]
             /\ spawned'[b] = 0 => threads[b] = 0
             /\ spawned'[b] = 1 => threads[b] > 0
  <2>1. CASE b = a
    BY <1>1, <1>2, <1>3, <1>4, <2>1 DEF Counted
  <2>2. CASE b # a
    BY <1>2, <1>3, <1>4, <2>2 DEF Counted
  <2> QED BY <2>1, <2>2
<1>6. ASSUME NEW q \in Operations
      PROVE  /\ pc[q] = "create" => spawned'[mine[q]] = 1
             /\ pc[q] = "join" => spawned'[mine[q]] # 1
  <2>1. pc[q] = "join" => mine[q] # None
    BY DEF SInv, GInv, Placed, Holding, Stopped
  <2>2. pc[q] = "create" => mine[q] # None
    BY DEF SInv, GInv, Placed, OwnCalls, Using
  <2> QED BY <1>1, <1>2, <1>3, <2>1, <2>2 DEF Counted, SInv, GInv, Typed
<1>7. Counted'
  BY <1>2, <1>4, <1>5, <1>6 DEF Counted, Alive
<1>8. Bounded'
  BY DEF SInv, Bounded
<1> QED BY <1>7, <1>8

LEMMA StartStepCounted ==
    ASSUME SInv, OwnCalls, NEW o \in Operations, StartStep(o)
    PROVE  Counted' /\ Bounded'
<1> USE LifecycleAssumption
    DEF SInv, GInv, Typed, Placed, Owned, OwnCalls, Counted, Bounded, Alive, Goto,
        Then, Own, See, Broadcast, globals, crew, local, Stopped, Using, Holding, None,
        Workers
<1>1. CASE CheckCurrent(o)
  BY <1>1 DEF CheckCurrent
<1>2. CASE LoadParked(o)
  BY <1>2 DEF LoadParked
<1>3. CASE TakeParked(o)
  <2>1. UNCHANGED <<setting, starts, live, wanted, spawned, threads, worker, joins>>
    BY <1>3 DEF TakeParked
  <2>2. \A q \in Operations : pc'[q] \in {"create", "join"} =>
            pc[q] = pc'[q] /\ mine'[q] = mine[q]
    BY <1>3 DEF TakeParked
  <2> HIDE DEF SInv, Counted, Bounded
  <2> QED BY <2>1, <2>2, CountedKept
<1>4. CASE Allocate(o)
  BY <1>4 DEF Allocate
<1>5. CASE AllocateFails(o)
  BY <1>5 DEF AllocateFails
<1>6. CASE Publish(o)
  BY <1>6 DEF Publish
<1> QED BY <1>1, <1>2, <1>3, <1>4, <1>5, <1>6 DEF StartStep

LEMMA CallStepCounted ==
    ASSUME SInv, OwnCalls, NEW o \in Operations, CallStep(o)
    PROVE  Counted' /\ Bounded'
<1> USE LifecycleAssumption
    DEF SInv, GInv, Typed, Placed, Owned, OwnCalls, Counted, Bounded, Alive, Goto,
        Then, Own, See, Broadcast, globals, crew, local, Stopped, Using, Holding, None,
        Workers
<1>1. CASE Use(o)
  BY <1>1 DEF Use
<1>2. CASE WinSpawn(o)
  BY <1>2, WinSpawnCounted
<1>3. CASE Create(o)
  BY <1>3 DEF Create
<1>4. CASE CreateFails(o)
  BY <1>4 DEF CreateFails
<1>5. CASE PostJobs(o)
  BY <1>5 DEF PostJobs
<1>6. CASE Retire(o)
  BY <1>6 DEF Retire
<1> QED BY <1>1, <1>2, <1>3, <1>4, <1>5, <1>6 DEF CallStep

LEMMA EndStepCounted ==
    ASSUME SInv, OwnCalls, NEW o \in Operations, EndStep(o)
    PROVE  Counted' /\ Bounded'
<1> USE LifecycleAssumption
    DEF SInv, GInv, Typed, Placed, Owned, OwnCalls, Counted, Bounded, Alive, Goto,
        Then, Own, See, Broadcast, globals, crew, local, Stopped, Using, Holding, None,
        Workers
<1>1. CASE Release(o)
  BY <1>1 DEF Release
<1>2. CASE Offer(o)
  BY <1>2 DEF Offer
<1>3. CASE Park(o)
  <2>1. UNCHANGED <<setting, starts, live, wanted, spawned, threads, worker, joins>>
    BY <1>3 DEF Park
  <2>2. \A q \in Operations : pc'[q] \in {"create", "join"} =>
            pc[q] = pc'[q] /\ mine'[q] = mine[q]
    <3>1. \A q \in Operations : q # o => pc'[q] = pc[q] /\ mine'[q] = mine[q]
      BY <1>3 DEF Park
    <3>2. pc'[o] \in {after[o], "stop"} /\ after[o] \in {"idle", "allocate", "body"}
      BY <1>3 DEF Park
    <3> QED BY <3>1, <3>2
  <2> HIDE DEF SInv, Counted, Bounded
  <2> QED BY <2>1, <2>2, CountedKept
<1>4. CASE TakeShutdown(o)
  <2>1. UNCHANGED <<setting, starts, live, wanted, spawned, threads, worker, joins>>
    BY <1>4 DEF TakeShutdown
  <2>2. \A q \in Operations : pc'[q] \in {"create", "join"} =>
            pc[q] = pc'[q] /\ mine'[q] = mine[q]
    BY <1>4 DEF TakeShutdown
  <2> HIDE DEF SInv, Counted, Bounded
  <2> QED BY <2>1, <2>2, CountedKept
<1>5. CASE Stop(o)
  BY <1>5 DEF Stop
<1>6. CASE AwaitSpawn(o)
  BY <1>6 DEF AwaitSpawn
<1>7. CASE Join(o)
  BY <1>7, JoinCounted
<1> QED BY <1>1, <1>2, <1>3, <1>4, <1>5, <1>6, <1>7 DEF EndStep

LEMMA OtherCounted ==
    ASSUME SInv, OwnCalls, NEW o \in Operations, Begin(o) \/ Call(o) \/ End(o) \/ LoadShutdown(o)
    PROVE  Counted' /\ Bounded'
<1> USE LifecycleAssumption
    DEF SInv, GInv, Typed, Placed, Owned, OwnCalls, Counted, Bounded, Alive, Goto,
        Then, Own, See, Broadcast, globals, crew, local, Stopped, Using, Holding, None,
        Workers
<1>1. CASE Begin(o)
  BY <1>1 DEF Begin
<1>2. CASE Call(o)
  BY <1>2 DEF Call
<1>3. CASE End(o)
  BY <1>3 DEF End
<1>4. CASE LoadShutdown(o)
  BY <1>4 DEF LoadShutdown
<1> QED BY <1>1, <1>2, <1>3, <1>4

LEMMA SpawnCounted ==
    ASSUME SInv, OwnCalls, NEW a \in Addresses, SpawnStep(a)
    PROVE  Counted' /\ Bounded'
<1>1. ASSUME worker[a][1] \in {"creating", "create"}, SpawnDone(a),
             UNCHANGED <<globals, live, wanted, threads, stopping, pc, local>>
      PROVE  Counted' /\ Bounded'
  BY <1>1, FirstMoves DEF SpawnDone, Move, globals, local
<1>2. CASE SpawnCheck(a)
  <2>1. CASE threads[a] < wanted[a] /\ ~stopping[a]
    BY <1>2, <2>1, FirstMoves DEF SpawnCheck, Move, globals, local
  <2> QED BY <1>1, <1>2, <2>1 DEF SpawnCheck
<1>3. CASE SpawnNext(a)
  <2> DEFINE n == threads[a] + 1
  <2>1. worker[a][1] = "create"
    BY <1>3 DEF SpawnNext
  <2>2. /\ spawned[a] = 1 /\ live[a] /\ 1 \in Workers
        /\ \A q \in Operations : pc[q] \in {"create", "join"} => mine[q] # a
    BY <2>1, Creating
  <2>3. /\ threads' = [threads EXCEPT ![a] = n]
        /\ worker' = [worker EXCEPT ![a] = [t \in Workers |->
                IF t = 1 THEN "creating" ELSE IF t = n THEN "look" ELSE worker[a][t]]]
        /\ UNCHANGED <<setting, starts, live, wanted, spawned, pc, mine, joins>>
    BY <1>3 DEF SpawnNext, globals, local
  <2>4. /\ Counted /\ Bounded /\ worker \in [Addresses -> [Workers -> States]]
        /\ threads \in [Addresses -> Nat]
        /\ mine \in [Operations -> Addresses \cup {None}]
        /\ wanted[a] \in 0..MaxHelpers /\ MaxHelpers \in Nat
    BY LifecycleAssumption DEF SInv, GInv, Typed
  <2>5. /\ threads'[a] = n /\ n \in Nat /\ threads[a] < wanted[a]
        /\ \A b \in Addresses : b # a => threads'[b] = threads[b] /\ worker'[b] = worker[b]
        /\ \A t \in Workers : worker'[a][t] =
                IF t = 1 THEN "creating" ELSE IF t = n THEN "look" ELSE worker[a][t]
    BY <2>1, <2>3, <2>4 DEF Counted
  <2> HIDE DEF n
  <2>6. \A b \in Addresses, t \in Workers : Alive(b, t)' <=>
            \/ Alive(b, t)
            \/ b = a /\ (t = 1 \/ t = n)
    BY <2>5 DEF Alive
  <2>7. n = threads[a] + 1 /\ threads[a] > 0
    BY <2>2, <2>4 DEF n, Counted
  <2>8. ASSUME NEW b \in Addresses
        PROVE  /\ \A t \in Workers :
                      /\ Alive(b, t)' => live[b] /\ t <= threads'[b]
                      /\ worker'[b][t] \in {"creating", "create"} => t = 1 /\ spawned[b] = 1
               /\ worker'[b][1] = "create" => threads'[b] < wanted[b]
               /\ spawned[b] = 0 => threads'[b] = 0
               /\ spawned[b] = 1 => threads'[b] > 0
    <3>1. CASE b = a
      <4>1. \A t \in Workers : t \in Nat
        BY DEF Workers
      <4>2. \A t \in Workers : Alive(a, t)' => live[a] /\ t <= n
        BY <2>2, <2>4, <2>5, <2>6, <2>7, <4>1 DEF Counted
      <4>3. \A t \in Workers : worker'[a][t] \in {"creating", "create"} => t = 1
        BY <2>4, <2>5 DEF Counted
      <4>4. worker'[a][1] = "creating" /\ spawned[a] = 1 /\ threads'[a] > 0
        BY <2>2, <2>4, <2>5, <2>7
      <4> QED BY <2>5, <3>1, <4>2, <4>3, <4>4
    <3>2. CASE b # a
      BY <2>4, <2>5, <2>6, <3>2 DEF Counted
    <3> QED BY <3>1, <3>2
  <2>9. ASSUME NEW q \in Operations
        PROVE  /\ pc[q] = "create" =>
                     spawned[mine[q]] = 1 /\ \A t \in Workers : ~Alive(mine[q], t)'
               /\ pc[q] = "join" => spawned[mine[q]] # 1 /\ joins[q] = threads'[mine[q]]
    <3>1. pc[q] = "join" => mine[q] # None
      BY DEF SInv, GInv, Placed, Holding, Stopped
    <3>2. pc[q] = "create" => mine[q] # None
      BY DEF SInv, GInv, Placed, OwnCalls, Using
    <3>3. mine[q] # None => mine[q] \in Addresses
      BY <2>4
    <3>4. CASE pc[q] = "create"
      <4>1. mine[q] \in Addresses /\ mine[q] # a
        BY <2>2, <3>2, <3>3, <3>4
      <4>2. spawned[mine[q]] = 1 /\ \A t \in Workers : ~Alive(mine[q], t)
        BY <2>4, <3>4 DEF Counted
      <4>3. worker'[mine[q]] = worker[mine[q]]
        BY <2>5, <4>1
      <4> QED BY <2>3, <3>4, <4>2, <4>3 DEF Alive
    <3>5. CASE pc[q] = "join"
      BY <2>2, <2>4, <2>5, <3>1, <3>3, <3>5 DEF Counted
    <3> QED BY <3>4, <3>5
  <2>10. Counted'
    BY <2>3, <2>8, <2>9 DEF Counted, Alive
  <2>11. Bounded'
    BY <2>3, <2>4, <2>5, <2>7 DEF Bounded
  <2> QED BY <2>10, <2>11
<1>4. CASE SpawnFails(a)
  BY <1>1, <1>4 DEF SpawnFails
<1> QED BY <1>2, <1>3, <1>4 DEF SpawnStep

LEMMA WorkerCounted ==
    ASSUME SInv, NEW a \in Addresses, NEW t \in Workers, WorkerStep(a, t) \/ SpuriousWakeup(a, t)
    PROVE  Counted' /\ Bounded'
<1> USE LifecycleAssumption
    DEF SInv, GInv, Typed, Placed, Owned, Counted, Bounded, Alive, Move, globals,
        crew, local, Stopped, Using, Holding, None, Workers
<1>1. CASE Look(a, t)
  BY <1>1 DEF Look
<1>2. CASE Sleep(a, t)
  <2>1. CASE Move(a, t, "look")
    BY <1>2, <2>1 DEF Sleep
  <2>2. CASE Move(a, t, "parked")
    BY <1>2, <2>2 DEF Sleep
  <2> QED BY <1>2, <2>1, <2>2 DEF Sleep
<1>3. CASE SpuriousWakeup(a, t)
  BY <1>3 DEF SpuriousWakeup
<1> QED BY <1>1, <1>2, <1>3 DEF WorkerStep

LEMMA CountedInit == Init => SInv
<1> SUFFICES ASSUME Init PROVE SInv
  OBVIOUS
<1>1. Counted
  BY LifecycleAssumption DEF Init, Counted, Alive, Workers
<1>2. Bounded
  BY LifecycleAssumption DEF Init, Bounded
<1> QED BY <1>1, <1>2, GeneralInit DEF SInv

LEMMA CountedStep == SInv /\ OwnCalls /\ [Next]_vars => SInv'
<1> SUFFICES ASSUME SInv, OwnCalls, [Next]_vars PROVE SInv'
  OBVIOUS
<1>1. ASSUME NEW o \in Operations,
             \/ Begin(o) \/ Call(o) \/ End(o) \/ LoadShutdown(o)
             \/ StartStep(o) \/ CallStep(o) \/ EndStep(o)
      PROVE  Counted' /\ Bounded'
  BY <1>1, OtherCounted, StartStepCounted, CallStepCounted, EndStepCounted
<1>2. ASSUME NEW n \in Settings, Configure(n)
      PROVE  Counted' /\ Bounded'
  <2>1. Counted'
    BY <1>2 DEF Configure, SInv, Counted, Alive, crew, local
  <2>2. Bounded'
    BY <1>2 DEF Configure, SInv, Bounded, crew, local
  <2> QED BY <2>1, <2>2
<1>3. ASSUME UNCHANGED vars
      PROVE  Counted' /\ Bounded'
  <2>1. UNCHANGED <<setting, starts, live, wanted, spawned, threads, worker, joins, pc, mine>>
    BY <1>3 DEF vars, globals, crew, local
  <2> QED BY <2>1, CountedKept
<1>4. Counted' /\ Bounded'
  BY <1>1, <1>2, <1>3, SpawnCounted, WorkerCounted DEF Next
<1> QED BY <1>4, GeneralStep DEF SInv

LEMMA CountedAlways == Spec /\ []OwnCalls => []SInv
BY CountedInit, CountedStep, PTL DEF Spec

LEMMA InvFollows == SInv => Inv
<1> SUFFICES ASSUME SInv PROVE Inv
  OBVIOUS
<1>1. TypeOK
  BY LifecycleAssumption DEF SInv, GInv, Typed, Bounded, TypeOK, Places, States
<1> QED BY <1>1, OwnedOnceFollows, CurrentFollows DEF SInv, GInv, Inv

LEMMA FindFollows == GInv /\ OwnCalls => CallsFindTheCrew
BY DEF GInv, Typed, Placed, Owned, OwnCalls, CallsFindTheCrew, Using

LEMMA OwnCallsStep ==
    ASSUME NEW o, Operations = {o}, GInv, OwnCalls, [Next]_vars
    PROVE  OwnCalls'
<1>1. current # None => mine[o] = current
  BY DEF GInv, Owned
<1>2. pc \in [Operations -> Places] /\ after[o] \in {"idle", "allocate", "body"}
  BY DEF GInv, Typed
<1>3. ASSUME Begin(o) \/ End(o) \/ LoadShutdown(o)
      PROVE  pc'[o] \notin Using
  BY <1>2, <1>3 DEF Begin, End, LoadShutdown, Goto, Using
<1>4. ASSUME StartStep(o)
      PROVE  pc'[o] \notin Using
  BY <1>2, <1>4 DEF StartStep, CheckCurrent, LoadParked, TakeParked, Allocate,
     AllocateFails, Publish, Goto, Using
<1>5. ASSUME EndStep(o)
      PROVE  pc'[o] \notin Using
  BY <1>2, <1>5 DEF EndStep, Release, Offer, Park, TakeShutdown, Stop, AwaitSpawn, Join,
     Goto, Using
<1>6. ASSUME Call(o)
      PROVE  seen'[o] = mine'[o]
  BY <1>1, <1>6 DEF Call, See, GInv, Typed
<1>7. ASSUME CallStep(o)
      PROVE  \/ pc'[o] \notin Using
             \/ pc[o] \in Using /\ seen' = seen /\ mine' = mine
  BY <1>2, <1>7 DEF CallStep, Use, WinSpawn, Create, CreateFails, PostJobs, Retire,
     Goto, Using, local
<1>8. ASSUME \/ \E n \in Settings : Configure(n)
             \/ \E a \in Addresses : SpawnStep(a)
             \/ \E a \in Addresses, t \in Workers : WorkerStep(a, t) \/ SpuriousWakeup(a, t)
             \/ UNCHANGED vars
      PROVE  pc' = pc /\ seen' = seen /\ mine' = mine
  BY <1>8 DEF Configure, SpawnStep, SpawnCheck, SpawnNext, SpawnFails, WorkerStep, Look,
     Sleep, SpuriousWakeup, vars, local
<1>9. pc'[o] \in Using => seen'[o] = mine'[o]
  BY <1>3, <1>4, <1>5, <1>6, <1>7, <1>8 DEF Next, OwnCalls
<1> QED BY <1>9 DEF OwnCalls

LEMMA OwnCallsAlways ==
    ASSUME NEW o, Operations = {o}
    PROVE  Spec => []OwnCalls
<1>1. Init => OwnCalls
  BY DEF Init, OwnCalls, Using
<1> QED BY <1>1, General, OwnCallsStep, PTL DEF Spec

-------------------------------------------------------------------------------
(* Theorems.                                                               *)

\* Whatever operations run at once and whichever crew their calls post to, a
\* crew has one owner until it is freed, the running crew is owned and not
\* being stopped, and has the size its owner's start read (`Crew.start`,
\* `Crew.release`, `Crew.shutdown`).
THEOREM OwnershipHolds == Spec => [](OwnedOnce /\ CurrentRuns /\ SizedForSetting)
<1>1. GInv => OwnedOnce /\ CurrentRuns /\ SizedForSetting
  BY OwnedOnceFollows, CurrentFollows
<1> QED BY <1>1, General, PTL

\* As long as every call posts to its operation's own crew, however many
\* operations run, no thread is left in a crew that is freed, and a call finds
\* its crew's state there until it returns.
THEOREM OwnCallsAreSafe ==
    Spec /\ []OwnCalls => [](Inv /\ JoinedBeforeFreed /\ CallsFindTheCrew)
<1>1. SInv => Inv /\ JoinedBeforeFreed
  BY InvFollows DEF SInv, Counted, JoinedBeforeFreed
<1>2. SInv /\ OwnCalls => CallsFindTheCrew
  BY FindFollows DEF SInv
<1> QED BY <1>1, <1>2, CountedAlways, PTL

\* With one operation at a time, as a host that runs its queries one after
\* the other has them, a crew's owner, size, threads and creation are as the
\* invariant says, for any sizes, addresses and settings.
THEOREM Invariance ==
    ASSUME NEW o, Operations = {o}
    PROVE  Spec => []Inv
BY OwnCallsAlways, OwnCallsAreSafe, PTL

\* A crew that is freed has no thread left, though its first thread may still
\* have been creating the others when the stop began (`Crew.shutdown` awaits
\* the creation and joins as many threads as it counts).
THEOREM NoThreadLeftBehind ==
    ASSUME NEW o, Operations = {o}
    PROVE  Spec => []JoinedBeforeFreed
BY OwnCallsAlways, OwnCallsAreSafe, PTL

\* A call finds its crew's state until it returns: the crew is released only
\* by the operation that made the call, once the call is over
\* (`Crew.release`).
THEOREM CrewOutlivesCalls ==
    ASSUME NEW o, Operations = {o}
    PROVE  Spec => []CallsFindTheCrew
BY OwnCallsAlways, OwnCallsAreSafe, PTL
===============================================================================
