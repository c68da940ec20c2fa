--------------------------------- MODULE MCCrew --------------------------------
(***************************************************************************)
(* What threads do at once with crews.  The run chooses one of two:        *)
(* "post", one caller's nested calls with a crew of two threads, and       *)
(* "own", two operations that start and end crews at three addresses       *)
(* (l1 .. l16 are the variables of CrewLifecycle, in its order).           *)
(***************************************************************************)
EXTENDS Crew, TLC

CONSTANTS c1, w1, w2, o1, o2, a1, a2, a3

VARIABLES part, l1, l2, l3, l4, l5, l6, l7, l8, l9, l10, l11, l12, l13, l14, l15, l16

owned == <<l1, l2, l3, l4, l5, l6, l7, l8, l9, l10, l11, l12, l13, l14, l15, l16>>

ASSUME AddressesAssumption == 0 \notin {a1, a2, a3}

OneCaller == {c1}
TwoThreads == {w1, w2}
TwoOperations == {o1, o2}
ThreeAddresses == {a1, a2, a3}
Symmetric ==
    Permutations(TwoThreads) \cup Permutations(TwoOperations) \cup Permutations(ThreeAddresses)

Owning == INSTANCE CrewLifecycle
    WITH Operations <- TwoOperations, Addresses <- ThreeAddresses, Settings <- {0, 1},
         MaxHelpers <- 1, MaxStarts <- 3,
         setting <- l1, starts <- l2, current <- l3, parked <- l4, live <- l5, wanted <- l6,
         spawned <- l7, threads <- l8, stopping <- l9, worker <- l10, pc <- l11, after <- l12,
         mine <- l13, helpers <- l14, seen <- l15, joins <- l16

MCInit ==
    /\ Init
    /\ part \in {"post", "own"}
    /\ IF part = "own" THEN Owning!Init
       ELSE /\ l1 = 0 /\ l2 = 0 /\ l3 = 0 /\ l4 = 0 /\ l5 = 0 /\ l6 = 0 /\ l7 = 0 /\ l8 = 0
            /\ l9 = 0 /\ l10 = 0 /\ l11 = 0 /\ l12 = 0 /\ l13 = 0 /\ l14 = 0 /\ l15 = 0
            /\ l16 = 0

MCNext ==
    \/ part = "post" /\ Next /\ UNCHANGED <<part, owned>>
    \/ part = "own" /\ Owning!Next /\ UNCHANGED <<part, vars>>

MCSpec == MCInit /\ [][MCNext]_<<part, owned, vars>>

-------------------------------------------------------------------------------
\* parallel.mojo: however two operations overlap, a crew has one owner until
\* it is freed, and the current crew is one that runs.
OwnedByOne == part = "own" => Owning!OwnedOnce /\ Owning!CurrentRuns
===============================================================================
