----------------------------- MODULE MCCrewLifecycle ----------------------------
(* One operation at a time, or two at once, with crews of one or two threads. *)
EXTENDS CrewLifecycle

CONSTANTS o1, o2

OneOperation == {o1}
TwoOperations == {o1, o2}
TwoAddresses == {1, 2}
UpToTwoHelpers == {0, 1, 2}
UpToOneHelper == {0, 1}
===============================================================================
