----------------------------- MODULE MCCalibration -----------------------------
(***************************************************************************)
(* The two programs that publish files: metal_calibration.py with those    *)
(* who read its profiles (CalibrationFiles, extended), and                 *)
(* build_package.py (PackageBuild).  They share no state: the run chooses  *)
(* one, and the other stays as it began.                                   *)
(*                                                                         *)
(* Two profiles, of which the second's GPU cost is refused by the core:    *)
(* the core then has read its CPU costs already.                           *)
(***************************************************************************)
EXTENDS CalibrationFiles, TLC

CONSTANTS t1, t2, w1, w2,
          MaxEdits, MaxBuilds       \* bounds of the builds

VARIABLES building,                 \* the run is of the builds
          tree, builds, stop, provider, identity, metal, stage, at,
          output, temporary, description, settled, quiet, before

build == <<tree, builds, stop, provider, identity, metal, stage, at,
           output, temporary, description, settled, quiet, before>>

Build == INSTANCE PackageBuild WITH pc <- stop

OneRefused == {[cpu |-> 3, accel |-> 1, bad |-> "no"],
                [cpu |-> 4, accel |-> 2, bad |-> "accel"]}
TwoThreads == {t1, t2}
TwoPublishers == {w1, w2}
CalibrationSymmetry == Permutations(TwoThreads) \cup Permutations(TwoPublishers)

ASSUME BoundsAssumption == MaxEdits \in Nat /\ MaxBuilds \in Nat

MCInit == building \in BOOLEAN /\ Init /\ Build!Init

MCNext ==
    \/ ~building /\ Next /\ UNCHANGED <<building, build>>
    \/ building /\ Build!Next /\ UNCHANGED <<building, vars>>

MCSpec == MCInit /\ [][MCNext]_<<building, build, vars>>

-------------------------------------------------------------------------------

\* build_package.py publishes whole packages, after all have compiled.
PackagesAreWhole == Build!TypeOK /\ Build!PackagesAreWhole

\* provider.json describes the packages beside it, but from the first of them
\* that a build replaces until it has described them all.
DescribesThePackages == Build!DescribesThePackages
=================================================================================
