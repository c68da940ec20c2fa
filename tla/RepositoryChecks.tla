--------------------------- MODULE RepositoryChecks ---------------------------
(***************************************************************************)
(* The programs that check the repository, one at a time: the search for   *)
(* tests that nothing runs (TestReachability), and the checks of what the  *)
(* modules import (ImportBoundaries).  They share no state; that of the    *)
(* one that does not run is Idle.                                          *)
(***************************************************************************)

CONSTANTS Programs, Modules, Seen

VARIABLES tool,         \* the program that runs
          \* a search for tests that nothing runs
          place, mentions, importLines, named, reference, reachable, pending,
          left, changed, dangling, status,
          \* a check of imports
          script, layer, imports, graph, failures, cycles, visited, active,
          ahead, names, exit

search == <<place, mentions, importLines, named, reference, reachable, pending,
            left, changed, dangling, status>>
check == <<script, layer, imports, graph, failures, cycles, visited, active,
           ahead, names, exit>>

Tests == INSTANCE TestReachability
    WITH imports <- importLines, text <- reference, exit <- status
Imports == INSTANCE ImportBoundaries

ASSUME LayersAssumption == Imports!SeenLayers

Idle == "idle"

NoSearch ==
    /\ place = Idle /\ mentions = Idle /\ importLines = Idle /\ named = Idle
    /\ reference = Idle /\ reachable = Idle /\ pending = Idle /\ left = Idle
    /\ changed = Idle /\ dangling = Idle /\ status = Idle

NoCheck ==
    /\ script = Idle /\ layer = Idle /\ imports = Idle /\ graph = Idle
    /\ failures = Idle /\ cycles = Idle /\ visited = Idle /\ active = Idle
    /\ ahead = Idle /\ names = Idle /\ exit = Idle

CheckInit ==
    \/ tool = "tests" /\ Tests!Init /\ NoCheck
    \/ tool = "imports" /\ Imports!Init /\ NoSearch

CheckNext ==
    /\ UNCHANGED tool
    /\ \/ tool = "tests" /\ Tests!Next /\ UNCHANGED check
       \/ tool = "imports" /\ Imports!Next /\ UNCHANGED search

CheckSpec == CheckInit /\ [][CheckNext]_<<tool, search, check>>

-------------------------------------------------------------------------------

\* check_test_reachability.py finds the programs that something runs or
\* imports, all of them and no others, in any order of its passes.
FoundExactly == tool = "tests" => Tests!TypeOK /\ Tests!FoundExactly

\* The boundary checks report a cycle when there is one and only then, and a
\* tree they pass has no chain of imports to a layer that is out of reach.
BoundariesHold ==
    tool = "imports" => Imports!TypeOK /\ Imports!CyclesReported /\ Imports!LayersHold
===============================================================================
