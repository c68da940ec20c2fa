---------------------------- MODULE ImportBoundaries ----------------------------
(***************************************************************************)
(* The scripts/check_*_boundaries.py family: each reads the imports of the *)
(* modules of one part of dataframe/, reports those that go to a layer the *)
(* part must not use, and (query, aggregation, joins and storage) looks    *)
(* for an import cycle among its modules by a depth-first visit.           *)
(*                                                                         *)
(* A module is abstracted to its layer: the rules are about the layers on  *)
(* the two ends of an import.  The scripts visit names in sorted order;    *)
(* here it is any order.  Rules about the text of a module (raw payloads,  *)
(* strategy flags, raw facts, a facade that defines something) are left    *)
(* out: they look at one file at a time.                                   *)
(***************************************************************************)
EXTENDS FiniteSets, SequencesExt

CONSTANTS
    Modules,
    Seen            \* bound: the layers the modules of a script are drawn from

-------------------------------------------------------------------------------
(* Layers, and what each script reports: RulesOf[script] are the pairs of  *)
(* layers of an import that it rejects.                                    *)

Cost == {"cost.model", "cost.eligibility", "cost.sampling", "cost.aggregation"}
Planning == Cost \cup {"planning.model", "planning.properties",
                       "planning.physical"}
Query == Planning \cup {"lazy_api", "optimizer", "query_execution"}
Storage == {"storage", "facts", "nested", "nested_merge"}
Text == {"text", "unicode tables"}

\* Layers of no script's own; "legacy" is the old name of a script's part.
Outer == {"package", "lazy", "provider", "streaming", "frame", "DataFrame",
          "legacy", "execution", "binding", "BoundExpr", "io", "csv_numeric",
          "dtype", "series", "categorical"}

Layers == Outer \cup Query \cup Storage \cup Text
              \cup {"aggregation", "joins", "kernels", "json"}

\* Rules that several scripts share.
Higher == {"package", "streaming", "query_execution", "provider"}
Expressions == Higher \cup Planning \cup
    {"execution", "frame", "DataFrame", "lazy", "lazy_api", "optimizer"}
LegacyRule == (Layers \ {"legacy"}) \X {"legacy"}

QueryRules ==
    UNION {
        (Query \ {"lazy_api"}) \X {"package", "lazy", "lazy_api", "provider"},
        (Planning \cup {"optimizer"}) \X {"query_execution"},
        (Planning \ {"planning.physical"}) \X {"optimizer"},
        Cost \X {"planning.physical"},
        (Cost \ {"cost.aggregation"}) \X {"cost.aggregation"},
        {"cost.model", "cost.eligibility"} \X
            {"planning.properties", "cost.sampling"},
        {"planning.model"} \X Query}

AggregationRules ==
    ({"aggregation"} \X (Higher \cup {"frame"})) \cup LegacyRule

JoinRules == {"joins"} \X (Higher \cup {"frame", "lazy", "lazy_api"})

StorageRules ==
    LET allowed(name) == Storage
            \cup (IF name # "facts" THEN {"dtype"} ELSE {})
            \cup (IF name \in {"nested", "nested_merge"} THEN {"series"} ELSE {})
            \cup (IF name = "nested" THEN {"categorical"} ELSE {})
    IN  {r \in Storage \X Layers : r[2] \notin allowed(r[1])} \cup LegacyRule

KernelRules ==
    ({"kernels"} \X (Expressions \cup {"binding"})) \cup LegacyRule

TextRules ==
    UNION {
        {"unicode tables"} \X Layers,
        Text \X (Expressions \cup {"binding", "BoundExpr", "io"}),
        LegacyRule}

JsonRules ==
    ({"json"} \X (Expressions \cup {"binding", "BoundExpr", "io", "csv_numeric"}))
        \cup LegacyRule

RulesOf == [
    query |-> QueryRules, aggregation |-> AggregationRules,
    joins |-> JoinRules, storage |-> StorageRules, kernels |-> KernelRules,
    text |-> TextRules, json |-> JsonRules]

\* The modules a script is about, and the scripts that look for cycles.
Part == [
    query |-> Query, aggregation |-> {"aggregation"}, joins |-> {"joins"},
    storage |-> Storage, kernels |-> {"kernels"}, text |-> Text,
    json |-> {"json"}]
Visiting == {"query", "aggregation", "joins", "storage"}
Scripts == DOMAIN RulesOf

SeenLayers == Seen \in [Scripts -> SUBSET Layers]

-------------------------------------------------------------------------------

VARIABLES
    script,         \* the script that runs
    layer,          \* each module's layer
    imports,        \* the modules each module imports
    graph,          \* the imports among the script's modules
    failures,       \* the imports reported
    cycles,         \* the cycles reported
    visited,
    active,         \* the modules being visited, outermost first
    ahead,          \* for each of them, the dependencies not yet visited
    names,          \* the modules not yet visited from the top
    exit            \* the exit status; Unread or Running before

tree == <<script, layer, imports>>
read == <<graph, failures>>
vars == <<tree, read, cycles, visited, active, ahead, names, exit>>

Running == 2
Unread == 3
NoImports == [m \in Modules |-> {}]
Own == {m \in Modules : layer[m] \in Part[script]}

TypeOK ==
    /\ script \in Scripts
    /\ layer \in [Modules -> Layers]
    /\ imports \in [Modules -> SUBSET Modules]
    /\ graph \in [Modules -> SUBSET Own]
    /\ failures \subseteq Modules \X Modules
    /\ visited \subseteq Own /\ names \subseteq Own
    /\ Range(active) \subseteq Own
    /\ IsInjective(active)
    /\ Len(ahead) = Len(active)
    /\ exit \in {Unread, Running, 0, 1}

Init ==
    /\ script \in Scripts
    /\ layer \in [Modules -> Seen[script]]
    /\ imports \in [Modules -> SUBSET Modules]
    /\ graph = NoImports
    /\ failures = {}
    /\ cycles = {}
    /\ visited = {}
    /\ active = <<>> /\ ahead = <<>>
    /\ names = {}
    /\ exit = Unread

\* Every module is read and each of its imports judged.
Read ==
    /\ exit = Unread
    /\ exit' = Running
    /\ graph' = [m \in Modules |-> IF m \in Own THEN imports[m] \cap Own ELSE {}]
    /\ failures' = {e \in Modules \X Modules :
                       /\ e[2] \in imports[e[1]]
                       /\ <<layer[e[1]], layer[e[2]]>> \in RulesOf[script]}
    /\ names' = IF script \in Visiting THEN Own ELSE {}
    /\ UNCHANGED <<tree, cycles, visited, active, ahead>>

\* A slip: a name counts as visited from when it is entered.
VisitOnEntry(name, rest) ==
    IF name \in visited
    THEN /\ ahead' = rest
         /\ UNCHANGED <<cycles, visited, active>>
    ELSE /\ active' = Append(active, name)
         /\ ahead' = Append(rest, graph[name])
         /\ visited' = visited \cup {name}
         /\ UNCHANGED cycles

\* visit(name): a name that is being visited closes a cycle; one visited
\* before is left; any other is entered.  The query script reports the cycle
\* alone, the others the whole way that led to it.  `rest` is `ahead` at the
\* caller.
Visit(name, rest) ==
    IF name \in Range(active)
    THEN LET at == IF script = "query"
                   THEN CHOOSE i \in DOMAIN active : active[i] = name
                   ELSE 1
         IN  /\ cycles' = cycles \cup
                    {Append(SubSeq(active, at, Len(active)), name)}
             /\ ahead' = rest
             /\ UNCHANGED <<visited, active>>
    ELSE IF name \in visited
    THEN /\ ahead' = rest
         /\ UNCHANGED <<cycles, visited, active>>
    ELSE /\ active' = Append(active, name)
         /\ ahead' = Append(rest, graph[name])
         /\ UNCHANGED <<cycles, visited>>

VisitTop ==
    /\ active = <<>>
    /\ \E name \in names :
        /\ names' = names \ {name}
        /\ Visit(name, ahead)
    /\ UNCHANGED <<tree, read, exit>>

VisitDependency ==
    /\ active # <<>>
    /\ \E name \in Last(ahead) :
        Visit(name, Append(Front(ahead), Last(ahead) \ {name}))
    /\ UNCHANGED <<tree, read, names, exit>>

\* All dependencies are visited: active.pop(), visited.add(name).
Leave ==
    /\ active # <<>> /\ Last(ahead) = {}
    /\ visited' = visited \cup {Last(active)}
    /\ active' = Front(active)
    /\ ahead' = Front(ahead)
    /\ UNCHANGED <<tree, read, cycles, names, exit>>

Finish ==
    /\ active = <<>> /\ names = {} /\ exit = Running
    /\ exit' = IF failures # {} \/ cycles # {} THEN 1 ELSE 0
    /\ UNCHANGED <<tree, read, cycles, visited, active, ahead, names>>

Next == Read \/ VisitTop \/ VisitDependency \/ Leave \/ Finish

Spec == Init /\ [][Next]_vars

-------------------------------------------------------------------------------
(* What the visit should find, without a visit.                            *)

\* The modules of the script that `name` uses, directly or not.
Uses(name) ==
    {m \in Own : \A S \in SUBSET Own :
        (graph[name] \cup UNION {graph[s] : s \in S}) \subseteq S => m \in S}

\* A visit that ends has reported a cycle exactly when the script's modules
\* have one, whatever order it took and however many modules it found
\* visited, and what it reports ends in one: each module imports the next and
\* the last was there before, as the first when only the cycle is reported
\* (check_lazy_boundaries.py:102-126, "no internal cycles").
CyclesReported ==
    /\ exit \in {0, 1} /\ script \in Visiting =>
            (cycles # {} <=> \E m \in Own : m \in Uses(m))
    /\ \A c \in cycles :
        /\ Last(c) \in Range(Front(c))
        /\ script = "query" => Head(c) = Last(c)
        /\ \A i \in 1..Len(c) - 1 : c[i + 1] \in graph[c[i]]

\* What no chain of a part's own modules may lead to.
OutOfReach == [
    query |-> {"package", "lazy", "lazy_api", "provider"},
    aggregation |-> Higher, joins |-> Higher \cup {"lazy_api"},
    storage |-> Layers \ (Storage \cup {"dtype", "series", "categorical"}),
    kernels |-> Expressions, text |-> Expressions \cup {"io"},
    json |-> Expressions \cup {"io"}]

\* After a clean check no chain of imports leads up: the rules judge single
\* imports and make exceptions (lazy_api may import anything, the physical
\* planner the optimizer, nested storage a series), and no way through the
\* modules excepted goes round them (check_lazy_boundaries.py:56-79 and the
\* rules of the others).
LayersHold ==
    exit = 0 =>
        \A m \in Own : layer[m] # "lazy_api" =>
            \A n \in Uses(m) \cup {m} :
                /\ \A d \in imports[n] : layer[d] \notin OutOfReach[script]
                /\ layer[n] = "query_execution" => layer[m] = "query_execution"

-------------------------------------------------------------------------------
(* The visit, while it goes on.                                            *)

\* The graph has the imports of the script's modules, and each is judged.
Judged ==
    IF exit = Unread
    THEN graph = NoImports /\ names = {} /\ visited = {} /\ active = <<>>
    ELSE /\ graph = [m \in Modules |-> IF m \in Own THEN imports[m] \cap Own ELSE {}]
         /\ failures = {e \in Modules \X Modules :
                /\ e[2] \in imports[e[1]]
                /\ <<layer[e[1]], layer[e[2]]>> \in RulesOf[script]}

\* Each active module is imported by the one before, and is not ahead of it
\* any more.
WayDown ==
    /\ active \in Seq(Own) /\ ahead \in Seq(SUBSET Own) /\ Len(ahead) = Len(active)
    /\ IsInjective(active)
    /\ \A i \in DOMAIN active : ahead[i] \subseteq graph[active[i]] /\ active[i] \notin visited
    /\ \A i \in 1..Len(active) - 1 : active[i + 1] \in graph[active[i]] \ ahead[i]

\* While no cycle is reported: what a visited module imports is visited, and
\* no visited module uses itself; what an active one has done with is visited,
\* or is the next active one.
NoCycleYet ==
    cycles = {} =>
        /\ \A m \in visited : graph[m] \subseteq visited /\ m \notin Uses(m)
        /\ \A i \in DOMAIN active : \A d \in graph[active[i]] \ ahead[i] :
              d \in visited \/ (i < Len(active) /\ d = active[i + 1])

\* What is reported ends where it was before.
CyclesReal ==
    \A c \in cycles :
        /\ c \in Seq(Own) /\ Len(c) > 1
        /\ \E i \in 1..Len(c) - 1 : c[i] = c[Len(c)]
        /\ script = "query" => c[1] = c[Len(c)]
        /\ \A i \in 1..Len(c) - 1 : c[i + 1] \in graph[c[i]]

\* Every module is visited, is being visited, or will be.
NoneForgotten ==
    exit # Unread /\ script \in Visiting => Own = visited \cup names \cup Range(active)

Ended ==
    exit \in {0, 1} =>
        active = <<>> /\ names = {} /\ (exit = 0 <=> failures = {} /\ cycles = {})

Inv ==
    /\ TypeOK /\ Judged /\ WayDown /\ NoCycleYet /\ CyclesReal
    /\ NoneForgotten /\ Ended
===============================================================================
