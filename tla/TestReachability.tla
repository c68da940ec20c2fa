---------------------------- MODULE TestReachability ----------------------------
(***************************************************************************)
(* scripts/check_test_reachability.py: it fails when a program under       *)
(* tests/ is not run or imported by anything.                              *)
(*                                                                         *)
(* The script keeps the text of everything that is known to run, and goes  *)
(* over the programs not found yet until a pass finds none: a program      *)
(* found adds its own text, so it may lead to others.  Texts are           *)
(* abstracted to the programs whose name or module path is in them.  The   *)
(* passes follow the order of `git ls-files`; here it is any order.        *)
(***************************************************************************)
EXTENDS FiniteSets

CONSTANT Programs   \* the files under tests/

(* Their kinds:                                                            *)
(*   "module"   .mojo or .py under tooling/, support/ or directly in tests/*)
(*   "shell"    .sh there: its text has no import lines                    *)
(*   "globbed"  tests/tooling/test_*.py, which CI finds by a glob          *)
(*   "package"  __init__.mojo, never asked about                           *)
(*   "area"     in an area directory: the contract runner finds it         *)
Places == {"module", "shell", "globbed", "package", "area"}

VARIABLES
    place,          \* what kind of file each is
    mentions,       \* the programs each file's text names
    imports,        \* those its import lines name
    named,          \* those the reference files name
    text,           \* the programs `reference_text` names by now
    reachable,      \* the programs found
    pending,        \* those not found yet
    left,           \* those of `list(pending)` this pass has not come to
    changed,        \* this pass has found one
    dangling,       \* a reference file names a program that is not there
    exit            \* the exit status, once the script has ended

files == <<place, mentions, imports, named>>
vars == <<files, dangling, text, reachable, pending, left, changed, exit>>

Running == 2

candidates == {p \in Programs : place[p] \in {"module", "shell", "globbed"}}
Areas == {p \in Programs : place[p] = "area"}

TypeOK ==
    /\ place \in [Programs -> Places]
    /\ mentions \in [Programs -> SUBSET candidates]
    /\ imports \in [Programs -> SUBSET candidates]
    /\ named \subseteq candidates
    /\ text \subseteq candidates
    /\ reachable \subseteq candidates
    /\ pending = candidates \ reachable
    /\ left \subseteq pending
    /\ changed \in BOOLEAN
    /\ dangling \in BOOLEAN
    /\ exit \in {Running, 0, 1}

\* Import lines are part of a text.  A package's other lines are never read;
\* an area file's import lines say nothing its whole text does not.
Texts ==
    \A p \in Programs :
        /\ p \notin mentions[p]
        /\ imports[p] \subseteq mentions[p]
        /\ place[p] = "package" => imports[p] = mentions[p]
        /\ place[p] \in {"shell", "area"} => imports[p] = {}

Init ==
    /\ place \in [Programs -> Places]
    /\ mentions \in [Programs -> SUBSET candidates]
    /\ imports \in [Programs -> SUBSET candidates]
    /\ Texts
    /\ named \in SUBSET candidates
    /\ text = named \cup UNION {mentions[p] : p \in Areas}
    /\ reachable = {}
    /\ pending = candidates
    /\ left = candidates
    /\ changed = FALSE
    /\ dangling = FALSE
    /\ exit = Running

-------------------------------------------------------------------------------

\* A program is found by the glob, in the text that runs, or in an import
\* line of any other file, found or not.
Found(p) ==
    \/ place[p] = "globbed"
    \/ p \in text
    \/ \E other \in Programs \ {p} : p \in imports[other]

\* A slip: a program that is found does not add its own text.
LookWithoutItsText(p) ==
    /\ p \in left
    /\ left' = left \ {p}
    /\ pending' = IF Found(p) THEN pending \ {p} ELSE pending
    /\ reachable' = IF Found(p) THEN reachable \cup {p} ELSE reachable
    /\ changed' = (changed \/ Found(p))
    /\ UNCHANGED <<files, text, dangling, exit>>

Look(p) ==
    /\ p \in left
    /\ left' = left \ {p}
    /\ IF Found(p)
       THEN /\ pending' = pending \ {p}
            /\ reachable' = reachable \cup {p}
            /\ changed' = TRUE
            /\ text' = text \cup mentions[p]
       ELSE UNCHANGED <<pending, reachable, changed, text>>
    /\ UNCHANGED <<files, dangling, exit>>

NextPass ==
    /\ left = {} /\ changed /\ exit = Running
    /\ left' = pending
    /\ changed' = FALSE
    /\ UNCHANGED <<files, dangling, text, reachable, pending, exit>>

\* No pass finds more: what is pending is reported, and so is a reference to
\* a program that does not exist.
Finish ==
    /\ left = {} /\ ~changed /\ exit = Running
    /\ dangling' \in BOOLEAN
    /\ exit' = IF pending # {} \/ dangling' THEN 1 ELSE 0
    /\ UNCHANGED <<files, text, reachable, pending, left, changed>>

Next == (\E p \in Programs : Look(p)) \/ NextPass \/ Finish

Spec == Init /\ [][Next]_vars

-------------------------------------------------------------------------------
(* What "run or imported" means, without passes.                           *)

\* Run from outside of the programs asked about, or imported by any file.
Roots == {p \in candidates :
    \/ place[p] = "globbed"
    \/ p \in named
    \/ \E a \in Areas : p \in mentions[a]
    \/ \E other \in Programs \ {p} : p \in imports[other]}

\* With a program, the programs it names are used.
Closed(S) ==
    /\ Roots \subseteq S
    /\ \A p \in S : mentions[p] \cap candidates \subseteq S

\* When the script ends it has found the programs that are used and no
\* others, whatever order the passes took, and its exit status tells whether
\* any program is left over or missing (check_test_reachability.py:4-8,
\* 131-134): the least set that holds the roots and what its members name.
FoundExactly ==
    exit # Running =>
        /\ Closed(reachable)
        /\ \A S \in SUBSET candidates : Closed(S) => reachable \subseteq S
        /\ exit = 0 <=> (reachable = candidates /\ ~dangling)

-------------------------------------------------------------------------------
(* The search, while it goes on.                                          *)

\* The text that runs is that of the files outside and of the programs found.
TextIsRead ==
    text = named \cup UNION {mentions[p] : p \in Areas \cup reachable}

\* Only what is used is found.
OnlyUsed == \A S \in SUBSET candidates : Closed(S) => reachable \subseteq S

\* A pass that has found nothing would find nothing if it began again.
NothingMissed == ~changed => \A p \in pending \ left : ~Found(p)

Ended ==
    exit # Running =>
        left = {} /\ ~changed /\ (exit = 0 <=> pending = {} /\ ~dangling)

Inv == TypeOK /\ TextIsRead /\ OnlyUsed /\ NothingMissed /\ Ended
===============================================================================
