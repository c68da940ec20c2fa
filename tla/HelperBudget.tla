------------------------------ MODULE HelperBudget -----------------------------
(***************************************************************************)
(* The process-wide budget of helper threads in dataframe/parallel.mojo:   *)
(* `_reserve_helpers`, a compare-and-swap loop on one counter, and         *)
(* `_release_helpers`, a fetch_sub.  Any number of threads reserve at once *)
(* (`Pool.run`, a produced round, a crew thread that joins a posting, a    *)
(* `run_jobs` call with no crew), and each slot is given back by the       *)
(* helper it was granted for, so the slots of one call come back one by    *)
(* one; those of helpers that did not start come back together.            *)
(*                                                                         *)
(* The limit is read from DATAFRAME_THREADS at every reservation, so two   *)
(* reservations in flight may go by different limits.                      *)
(***************************************************************************)
EXTENDS Integers, FiniteSets

CONSTANTS
    Calls,          \* the threads that reserve helpers
    MaxWanted,      \* most helpers one asks for (a bound of the model)
    Limits,         \* the values configured_workers() - 1 takes
    MaxLimit        \* the largest of them

ASSUME BudgetAssumption ==
    /\ MaxWanted \in Nat
    /\ MaxLimit \in Nat
    /\ Limits \subseteq 0..MaxLimit

VARIABLES
    helpers,        \* the counter
    held,           \* the slots that helpers of each call hold: <<call, number>>
    pc,             \* where each call is
    wanted,         \* what it asks for
    limit,          \* the limit it read
    busy            \* the counter as it last saw it

vars == <<helpers, held, pc, wanted, limit, busy>>

Slots == Calls \X (1..MaxWanted)
SlotsOf(c, n) == {c} \X (1..n)

TypeOK ==
    /\ helpers \in Int
    /\ held \subseteq Slots
    /\ pc \in [Calls -> {"idle", "limit", "load", "swap", "running"}]
    /\ wanted \in [Calls -> 0..MaxWanted]
    /\ limit \in [Calls -> 0..MaxLimit]
    /\ busy \in [Calls -> Int]

Init ==
    /\ helpers = 0
    /\ held = {}
    /\ pc = [c \in Calls |-> "idle"]
    /\ wanted = [c \in Calls |-> 0]
    /\ limit = [c \in Calls |-> 0]
    /\ busy = [c \in Calls |-> 0]

Goto(c, there) == pc' = [pc EXCEPT ![c] = there]

\* `_reserve_helpers(n)`; asking for none returns at once.
Ask(c, n) ==
    /\ pc[c] = "idle"
    /\ n > 0
    /\ wanted' = [wanted EXCEPT ![c] = n]
    /\ Goto(c, "limit")
    /\ UNCHANGED <<helpers, held, limit, busy>>

ReadLimit(c) ==
    /\ pc[c] = "limit"
    /\ \E setting \in Limits : limit' = [limit EXCEPT ![c] = setting]
    /\ Goto(c, "load")
    /\ UNCHANGED <<helpers, held, wanted, busy>>

Load(c) ==
    /\ pc[c] = "load"
    /\ busy' = [busy EXCEPT ![c] = helpers]
    /\ Goto(c, "swap")
    /\ UNCHANGED <<helpers, held, wanted, limit>>

Free(c) == limit[c] - busy[c]

\* A slip: all that is asked for, if anything is free.
GrantedInFull(c) == IF Free(c) > 0 THEN wanted[c] ELSE Free(c)

Granted(c) == IF wanted[c] < Free(c) THEN wanted[c] ELSE Free(c)

\* Nothing is free: no helper, and the call runs its jobs itself.
Refuse(c) ==
    /\ pc[c] = "swap"
    /\ Granted(c) <= 0
    /\ Goto(c, "idle")
    /\ UNCHANGED <<helpers, held, wanted, limit, busy>>

\* A slip: a store, where the code compares and swaps.
SwapByStore(c) ==
    /\ pc[c] = "swap"
    /\ Granted(c) > 0
    /\ helpers' = busy[c] + Granted(c)
    /\ held' = held \cup SlotsOf(c, Granted(c))
    /\ Goto(c, "running")
    /\ UNCHANGED <<wanted, limit, busy>>

\* The counter is what it was: the slots are this call's.
Swap(c) ==
    /\ pc[c] = "swap"
    /\ Granted(c) > 0
    /\ helpers = busy[c]
    /\ helpers' = busy[c] + Granted(c)
    /\ held' = held \cup SlotsOf(c, Granted(c))
    /\ Goto(c, "running")
    /\ UNCHANGED <<wanted, limit, busy>>

\* A slip: no second try, as if nothing were free.
RetryNever(c) ==
    /\ pc[c] = "swap"
    /\ Granted(c) > 0
    /\ helpers # busy[c]
    /\ Goto(c, "idle")
    /\ UNCHANGED <<helpers, held, wanted, limit, busy>>

\* Another call changed it: compare_exchange loads the new value.
Retry(c) ==
    /\ pc[c] = "swap"
    /\ Granted(c) > 0
    /\ helpers # busy[c]
    /\ busy' = [busy EXCEPT ![c] = helpers]
    /\ UNCHANGED <<helpers, held, pc, wanted, limit>>

\* `_release_helpers(count)`: a helper gives its slot back when it has run out
\* of jobs, and a call gives back those of helpers that did not start.
Release(c, S) ==
    /\ pc[c] = "running"
    /\ S # {}
    /\ S \subseteq held \cap SlotsOf(c, MaxWanted)
    /\ helpers' = helpers - Cardinality(S)
    /\ held' = held \ S
    /\ UNCHANGED <<pc, wanted, limit, busy>>

\* The call returns; it waited for its helpers.
Return(c) ==
    /\ pc[c] = "running"
    /\ held \cap SlotsOf(c, MaxWanted) = {}
    /\ Goto(c, "idle")
    /\ UNCHANGED <<helpers, held, wanted, limit, busy>>

Step(c) ==
    \/ \E n \in 1..MaxWanted : Ask(c, n)
    \/ ReadLimit(c)
    \/ Load(c)
    \/ Refuse(c)
    \/ Swap(c)
    \/ Retry(c)
    \/ \E S \in SUBSET SlotsOf(c, MaxWanted) : Release(c, S)
    \/ Return(c)

Next == \E c \in Calls : Step(c)

Spec == Init /\ [][Next]_vars

-------------------------------------------------------------------------------
(* Properties.                                                             *)

\* The counter is exact: as many as the slots held, whatever reservations
\* and releases interleave.  It never drifts, so no slot is lost for good
\* (every later query would run with one thread less) and none is minted.
Exact == helpers = Cardinality(held)

\* Never more helpers than the largest setting allows (#390), though each
\* reservation decides on a counter it read earlier.
WithinLimit == Cardinality(held) <= MaxLimit

\* A reservation never goes past the limit its call read, whatever limits
\* the others went by and whatever they took since it read the counter.
Respects(c) ==
    pc[c] = "swap" /\ pc'[c] = "running" => Cardinality(held') <= limit[c]

GrantRespectsLimit == [][\A c \in Calls : Respects(c)]_vars

\* A call asks the budget from when it has read its limit until it has seen
\* whether something is free: a grant takes effect with the exchange, a refusal
\* with the load that found nothing free.
Asking(c) == pc[c] = "load" \/ (pc[c] = "swap" /\ Granted(c) > 0)
AskOf(c) == IF Asking(c) THEN <<wanted[c], limit[c]>> ELSE <<0, 0>>
HeldBy(c) == held \cap SlotsOf(c, MaxWanted)

\* The compare-and-swap loop is the one-step budget: a call is granted all that
\* its limit leaves, of the slots that are taken at that moment, and not only
\* of those the counter said earlier; it is refused only if, at a moment within
\* the call, nothing was free; and it gives back no other call's slots.
Budget == INSTANCE ThreadBudget WITH
    taken <- Cardinality(held),
    granted <- [c \in Calls |-> Cardinality(HeldBy(c))],
    ask <- [c \in Calls |-> AskOf(c)]
ImplementsBudget == Budget!Spec

\* The invariant the theorems rest on (HelperBudgetProofs): a call that has
\* no grant holds no slot, so the slots a grant adds are all new ones; and a
\* call that is still to be answered wants something.
NoStraySlots ==
    \A c \in Calls : pc[c] # "running" => held \cap SlotsOf(c, MaxWanted) = {}
Wants == \A c \in Calls : pc[c] \in {"limit", "load", "swap"} => wanted[c] > 0

Inv == TypeOK /\ IsFiniteSet(held) /\ Exact /\ WithinLimit /\ NoStraySlots /\ Wants
===============================================================================
