------------------------------ MODULE ThreadBudget -----------------------------
(***************************************************************************)
(* What the process-wide thread budget of dataframe/parallel.mojo promises *)
(* (#390), as if a reservation were one step: a call that asks gets what   *)
(* it asks for, or as much of it as its limit leaves free at that moment;  *)
(* it is refused only when nothing is free; and it gives back only what it *)
(* was granted, in any portions.                                           *)
(***************************************************************************)
EXTENDS Integers

CONSTANTS
    Calls,
    MaxWanted,      \* most slots a call asks for
    Limits          \* the limits a call may go by

VARIABLES
    taken,          \* how many slots are taken
    granted,        \* how many each call has
    ask             \* what each asks for, and its limit

NoAsk == <<0, 0>>

Init ==
    /\ taken = 0
    /\ granted = [c \in Calls |-> 0]
    /\ ask = [c \in Calls |-> NoAsk]

Ask(c) ==
    /\ ask[c] = NoAsk /\ granted[c] = 0
    /\ \E n \in 1..MaxWanted, limit \in Limits : ask' = [ask EXCEPT ![c] = <<n, limit>>]
    /\ UNCHANGED <<taken, granted>>

Free(c) == ask[c][2] - taken

\* All that is asked for and is free, whichever is less.
Grant(c) ==
    /\ ask[c] # NoAsk /\ Free(c) > 0
    /\ LET n == IF ask[c][1] < Free(c) THEN ask[c][1] ELSE Free(c)
       IN  /\ taken' = taken + n
           /\ granted' = [granted EXCEPT ![c] = n]
    /\ ask' = [ask EXCEPT ![c] = NoAsk]

Refuse(c) ==
    /\ ask[c] # NoAsk /\ Free(c) <= 0
    /\ ask' = [ask EXCEPT ![c] = NoAsk]
    /\ UNCHANGED <<taken, granted>>

GiveBack(c) ==
    /\ \E n \in 1..granted[c] :
        /\ taken' = taken - n
        /\ granted' = [granted EXCEPT ![c] = @ - n]
    /\ UNCHANGED ask

Next == \E c \in Calls : Ask(c) \/ Grant(c) \/ Refuse(c) \/ GiveBack(c)

Spec == Init /\ [][Next]_<<taken, granted, ask>>
===============================================================================
