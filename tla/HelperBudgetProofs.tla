-------------------------- MODULE HelperBudgetProofs ---------------------------
(* Theorems of HelperBudget, for any calls, any sizes and any settings.    *)
EXTENDS HelperBudget, FiniteSetTheorems, TLAPS

\* A call's first n slots are n slots.
LEMMA SlotsOfCardinality ==
    ASSUME NEW c, NEW n \in Nat
    PROVE  IsFiniteSet(SlotsOf(c, n)) /\ Cardinality(SlotsOf(c, n)) = n
<1>1. IsFiniteSet({c}) /\ Cardinality({c}) = 1
  BY FS_Singleton
<1>2. IsFiniteSet(1..n) /\ Cardinality(1..n) = n
  BY FS_Interval
<1>3. /\ IsFiniteSet({c} \X (1..n))
      /\ Cardinality({c} \X (1..n)) = Cardinality({c}) * Cardinality(1..n)
  BY <1>1, <1>2, FS_Product, Zenon
<1>4. 1 * n = n
  OBVIOUS
<1>5. QED
  BY <1>1, <1>2, <1>3, <1>4 DEF SlotsOf

\* What a successful swap grants is positive, at most what was asked for, and
\* keeps the counter within the limit the call read.
LEMMA GrantedBounds ==
    ASSUME Inv, NEW c \in Calls, Granted(c) > 0, helpers = busy[c]
    PROVE  /\ Granted(c) \in 1..wanted[c]
           /\ wanted[c] \in 0..MaxWanted
           /\ helpers + Granted(c) <= limit[c]
           /\ limit[c] <= MaxLimit
BY BudgetAssumption DEF Inv, TypeOK, Granted, Free

LEMMA InitInv == Init => Inv
<1> SUFFICES ASSUME Init PROVE Inv
  OBVIOUS
<1>1. TypeOK
  BY BudgetAssumption DEF Init, TypeOK
<1>2. IsFiniteSet(held) /\ Cardinality(held) = 0
  BY FS_EmptySet DEF Init
<1>3. QED
  BY <1>1, <1>2, BudgetAssumption DEF Init, Inv, Exact, WithinLimit, NoStraySlots, Wants

\* The one step that adds slots: they are new, so the counter stays exact.
LEMMA SwapStep ==
    ASSUME Inv, NEW c \in Calls, Swap(c)
    PROVE  /\ Inv'
           /\ Cardinality(held') <= limit[c]
           /\ Granted(c) \in 1..MaxLimit
           /\ Cardinality(held') = Cardinality(held) + Granted(c)
<1> DEFINE granted == SlotsOf(c, Granted(c))
<1>1. /\ Granted(c) \in 1..MaxWanted
      /\ helpers + Granted(c) <= limit[c]
      /\ limit[c] <= MaxLimit
  BY GrantedBounds, BudgetAssumption DEF Swap, Inv, TypeOK
<1>2. granted \subseteq SlotsOf(c, MaxWanted)
  BY <1>1, BudgetAssumption DEF SlotsOf
<1>3. held \cap granted = {}
  BY <1>2 DEF Inv, NoStraySlots, Swap
<1>4. IsFiniteSet(granted) /\ Cardinality(granted) = Granted(c)
  BY <1>1, SlotsOfCardinality
<1>5. /\ IsFiniteSet(held')
      /\ Cardinality(held') = Cardinality(held) + Granted(c)
  <2>1. IsFiniteSet(held) /\ Cardinality(held) \in Nat
    BY FS_CardinalityType DEF Inv
  <2>2. Cardinality(held \cap granted) = 0
    BY <1>3, FS_EmptySet
  <2>3. /\ IsFiniteSet(held \cup granted)
        /\ Cardinality(held \cup granted)
             = Cardinality(held) + Cardinality(granted)
                 - Cardinality(held \cap granted)
    BY <2>1, <1>4, FS_Union
  <2>4. held' = held \cup granted
    BY DEF Swap
  <2>5. QED
    BY <2>1, <2>2, <2>3, <2>4, <1>4, <1>1
<1>6. Exact' /\ Cardinality(held') <= limit[c]
  BY <1>5, <1>1 DEF Swap, Inv, Exact
<1>7. WithinLimit'
  <2>1. Cardinality(held') \in Nat
    BY <1>5, FS_CardinalityType
  <2>2. QED
    BY <2>1, <1>1, <1>6, BudgetAssumption DEF WithinLimit, Inv, TypeOK
<1>8. TypeOK'
  <2>1. granted \subseteq Slots
    BY <1>2 DEF Slots, SlotsOf
  <2>2. QED
    BY <2>1, <1>1 DEF Swap, Goto, Inv, TypeOK
<1>9. NoStraySlots'
  <2> SUFFICES ASSUME NEW d \in Calls, pc'[d] # "running"
               PROVE  held' \cap SlotsOf(d, MaxWanted) = {}
    BY DEF NoStraySlots
  <2>1. d # c /\ pc[d] # "running"
    BY DEF Swap, Goto, Inv, TypeOK
  <2>2. held \cap SlotsOf(d, MaxWanted) = {}
    BY <2>1 DEF Inv, NoStraySlots
  <2>3. granted \cap SlotsOf(d, MaxWanted) = {}
    BY <2>1 DEF SlotsOf
  <2>4. QED
    BY <2>2, <2>3 DEF Swap
<1>10. Granted(c) \in 1..MaxLimit
  <2>1. Cardinality(held) \in Nat
    BY FS_CardinalityType DEF Inv
  <2>2. QED
    BY <2>1, <1>1, BudgetAssumption DEF Inv, Exact, TypeOK
<1>11. Wants'
  BY DEF Swap, Goto, Inv, TypeOK, Wants
<1>12. QED
  BY <1>5, <1>6, <1>7, <1>8, <1>9, <1>10, <1>11 DEF Inv

\* The one step that gives slots back: only slots that are held.
LEMMA ReleaseStep ==
    ASSUME Inv, NEW c \in Calls, NEW S, Release(c, S)
    PROVE  /\ Inv'
           /\ Cardinality(S) \in 1..Cardinality(held)
           /\ Cardinality(held') = Cardinality(held) - Cardinality(S)
<1>1. IsFiniteSet(held) /\ Cardinality(held) \in Nat
  BY FS_CardinalityType DEF Inv
<1>2. S \subseteq held /\ held \cap S = S
  BY DEF Release
<1>3. /\ IsFiniteSet(held \ S)
      /\ Cardinality(held \ S) = Cardinality(held) - Cardinality(S)
  BY <1>1, <1>2, FS_Difference
<1>4. Cardinality(S) \in 1..Cardinality(held)
  <2>1. IsFiniteSet(S) /\ Cardinality(S) <= Cardinality(held)
    BY <1>1, <1>2, FS_Subset
  <2>2. Cardinality(S) \in Nat /\ Cardinality(S) # 0
    BY <2>1, FS_CardinalityType, FS_EmptySet DEF Release
  <2>3. QED
    BY <1>1, <2>1, <2>2
<1>5. IsFiniteSet(held') /\ Exact' /\ WithinLimit'
  BY <1>1, <1>3, <1>4, BudgetAssumption DEF Release, Inv, Exact, WithinLimit
<1>6. TypeOK'
  BY <1>4 DEF Release, Inv, TypeOK
<1>7. NoStraySlots'
  BY DEF Release, Inv, NoStraySlots
<1>8. Wants'
  BY DEF Release, Inv, Wants
<1>9. QED
  BY <1>3, <1>4, <1>5, <1>6, <1>7, <1>8 DEF Inv, Release

\* Every other step leaves the counter and the slots alone.
LEMMA QuietStep ==
    ASSUME Inv, NEW c \in Calls,
           \/ \E n \in 1..MaxWanted : Ask(c, n)
           \/ ReadLimit(c)
           \/ Load(c)
           \/ Refuse(c)
           \/ Retry(c)
           \/ Return(c)
    PROVE  Inv' /\ held' = held
<1>1. helpers' = helpers /\ held' = held
  BY DEF Ask, ReadLimit, Load, Refuse, Retry, Return
<1>2. IsFiniteSet(held') /\ Exact' /\ WithinLimit'
  BY <1>1 DEF Inv, Exact, WithinLimit
<1>3. TypeOK'
  BY <1>1, BudgetAssumption
     DEF Inv, TypeOK, Goto, Ask, ReadLimit, Load, Refuse, Retry, Return
<1>4. NoStraySlots'
  <2>1. \A d \in Calls : pc'[d] # "running" => pc[d] # "running" \/ (d = c /\ Return(c))
    BY DEF Inv, TypeOK, Goto, Ask, ReadLimit, Load, Refuse, Retry, Return
  <2>2. Return(c) => held \cap SlotsOf(c, MaxWanted) = {}
    BY DEF Return
  <2>3. QED
    BY <2>1, <2>2, <1>1 DEF Inv, NoStraySlots
<1>5. Wants'
  BY DEF Inv, TypeOK, Wants, Goto, Ask, ReadLimit, Load, Refuse, Retry, Return
<1>6. QED
  BY <1>1, <1>2, <1>3, <1>4, <1>5 DEF Inv

LEMMA NextInv == Inv /\ [Next]_vars => Inv'
<1> SUFFICES ASSUME Inv, [Next]_vars PROVE Inv'
  OBVIOUS
<1>1. ASSUME NEW c \in Calls, Step(c) PROVE Inv'
  <2>1. CASE Swap(c)
    BY <2>1, SwapStep
  <2>2. CASE \E S \in SUBSET SlotsOf(c, MaxWanted) : Release(c, S)
    BY <2>2, ReleaseStep
  <2>3. CASE ~Swap(c) /\ ~\E S \in SUBSET SlotsOf(c, MaxWanted) : Release(c, S)
    BY <1>1, <2>3, QuietStep DEF Step
  <2>4. QED
    BY <2>1, <2>2, <2>3
<1>2. CASE UNCHANGED vars
  BY <1>2 DEF vars, Inv, TypeOK, Exact, WithinLimit, NoStraySlots, Wants
<1>3. QED
  BY <1>1, <1>2 DEF Next

\* The invariant the other theorems use.
THEOREM Invariance == Spec => []Inv
BY InitInv, NextInv, PTL DEF Spec

\* Type correctness.
THEOREM TypeCorrect == Spec => []TypeOK
<1>1. Inv => TypeOK
  BY DEF Inv
<1>2. QED
  BY <1>1, Invariance, PTL

\* The counter of `_helpers` is exact in every state.
THEOREM CounterExact == Spec => []Exact
<1>1. Inv => Exact
  BY DEF Inv
<1>2. QED
  BY <1>1, Invariance, PTL

\* Never more helpers than the largest limit any call read.
THEOREM HelpersWithinLimit == Spec => []WithinLimit
<1>1. Inv => WithinLimit
  BY DEF Inv
<1>2. QED
  BY <1>1, Invariance, PTL

\* No reservation goes past the limit its own call read.
THEOREM GrantsRespectLimit == Spec => GrantRespectsLimit
<1>1. ASSUME Inv, [Next]_vars, NEW c \in Calls PROVE Respects(c)
  <2> SUFFICES ASSUME pc[c] = "swap", pc'[c] = "running"
               PROVE  Cardinality(held') <= limit[c]
    BY DEF Respects
  <2>1. PICK d \in Calls : Step(d)
    BY <1>1 DEF Next, vars
  <2>2. d = c /\ Swap(c)
    BY <1>1, <2>1 DEF Inv, TypeOK, Step, Goto, Ask, ReadLimit, Load, Refuse,
                      Swap, Retry, Release, Return
  <2>3. QED
    BY <1>1, <2>2, SwapStep
<1>2. Inv /\ [Next]_vars => [\A c \in Calls : Respects(c)]_vars
  BY <1>1
<1>3. QED
  BY <1>2, Invariance, PTL DEF Spec, GrantRespectsLimit

-------------------------------------------------------------------------------
(* The loop as the one-step budget of ThreadBudget.                        *)

Asks == [c \in Calls |-> AskOf(c)]
Counts == [c \in Calls |-> Cardinality(HeldBy(c))]

\* What a call asks and has, when a step of another leaves its state alone.
LEMMA OthersKept ==
    ASSUME NEW c \in Calls, NEW x, NEW y, AskOf(c)' = x, Cardinality(HeldBy(c))' = y,
           \A d \in Calls \ {c} : AskOf(d)' = AskOf(d) /\ HeldBy(d)' = HeldBy(d)
    PROVE  Asks' = [Asks EXCEPT ![c] = x] /\ Counts' = [Counts EXCEPT ![c] = y]
<1>1. ASSUME NEW d \in Calls
      PROVE  /\ AskOf(d)' = IF d = c THEN x ELSE AskOf(d)
             /\ Cardinality(HeldBy(d))' = IF d = c THEN y ELSE Cardinality(HeldBy(d))
  OBVIOUS
<1>2. Asks' = [d \in Calls |-> AskOf(d)'] /\ Counts' = [d \in Calls |-> Cardinality(HeldBy(d))']
  BY DEF Asks, Counts
<1>3. /\ [Asks EXCEPT ![c] = x] = [d \in Calls |-> IF d = c THEN x ELSE AskOf(d)]
      /\ [Counts EXCEPT ![c] = y]
            = [d \in Calls |-> IF d = c THEN y ELSE Cardinality(HeldBy(d))]
  BY DEF Asks, Counts
<1> QED BY <1>1, <1>2, <1>3

\* A step of one call changes neither the state nor the slots of another.
LEMMA OthersAsk ==
    ASSUME Inv, NEW c \in Calls, Step(c), NEW d \in Calls \ {c}
    PROVE  AskOf(d)' = AskOf(d)
<1>1. pc'[d] = pc[d] /\ wanted'[d] = wanted[d] /\ limit'[d] = limit[d] /\ busy'[d] = busy[d]
  BY DEF Inv, TypeOK, Step, Goto, Ask, ReadLimit, Load, Refuse, Swap, Retry, Release, Return
<1> QED BY <1>1 DEF AskOf, Asking, Granted, Free

\* The exchange grants what the one-step budget grants.
LEMMA SwapGrants ==
    ASSUME Inv, NEW c \in Calls, Swap(c)
    PROVE  Budget!Grant(c)
<1> DEFINE n == Granted(c)
<1>1. /\ pc[c] = "swap" /\ n > 0 /\ helpers = busy[c] /\ helpers = Cardinality(held)
      /\ AskOf(c) = <<wanted[c], limit[c]>>
  BY DEF Swap, Inv, Exact, AskOf, Asking
<1>2. /\ n \in 1..wanted[c] /\ wanted[c] \in 0..MaxWanted
      /\ Cardinality(held') = Cardinality(held) + n
  BY <1>1, GrantedBounds, SwapStep
<1>3. AskOf(c)' = <<0, 0>>
  BY DEF Swap, Goto, Inv, TypeOK, AskOf, Asking
<1>4. HeldBy(c)' = SlotsOf(c, n) /\ \A d \in Calls \ {c} : HeldBy(d)' = HeldBy(d)
  <2>1. held \cap SlotsOf(c, MaxWanted) = {} /\ held' = held \cup SlotsOf(c, n)
    BY DEF Swap, Inv, NoStraySlots
  <2>2. SlotsOf(c, n) \subseteq SlotsOf(c, MaxWanted)
    <3>1. 1..n \subseteq 1..MaxWanted
      BY <1>2, BudgetAssumption
    <3> QED BY <3>1 DEF SlotsOf
  <2>3. \A d \in Calls \ {c} : SlotsOf(c, n) \cap SlotsOf(d, MaxWanted) = {}
    BY DEF SlotsOf
  <2> HIDE DEF n
  <2> QED BY <2>1, <2>2, <2>3 DEF HeldBy
<1>5. Cardinality(HeldBy(c))' = n
  <2>1. Cardinality(SlotsOf(c, n)) = n
    BY <1>2, SlotsOfCardinality
  <2> QED BY <1>4, <2>1
<1>6. Asks' = [Asks EXCEPT ![c] = <<0, 0>>] /\ Counts' = [Counts EXCEPT ![c] = n]
  <2>1. \A d \in Calls \ {c} : AskOf(d)' = AskOf(d)
    BY OthersAsk DEF Step
  <2> QED BY <1>3, <1>4, <1>5, <2>1, OthersKept
<1>7. /\ Asks[c] = <<wanted[c], limit[c]>>
      /\ Asks[c][1] = wanted[c] /\ Asks[c][2] = limit[c] /\ Asks[c] # <<0, 0>>
  BY <1>1, <1>2 DEF Asks
<1>8. n = (IF wanted[c] < limit[c] - Cardinality(held) THEN wanted[c]
           ELSE limit[c] - Cardinality(held))
  BY <1>1 DEF Granted, Free
<1>9. limit[c] - Cardinality(held) > 0
  BY <1>1, <1>2, <1>8 DEF Inv, TypeOK
<1> QED BY <1>2, <1>6, <1>7, <1>8, <1>9
    DEF Budget!Grant, Budget!Free, Budget!NoAsk, Asks, Counts

\* A call gives back slots of its own.
LEMMA ReleaseGives ==
    ASSUME Inv, NEW c \in Calls, NEW S \in SUBSET SlotsOf(c, MaxWanted), Release(c, S)
    PROVE  Budget!GiveBack(c)
<1>1. IsFiniteSet(HeldBy(c)) /\ Cardinality(HeldBy(c)) \in Nat
  BY FS_Subset, FS_CardinalityType DEF Inv, HeldBy
<1>2. S \subseteq HeldBy(c) /\ S # {} /\ held' = held \ S
  BY DEF Release, HeldBy
<1>3. HeldBy(c)' = HeldBy(c) \ S /\ \A d \in Calls \ {c} : HeldBy(d)' = HeldBy(d)
  <2>1. \A d \in Calls \ {c} : S \cap SlotsOf(d, MaxWanted) = {}
    BY DEF SlotsOf
  <2> QED BY <1>2, <2>1 DEF HeldBy
<1>4. /\ Cardinality(S) \in 1..Cardinality(HeldBy(c))
      /\ Cardinality(HeldBy(c))' = Cardinality(HeldBy(c)) - Cardinality(S)
  <2>1. IsFiniteSet(S) /\ Cardinality(S) <= Cardinality(HeldBy(c))
    BY <1>1, <1>2, FS_Subset
  <2>2. Cardinality(S) \in Nat /\ Cardinality(S) # 0
    BY <1>2, <2>1, FS_CardinalityType, FS_EmptySet
  <2>3. HeldBy(c) \cap S = S
    BY <1>2
  <2>4. Cardinality(HeldBy(c) \ S) = Cardinality(HeldBy(c)) - Cardinality(S)
    BY <1>1, <2>3, FS_Difference
  <2> QED BY <1>1, <1>3, <2>1, <2>2, <2>4
<1>5. Cardinality(held') = Cardinality(held) - Cardinality(S)
  BY ReleaseStep
<1>6. AskOf(c)' = AskOf(c)
  BY DEF Release, AskOf, Asking, Granted, Free
<1>7. /\ Asks' = [Asks EXCEPT ![c] = AskOf(c)]
      /\ Counts' = [Counts EXCEPT ![c] = Cardinality(HeldBy(c)) - Cardinality(S)]
  <2>1. \A d \in Calls \ {c} : AskOf(d)' = AskOf(d)
    BY OthersAsk DEF Step
  <2> QED BY <1>3, <1>4, <1>6, <2>1, OthersKept
<1>8. Asks' = Asks /\ Counts[c] = Cardinality(HeldBy(c))
  BY <1>7 DEF Asks, Counts
<1> QED BY <1>4, <1>5, <1>7, <1>8 DEF Budget!GiveBack, Asks, Counts

\* Every other step is one of the budget or none: a call asks when it reads its
\* limit, and is refused when it sees that nothing is free.
LEMMA QuietMaps ==
    ASSUME Inv, NEW c \in Calls, Step(c), ~Swap(c),
           ~\E S \in SUBSET SlotsOf(c, MaxWanted) : Release(c, S)
    PROVE  \/ Budget!Ask(c) \/ Budget!Refuse(c)
           \/ UNCHANGED <<Cardinality(held), Counts, Asks>>
<1>1. held' = held
  BY QuietStep DEF Step
<1>2. /\ \A d \in Calls : HeldBy(d)' = HeldBy(d)
      /\ UNCHANGED <<Cardinality(held), Counts>>
  BY <1>1 DEF HeldBy, Counts
<1>3. \A d \in Calls \ {c} : AskOf(d)' = AskOf(d)
  BY OthersAsk
<1>4. Asks' = [Asks EXCEPT ![c] = AskOf(c)']
  BY <1>2, <1>3, OthersKept
<1>5. ASSUME AskOf(c)' = AskOf(c) PROVE UNCHANGED <<Cardinality(held), Counts, Asks>>
  BY <1>2, <1>4, <1>5 DEF Asks
<1>6. /\ wanted[c] \in 0..MaxWanted /\ limit[c] \in Int /\ busy[c] \in Int
      /\ helpers = Cardinality(held) /\ helpers \in Int
  BY BudgetAssumption DEF Inv, TypeOK, Exact
<1>7. ASSUME Asking(c), AskOf(c)' # AskOf(c), pc'[c] = "swap", UNCHANGED <<wanted, limit>>,
             busy'[c] = helpers
      PROVE  Budget!Refuse(c)
  <2>1. AskOf(c) = <<wanted[c], limit[c]>> /\ wanted[c] > 0
    BY <1>7 DEF AskOf, Asking, Inv, Wants
  <2>2. Granted(c)' <= 0 /\ AskOf(c)' = <<0, 0>>
    <3>1. ~Asking(c)'
      BY <1>7, <2>1 DEF AskOf
    <3>2. AskOf(c)' = <<0, 0>>
      BY <3>1 DEF AskOf
    <3>3. ~(Granted(c)' > 0)
      BY <1>7, <3>1 DEF Asking
    <3>4. Granted(c)' \in Int
      BY <1>6, <1>7 DEF Granted, Free
    <3> QED BY <3>2, <3>3, <3>4
  <2>3. limit[c] - Cardinality(held) <= 0
    BY <1>6, <1>7, <2>1, <2>2 DEF Granted, Free
  <2>4. Asks[c] = <<wanted[c], limit[c]>> /\ Asks[c][2] = limit[c] /\ Asks[c] # <<0, 0>>
    BY <1>6, <2>1 DEF Asks
  <2>5. Asks' = [Asks EXCEPT ![c] = <<0, 0>>]
    BY <1>4, <2>2
  <2> QED BY <1>2, <2>3, <2>4, <2>5
      DEF Budget!Refuse, Budget!Free, Budget!NoAsk, Asks, Counts
<1>8. CASE ReadLimit(c)
  <2>1. PICK setting \in Limits : limit' = [limit EXCEPT ![c] = setting]
    BY <1>8 DEF ReadLimit
  <2>2. /\ pc[c] = "limit" /\ pc'[c] = "load" /\ wanted'[c] = wanted[c] /\ limit'[c] = setting
        /\ wanted[c] \in 1..MaxWanted
    BY <1>6, <1>8, <2>1 DEF ReadLimit, Goto, Inv, TypeOK, Wants
  <2>3. AskOf(c) = <<0, 0>> /\ AskOf(c)' = <<wanted[c], setting>>
    BY <2>2 DEF AskOf, Asking
  <2>4. Cardinality(HeldBy(c)) = 0
    <3>1. HeldBy(c) = {}
      BY <2>2 DEF Inv, NoStraySlots, HeldBy
    <3> QED BY <3>1, FS_EmptySet
  <2>5. /\ Asks[c] = <<0, 0>> /\ Counts[c] = 0
        /\ Asks' = [Asks EXCEPT ![c] = <<wanted[c], setting>>]
    BY <1>4, <2>3, <2>4 DEF Asks, Counts
  <2> QED BY <1>2, <2>2, <2>5 DEF Budget!Ask, Budget!NoAsk, Asks, Counts
<1>9. CASE Load(c) \/ Retry(c)
  <2>1. /\ Asking(c) /\ pc'[c] = "swap" /\ busy'[c] = helpers
        /\ UNCHANGED <<wanted, limit>>
    BY <1>9 DEF Load, Retry, Goto, Asking, Inv, TypeOK
  <2> QED BY <1>5, <1>7, <2>1
<1>10. CASE Refuse(c) \/ Return(c) \/ \E n \in 1..MaxWanted : Ask(c, n)
  <2>1. ~Asking(c)
    BY <1>6, <1>10 DEF Refuse, Return, Ask, Asking, Granted, Free
  <2>2. ~Asking(c)'
    BY <1>10 DEF Refuse, Return, Ask, Goto, Asking, Inv, TypeOK
  <2> QED BY <1>5, <2>1, <2>2 DEF AskOf
<1> QED BY <1>8, <1>9, <1>10 DEF Step

\* The compare-and-swap loop of `_reserve_helpers` implements the one-step
\* budget of ThreadBudget: what a call gets is decided by the slots taken when
\* it gets them, a refusal by those taken at one moment of its call.
THEOREM LoopImplementsBudget == Spec => ImplementsBudget
<1>1. Init => Budget!Init
  <2> SUFFICES ASSUME Init PROVE Budget!Init
    OBVIOUS
  <2>1. \A c \in Calls : HeldBy(c) = {} /\ AskOf(c) = <<0, 0>>
    BY DEF Init, HeldBy, AskOf, Asking
  <2>2. Cardinality({}) = 0 /\ held = {}
    BY FS_EmptySet DEF Init
  <2> QED BY <2>1, <2>2 DEF Budget!Init, Budget!NoAsk
<1>2. Inv /\ [Next]_vars => [Budget!Next]_(<<Cardinality(held), Counts, Asks>>)
  <2> SUFFICES ASSUME Inv, [Next]_vars
               PROVE  Budget!Next \/ UNCHANGED <<Cardinality(held), Counts, Asks>>
    OBVIOUS
  <2>1. CASE UNCHANGED vars
    BY <2>1 DEF vars, Counts, Asks, HeldBy, AskOf, Asking, Granted, Free
  <2>2. ASSUME NEW c \in Calls, Step(c)
        PROVE  Budget!Next \/ UNCHANGED <<Cardinality(held), Counts, Asks>>
    <3>1. CASE Swap(c)
      BY <3>1, SwapGrants DEF Budget!Next
    <3>2. CASE \E S \in SUBSET SlotsOf(c, MaxWanted) : Release(c, S)
      BY <3>2, ReleaseGives DEF Budget!Next
    <3>3. CASE ~Swap(c) /\ ~\E S \in SUBSET SlotsOf(c, MaxWanted) : Release(c, S)
      BY <2>2, <3>3, QuietMaps DEF Budget!Next
    <3> QED BY <3>1, <3>2, <3>3
  <2> QED BY <2>1, <2>2 DEF Next
<1>3. <<Cardinality(held), Counts, Asks>>
        = <<Cardinality(held), [c \in Calls |-> Cardinality(HeldBy(c))],
            [c \in Calls |-> AskOf(c)]>>
  BY DEF Counts, Asks
<1> QED BY <1>1, <1>2, Invariance, PTL DEF Spec, ImplementsBudget, Budget!Spec, Counts, Asks
===============================================================================
