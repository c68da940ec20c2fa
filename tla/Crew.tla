---------------------------------- MODULE Crew ---------------------------------
(***************************************************************************)
(* The crew of dataframe/parallel.mojo: threads that every `run_jobs` call *)
(* of a running operation posts its jobs to (`_Crew`, `_crew_worker`,      *)
(* `_run_on_crew`).  A call takes a posting, offers its jobs to helpers,   *)
(* claims jobs itself and retires the posting; while it waits for the      *)
(* threads in it, it helps other postings.  A job may make a call of its   *)
(* own, on whatever thread runs it, so each thread has a stack of calls    *)
(* and of postings it is in.  Crew threads join a posting, take a slot of  *)
(* the process-wide budget, and hand the place back when there is none.    *)
(*                                                                         *)
(* A posting's state word (helpers wanted, threads running, closed) is     *)
(* changed by compare-and-swap, one step each; a lost race reads it again, *)
(* so only the winning exchange is a step.  The crew itself stays up: its  *)
(* start, parking and stop are module CrewLifecycle.                       *)
(***************************************************************************)
EXTENDS Integers, FiniteSets, Sequences

CONSTANTS
    Callers,        \* threads that make calls from outside any job
    CrewThreads,    \* the crew's threads
    Postings,       \* how many postings there are (64 in the code)
    MaxCalls,       \* calls made in all, nested ones included (a bound)
    MaxJobs,        \* most jobs of a call (a bound)
    MaxDepth,       \* most calls a thread has on its stack (a bound)
    Limit           \* configured_workers() - 1, the budget's helpers

ASSUME CrewAssumption ==
    /\ Callers \cap CrewThreads = {}
    /\ IsFiniteSet(Callers) /\ IsFiniteSet(CrewThreads)
    /\ 0 \notin Callers \cup CrewThreads
    /\ Postings \in Nat \ {0}
    /\ MaxCalls \in Nat
    /\ MaxJobs \in Nat
    /\ MaxDepth \in Nat
    /\ Limit \in Nat

Threads == Callers \cup CrewThreads
Posts == 1..Postings
Calls == 1..MaxCalls
None == 0

VARIABLES
    claims,     \* each posting's call, None when it is free
    wanted,     \* its state word: helpers still wanted,
    running,    \*   crew threads and guests in it,
    closed,     \*   and that nobody may join it any more
    made,       \* calls made so far; a call's number is its age
    jobs,       \* how many jobs each call has
    next,       \* the next of them to claim
    done,       \* how many have finished
    helpers,    \* the budget's counter
    outside,    \* slots of it that other operations and pools hold
    mutex,      \* who holds the crew's mutex, None when nobody does
    stack       \* each thread's stack of frames, the innermost first

posting == <<claims, wanted, running, closed>>
list == <<jobs, next, done>>
vars == <<posting, made, list, helpers, outside, mutex, stack>>

Roles == {"crew", "own", "helper", "guest"}
Places == {"look", "scan", "parked", "awake", "reserve", "handback",    \* a crew thread
           "offer", "signal", "close", "retire", "help",        \* a call
           "enter", "claim", "run", "giveback", "leave"}
Frames == [at : Places, role : Roles, post : 0..Postings, call : 0..MaxCalls]

TypeOK ==
    /\ claims \in [Posts -> 0..MaxCalls]
    /\ wanted \in [Posts -> 0..MaxJobs]
    /\ running \in [Posts -> 0..MaxJobs]
    /\ closed \in [Posts -> BOOLEAN]
    /\ made \in 0..MaxCalls
    /\ jobs \in [Calls -> 0..MaxJobs]
    /\ next \in [Calls -> Nat]
    /\ done \in [Calls -> 0..MaxJobs]
    /\ outside \in 0..Limit
    /\ helpers \in outside..Limit
    /\ mutex \in {None} \cup Threads
    /\ stack \in [Threads -> Seq(Frames)]
    /\ \A t \in CrewThreads : stack[t] # <<>>

\* A crew thread's frame outside any call.
Idle(place, p) == [at |-> place, role |-> "crew", post |-> p, call |-> None]
Resting == Idle("look", 0)
Woken == Idle("awake", 0)

Init ==
    /\ claims = [p \in Posts |-> None]
    /\ wanted = [p \in Posts |-> 0]
    /\ running = [p \in Posts |-> 0]
    /\ closed = [p \in Posts |-> FALSE]
    /\ made = 0
    /\ jobs = [k \in Calls |-> 0]
    /\ next = [k \in Calls |-> 0]
    /\ done = [k \in Calls |-> 0]
    /\ helpers = 0
    /\ outside = 0
    /\ mutex = None
    /\ stack = [t \in Threads |-> IF t \in Callers THEN <<>> ELSE <<Resting>>]

\* The innermost frame of a thread, and the three ways it changes.
Top(t) == Head(stack[t])
At(t, place) == stack[t] # <<>> /\ Top(t).at = place
Become(t, frame) == stack' = [stack EXCEPT ![t] = <<frame>> \o Tail(@)]
Goto(t, place) == Become(t, [Top(t) EXCEPT !.at = place])
Push(t, frame) == stack' = [stack EXCEPT ![t] = <<frame>> \o @]
Pop(t) == stack' = [stack EXCEPT ![t] = Tail(@)]

-------------------------------------------------------------------------------
(* A call: `_run_on_crew`.                                                 *)

Depth(t) == Cardinality({i \in DOMAIN stack[t] : stack[t][i].role = "own"})

\* A slip: the posting is written without a look at whether it is free.
PostAnywhere(t, n) ==
    /\ (t \in Callers /\ stack[t] = <<>>) \/ At(t, "run")
    /\ Depth(t) < MaxDepth
    /\ made < MaxCalls
    /\ \E p \in Posts :
        /\ claims' = [claims EXCEPT ![p] = made + 1]
        /\ Push(t, [at |-> "offer", role |-> "own", post |-> p, call |-> made + 1])
    /\ made' = made + 1
    /\ jobs' = [jobs EXCEPT ![made + 1] = n]
    /\ UNCHANGED <<wanted, running, closed, next, done, helpers, outside, mutex>>

\* `post` takes the first free posting.  (A call that finds none starts
\* threads of its own, as when no crew runs; the bounds keep one free.)
Post(t, n) ==
    /\ (t \in Callers /\ stack[t] = <<>>) \/ At(t, "run")
    /\ Depth(t) < MaxDepth
    /\ made < MaxCalls
    /\ \E p \in Posts :
        /\ claims[p] = None
        /\ \A q \in 1..(p - 1) : claims[q] # None
        /\ claims' = [claims EXCEPT ![p] = made + 1]
        /\ Push(t, [at |-> "offer", role |-> "own", post |-> p, call |-> made + 1])
    /\ made' = made + 1
    /\ jobs' = [jobs EXCEPT ![made + 1] = n]
    /\ UNCHANGED <<wanted, running, closed, next, done, helpers, outside, mutex>>

\* The state word is stored: helpers may join from here.
Offer(t) ==
    /\ At(t, "offer")
    /\ LET p == Top(t).post IN
        /\ wanted' = [wanted EXCEPT ![p] = jobs[Top(t).call] - 1]
        /\ running' = [running EXCEPT ![p] = 0]
        /\ closed' = [closed EXCEPT ![p] = FALSE]
    /\ Goto(t, "signal")
    /\ UNCHANGED <<claims, made, list, helpers, outside, mutex>>

\* Under the mutex: wake the parked threads.
Signal(t) ==
    /\ At(t, "signal")
    /\ mutex = None
    /\ stack' = [u \in Threads |->
            IF u = t THEN <<[Top(t) EXCEPT !.at = "claim"]>> \o Tail(stack[t])
            ELSE IF At(u, "parked") THEN <<Woken>> ELSE stack[u]]
    /\ UNCHANGED <<posting, made, list, helpers, outside, mutex>>

\* `_Claims.run`: the next job, on any thread that is in the posting, or no
\* more.
Claim(t) ==
    /\ At(t, "claim")
    /\ LET k == Top(t).call IN
        /\ next' = [next EXCEPT ![k] = @ + 1]
        /\ Goto(t, IF next[k] < jobs[k] THEN "run"
                   ELSE CASE Top(t).role = "own" -> "close"
                          [] Top(t).role = "helper" -> "giveback"
                          [] Top(t).role = "guest" -> "leave")
    /\ UNCHANGED <<posting, made, jobs, done, helpers, outside, mutex>>

FinishJob(t) ==
    /\ At(t, "run")
    /\ done' = [done EXCEPT ![Top(t).call] = @ + 1]
    /\ Goto(t, "claim")
    /\ UNCHANGED <<posting, made, jobs, next, helpers, outside, mutex>>

\* `retire`: no helper may join any more, nor hand a place back.
Close(t) ==
    /\ At(t, "close")
    /\ LET p == Top(t).post IN
        /\ wanted' = [wanted EXCEPT ![p] = 0]
        /\ closed' = [closed EXCEPT ![p] = TRUE]
    /\ Goto(t, "retire")
    /\ UNCHANGED <<claims, running, made, list, helpers, outside, mutex>>

\* A slip: the posting is free once its jobs are done, whoever is in it.
RetireOnJobs(t) ==
    /\ At(t, "retire")
    /\ IF done[Top(t).call] >= jobs[Top(t).call]
       THEN claims' = [claims EXCEPT ![Top(t).post] = None] /\ Pop(t)
       ELSE Goto(t, "help") /\ UNCHANGED claims
    /\ UNCHANGED <<wanted, running, closed, made, list, helpers, outside, mutex>>

\* The posting is free once nobody is in it and its jobs are done; otherwise
\* the caller looks for something to help with.
Retire(t) ==
    /\ At(t, "retire")
    /\ LET p == Top(t).post
           k == Top(t).call IN
        IF wanted[p] = 0 /\ running[p] = 0 /\ done[k] >= jobs[k]
        THEN claims' = [claims EXCEPT ![p] = None] /\ Pop(t)
        ELSE Goto(t, "help") /\ UNCHANGED claims
    /\ UNCHANGED <<wanted, running, closed, made, list, helpers, outside, mutex>>

\* One fewer wanted, one more running, in one exchange.
Join(p) ==
    /\ wanted[p] > 0
    /\ wanted' = [wanted EXCEPT ![p] = @ - 1]
    /\ running' = [running EXCEPT ![p] = @ + 1]

\* `_help`: join another posting, without a slot, or pass them all by (it
\* looks at one after another, and may miss one offered behind it).
Help(t) ==
    /\ At(t, "help")
    /\ \E q \in Posts \ {Top(t).post} :
        /\ Join(q)
        /\ stack' = [stack EXCEPT ![t] =
              <<[at |-> "enter", role |-> "guest", post |-> q, call |-> None],
                [Top(t) EXCEPT !.at = "retire"]>> \o Tail(@)]
    /\ UNCHANGED <<claims, closed, made, list, helpers, outside, mutex>>

HelpNobody(t) ==
    /\ At(t, "help")
    /\ Goto(t, "retire")
    /\ UNCHANGED <<posting, made, list, helpers, outside, mutex>>

\* A thread that has joined reads which job list the posting holds.
Enter(t) ==
    /\ At(t, "enter")
    /\ Become(t, [Top(t) EXCEPT !.at = "claim", !.call = claims[Top(t).post]])
    /\ UNCHANGED <<posting, made, list, helpers, outside, mutex>>

GiveBack(t) ==
    /\ At(t, "giveback")
    /\ helpers' = helpers - 1
    /\ Goto(t, "leave")
    /\ UNCHANGED <<posting, made, list, outside, mutex>>

Leave(t) ==
    /\ At(t, "leave")
    /\ running' = [running EXCEPT ![Top(t).post] = @ - 1]
    /\ IF Top(t).role = "helper" THEN Become(t, Resting) ELSE Pop(t)
    /\ UNCHANGED <<claims, wanted, closed, made, list, helpers, outside, mutex>>

-------------------------------------------------------------------------------
(* A crew thread: `_take` and `_crew_worker`.                              *)

Take(t) ==
    /\ At(t, "look")
    /\ \E p \in Posts :
        /\ Join(p)
        /\ Become(t, Idle("reserve", p))
    /\ UNCHANGED <<claims, closed, made, list, helpers, outside, mutex>>

Reserve(t) ==
    /\ At(t, "reserve")
    /\ IF helpers < Limit
       THEN /\ helpers' = helpers + 1
            /\ Become(t, [Top(t) EXCEPT !.at = "enter", !.role = "helper"])
       ELSE Goto(t, "handback") /\ UNCHANGED helpers
    /\ UNCHANGED <<posting, made, list, outside, mutex>>

\* Two slips: the place is offered again although the posting has closed; and
\* a slot is given back that was never taken.
HandBackAnyway(t) ==
    /\ At(t, "handback")
    /\ LET p == Top(t).post IN
        /\ running' = [running EXCEPT ![p] = @ - 1]
        /\ wanted' = [wanted EXCEPT ![p] = @ + 1]
    /\ Become(t, Resting)
    /\ UNCHANGED <<claims, closed, made, list, helpers, outside, mutex>>

HandBackASlot(t) ==
    /\ At(t, "handback")
    /\ LET p == Top(t).post IN
        /\ running' = [running EXCEPT ![p] = @ - 1]
        /\ wanted' = [wanted EXCEPT ![p] = IF closed[p] THEN @ ELSE @ + 1]
    /\ helpers' = helpers - 1
    /\ Become(t, Resting)
    /\ UNCHANGED <<claims, closed, made, list, outside, mutex>>

\* No slot: leave, and offer the place again unless the posting has closed.
\* Nobody is woken for it: this thread looks again itself.
HandBack(t) ==
    /\ At(t, "handback")
    /\ LET p == Top(t).post IN
        /\ running' = [running EXCEPT ![p] = @ - 1]
        /\ wanted' = [wanted EXCEPT ![p] = IF closed[p] THEN @ ELSE @ + 1]
    /\ Become(t, Resting)
    /\ UNCHANGED <<claims, closed, made, list, helpers, outside, mutex>>

\* It has looked long enough, or has been woken: under the mutex, one posting
\* after another, does any want a helper?
Scan(t) ==
    /\ At(t, "look") \/ At(t, "awake")
    /\ mutex = None
    /\ mutex' = t
    /\ Become(t, Idle("scan", 1))
    /\ UNCHANGED <<posting, made, list, helpers, outside>>

\* A slip: the thread goes to sleep without a look at the postings.
ScanNothing(t) ==
    /\ At(t, "scan")
    /\ mutex' = None
    /\ Become(t, Idle("parked", 0))
    /\ UNCHANGED <<posting, made, list, helpers, outside>>

ScanNext(t) ==
    /\ At(t, "scan")
    /\ LET p == Top(t).post IN
        IF wanted[p] > 0
        THEN Become(t, Resting) /\ mutex' = None
        ELSE IF p < Postings
        THEN Become(t, Idle("scan", p + 1)) /\ UNCHANGED mutex
        ELSE Become(t, Idle("parked", 0)) /\ mutex' = None
    /\ UNCHANGED <<posting, made, list, helpers, outside>>

SpuriousWakeup(t) ==
    /\ At(t, "parked")
    /\ Become(t, Woken)
    /\ UNCHANGED <<posting, made, list, helpers, outside, mutex>>

-------------------------------------------------------------------------------
(* Other operations, and pools, that draw on the same budget.              *)

OutsideTakes ==
    /\ helpers < Limit
    /\ helpers' = helpers + 1
    /\ outside' = outside + 1
    /\ UNCHANGED <<posting, made, list, mutex, stack>>

OutsideGives ==
    /\ outside > 0
    /\ helpers' = helpers - 1
    /\ outside' = outside - 1
    /\ UNCHANGED <<posting, made, list, mutex, stack>>

CrewStep(t) ==
    Take(t) \/ Reserve(t) \/ HandBack(t) \/ Scan(t) \/ ScanNext(t)

CallStep(t) ==
    Offer(t) \/ Signal(t) \/ Claim(t) \/ FinishJob(t) \/ Close(t) \/ Retire(t)
        \/ Help(t) \/ HelpNobody(t) \/ Enter(t) \/ GiveBack(t) \/ Leave(t)

Next ==
    \/ \E t \in Threads :
        \/ \E n \in 2..MaxJobs : Post(t, n)
        \/ CallStep(t)
    \/ \E t \in CrewThreads : CrewStep(t) \/ SpuriousWakeup(t)
    \/ OutsideTakes
    \/ OutsideGives

Spec == Init /\ [][Next]_vars

\* Every thread keeps being scheduled, and one that waits for the mutex gets
\* it some time.  Nothing is assumed of other operations' use of the budget,
\* nor that any call is made.
Fairness ==
    \A t \in Threads :
        /\ WF_vars(CallStep(t) \/ (t \in CrewThreads /\ CrewStep(t)))
        /\ SF_vars(Signal(t))

FairSpec == Spec /\ Fairness

-------------------------------------------------------------------------------
(* Properties.                                                             *)

FramesOf(t) == {stack[t][i] : i \in DOMAIN stack[t]}
Joined == {"reserve", "handback", "enter", "claim", "run", "giveback", "leave"}

\* A posting is not given to another call, nor the job list on its caller's
\* stack dropped, while a thread that joined it is still inside: whoever is
\* in a posting finds there the call it joined, and that call's own frame is
\* on some thread's stack.
JoinedAreAlive ==
    \A t \in Threads : \A f \in FramesOf(t) :
        f.role # "own" /\ f.at \in Joined =>
            /\ claims[f.post] # None
            /\ f.call # None => f.call = claims[f.post]
            /\ \E u \in Threads : \E g \in FramesOf(u) :
                  g.role = "own" /\ g.call = claims[f.post]

\* A slot is held by each crew thread that works for a call and by nobody
\* else: none outlives the call it helps, none is lost.
SlotsExact ==
    helpers - outside =
        Cardinality({t \in CrewThreads : \E f \in FramesOf(t) :
                        f.role = "helper" /\ f.at # "leave"})

\* The threads that run jobs at once are within "the budget plus the callers"
\* (`_help`), those of other operations that hold a slot included: with one
\* caller, at most `configured_workers()` of them.
BudgetPlusCallers ==
    Cardinality({t \in Threads : At(t, "run")}) + outside <= Limit + Cardinality(Callers)

-------------------------------------------------------------------------------
(* Why they hold: where each frame may be, and which frames the words and  *)
(* counters count.                                                         *)

\* A frame by its distance from the outermost, so that a call made or ended
\* above it leaves it where it is.
Height(t) == Len(stack[t])
Frame(t, d) == stack[t][Height(t) + 1 - d]

\* Below the innermost frame a thread runs a job or waits in `retire`; a crew
\* thread's own frame is its outermost.
Shape(t, d) ==
    LET f == Frame(t, d) IN
        /\ d < Height(t) => f.at = "run" \/ (f.role = "own" /\ f.at = "retire")
        /\ (t \in CrewThreads /\ d = 1) <=> f.role \in {"crew", "helper"}
        /\ f.role = "crew" =>
              f.at \in {"look", "scan", "parked", "awake", "reserve", "handback"}
        /\ f.role = "own" =>
              f.at \in {"offer", "signal", "claim", "run", "close", "retire", "help"}
        /\ f.role = "helper" => f.at \in {"enter", "claim", "run", "giveback", "leave"}
        /\ f.role = "guest" => d > 1 /\ f.at \in {"enter", "claim", "run", "leave"}
        /\ f.at = "scan" => mutex = t /\ f.post \in Posts

\* A call's own frame is that of the call its posting was given to.
IsOwn(t, d) == Frame(t, d).role = "own"
OwnCall(t, d) ==
    IsOwn(t, d) =>
        LET f == Frame(t, d) IN
            /\ f.post \in Posts
            /\ f.call \in 1..made
            /\ claims[f.post] = f.call
            /\ f.at = "offer" => wanted[f.post] = 0 /\ running[f.post] = 0

\* So is the call of a thread that is in the posting.
IsIn(t, d) == Frame(t, d).role # "own" /\ Frame(t, d).at \in Joined
JoinedCall(t, d) ==
    IsIn(t, d) =>
        LET f == Frame(t, d) IN
            /\ f.post \in Posts
            /\ claims[f.post] # None
            /\ f.call = IF f.at \in {"enter", "reserve", "handback"} THEN None
                        ELSE claims[f.post]

FramesFit ==
    \A t \in Threads : \A d \in 1..Height(t) : Shape(t, d) /\ OwnCall(t, d) /\ JoinedCall(t, d)

\* A posting that is not free has one own frame.
OneOwner ==
    /\ \A p \in Posts : claims[p] # None =>
          \E t \in Threads : \E d \in 1..Height(t) : IsOwn(t, d) /\ Frame(t, d).post = p
    /\ \A t, u \in Threads : \A d \in 1..Height(t), e \in 1..Height(u) :
          /\ IsOwn(t, d) /\ IsOwn(u, e)
          /\ Frame(t, d).post = Frame(u, e).post
          => t = u /\ d = e

\* A call is younger than those of the postings its thread is in already.
YoungerAbove ==
    \A t \in Threads : \A d \in 1..Height(t) : \A e \in 1..(d - 1) :
        IsOwn(t, d) => claims[Frame(t, e).post] < Frame(t, d).call

Spots == UNION {{t} \X (1..Height(t)) : t \in Threads}
Inside(p) == {s \in Spots : IsIn(s[1], s[2]) /\ Frame(s[1], s[2]).post = p}
Running(k) == {s \in Spots : Frame(s[1], s[2]).at = "run" /\ Frame(s[1], s[2]).call = k}

\* The state word counts the threads in the posting; with those still wanted
\* they are no more than the call's jobs.
WordsExact ==
    \A p \in Posts :
        /\ IsFiniteSet(Inside(p))
        /\ running[p] = Cardinality(Inside(p))
        /\ wanted[p] + running[p] <= MaxJobs
        /\ claims[p] <= made
        /\ claims[p] = None => wanted[p] = 0 /\ running[p] = 0

\* The jobs claimed are those finished and those that run.
JobsExact ==
    \A k \in Calls :
        /\ IsFiniteSet(Running(k))
        /\ done[k] + Cardinality(Running(k)) = IF next[k] < jobs[k] THEN next[k] ELSE jobs[k]
        /\ k <= made => jobs[k] >= 2
        /\ k > made => jobs[k] = 0 /\ next[k] = 0

\* The crew threads that hold a slot.
Helping == {t \in CrewThreads : Frame(t, 1).role = "helper" /\ Frame(t, 1).at # "leave"}
SlotsHeld == helpers - outside = Cardinality(Helping)

\* While a call that has woken the crew wants a helper, a crew thread is awake
\* for it; one that looks under the mutex has not come past its posting.
Wanting(p) ==
    /\ wanted[p] > 0
    /\ \E t \in Threads : \E d \in 1..Height(t) :
          /\ IsOwn(t, d) /\ Frame(t, d).post = p
          /\ Frame(t, d).at \in {"claim", "run", "close"}
Watches(t, p) ==
    /\ Frame(t, Height(t)).at # "parked"
    /\ Frame(t, Height(t)).at = "scan" => Frame(t, Height(t)).post <= p
Watched ==
    \A p \in Posts : Wanting(p) => CrewThreads = {} \/ \E t \in CrewThreads : Watches(t, p)

Inv ==
    /\ TypeOK /\ FramesFit /\ OneOwner /\ YoungerAbove
    /\ WordsExact /\ JobsExact /\ SlotsHeld /\ Watched
    /\ SlotsExact /\ BudgetPlusCallers

-------------------------------------------------------------------------------

\* A thread waits for another when it waits in `retire` for the threads that
\* are in its posting.  However calls nest and whoever helps whom, no set of
\* threads waits for one another ("no wait cycle forms", `_help`).
Waits(t, u) ==
    /\ stack[t] # <<>>
    /\ Top(t).role = "own" /\ Top(t).at \in {"retire", "help"}
    /\ \E f \in FramesOf(u) :
          f.role # "own" /\ f.at \in Joined /\ f.post = Top(t).post

NoWaitCycle ==
    \A S \in SUBSET Threads :
        S # {} => \E t \in S : \A u \in S : ~Waits(t, u)

\* Once a call has woken the crew, the crew does not sleep through it: while
\* the call still wants a helper, some crew thread is awake, although a
\* thread that hands its place back wakes nobody.
NoLostWakeup ==
    (\E t \in Threads : \E f \in FramesOf(t) :
        f.role = "own" /\ f.at \in {"claim", "run", "close"} /\ wanted[f.post] > 0)
    => CrewThreads = {} \/ \E t \in CrewThreads : ~At(t, "parked")

\* Every call from outside ends, whatever the nested calls and the helping.
CallsEnd == \A c \in Callers : stack[c] # <<>> ~> stack[c] = <<>>
===============================================================================
