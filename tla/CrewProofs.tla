------------------------------ MODULE CrewProofs -------------------------------
(***************************************************************************)
(* Proofs about module Crew, for any number of callers and crew threads    *)
(* (finitely many), of postings, jobs, slots and nested calls.             *)
(*                                                                         *)
(* The invariant relates the threads' stacks to the postings, frame by     *)
(* frame (FramesFit, OneOwner): each posting that is not free has the one  *)
(* frame of the call it was given to, its word counts the frames of the    *)
(* threads in it (WordsExact), a call's jobs are those done and the frames *)
(* that run one (JobsExact), and a slot is held by each crew thread with a *)
(* helper's frame (SlotsHeld).  These counts are cardinalities, so a step  *)
(* that pushes, pops or moves a frame adds or removes one element.  From   *)
(* them: the posting a thread is in is not given to another call until it  *)
(* has left; a call is younger than those its thread is in already         *)
(* (YoungerAbove), so along a chain of waits the calls only get younger    *)
(* and none closes; and a crew thread that looks has not come past a       *)
(* posting that wants a helper when it goes to sleep (Watched).            *)
(*                                                                         *)
(* The run's other part, operations that start and end crews at once, is   *)
(* an instance of what CrewLifecycleProofs has proved.                     *)
(***************************************************************************)
EXTENDS MCCrew, FiniteSetTheorems, WellFoundedInduction, TLAPS

-------------------------------------------------------------------------------
(* Stacks as frames counted from the outermost.                            *)

LEMMA Nonempty ==
    ASSUME NEW S, NEW q \in Seq(S)
    PROVE  q # <<>> <=> Len(q) > 0
OBVIOUS

LEMMA FramesOfStack ==
    ASSUME TypeOK, NEW t \in Threads
    PROVE  /\ Height(t) \in Nat
           /\ \A d \in 1..Height(t) : Frame(t, d) \in Frames
           /\ stack[t] # <<>> <=> Height(t) > 0
           /\ stack[t] # <<>> => Top(t) = Frame(t, Height(t))
           /\ FramesOf(t) = {Frame(t, d) : d \in 1..Height(t)}
<1> DEFINE s == stack[t]
<1>1. s \in Seq(Frames)
  BY DEF TypeOK
<1>2. Len(s) \in Nat /\ DOMAIN s = 1..Len(s) /\ \A i \in 1..Len(s) : s[i] \in Frames
  BY <1>1
<1>3. s # <<>> <=> Len(s) > 0
  BY <1>1
<1>4. \A d \in 1..Len(s) : Len(s) + 1 - d \in 1..Len(s)
  BY <1>2
<1>5. s # <<>> => Head(s) = s[1]
  BY <1>1
<1>6. FramesOf(t) = {Frame(t, d) : d \in 1..Height(t)}
  <2>1. \A i \in 1..Len(s) : \E d \in 1..Len(s) : Len(s) + 1 - d = i
    <3> TAKE i \in 1..Len(s)
    <3> WITNESS Len(s) + 1 - i \in 1..Len(s)
    <3> QED BY <1>2
  <2> QED BY <1>2, <1>4, <2>1 DEF FramesOf, Frame, Height
<1> QED BY <1>2, <1>3, <1>4, <1>5, <1>6 DEF Height, Frame, Top

\* All other frames than the one at d of thread t stay.
OnlyAt(t, d) ==
    /\ \A u \in Threads \ {t} : Height(u)' = Height(u)
    /\ \A u \in Threads : \A e \in Nat \ {0} :
          u # t \/ e # d =>
              /\ e <= Height(u) <=> e <= Height(u)'
              /\ e <= Height(u) => Frame(u, e)' = Frame(u, e)

LEMMA BecomeFrames ==
    ASSUME TypeOK, NEW t \in Threads, NEW f \in Frames, stack[t] # <<>>, Become(t, f)
    PROVE  /\ stack' \in [Threads -> Seq(Frames)]
           /\ \A u \in Threads : stack'[u] # <<>> <=> stack[u] # <<>>
           /\ Height(t)' = Height(t)
           /\ Frame(t, Height(t))' = f
           /\ OnlyAt(t, Height(t))
<1> DEFINE s == stack[t]  r == <<f>> \o Tail(s)
<1>1. s \in Seq(Frames) /\ s # <<>>
  BY DEF TypeOK
<1>2. Len(s) \in Nat \ {0}
  BY <1>1
<1>3. Tail(s) \in Seq(Frames) /\ Len(Tail(s)) = Len(s) - 1
  BY <1>1
<1>4. \A i \in 1..(Len(s) - 1) : Tail(s)[i] = s[i + 1]
  BY <1>1, <1>2
<1>5. <<f>> \in Seq(Frames) /\ Len(<<f>>) = 1 /\ <<f>>[1] = f
  OBVIOUS
<1>6. r \in Seq(Frames) /\ Len(r) = Len(s)
  BY <1>2, <1>3, <1>5
<1>7. r[1] = f /\ \A i \in 2..Len(s) : r[i] = s[i]
  BY <1>2, <1>3, <1>4, <1>5
<1>8. stack' = [stack EXCEPT ![t] = r] /\ stack \in [Threads -> Seq(Frames)]
  BY DEF Become, TypeOK
<1>9. stack'[t] = r /\ \A u \in Threads \ {t} : stack'[u] = stack[u]
  BY <1>8
<1>10. stack' \in [Threads -> Seq(Frames)]
  BY <1>6, <1>8
<1>11. \A u \in Threads : stack'[u] # <<>> <=> stack[u] # <<>>
  BY <1>1, <1>2, <1>6, <1>9
<1>12. \A u \in Threads : Height(u)' = Height(u)
  BY <1>6, <1>9 DEF Height
<1>13. Frame(t, Height(t))' = f
  BY <1>2, <1>6, <1>7, <1>9 DEF Height, Frame
<1>14. ASSUME NEW e \in 1..Height(t), e # Height(t)
       PROVE  Frame(t, e)' = Frame(t, e)
  <2>1. Len(s) + 1 - e \in 2..Len(s)
    BY <1>2, <1>14 DEF Height
  <2> QED BY <1>6, <1>7, <1>9, <2>1 DEF Height, Frame
<1>15. \A u \in Threads \ {t} : \A e \in Nat : Frame(u, e)' = Frame(u, e)
  BY <1>9 DEF Height, Frame
<1>16. \A u \in Threads : Height(u) \in Nat
  BY FramesOfStack
<1> QED BY <1>10, <1>11, <1>12, <1>13, <1>14, <1>15, <1>16 DEF OnlyAt

LEMMA PushFrames ==
    ASSUME TypeOK, NEW t \in Threads, NEW f \in Frames, Push(t, f)
    PROVE  /\ stack' \in [Threads -> Seq(Frames)]
           /\ \A u \in Threads : stack[u] # <<>> => stack'[u] # <<>>
           /\ Height(t)' = Height(t) + 1
           /\ Frame(t, Height(t))' = f
           /\ OnlyAt(t, Height(t) + 1)
<1> DEFINE s == stack[t]  r == <<f>> \o s
<1>1. s \in Seq(Frames) /\ Len(s) \in Nat
  BY DEF TypeOK
<1>5. <<f>> \in Seq(Frames) /\ Len(<<f>>) = 1 /\ <<f>>[1] = f
  OBVIOUS
<1>6. r \in Seq(Frames) /\ Len(r) = Len(s) + 1 /\ r # <<>>
  BY <1>1, <1>5
<1>7. r[1] = f /\ \A i \in 1..Len(s) : r[i + 1] = s[i]
  BY <1>1, <1>5
<1>8. stack' = [stack EXCEPT ![t] = r] /\ stack \in [Threads -> Seq(Frames)]
  BY DEF Push, TypeOK
<1>9. stack'[t] = r /\ \A u \in Threads \ {t} : stack'[u] = stack[u]
  BY <1>8
<1>10. stack' \in [Threads -> Seq(Frames)]
  BY <1>6, <1>8
<1>11. \A u \in Threads : stack[u] # <<>> => stack'[u] # <<>>
  BY <1>6, <1>9
<1>12. Height(t)' = Height(t) + 1 /\ \A u \in Threads \ {t} : Height(u)' = Height(u)
  BY <1>6, <1>9 DEF Height
<1>13. Frame(t, Height(t))' = f
  BY <1>1, <1>6, <1>7, <1>9 DEF Frame, Height
<1>14. ASSUME NEW e \in 1..Height(t)
       PROVE  Frame(t, e)' = Frame(t, e)
  <2>1. Len(s) + 1 - e \in 1..Len(s) /\ Len(r) + 1 - e = (Len(s) + 1 - e) + 1
    BY <1>1, <1>6, <1>14 DEF Height
  <2> QED BY <1>6, <1>7, <1>9, <2>1 DEF Height, Frame
<1>15. \A u \in Threads \ {t} : \A e \in Nat : Frame(u, e)' = Frame(u, e)
  BY <1>9 DEF Height, Frame
<1>16. \A u \in Threads : Height(u) \in Nat
  BY FramesOfStack
<1> QED BY <1>10, <1>11, <1>12, <1>13, <1>14, <1>15, <1>16 DEF OnlyAt

LEMMA PopFrames ==
    ASSUME TypeOK, NEW t \in Threads, stack[t] # <<>>, Pop(t)
    PROVE  /\ stack' \in [Threads -> Seq(Frames)]
           /\ \A u \in Threads : u # t => (stack'[u] # <<>> <=> stack[u] # <<>>)
           /\ stack'[t] # <<>> <=> Height(t) > 1
           /\ Height(t)' = Height(t) - 1
           /\ OnlyAt(t, Height(t))
<1> DEFINE s == stack[t]  r == Tail(s)
<1>1. s \in Seq(Frames) /\ s # <<>>
  BY DEF TypeOK
<1>2. Len(s) \in Nat \ {0}
  BY <1>1
<1>6. r \in Seq(Frames) /\ Len(r) = Len(s) - 1
  BY <1>1
<1>7. \A i \in 1..(Len(s) - 1) : r[i] = s[i + 1]
  BY <1>1, <1>2
<1>8. stack' = [stack EXCEPT ![t] = r] /\ stack \in [Threads -> Seq(Frames)]
  BY DEF Pop, TypeOK
<1>9. stack'[t] = r /\ \A u \in Threads \ {t} : stack'[u] = stack[u]
  BY <1>8
<1>10. stack' \in [Threads -> Seq(Frames)]
  BY <1>6, <1>8
<1>11. r # <<>> <=> Len(s) > 1
  <2>1. r # <<>> <=> Len(r) > 0
    BY <1>6, Nonempty
  <2> QED BY <1>2, <1>6, <2>1
<1>12. Height(t)' = Height(t) - 1 /\ \A u \in Threads \ {t} : Height(u)' = Height(u)
  BY <1>6, <1>9 DEF Height
<1>14. ASSUME NEW e \in 1..(Height(t) - 1)
       PROVE  Frame(t, e)' = Frame(t, e)
  <2>1. Len(r) + 1 - e \in 1..(Len(s) - 1) /\ Len(s) + 1 - e = (Len(r) + 1 - e) + 1
    BY <1>2, <1>6, <1>14 DEF Height
  <2> QED BY <1>6, <1>7, <1>9, <2>1 DEF Height, Frame
<1>15. \A u \in Threads \ {t} : \A e \in Nat : Frame(u, e)' = Frame(u, e)
  BY <1>9 DEF Height, Frame
<1>16. \A u \in Threads : Height(u) \in Nat
  BY FramesOfStack
<1>17. stack'[t] # <<>> <=> Height(t) > 1
  BY <1>9, <1>11 DEF Height
<1>18. \A u \in Threads : u # t => (stack'[u] # <<>> <=> stack[u] # <<>>)
  BY <1>9
<1>19. ASSUME NEW u \in Threads, NEW e \in Nat \ {0}, u # t \/ e # Height(t)
       PROVE  /\ e <= Height(u) <=> e <= Height(u)'
              /\ e <= Height(u) => Frame(u, e)' = Frame(u, e)
  <2>1. CASE u # t
    BY <1>12, <1>15, <2>1
  <2>2. CASE u = t
    BY <1>12, <1>14, <1>16, <1>19, <2>2
  <2> QED BY <2>1, <2>2
<1> QED BY <1>10, <1>12, <1>17, <1>18, <1>19 DEF OnlyAt

-------------------------------------------------------------------------------
(* Counting: what one frame's change does to the sets of frames that the   *)
(* words and counters count.                                               *)

LEMMA CardChange ==
    ASSUME NEW A, NEW B, NEW x, IsFiniteSet(A), A \ {x} = B \ {x}
    PROVE  /\ IsFiniteSet(B)
           /\ Cardinality(A) \in Nat /\ Cardinality(B) \in Nat
           /\ x \in A => Cardinality(A) >= 1
           /\ Cardinality(B) = Cardinality(A) + (IF x \in B THEN 1 ELSE 0)
                                              - (IF x \in A THEN 1 ELSE 0)
<1>1. /\ IsFiniteSet(A \ {x})
      /\ Cardinality(A \ {x}) = IF x \in A THEN Cardinality(A) - 1 ELSE Cardinality(A)
  BY FS_RemoveElement
<1>2. /\ IsFiniteSet((A \ {x}) \cup {x})
      /\ Cardinality((A \ {x}) \cup {x}) = Cardinality(A \ {x}) + 1
  BY <1>1, FS_AddElement
<1>3. Cardinality(A) \in Nat /\ Cardinality(A \ {x}) \in Nat
  BY <1>1, FS_CardinalityType
<1>5. CASE x \in B
  <2>1. B = (A \ {x}) \cup {x}
    BY <1>5
  <2> QED BY <1>1, <1>2, <1>3, <1>5, <2>1
<1>6. CASE x \notin B
  <2>1. B = A \ {x}
    BY <1>6
  <2> QED BY <1>1, <1>2, <1>3, <1>6, <2>1
<1> QED BY <1>5, <1>6

LEMMA Heights == TypeOK => \A u \in Threads : Height(u) \in Nat
BY FramesOfStack

LEMMA HeightsNext == TypeOK' => (\A u \in Threads : Height(u) \in Nat)'
BY Heights, PTL

LEMMA SpotsAre ==
    ASSUME NEW t \in Threads, NEW d
    PROVE  <<t, d>> \in Spots <=> d \in 1..Height(t)
BY DEF Spots

\* The frame at d of thread t is in posting p, or runs a job of call k.
InAt(t, d, p) == d \in 1..Height(t) /\ IsIn(t, d) /\ Frame(t, d).post = p
RunAt(t, d, k) == d \in 1..Height(t) /\ Frame(t, d).at = "run" /\ Frame(t, d).call = k

LEMMA InsideCount ==
    ASSUME TypeOK, TypeOK', NEW t \in Threads, NEW d \in Nat \ {0},
           NEW p, IsFiniteSet(Inside(p)),
           \A u \in Threads : \A e \in Nat \ {0} :
               u # t \/ e # d => (InAt(u, e, p)' <=> InAt(u, e, p))
    PROVE  /\ IsFiniteSet(Inside(p))'
           /\ Cardinality(Inside(p)) \in Nat /\ Cardinality(Inside(p))' \in Nat
           /\ InAt(t, d, p) => Cardinality(Inside(p)) >= 1
           /\ Cardinality(Inside(p))' =
                 Cardinality(Inside(p)) + (IF InAt(t, d, p)' THEN 1 ELSE 0)
                                         - (IF InAt(t, d, p) THEN 1 ELSE 0)
<1> DEFINE x == <<t, d>>
<1>1. \A u \in Threads : Height(u) \in Nat /\ Height(u)' \in Nat
  BY Heights, HeightsNext
<1>2. \A u \in Threads : \A e : <<u, e>> \in Inside(p) <=> InAt(u, e, p)
  BY SpotsAre DEF Inside, InAt
<1>3. \A u \in Threads : \A e : <<u, e>> \in Inside(p)' <=> InAt(u, e, p)'
  BY DEF Inside, InAt, Spots
<1>4. Inside(p) \ {x} = Inside(p)' \ {x}
  <2>1. \A s \in Inside(p) \cup Inside(p)' :
            \E u \in Threads : \E e \in Nat \ {0} : s = <<u, e>>
    BY <1>1 DEF Inside, Spots
  <2>2. ASSUME NEW u \in Threads, NEW e \in Nat \ {0}, <<u, e>> # x
        PROVE  <<u, e>> \in Inside(p) <=> <<u, e>> \in Inside(p)'
    BY <1>2, <1>3, <2>2
  <2> QED BY <2>1, <2>2
<1> HIDE DEF x
<1>5. x \in Inside(p) <=> InAt(t, d, p)
  BY <1>2 DEF x
<1>6. x \in Inside(p)' <=> InAt(t, d, p)'
  BY <1>3 DEF x
<1> QED BY <1>4, <1>5, <1>6, CardChange

LEMMA RunningCount ==
    ASSUME TypeOK, TypeOK', NEW t \in Threads, NEW d \in Nat \ {0},
           NEW k, IsFiniteSet(Running(k)),
           \A u \in Threads : \A e \in Nat \ {0} :
               u # t \/ e # d => (RunAt(u, e, k)' <=> RunAt(u, e, k))
    PROVE  /\ IsFiniteSet(Running(k))'
           /\ Cardinality(Running(k)) \in Nat /\ Cardinality(Running(k))' \in Nat
           /\ RunAt(t, d, k) => Cardinality(Running(k)) >= 1
           /\ Cardinality(Running(k))' =
                 Cardinality(Running(k)) + (IF RunAt(t, d, k)' THEN 1 ELSE 0)
                                         - (IF RunAt(t, d, k) THEN 1 ELSE 0)
<1> DEFINE x == <<t, d>>
<1>1. \A u \in Threads : Height(u) \in Nat /\ Height(u)' \in Nat
  BY Heights, HeightsNext
<1>2. \A u \in Threads : \A e : <<u, e>> \in Running(k) <=> RunAt(u, e, k)
  BY SpotsAre DEF Running, RunAt
<1>3. \A u \in Threads : \A e : <<u, e>> \in Running(k)' <=> RunAt(u, e, k)'
  BY DEF Running, RunAt, Spots
<1>4. Running(k) \ {x} = Running(k)' \ {x}
  <2>1. \A s \in Running(k) \cup Running(k)' :
            \E u \in Threads : \E e \in Nat \ {0} : s = <<u, e>>
    BY <1>1 DEF Running, Spots
  <2>2. ASSUME NEW u \in Threads, NEW e \in Nat \ {0}, <<u, e>> # x
        PROVE  <<u, e>> \in Running(k) <=> <<u, e>> \in Running(k)'
    BY <1>2, <1>3, <2>2
  <2> QED BY <2>1, <2>2
<1> HIDE DEF x
<1>5. x \in Running(k) <=> RunAt(t, d, k)
  BY <1>2 DEF x
<1>6. x \in Running(k)' <=> RunAt(t, d, k)'
  BY <1>3 DEF x
<1> QED BY <1>4, <1>5, <1>6, CardChange

\* A crew thread that holds a slot, and the slots counted.
HoldsOne(t) == t \in CrewThreads /\ Frame(t, 1).role = "helper" /\ Frame(t, 1).at # "leave"

LEMMA HelpingCount ==
    ASSUME NEW t, \A u \in CrewThreads : u # t => (HoldsOne(u)' <=> HoldsOne(u))
    PROVE  /\ Cardinality(Helping) \in Nat
           /\ HoldsOne(t) => Cardinality(Helping) >= 1
           /\ Cardinality(Helping)' = Cardinality(Helping) + (IF HoldsOne(t)' THEN 1 ELSE 0)
                                                           - (IF HoldsOne(t) THEN 1 ELSE 0)
<1>1. Helping \subseteq CrewThreads /\ IsFiniteSet(Helping)
  <2>1. Helping \subseteq CrewThreads
    BY DEF Helping
  <2> QED BY <2>1, FS_Subset, CrewAssumption
<1>2. Helping \ {t} = Helping' \ {t}
  BY DEF Helping, HoldsOne
<1>3. t \in Helping <=> HoldsOne(t)
  BY DEF Helping, HoldsOne
<1>4. t \in Helping' <=> HoldsOne(t)'
  BY DEF Helping, HoldsOne
<1> QED BY <1>1, <1>2, <1>3, <1>4, CardChange

-------------------------------------------------------------------------------
(* What the state relates, kept by a step that changes one thread's        *)
(* innermost frame.                                                        *)

IInv ==
    /\ TypeOK /\ FramesFit /\ OneOwner /\ YoungerAbove
    /\ WordsExact /\ JobsExact /\ SlotsHeld /\ Watched

\* Other frames than the one at d of thread t keep their role, posting and
\* call.
Alike(t, d) ==
    \A u \in Threads : \A e \in Nat \ {0} :
        u # t \/ e # d =>
            /\ e <= Height(u) <=> e <= Height(u)'
            /\ e <= Height(u) => /\ Frame(u, e)'.role = Frame(u, e).role
                                 /\ Frame(u, e)'.post = Frame(u, e).post
                                 /\ Frame(u, e)'.call = Frame(u, e).call

OwnAt(t, d) == d \in 1..Height(t) /\ IsOwn(t, d)

LEMMA OnlyAlike ==
    ASSUME NEW t, NEW d, OnlyAt(t, d)
    PROVE  Alike(t, d)
BY DEF OnlyAt, Alike

LEMMA OwnersKept ==
    ASSUME IInv, TypeOK', NEW t \in Threads, NEW d \in Nat \ {0}, Alike(t, d),
           d >= Height(t)', claims' = claims,
           OwnAt(t, d)' <=> OwnAt(t, d),
           OwnAt(t, d) => /\ Frame(t, d)'.post = Frame(t, d).post
                          /\ Frame(t, d)'.call = Frame(t, d).call
    PROVE  OneOwner' /\ YoungerAbove'
<1>1. \A u \in Threads : Height(u) \in Nat /\ Height(u)' \in Nat
  BY Heights, HeightsNext DEF IInv
<1>2. ASSUME NEW u \in Threads, NEW e \in Nat \ {0}
      PROVE  /\ OwnAt(u, e)' <=> OwnAt(u, e)
             /\ OwnAt(u, e) => /\ Frame(u, e)'.post = Frame(u, e).post
                               /\ Frame(u, e)'.call = Frame(u, e).call
  <2>1. CASE u = t /\ e = d
    BY <2>1
  <2>2. CASE u # t \/ e # d
    BY <1>1, <2>2 DEF Alike, OwnAt, IsOwn
  <2> QED BY <2>1, <2>2
<1>3. OneOwner'
  <2>1. ASSUME NEW p \in Posts, claims'[p] # None
        PROVE  \E u \in Threads : \E e \in 1..Height(u)' : IsOwn(u, e)' /\ Frame(u, e)'.post = p
    <3>1. PICK u \in Threads : \E e \in 1..Height(u) : IsOwn(u, e) /\ Frame(u, e).post = p
      BY <2>1 DEF IInv, OneOwner
    <3>2. PICK e \in 1..Height(u) : IsOwn(u, e) /\ Frame(u, e).post = p
      BY <3>1
    <3>3. e \in Nat \ {0} /\ OwnAt(u, e)
      BY <1>1, <3>2 DEF OwnAt
    <3> QED BY <1>2, <3>2, <3>3 DEF OwnAt
  <2>2. ASSUME NEW u \in Threads, NEW v \in Threads,
               NEW e \in 1..Height(u)', NEW g \in 1..Height(v)',
               IsOwn(u, e)', IsOwn(v, g)', Frame(u, e)'.post = Frame(v, g)'.post
        PROVE  u = v /\ e = g
    <3>1. e \in Nat \ {0} /\ g \in Nat \ {0} /\ OwnAt(u, e)' /\ OwnAt(v, g)'
      BY <1>1, <2>2 DEF OwnAt
    <3>2. OwnAt(u, e) /\ OwnAt(v, g) /\ Frame(u, e).post = Frame(v, g).post
      BY <1>2, <2>2, <3>1
    <3> QED BY <3>2 DEF IInv, OneOwner, OwnAt
  <2> QED BY <2>1, <2>2 DEF OneOwner
<1>4. ASSUME NEW u \in Threads, NEW g \in 1..Height(u)', NEW e \in 1..(g - 1), IsOwn(u, g)'
      PROVE  claims'[Frame(u, e)'.post] < Frame(u, g)'.call
  <2>1. /\ g \in Nat \ {0} /\ e \in Nat \ {0} /\ e < g /\ OwnAt(u, g)'
        /\ e <= Height(u)' /\ e < Height(u)'
    BY <1>1, <1>4 DEF OwnAt
  <2>2. OwnAt(u, g) /\ Frame(u, g)'.call = Frame(u, g).call
    BY <1>2, <2>1
  <2>3. u # t \/ e # d
    BY <1>1, <2>1
  <2>4. Frame(u, e)'.post = Frame(u, e).post
    BY <2>1, <2>3 DEF Alike
  <2> QED BY <1>1, <2>1, <2>2, <2>4 DEF IInv, YoungerAbove, OwnAt
<1> QED BY <1>3, <1>4 DEF YoungerAbove

LEMMA WordsStep ==
    ASSUME IInv, TypeOK', NEW t \in Threads, NEW d \in Nat \ {0},
           \A p \in Posts : \A u \in Threads : \A e \in Nat \ {0} :
               u # t \/ e # d => (InAt(u, e, p)' <=> InAt(u, e, p)),
           \A p \in Posts :
               /\ running'[p] = running[p] + (IF InAt(t, d, p)' THEN 1 ELSE 0)
                                           - (IF InAt(t, d, p) THEN 1 ELSE 0)
               /\ wanted'[p] + running'[p] <= MaxJobs
               /\ claims'[p] <= made'
               /\ claims'[p] = None => wanted'[p] = 0 /\ running'[p] = 0
    PROVE  WordsExact'
<1> SUFFICES ASSUME NEW p \in Posts
             PROVE  IsFiniteSet(Inside(p))' /\ running'[p] = Cardinality(Inside(p))'
  BY DEF WordsExact
<1>1. IsFiniteSet(Inside(p)) /\ running[p] = Cardinality(Inside(p))
  BY DEF IInv, WordsExact
<1>2. TypeOK
  BY DEF IInv
<1>3. \A u \in Threads : \A e \in Nat \ {0} :
          u # t \/ e # d => (InAt(u, e, p)' <=> InAt(u, e, p))
  OBVIOUS
<1> QED BY <1>1, <1>2, <1>3, InsideCount

Least(a, b) == IF a < b THEN a ELSE b

LEMMA JobsStep ==
    ASSUME IInv, TypeOK', NEW t \in Threads, NEW d \in Nat \ {0},
           \A k \in Calls : \A u \in Threads : \A e \in Nat \ {0} :
               u # t \/ e # d => (RunAt(u, e, k)' <=> RunAt(u, e, k)),
           \A k \in Calls :
               /\ done'[k] + (IF RunAt(t, d, k)' THEN 1 ELSE 0) - Least(next'[k], jobs'[k])
                    = done[k] + (IF RunAt(t, d, k) THEN 1 ELSE 0) - Least(next[k], jobs[k])
               /\ k <= made' => jobs'[k] >= 2
               /\ k > made' => jobs'[k] = 0 /\ next'[k] = 0
    PROVE  JobsExact'
<1> SUFFICES ASSUME NEW k \in Calls
             PROVE  /\ IsFiniteSet(Running(k))'
                    /\ done'[k] + Cardinality(Running(k))' = Least(next'[k], jobs'[k])
  BY DEF JobsExact, Least
<1>1. /\ IsFiniteSet(Running(k))
      /\ done[k] + Cardinality(Running(k)) = Least(next[k], jobs[k])
  BY DEF IInv, JobsExact, Least
<1>2. TypeOK
  BY DEF IInv
<1>3. \A u \in Threads : \A e \in Nat \ {0} :
          u # t \/ e # d => (RunAt(u, e, k)' <=> RunAt(u, e, k))
  OBVIOUS
<1>4. /\ IsFiniteSet(Running(k))'
      /\ Cardinality(Running(k)) \in Nat /\ Cardinality(Running(k))' \in Nat
      /\ Cardinality(Running(k))' =
            Cardinality(Running(k)) + (IF RunAt(t, d, k)' THEN 1 ELSE 0)
                                    - (IF RunAt(t, d, k) THEN 1 ELSE 0)
  BY <1>1, <1>2, <1>3, RunningCount
<1>5. /\ done[k] \in Nat /\ done'[k] \in Nat /\ next[k] \in Nat /\ next'[k] \in Nat
      /\ jobs[k] \in Nat /\ jobs'[k] \in Nat
  BY <1>2, CrewAssumption DEF TypeOK
<1>6. Least(next'[k], jobs'[k]) \in Nat /\ Least(next[k], jobs[k]) \in Nat
  BY <1>5 DEF Least
<1> QED BY <1>1, <1>4, <1>5, <1>6

LEMMA SlotsStep ==
    ASSUME IInv, TypeOK', NEW t \in Threads, NEW d \in Nat \ {0}, OnlyAt(t, d),
           helpers' - outside' = helpers - outside + (IF HoldsOne(t)' THEN 1 ELSE 0)
                                                   - (IF HoldsOne(t) THEN 1 ELSE 0)
    PROVE  SlotsHeld'
<1>1. ASSUME NEW u \in CrewThreads, u # t
      PROVE  HoldsOne(u)' <=> HoldsOne(u)
  <2>1. u \in Threads /\ stack[u] # <<>>
    BY DEF Threads, IInv, TypeOK
  <2>2. Height(u) \in Nat \ {0}
    BY <2>1, FramesOfStack DEF IInv
  <2>3. Frame(u, 1)' = Frame(u, 1)
    BY <1>1, <2>1, <2>2 DEF OnlyAt
  <2> QED BY <2>3 DEF HoldsOne
<1>2. /\ Cardinality(Helping) \in Nat
      /\ Cardinality(Helping)' = Cardinality(Helping) + (IF HoldsOne(t)' THEN 1 ELSE 0)
                                                      - (IF HoldsOne(t) THEN 1 ELSE 0)
  BY <1>1, HelpingCount
<1>3. helpers - outside = Cardinality(Helping)
  BY DEF IInv, SlotsHeld
<1>4. helpers' - outside' = Cardinality(Helping)'
  BY <1>2, <1>3
<1> QED BY <1>4 DEF SlotsHeld

LEMMA HoldsSame ==
    ASSUME IInv, NEW t \in Threads, NEW d \in Nat, d > 1, OnlyAt(t, d)
    PROVE  HoldsOne(t)' <=> HoldsOne(t)
<1>1. CASE t \in CrewThreads
  <2>1. stack[t] # <<>>
    BY <1>1 DEF IInv, TypeOK
  <2>2. Height(t) \in Nat \ {0}
    BY <2>1, FramesOfStack DEF IInv
  <2>3. Frame(t, 1)' = Frame(t, 1)
    BY <2>2 DEF OnlyAt
  <2> QED BY <2>3 DEF HoldsOne
<1>2. CASE t \notin CrewThreads
  BY <1>2 DEF HoldsOne
<1> QED BY <1>1, <1>2

LEMMA CountsOnly ==
    ASSUME TypeOK, TypeOK', NEW t \in Threads, NEW d, OnlyAt(t, d)
    PROVE  \A x : \A u \in Threads : \A e \in Nat \ {0} :
               u # t \/ e # d =>
                   /\ InAt(u, e, x)' <=> InAt(u, e, x)
                   /\ RunAt(u, e, x)' <=> RunAt(u, e, x)
BY Heights, HeightsNext DEF OnlyAt, InAt, RunAt, IsIn

LEMMA FitsStep ==
    ASSUME IInv, TypeOK', NEW t \in Threads, NEW d \in Nat \ {0}, OnlyAt(t, d),
           d >= Height(t), d >= Height(t)',
           d > Height(t) => Height(t) = 0 \/ At(t, "run"),
           made' >= made,
           mutex' = mutex \/ mutex = None \/ mutex = t,
           \A u \in Threads : \A e \in Nat \ {0} :
               (u # t \/ e # d) /\ OwnAt(u, e) =>
                   /\ claims'[Frame(u, e).post] = claims[Frame(u, e).post]
                   /\ Frame(u, e).at = "offer" =>
                         wanted'[Frame(u, e).post] = 0 /\ running'[Frame(u, e).post] = 0,
           \A u \in Threads : \A e \in Nat \ {0} :
               (u # t \/ e # d) /\ InAt(u, e, Frame(u, e).post) =>
                   claims'[Frame(u, e).post] = claims[Frame(u, e).post],
           d <= Height(t)' => Shape(t, d)' /\ OwnCall(t, d)' /\ JoinedCall(t, d)'
    PROVE  FramesFit'
<1>1. \A u \in Threads : Height(u) \in Nat /\ Height(u)' \in Nat
  BY Heights, HeightsNext DEF IInv
<1>2. SUFFICES ASSUME NEW u \in Threads, NEW e \in 1..Height(u)'
               PROVE  Shape(u, e)' /\ OwnCall(u, e)' /\ JoinedCall(u, e)'
  BY DEF FramesFit
<1>3. e \in Nat \ {0} /\ e <= Height(u)'
  BY <1>1, <1>2
<1>4. CASE u = t /\ e = d
  BY <1>3, <1>4
<1>5. CASE u # t \/ e # d
  <2>1. e \in 1..Height(u) /\ Frame(u, e)' = Frame(u, e)
    BY <1>1, <1>3, <1>5 DEF OnlyAt
  <2>2. Shape(u, e) /\ OwnCall(u, e) /\ JoinedCall(u, e)
    BY <2>1 DEF IInv, FramesFit
  <2>3. Frame(u, e) \in Frames
    BY <2>1, FramesOfStack DEF IInv
  <2>4. u # t => Height(u)' = Height(u)
    BY DEF OnlyAt
  <2>5. u = t => e < Height(t) \/ (e = Height(t) /\ Frame(t, e).at = "run")
    BY <1>1, <1>3, <1>5, <2>1, FramesOfStack DEF At, IInv
  <2>6. OwnCall(u, e)'
    <3>1. SUFFICES ASSUME IsOwn(u, e)'
                   PROVE  LET f == Frame(u, e) IN
                              /\ f.post \in Posts
                              /\ f.call \in 1..made'
                              /\ claims'[f.post] = f.call
                              /\ f.at = "offer" => wanted'[f.post] = 0 /\ running'[f.post] = 0
      BY <2>1 DEF OwnCall
    <3>2. OwnAt(u, e)
      BY <2>1, <3>1 DEF OwnAt, IsOwn
    <3>3. /\ claims'[Frame(u, e).post] = claims[Frame(u, e).post]
          /\ Frame(u, e).at = "offer" =>
                wanted'[Frame(u, e).post] = 0 /\ running'[Frame(u, e).post] = 0
      BY <1>3, <1>5, <3>2
    <3>4. made \in Nat /\ made' \in Nat
      BY CrewAssumption DEF IInv, TypeOK
    <3> QED BY <2>2, <3>2, <3>3, <3>4 DEF OwnCall, OwnAt
  <2>7. JoinedCall(u, e)'
    BY <1>3, <1>5, <2>1, <2>2 DEF JoinedCall, IsIn, InAt
  <2>8. Frame(u, e).at = "scan" => u # t /\ mutex = u
    BY <2>2, <2>5 DEF Shape
  <2>9. mutex # None \/ Frame(u, e).at # "scan"
    BY <2>8, CrewAssumption DEF Threads, None
  <2>10. Shape(u, e)'
    BY <1>1, <1>3, <2>1, <2>2, <2>4, <2>5, <2>8, <2>9 DEF Shape
  <2> QED BY <2>6, <2>7, <2>10
<1> QED BY <1>4, <1>5

LEMMA WatchAwake ==
    ASSUME NEW t \in CrewThreads, Frame(t, Height(t))'.at \notin {"parked", "scan"}
    PROVE  Watched'
BY DEF Watched, Watches

LEMMA CrewKept ==
    ASSUME IInv, NEW t \in Callers, NEW d, OnlyAt(t, d)
    PROVE  \A u \in CrewThreads :
               Height(u)' = Height(u) /\ Frame(u, Height(u))' = Frame(u, Height(u))
<1> SUFFICES ASSUME NEW u \in CrewThreads
             PROVE  Height(u)' = Height(u) /\ Frame(u, Height(u))' = Frame(u, Height(u))
  OBVIOUS
<1>1. u \in Threads \ {t} /\ stack[u] # <<>>
  BY CrewAssumption DEF Threads, IInv, TypeOK
<1>2. Height(u) \in Nat \ {0}
  BY <1>1, FramesOfStack DEF IInv
<1> QED BY <1>1, <1>2 DEF OnlyAt

LEMMA WatchCaller ==
    ASSUME IInv, TypeOK', OneOwner', NEW t \in Callers, NEW d \in Nat \ {0}, Alike(t, d),
           \A u \in Threads : \A e \in Nat \ {0} :
               /\ u # t \/ e # d
               /\ OwnAt(u, e)' /\ Frame(u, e)'.at \in {"claim", "run", "close"}
               =>
                   Frame(u, e).at \in {"claim", "run", "close"},
           \A u \in CrewThreads :
               Height(u)' = Height(u) /\ Frame(u, Height(u))' = Frame(u, Height(u)),
           \A p \in Posts :
               \/ wanted'[p] <= wanted[p]
               \/ /\ OwnAt(t, d)' /\ Frame(t, d)'.post = p
                  /\ Frame(t, d)'.at \notin {"claim", "run", "close"},
           OwnAt(t, d)' /\ Frame(t, d)'.at \in {"claim", "run", "close"} =>
               /\ OwnAt(t, d) /\ Frame(t, d).at \in {"claim", "run", "close"}
               /\ Frame(t, d)'.post = Frame(t, d).post
    PROVE  Watched'
<1>1. \A u \in Threads : Height(u) \in Nat /\ Height(u)' \in Nat
  BY Heights, HeightsNext DEF IInv
<1>2. ASSUME NEW p \in Posts, Wanting(p)'
      PROVE  Wanting(p)
  <2>1. PICK u \in Threads : \E e \in 1..Height(u)' :
            /\ IsOwn(u, e)' /\ Frame(u, e)'.post = p
            /\ Frame(u, e)'.at \in {"claim", "run", "close"}
    BY <1>2 DEF Wanting
  <2>2. PICK e \in 1..Height(u)' :
            /\ IsOwn(u, e)' /\ Frame(u, e)'.post = p
            /\ Frame(u, e)'.at \in {"claim", "run", "close"}
    BY <2>1
  <2>3. e \in Nat \ {0} /\ OwnAt(u, e)'
    BY <1>1, <2>2 DEF OwnAt
  <2>4. /\ OwnAt(u, e) /\ Frame(u, e).post = p
        /\ Frame(u, e).at \in {"claim", "run", "close"}
    <3>1. CASE u = t /\ e = d
      BY <2>2, <2>3, <3>1
    <3>2. CASE u # t \/ e # d
      <4>1. /\ e <= Height(u) /\ Frame(u, e)'.role = Frame(u, e).role
            /\ Frame(u, e)'.post = Frame(u, e).post
        BY <1>1, <2>3, <3>2 DEF Alike, OwnAt
      <4> QED BY <1>1, <2>2, <2>3, <3>2, <4>1 DEF OwnAt, IsOwn
    <3> QED BY <3>1, <3>2
  <2>5. wanted'[p] > 0 /\ wanted[p] \in Nat /\ wanted'[p] \in Nat
    BY <1>2, CrewAssumption DEF Wanting, IInv, TypeOK
  <2>6. wanted'[p] <= wanted[p]
    <3>1. CASE /\ OwnAt(t, d)' /\ Frame(t, d)'.post = p
               /\ Frame(t, d)'.at \notin {"claim", "run", "close"}
      <4>1. t \in Threads
        BY DEF Threads
      <4>2. u = t /\ e = d
        BY <2>2, <2>3, <3>1, <4>1 DEF OneOwner, OwnAt
      <4> QED BY <2>2, <3>1, <4>2
    <3> QED BY <3>1
  <2> QED BY <2>4, <2>5, <2>6 DEF Wanting, OwnAt
<1>3. \A p \in Posts : \A u \in CrewThreads : Watches(u, p) => Watches(u, p)'
  BY DEF Watches
<1> QED BY <1>2, <1>3 DEF IInv, Watched

-------------------------------------------------------------------------------
(* Steps that leave a thread in the frame it is in.                        *)

LEMMA TopIs ==
    ASSUME IInv, NEW t \in Threads, NEW place, At(t, place)
    PROVE  LET h == Height(t)  f == Frame(t, h) IN
           /\ stack[t] # <<>>
           /\ h \in Nat \ {0} /\ h \in 1..h
           /\ Top(t) = f /\ f \in Frames /\ f.at = place
           /\ Shape(t, h) /\ OwnCall(t, h) /\ JoinedCall(t, h)
           /\ t \in CrewThreads => h > 1 \/ f.role \in {"crew", "helper"}
           /\ OwnAt(t, h) <=> f.role = "own"
           /\ \A p : InAt(t, h, p) <=> f.role # "own" /\ f.at \in Joined /\ f.post = p
           /\ \A k : RunAt(t, h, k) <=> f.at = "run" /\ f.call = k
<1> DEFINE h == Height(t)  f == Frame(t, h)
<1>1. stack[t] # <<>> /\ Top(t).at = place
  BY DEF At
<1>2. h \in Nat \ {0} /\ h \in 1..h /\ Top(t) = f /\ f \in Frames
  BY <1>1, FramesOfStack DEF IInv
<1>3. Shape(t, h) /\ OwnCall(t, h) /\ JoinedCall(t, h)
  BY <1>2 DEF IInv, FramesFit
<1>4. t \in CrewThreads => h > 1 \/ f.role \in {"crew", "helper"}
  BY <1>2, <1>3 DEF Shape
<1>5. /\ OwnAt(t, h) <=> f.role = "own"
      /\ \A p : InAt(t, h, p) <=> f.role # "own" /\ f.at \in Joined /\ f.post = p
      /\ \A k : RunAt(t, h, k) <=> f.at = "run" /\ f.call = k
  BY <1>2 DEF OwnAt, InAt, RunAt, IsOwn, IsIn
<1> QED BY <1>1, <1>2, <1>3, <1>4, <1>5

\* A thread that goes from one place to another within a frame.
Within(f, place) ==
    \/ f.role = "own" /\ place \in {"signal", "claim", "run", "close", "retire", "help"}
    \/ /\ f.role = "helper" /\ f.at \in {"claim", "run", "giveback"}
       /\ place \in {"claim", "run", "giveback", "leave"}
    \/ /\ f.role = "guest" /\ f.at \in {"claim", "run"}
       /\ place \in {"claim", "run", "leave"}
    \/ f.role = "crew" /\ f.at = "reserve" /\ place = "handback"

LEMMA GotoFrames ==
    ASSUME IInv, NEW t \in Threads, NEW was, At(t, was), NEW place, Goto(t, place),
           Within(Frame(t, Height(t)), place)
    PROVE  LET h == Height(t)  f == Frame(t, h)  g == Frame(t, h)' IN
           /\ stack' \in [Threads -> Seq(Frames)]
           /\ \A u \in CrewThreads : stack'[u] # <<>>
           /\ Height(t)' = h
           /\ g \in Frames /\ g.at = place
           /\ g.role = f.role /\ g.post = f.post /\ g.call = f.call
           /\ OnlyAt(t, h)
           /\ OwnAt(t, h)' <=> f.role = "own"
           /\ \A p : InAt(t, h, p)' <=> InAt(t, h, p)
           /\ \A k : RunAt(t, h, k)' <=> place = "run" /\ f.call = k
<1> DEFINE h == Height(t)  f == Frame(t, h)  g == [f EXCEPT !.at = place]
<1>1. /\ stack[t] # <<>> /\ h \in Nat \ {0} /\ h \in 1..h
      /\ Top(t) = f /\ f \in Frames /\ f.at = was
      /\ \A p : InAt(t, h, p) <=> f.role # "own" /\ f.at \in Joined /\ f.post = p
  BY TopIs
<1>2. place \in Places
  BY DEF Within, Places
<1>3. g \in Frames /\ g.at = place /\ g.role = f.role /\ g.post = f.post /\ g.call = f.call
  BY <1>1, <1>2 DEF Frames
<1>4. Become(t, g)
  BY <1>1 DEF Goto
<1>5. TypeOK
  BY DEF IInv
<1> HIDE DEF g
<1>6. /\ stack' \in [Threads -> Seq(Frames)]
      /\ \A u \in Threads : stack'[u] # <<>> <=> stack[u] # <<>>
      /\ Height(t)' = h /\ Frame(t, h)' = g /\ OnlyAt(t, h)
  BY <1>1, <1>3, <1>4, <1>5, BecomeFrames
<1>7. \A u \in CrewThreads : stack'[u] # <<>>
  BY <1>5, <1>6 DEF TypeOK, Threads
<1>8. /\ OwnAt(t, h)' <=> f.role = "own"
      /\ \A k : RunAt(t, h, k)' <=> place = "run" /\ f.call = k
  BY <1>1, <1>3, <1>6 DEF OwnAt, RunAt, IsOwn
<1>9. ASSUME NEW p
      PROVE  InAt(t, h, p)' <=> InAt(t, h, p)
  <2>1. InAt(t, h, p)' <=> f.role # "own" /\ place \in Joined /\ f.post = p
    BY <1>1, <1>3, <1>6 DEF InAt, IsIn
  <2>2. f.role # "own" => f.at \in Joined /\ place \in Joined
    BY DEF Within, Joined
  <2> QED BY <1>1, <2>1, <2>2
<1> QED BY <1>3, <1>6, <1>7, <1>8, <1>9

LEMMA GotoStep ==
    ASSUME IInv, TypeOK', NEW t \in Threads, NEW was, At(t, was), NEW place, Goto(t, place),
           Within(Frame(t, Height(t)), place),
           claims' = claims, made' = made, mutex' = mutex,
           \A p \in Posts :
               \/ wanted[p] = 0 /\ running[p] = 0 => wanted'[p] = 0 /\ running'[p] = 0
               \/ OwnAt(t, Height(t)) /\ Frame(t, Height(t)).post = p,
           \A p \in Posts :
               \/ wanted'[p] <= wanted[p]
               \/ /\ OwnAt(t, Height(t)) /\ Frame(t, Height(t)).post = p
                  /\ place \notin {"claim", "run", "close"},
           OwnAt(t, Height(t)) /\ place \in {"claim", "run", "close"} =>
               was \in {"claim", "run", "close"}
    PROVE  FramesFit' /\ OneOwner' /\ YoungerAbove' /\ Watched'
<1> DEFINE h == Height(t)  f == Frame(t, h)  g == Frame(t, h)'
<1>1. /\ stack[t] # <<>> /\ h \in Nat \ {0} /\ h \in 1..h
      /\ Top(t) = f /\ f \in Frames /\ f.at = was
      /\ Shape(t, h) /\ OwnCall(t, h) /\ JoinedCall(t, h)
      /\ t \in CrewThreads => h > 1 \/ f.role \in {"crew", "helper"}
      /\ OwnAt(t, h) <=> f.role = "own"
  BY TopIs
<1>2. /\ Height(t)' = h
      /\ g \in Frames /\ g.at = place
      /\ g.role = f.role /\ g.post = f.post /\ g.call = f.call
      /\ OnlyAt(t, h) /\ Alike(t, h)
      /\ OwnAt(t, h)' <=> f.role = "own"
  BY GotoFrames, OnlyAlike
<1>3. OneOwner' /\ YoungerAbove'
  <2>1. h >= Height(t)' /\ (OwnAt(t, h)' <=> OwnAt(t, h))
    BY <1>1, <1>2
  <2> QED BY <1>1, <1>2, <2>1, OwnersKept
<1>4. Shape(t, h)'
  BY <1>1, <1>2 DEF Shape, Within
<1>5. OwnCall(t, h)'
  BY <1>1, <1>2 DEF OwnCall, IsOwn, Within
<1>6. JoinedCall(t, h)'
  BY <1>1, <1>2 DEF JoinedCall, IsIn, Within, Joined
<1>7. FramesFit'
  <2>1. ASSUME NEW u \in Threads, NEW e \in Nat \ {0}, u # t \/ e # h, OwnAt(u, e),
               Frame(u, e).at = "offer"
        PROVE  wanted'[Frame(u, e).post] = 0 /\ running'[Frame(u, e).post] = 0
    <3> DEFINE p == Frame(u, e).post
    <3>1. OwnCall(u, e)
      BY <2>1 DEF IInv, FramesFit, OwnAt
    <3>2. p \in Posts /\ wanted[p] = 0 /\ running[p] = 0
      BY <2>1, <3>1 DEF OwnCall, OwnAt
    <3>3. ~(OwnAt(t, h) /\ f.post = p)
      BY <2>1 DEF IInv, OneOwner, OwnAt
    <3> QED BY <3>2, <3>3
  <2>2. h >= Height(t) /\ h >= Height(t)' /\ ~(h > Height(t)) /\ made' >= made
    BY <1>1, <1>2, CrewAssumption DEF IInv, TypeOK
  <2> QED BY <1>1, <1>2, <1>4, <1>5, <1>6, <2>1, <2>2, FitsStep
<1>8. Watched'
  <2>1. CASE t \in CrewThreads
    <3>1. place \notin {"parked", "scan"}
      BY DEF Within
    <3> QED BY <1>2, <2>1, <3>1, WatchAwake
  <2>2. CASE t \in Callers
    <3>1. \A u \in Threads : \A e \in Nat \ {0} :
              (u # t \/ e # h) /\ OwnAt(u, e)' => Frame(u, e)' = Frame(u, e)
      BY <1>2, Heights, HeightsNext DEF OnlyAt, OwnAt, IInv
    <3>2. \A u \in CrewThreads :
              Height(u)' = Height(u) /\ Frame(u, Height(u))' = Frame(u, Height(u))
      BY <1>1, <1>2, <2>2, CrewKept
    <3> QED BY <1>1, <1>2, <1>3, <2>2, <3>1, <3>2, WatchCaller
  <2> QED BY <2>1, <2>2 DEF Threads
<1> QED BY <1>3, <1>7, <1>8

\* The slots, and the words and jobs that a step within a frame leaves alone.
LEMMA GotoSlots ==
    ASSUME IInv, TypeOK', NEW t \in Threads, NEW was, At(t, was), NEW place, Goto(t, place),
           Within(Frame(t, Height(t)), place),
           outside' = outside,
           helpers' = helpers - (IF Frame(t, Height(t)).role = "helper" /\ place = "leave"
                                 THEN 1 ELSE 0)
    PROVE  SlotsHeld'
<1> DEFINE h == Height(t)  f == Frame(t, h)
<1>1. h \in Nat \ {0} /\ h \in 1..h /\ f.at = was /\ Shape(t, h)
  BY TopIs
<1>2. /\ Height(t)' = h /\ OnlyAt(t, h)
      /\ Frame(t, h)'.at = place /\ Frame(t, h)'.role = f.role
  BY GotoFrames
<1>3. helpers \in Nat /\ outside \in Nat /\ helpers' \in Nat
  BY CrewAssumption DEF IInv, TypeOK
<1>4. CASE h = 1
  <2>1. t \in CrewThreads /\ f.role = "helper" <=> f.role = "helper"
    BY <1>1, <1>4 DEF Shape
  <2>2. HoldsOne(t) <=> f.role = "helper" /\ f.at # "leave"
    BY <1>4, <2>1 DEF HoldsOne
  <2>3. HoldsOne(t)' <=> f.role = "helper" /\ place # "leave"
    BY <1>2, <1>4, <2>1 DEF HoldsOne
  <2>4. f.role = "helper" => f.at # "leave"
    BY DEF Within
  <2> QED BY <1>1, <1>2, <1>3, <2>2, <2>3, <2>4, SlotsStep
<1>5. CASE h > 1
  <2>1. f.role # "helper"
    BY <1>1, <1>5 DEF Shape
  <2>2. HoldsOne(t)' <=> HoldsOne(t)
    BY <1>1, <1>2, <1>5, HoldsSame
  <2> QED BY <1>1, <1>2, <1>3, <2>1, <2>2, SlotsStep
<1> QED BY <1>1, <1>4, <1>5

LEMMA GotoWords ==
    ASSUME IInv, TypeOK', NEW t \in Threads, NEW was, At(t, was), NEW place, Goto(t, place),
           Within(Frame(t, Height(t)), place),
           UNCHANGED <<claims, running, made>>,
           \A p \in Posts : wanted'[p] + running[p] <= MaxJobs
                               /\ (claims[p] = None => wanted'[p] = 0)
    PROVE  WordsExact'
<1> DEFINE h == Height(t)
<1>1. h \in Nat \ {0}
  BY TopIs
<1>2. Height(t)' = h /\ OnlyAt(t, h) /\ \A p : InAt(t, h, p)' <=> InAt(t, h, p)
  BY GotoFrames
<1>3. \A p \in Posts : \A u \in Threads : \A e \in Nat \ {0} :
          u # t \/ e # h => (InAt(u, e, p)' <=> InAt(u, e, p))
  BY <1>2, CountsOnly DEF IInv
<1>4. \A p \in Posts :
          /\ running'[p] = running[p] + (IF InAt(t, h, p)' THEN 1 ELSE 0)
                                      - (IF InAt(t, h, p) THEN 1 ELSE 0)
          /\ wanted'[p] + running'[p] <= MaxJobs
          /\ claims'[p] <= made'
          /\ claims'[p] = None => wanted'[p] = 0 /\ running'[p] = 0
  <2> SUFFICES ASSUME NEW p \in Posts
               PROVE  /\ running'[p] = running[p] + (IF InAt(t, h, p)' THEN 1 ELSE 0)
                                                  - (IF InAt(t, h, p) THEN 1 ELSE 0)
                      /\ wanted'[p] + running'[p] <= MaxJobs
                      /\ claims'[p] <= made'
                      /\ claims'[p] = None => wanted'[p] = 0 /\ running'[p] = 0
    OBVIOUS
  <2>1. claims[p] <= made /\ (claims[p] = None => running[p] = 0)
    BY DEF IInv, WordsExact
  <2>2. running[p] \in Nat
    BY CrewAssumption DEF IInv, TypeOK
  <2> QED BY <1>2, <2>1, <2>2
<1> QED BY <1>1, <1>2, <1>3, <1>4, WordsStep

LEMMA JobsSame ==
    ASSUME IInv, TypeOK', NEW t \in Threads, NEW d \in Nat \ {0},
           UNCHANGED <<made, list>>,
           \A k \in Calls : \A u \in Threads : \A e \in Nat \ {0} :
               RunAt(u, e, k)' <=> RunAt(u, e, k)
    PROVE  JobsExact'
<1>1. jobs' = jobs /\ next' = next /\ done' = done /\ made' = made
  BY DEF list
<1>2. \A k \in Calls :
          /\ done'[k] + (IF RunAt(t, d, k)' THEN 1 ELSE 0) - Least(next'[k], jobs'[k])
                = done[k] + (IF RunAt(t, d, k) THEN 1 ELSE 0) - Least(next[k], jobs[k])
          /\ k <= made' => jobs'[k] >= 2
          /\ k > made' => jobs'[k] = 0 /\ next'[k] = 0
  BY <1>1 DEF IInv, JobsExact
<1> QED BY <1>2, JobsStep

LEMMA GotoJobs ==
    ASSUME IInv, TypeOK', NEW t \in Threads, NEW was, At(t, was), NEW place, Goto(t, place),
           Within(Frame(t, Height(t)), place),
           was # "run", place # "run", UNCHANGED <<made, list>>
    PROVE  JobsExact'
<1> DEFINE h == Height(t)
<1>1. h \in Nat \ {0} /\ \A k : RunAt(t, h, k) <=> FALSE
  BY TopIs
<1>2. Height(t)' = h /\ OnlyAt(t, h) /\ \A k : RunAt(t, h, k)' <=> FALSE
  BY GotoFrames
<1>3. \A k \in Calls : \A u \in Threads : \A e \in Nat \ {0} :
          RunAt(u, e, k)' <=> RunAt(u, e, k)
  BY <1>1, <1>2, CountsOnly DEF IInv
<1> QED BY <1>1, <1>3, JobsSame

LEMMA OfferStep ==
    ASSUME IInv, NEW t \in Threads, Offer(t)
    PROVE  IInv'
<1> DEFINE h == Height(t)  f == Frame(t, h)  p == f.post
<1>1. /\ At(t, "offer") /\ Goto(t, "signal")
      /\ claims' = claims /\ UNCHANGED <<made, list, helpers, outside, mutex>>
  BY DEF Offer
<1>2. /\ h \in Nat \ {0} /\ h \in 1..h /\ Top(t) = f /\ f \in Frames /\ f.at = "offer"
      /\ Shape(t, h) /\ OwnCall(t, h) /\ (OwnAt(t, h) <=> f.role = "own")
  BY <1>1, TopIs
<1>3. f.role = "own" /\ Within(f, "signal") /\ OwnAt(t, h)
  BY <1>2 DEF Shape, Within, Frames, Roles
<1>4. /\ p \in Posts /\ f.call \in 1..made /\ claims[p] = f.call
      /\ wanted[p] = 0 /\ running[p] = 0
  BY <1>2, <1>3 DEF OwnCall, IsOwn
<1>5. /\ wanted' = [wanted EXCEPT ![p] = jobs[f.call] - 1]
      /\ running' = [running EXCEPT ![p] = 0]
      /\ closed' = [closed EXCEPT ![p] = FALSE]
  BY <1>2 DEF Offer
<1>6. TypeOK
  BY DEF IInv
<1>7. f.call \in Calls /\ jobs[f.call] \in 2..MaxJobs
  <2>1. made \in 0..MaxCalls
    BY <1>6 DEF TypeOK
  <2>2. f.call \in Calls /\ f.call <= made
    BY <1>4, <2>1, CrewAssumption DEF Calls
  <2>3. jobs[f.call] \in 0..MaxJobs /\ jobs[f.call] >= 2
    BY <1>6, <2>2 DEF IInv, TypeOK, JobsExact
  <2> QED BY <2>2, <2>3, CrewAssumption
<1>8. running' = running
  BY <1>4, <1>5, <1>6 DEF TypeOK
<1>9. /\ stack' \in [Threads -> Seq(Frames)]
      /\ \A u \in CrewThreads : stack'[u] # <<>>
  BY <1>1, <1>3, GotoFrames
<1>10. wanted' \in [Posts -> 0..MaxJobs]
  <2>1. jobs[f.call] - 1 \in 0..MaxJobs
    BY <1>7, CrewAssumption
  <2>2. wanted \in [Posts -> 0..MaxJobs]
    BY <1>6 DEF TypeOK
  <2> HIDE DEF f, p
  <2> QED BY <1>4, <1>5, <2>1, <2>2
<1>11. TypeOK'
  BY <1>1, <1>5, <1>6, <1>8, <1>9, <1>10 DEF TypeOK, list
<1>12. ASSUME NEW q \in Posts
       PROVE  /\ q # p => wanted'[q] = wanted[q]
              /\ wanted'[q] + running[q] <= MaxJobs
              /\ claims[q] = None => wanted'[q] = 0
  <2>1. CASE q = p
    <3>1. claims[q] # None
      BY <1>4, <2>1, <1>6, CrewAssumption DEF None, TypeOK
    <3>2. wanted'[q] = jobs[f.call] - 1
      BY <1>4, <1>5, <1>6, <2>1 DEF TypeOK
    <3> QED BY <1>4, <1>7, <2>1, <3>1, <3>2, CrewAssumption
  <2>2. CASE q # p
    <3>1. wanted'[q] = wanted[q]
      BY <1>5, <1>6, <2>2 DEF TypeOK
    <3> QED BY <2>2, <3>1 DEF IInv, WordsExact
  <2> QED BY <2>1, <2>2
<1>13. FramesFit' /\ OneOwner' /\ YoungerAbove' /\ Watched'
  <2>1. \A q \in Posts :
            /\ \/ wanted[q] = 0 /\ running[q] = 0 => wanted'[q] = 0 /\ running'[q] = 0
               \/ OwnAt(t, h) /\ f.post = q
            /\ \/ wanted'[q] <= wanted[q]
               \/ /\ OwnAt(t, h) /\ f.post = q
                  /\ "signal" \notin {"claim", "run", "close"}
    <3> SUFFICES ASSUME NEW q \in Posts, q # p
                 PROVE  /\ wanted[q] = 0 /\ running[q] = 0 => wanted'[q] = 0 /\ running'[q] = 0
                        /\ wanted'[q] <= wanted[q]
      BY <1>3
    <3>1. wanted[q] \in Nat
      BY <1>6, CrewAssumption DEF TypeOK
    <3> QED BY <1>8, <1>12, <3>1
  <2> QED BY <1>1, <1>3, <1>11, <2>1, GotoStep
<1>14. WordsExact'
  BY <1>1, <1>3, <1>8, <1>11, <1>12, GotoWords
<1>15. JobsExact'
  BY <1>1, <1>3, <1>11, GotoJobs
<1>16. SlotsHeld'
  BY <1>1, <1>3, <1>6, <1>11, CrewAssumption, GotoSlots DEF TypeOK
<1> QED BY <1>11, <1>13, <1>14, <1>15, <1>16 DEF IInv

LEMMA CloseStep ==
    ASSUME IInv, NEW t \in Threads, Close(t)
    PROVE  IInv'
<1> DEFINE h == Height(t)  f == Frame(t, h)  p == f.post
<1>1. /\ At(t, "close") /\ Goto(t, "retire")
      /\ UNCHANGED <<claims, running, made, list, helpers, outside, mutex>>
  BY DEF Close
<1>2. /\ h \in Nat \ {0} /\ h \in 1..h /\ Top(t) = f /\ f \in Frames /\ f.at = "close"
      /\ Shape(t, h) /\ OwnCall(t, h) /\ (OwnAt(t, h) <=> f.role = "own")
  BY <1>1, TopIs
<1>3. f.role = "own" /\ Within(f, "retire") /\ OwnAt(t, h)
  BY <1>2 DEF Shape, Within, Frames, Roles
<1>4. p \in Posts
  BY <1>2, <1>3 DEF OwnCall, IsOwn
<1>5. /\ wanted' = [wanted EXCEPT ![p] = 0]
      /\ closed' = [closed EXCEPT ![p] = TRUE]
  BY <1>2 DEF Close
<1>6. TypeOK
  BY DEF IInv
<1>7. ASSUME NEW q \in Posts
      PROVE  /\ wanted[q] \in Nat /\ running[q] \in Nat
             /\ wanted'[q] = IF q = p THEN 0 ELSE wanted[q]
  BY <1>4, <1>5, <1>6, CrewAssumption DEF TypeOK
<1>9. /\ stack' \in [Threads -> Seq(Frames)]
      /\ \A u \in CrewThreads : stack'[u] # <<>>
  BY <1>1, <1>3, GotoFrames
<1>10. wanted' \in [Posts -> 0..MaxJobs]
  BY <1>4, <1>5, <1>6, CrewAssumption DEF TypeOK
<1>11. TypeOK'
  BY <1>1, <1>5, <1>6, <1>9, <1>10 DEF TypeOK, list
<1>12. ASSUME NEW q \in Posts
       PROVE  /\ wanted'[q] <= wanted[q]
              /\ wanted'[q] + running[q] <= MaxJobs
              /\ claims[q] = None => wanted'[q] = 0
              /\ wanted[q] = 0 /\ running[q] = 0 => wanted'[q] = 0 /\ running'[q] = 0
  <2>1. wanted[q] + running[q] <= MaxJobs /\ (claims[q] = None => wanted[q] = 0)
    BY DEF IInv, WordsExact
  <2> QED BY <1>1, <1>7, <2>1, CrewAssumption
<1>13. FramesFit' /\ OneOwner' /\ YoungerAbove' /\ Watched'
  BY <1>1, <1>3, <1>11, <1>12, GotoStep
<1>14. WordsExact'
  BY <1>1, <1>3, <1>11, <1>12, GotoWords
<1>15. JobsExact'
  BY <1>1, <1>3, <1>11, GotoJobs
<1>16. SlotsHeld'
  BY <1>1, <1>3, <1>6, <1>11, CrewAssumption, GotoSlots DEF TypeOK
<1> QED BY <1>11, <1>13, <1>14, <1>15, <1>16 DEF IInv

\* A step within a frame that changes no state word.
LEMMA QuietStep ==
    ASSUME IInv, TypeOK', NEW t \in Threads, NEW was, At(t, was), NEW place, Goto(t, place),
           Within(Frame(t, Height(t)), place),
           Frame(t, Height(t)).role = "own" /\ place \in {"claim", "run", "close"} =>
               was \in {"claim", "run", "close"},
           UNCHANGED <<posting, made, mutex, outside>>,
           helpers' = helpers - (IF Frame(t, Height(t)).role = "helper" /\ place = "leave"
                                 THEN 1 ELSE 0)
    PROVE  FramesFit' /\ OneOwner' /\ YoungerAbove' /\ Watched' /\ WordsExact' /\ SlotsHeld'
<1>1. claims' = claims /\ wanted' = wanted /\ running' = running /\ closed' = closed
  BY DEF posting
<1>2. \A p \in Posts :
          /\ wanted[p] \in Nat
          /\ wanted[p] + running[p] <= MaxJobs /\ (claims[p] = None => wanted[p] = 0)
  BY CrewAssumption DEF IInv, TypeOK, WordsExact
<1>3. OwnAt(t, Height(t)) <=> Frame(t, Height(t)).role = "own"
  BY TopIs
<1>4. FramesFit' /\ OneOwner' /\ YoungerAbove' /\ Watched'
  BY <1>1, <1>2, <1>3, GotoStep
<1>5. WordsExact'
  BY <1>1, <1>2, GotoWords
<1>6. SlotsHeld'
  BY GotoSlots
<1> QED BY <1>4, <1>5, <1>6

LEMMA HelpNobodyStep ==
    ASSUME IInv, NEW t \in Threads, HelpNobody(t)
    PROVE  IInv'
<1> DEFINE h == Height(t)  f == Frame(t, h)
<1>1. /\ At(t, "help") /\ Goto(t, "retire")
      /\ UNCHANGED <<posting, made, list, helpers, outside, mutex>>
  BY DEF HelpNobody
<1>2. h \in Nat \ {0} /\ h \in 1..h /\ f \in Frames /\ f.at = "help" /\ Shape(t, h)
  BY <1>1, TopIs
<1>3. f.role = "own" /\ Within(f, "retire")
  BY <1>2 DEF Shape, Within, Frames, Roles
<1>4. TypeOK
  BY DEF IInv
<1>5. /\ stack' \in [Threads -> Seq(Frames)]
      /\ \A u \in CrewThreads : stack'[u] # <<>>
  BY <1>1, <1>3, GotoFrames
<1>6. TypeOK'
  BY <1>1, <1>4, <1>5 DEF TypeOK, list, posting
<1>7. helpers \in Nat
  BY <1>4, CrewAssumption DEF TypeOK
<1>8. FramesFit' /\ OneOwner' /\ YoungerAbove' /\ Watched' /\ WordsExact' /\ SlotsHeld'
  BY <1>1, <1>3, <1>6, <1>7, QuietStep
<1>9. JobsExact'
  BY <1>1, <1>3, <1>6, GotoJobs
<1> QED BY <1>6, <1>8, <1>9 DEF IInv

\* The branch of `Retire` that finds somebody in the posting.
LEMMA WaitOnStep ==
    ASSUME IInv, NEW t \in Threads, At(t, "retire"), Goto(t, "help"),
           UNCHANGED <<posting, made, list, helpers, outside, mutex>>
    PROVE  IInv'
<1> DEFINE h == Height(t)  f == Frame(t, h)
<1>2. h \in Nat \ {0} /\ h \in 1..h /\ f \in Frames /\ f.at = "retire" /\ Shape(t, h)
  BY TopIs
<1>3. f.role = "own" /\ Within(f, "help")
  BY <1>2 DEF Shape, Within, Frames, Roles
<1>4. TypeOK
  BY DEF IInv
<1>5. /\ stack' \in [Threads -> Seq(Frames)]
      /\ \A u \in CrewThreads : stack'[u] # <<>>
  BY <1>3, GotoFrames
<1>6. TypeOK'
  BY <1>4, <1>5 DEF TypeOK, list, posting
<1>7. helpers \in Nat
  BY <1>4, CrewAssumption DEF TypeOK
<1>8. FramesFit' /\ OneOwner' /\ YoungerAbove' /\ Watched' /\ WordsExact' /\ SlotsHeld'
  BY <1>3, <1>6, <1>7, QuietStep
<1>9. JobsExact'
  BY <1>3, <1>6, GotoJobs
<1> QED BY <1>6, <1>8, <1>9 DEF IInv

\* The branch of `Reserve` that finds no slot.
LEMMA NoSlotStep ==
    ASSUME IInv, NEW t \in Threads, At(t, "reserve"), Goto(t, "handback"),
           UNCHANGED <<posting, made, list, helpers, outside, mutex>>
    PROVE  IInv'
<1> DEFINE h == Height(t)  f == Frame(t, h)
<1>2. h \in Nat \ {0} /\ h \in 1..h /\ f \in Frames /\ f.at = "reserve" /\ Shape(t, h)
  BY TopIs
<1>3. f.role = "crew" /\ Within(f, "handback")
  BY <1>2 DEF Shape, Within, Frames, Roles
<1>4. TypeOK
  BY DEF IInv
<1>5. /\ stack' \in [Threads -> Seq(Frames)]
      /\ \A u \in CrewThreads : stack'[u] # <<>>
  BY <1>3, GotoFrames
<1>6. TypeOK'
  BY <1>4, <1>5 DEF TypeOK, list, posting
<1>7. helpers \in Nat
  BY <1>4, CrewAssumption DEF TypeOK
<1>8. FramesFit' /\ OneOwner' /\ YoungerAbove' /\ Watched' /\ WordsExact' /\ SlotsHeld'
  BY <1>3, <1>6, <1>7, QuietStep
<1>9. JobsExact'
  BY <1>3, <1>6, GotoJobs
<1> QED BY <1>6, <1>8, <1>9 DEF IInv

LEMMA GiveBackStep ==
    ASSUME IInv, NEW t \in Threads, GiveBack(t)
    PROVE  IInv'
<1> DEFINE h == Height(t)  f == Frame(t, h)
<1>1. /\ At(t, "giveback") /\ Goto(t, "leave") /\ helpers' = helpers - 1
      /\ UNCHANGED <<posting, made, list, outside, mutex>>
  BY DEF GiveBack
<1>2. h \in Nat \ {0} /\ h \in 1..h /\ f \in Frames /\ f.at = "giveback" /\ Shape(t, h)
  BY <1>1, TopIs
<1>3. f.role = "helper" /\ Within(f, "leave") /\ h = 1 /\ t \in CrewThreads
  BY <1>2 DEF Shape, Within, Frames, Roles
<1>4. TypeOK
  BY DEF IInv
<1>5. /\ stack' \in [Threads -> Seq(Frames)]
      /\ \A u \in CrewThreads : stack'[u] # <<>>
  BY <1>1, <1>3, GotoFrames
<1>6. helpers - outside >= 1
  <2>1. HoldsOne(t)
    BY <1>2, <1>3 DEF HoldsOne
  <2>2. IsFiniteSet(Helping) /\ t \in Helping
    <3>1. Helping \subseteq CrewThreads
      BY DEF Helping
    <3> QED BY <2>1, <3>1, FS_Subset, CrewAssumption DEF HoldsOne, Helping
  <2>3. Cardinality(Helping) >= 1
    BY <2>2, CardChange
  <2> QED BY <2>3 DEF IInv, SlotsHeld
<1>7. TypeOK'
  BY <1>1, <1>4, <1>5, <1>6, CrewAssumption DEF TypeOK, list, posting
<1>8. FramesFit' /\ OneOwner' /\ YoungerAbove' /\ Watched' /\ WordsExact' /\ SlotsHeld'
  BY <1>1, <1>3, <1>7, QuietStep
<1>9. JobsExact'
  BY <1>1, <1>3, <1>7, GotoJobs
<1> QED BY <1>7, <1>8, <1>9 DEF IInv

LEMMA ClaimStep ==
    ASSUME IInv, NEW t \in Threads, Claim(t)
    PROVE  IInv'
<1> DEFINE h == Height(t)  f == Frame(t, h)  k == f.call
           place == IF next[k] < jobs[k] THEN "run"
                    ELSE CASE f.role = "own" -> "close"
                           [] f.role = "helper" -> "giveback"
                           [] f.role = "guest" -> "leave"
<1>1. /\ At(t, "claim")
      /\ UNCHANGED <<posting, made, jobs, done, helpers, outside, mutex>>
  BY DEF Claim
<1>2. /\ h \in Nat \ {0} /\ h \in 1..h /\ Top(t) = f /\ f \in Frames /\ f.at = "claim"
      /\ Shape(t, h) /\ OwnCall(t, h) /\ JoinedCall(t, h)
      /\ \A c : RunAt(t, h, c) <=> FALSE
  BY <1>1, TopIs
<1>3. Goto(t, place) /\ next' = [next EXCEPT ![k] = @ + 1]
  BY <1>2 DEF Claim
<1>4. /\ f.role \in {"own", "helper", "guest"} /\ Within(f, place)
      /\ f.role = "own" /\ place \in {"claim", "run", "close"} =>
            "claim" \in {"claim", "run", "close"}
      /\ place # "leave" \/ f.role # "helper"
      /\ place = "run" <=> next[k] < jobs[k]
  BY <1>2 DEF Shape, Within, Frames, Roles
<1> HIDE DEF place
<1>5. TypeOK
  BY DEF IInv
<1>6. k \in Calls /\ next[k] \in Nat /\ jobs[k] \in 0..MaxJobs /\ k <= made
  <2>1. made \in 0..MaxCalls /\ claims \in [Posts -> 0..MaxCalls]
    BY <1>5 DEF TypeOK
  <2>2. k \in 1..made
    <3>1. CASE f.role = "own"
      BY <1>2, <3>1 DEF OwnCall, IsOwn
    <3>2. CASE f.role # "own"
      <4>1. f.post \in Posts /\ claims[f.post] # None /\ k = claims[f.post]
        BY <1>2, <3>2 DEF JoinedCall, IsIn, Joined
      <4>2. claims[f.post] <= made
        BY <4>1 DEF IInv, WordsExact
      <4> QED BY <2>1, <4>1, <4>2, CrewAssumption DEF None
    <3> QED BY <3>1, <3>2
  <2>3. k \in Calls /\ k <= made
    BY <2>1, <2>2, CrewAssumption DEF Calls
  <2> QED BY <1>5, <2>3 DEF TypeOK
<1>7. /\ stack' \in [Threads -> Seq(Frames)]
      /\ \A u \in CrewThreads : stack'[u] # <<>>
      /\ Height(t)' = h /\ OnlyAt(t, h)
      /\ \A c : RunAt(t, h, c)' <=> place = "run" /\ f.call = c
  BY <1>1, <1>3, <1>4, GotoFrames
<1>8. next' \in [Calls -> Nat]
  BY <1>3, <1>5, <1>6 DEF TypeOK
<1>9. TypeOK'
  BY <1>1, <1>5, <1>7, <1>8 DEF TypeOK, posting
<1>10. helpers \in Nat
  BY <1>5, CrewAssumption DEF TypeOK
<1>11. FramesFit' /\ OneOwner' /\ YoungerAbove' /\ Watched' /\ WordsExact' /\ SlotsHeld'
  BY <1>1, <1>3, <1>4, <1>9, <1>10, QuietStep
<1>12. JobsExact'
  <2>1. \A c \in Calls : \A u \in Threads : \A e \in Nat \ {0} :
            u # t \/ e # h => (RunAt(u, e, c)' <=> RunAt(u, e, c))
    BY <1>5, <1>7, <1>9, CountsOnly
  <2>2. ASSUME NEW c \in Calls
        PROVE  /\ done'[c] + (IF RunAt(t, h, c)' THEN 1 ELSE 0) - Least(next'[c], jobs'[c])
                    = done[c] + (IF RunAt(t, h, c) THEN 1 ELSE 0) - Least(next[c], jobs[c])
               /\ c <= made' => jobs'[c] >= 2
               /\ c > made' => jobs'[c] = 0 /\ next'[c] = 0
    <3>1. /\ done[c] \in Nat /\ next[c] \in Nat /\ jobs[c] \in Nat
          /\ done' = done /\ jobs' = jobs /\ made' = made /\ made \in Nat
      BY <1>1, <1>5, CrewAssumption DEF TypeOK
    <3>2. /\ c <= made => jobs[c] >= 2
          /\ c > made => jobs[c] = 0 /\ next[c] = 0
      BY DEF IInv, JobsExact
    <3>3. next'[c] = IF c = k THEN next[c] + 1 ELSE next[c]
      BY <1>3, <1>5, <1>6 DEF TypeOK
    <3>4. CASE c = k
      <4>1. Least(next'[c], jobs'[c]) =
                Least(next[c], jobs[c]) + (IF next[k] < jobs[k] THEN 1 ELSE 0)
        BY <3>1, <3>3, <3>4 DEF Least
      <4>2. Least(next[c], jobs[c]) \in Nat
        BY <3>1 DEF Least
      <4>3. /\ RunAt(t, h, c)' <=> next[k] < jobs[k]
            /\ ~RunAt(t, h, c)
        BY <1>2, <1>4, <1>7, <3>4
      <4>4. c <= made
        BY <1>6, <3>4
      <4> HIDE DEF k
      <4> QED BY <3>1, <3>2, <4>1, <4>2, <4>3, <4>4
    <3>5. CASE c # k
      BY <1>2, <1>7, <3>1, <3>2, <3>3, <3>5
    <3> QED BY <3>4, <3>5
  <2> QED BY <1>2, <1>7, <1>9, <2>1, <2>2, JobsStep
<1> QED BY <1>9, <1>11, <1>12 DEF IInv

LEMMA FinishJobStep ==
    ASSUME IInv, NEW t \in Threads, FinishJob(t)
    PROVE  IInv'
<1> DEFINE h == Height(t)  f == Frame(t, h)  k == f.call
<1>1. /\ At(t, "run") /\ Goto(t, "claim")
      /\ UNCHANGED <<posting, made, jobs, next, helpers, outside, mutex>>
  BY DEF FinishJob
<1>2. /\ h \in Nat \ {0} /\ h \in 1..h /\ Top(t) = f /\ f \in Frames /\ f.at = "run"
      /\ Shape(t, h) /\ OwnCall(t, h) /\ JoinedCall(t, h)
      /\ \A c : RunAt(t, h, c) <=> f.call = c
  BY <1>1, TopIs
<1>3. done' = [done EXCEPT ![k] = @ + 1]
  BY <1>2 DEF FinishJob
<1>4. f.role \in {"own", "helper", "guest"} /\ Within(f, "claim")
  BY <1>2 DEF Shape, Within, Frames, Roles
<1>5. TypeOK
  BY DEF IInv
<1>6. k \in Calls /\ done[k] \in Nat /\ jobs[k] \in 0..MaxJobs
  <2>1. made \in 0..MaxCalls /\ claims \in [Posts -> 0..MaxCalls]
    BY <1>5 DEF TypeOK
  <2>2. k \in Calls
    <3>1. CASE f.role = "own"
      <4>1. k \in 1..made
        BY <1>2, <3>1 DEF OwnCall, IsOwn
      <4> QED BY <2>1, <4>1, CrewAssumption DEF Calls
    <3>2. CASE f.role # "own"
      <4>1. f.post \in Posts /\ claims[f.post] # None /\ k = claims[f.post]
        BY <1>2, <3>2 DEF JoinedCall, IsIn, Joined
      <4> QED BY <2>1, <4>1, CrewAssumption DEF None, Calls
    <3> QED BY <3>1, <3>2
  <2> QED BY <1>5, <2>2, CrewAssumption DEF TypeOK
<1>7. /\ stack' \in [Threads -> Seq(Frames)]
      /\ \A u \in CrewThreads : stack'[u] # <<>>
      /\ Height(t)' = h /\ OnlyAt(t, h)
      /\ \A c : RunAt(t, h, c)' <=> FALSE
  BY <1>1, <1>4, GotoFrames
<1>8. done[k] + 1 <= jobs[k]
  <2>1. RunAt(t, h, k)
    BY <1>2
  <2>2. IsFiniteSet(Running(k)) /\ <<t, h>> \in Running(k)
    BY <1>2, <1>6, <2>1, SpotsAre DEF IInv, JobsExact, Running, RunAt
  <2>3. Cardinality(Running(k)) \in Nat /\ Cardinality(Running(k)) >= 1
    BY <2>2, CardChange
  <2>4. done[k] + Cardinality(Running(k)) = IF next[k] < jobs[k] THEN next[k] ELSE jobs[k]
    BY <1>6 DEF IInv, JobsExact
  <2>5. next[k] \in Nat /\ jobs[k] \in Nat
    BY <1>5, <1>6, CrewAssumption DEF TypeOK
  <2> HIDE DEF k
  <2> QED BY <1>6, <2>3, <2>4, <2>5
<1>9. done' \in [Calls -> 0..MaxJobs]
  BY <1>3, <1>5, <1>6, <1>8, CrewAssumption DEF TypeOK
<1>10. TypeOK'
  BY <1>1, <1>5, <1>7, <1>9 DEF TypeOK, posting
<1>11. helpers \in Nat
  BY <1>5, CrewAssumption DEF TypeOK
<1>12. FramesFit' /\ OneOwner' /\ YoungerAbove' /\ Watched' /\ WordsExact' /\ SlotsHeld'
  BY <1>1, <1>4, <1>10, <1>11, QuietStep
<1>13. JobsExact'
  <2>1. \A c \in Calls : \A u \in Threads : \A e \in Nat \ {0} :
            u # t \/ e # h => (RunAt(u, e, c)' <=> RunAt(u, e, c))
    BY <1>5, <1>7, <1>10, CountsOnly
  <2>2. ASSUME NEW c \in Calls
        PROVE  /\ done'[c] + (IF RunAt(t, h, c)' THEN 1 ELSE 0) - Least(next'[c], jobs'[c])
                    = done[c] + (IF RunAt(t, h, c) THEN 1 ELSE 0) - Least(next[c], jobs[c])
               /\ c <= made' => jobs'[c] >= 2
               /\ c > made' => jobs'[c] = 0 /\ next'[c] = 0
    <3>1. /\ done[c] \in Nat /\ next[c] \in Nat /\ jobs[c] \in Nat
          /\ next' = next /\ jobs' = jobs /\ made' = made
      BY <1>1, <1>5, CrewAssumption DEF TypeOK
    <3>2. done'[c] = IF c = k THEN done[c] + 1 ELSE done[c]
      BY <1>3, <1>5, <1>6 DEF TypeOK
    <3>3. Least(next[c], jobs[c]) \in Nat
      BY <3>1 DEF Least
    <3>4. /\ RunAt(t, h, c) <=> c = k
          /\ RunAt(t, h, c)' <=> FALSE
      BY <1>2, <1>7
    <3>5. /\ c <= made => jobs[c] >= 2
          /\ c > made => jobs[c] = 0 /\ next[c] = 0
      BY DEF IInv, JobsExact
    <3> HIDE DEF k, h, f
    <3> QED BY <3>1, <3>2, <3>3, <3>4, <3>5
  <2> QED BY <1>2, <1>7, <1>10, <2>1, <2>2, JobsStep
<1> QED BY <1>10, <1>12, <1>13 DEF IInv

-------------------------------------------------------------------------------
(* Steps of a crew thread outside any call.                                *)

LEMMA InsideCounted ==
    ASSUME IInv, NEW t \in Threads, NEW d, NEW p \in Posts, InAt(t, d, p)
    PROVE  running[p] >= 1 /\ running[p] \in Nat
<1>1. IsFiniteSet(Inside(p)) /\ <<t, d>> \in Inside(p)
  BY SpotsAre DEF IInv, WordsExact, Inside, InAt
<1>2. Cardinality(Inside(p)) \in Nat /\ Cardinality(Inside(p)) >= 1
  BY <1>1, CardChange
<1> QED BY <1>2 DEF IInv, WordsExact

LEMMA BaseFrames ==
    ASSUME IInv, NEW t \in Threads, NEW was, At(t, was),
           Frame(t, Height(t)).role \in {"crew", "helper"},
           NEW g \in Frames, g.role \in {"crew", "helper"}, Become(t, g)
    PROVE  /\ t \in CrewThreads /\ Height(t) = 1 /\ Height(t)' = 1
           /\ stack' \in [Threads -> Seq(Frames)]
           /\ \A u \in CrewThreads : stack'[u] # <<>>
           /\ Frame(t, 1)' = g /\ OnlyAt(t, 1)
<1> DEFINE h == Height(t)  f == Frame(t, h)
<1>1. stack[t] # <<>> /\ h \in Nat \ {0} /\ Shape(t, h)
  BY TopIs
<1>2. t \in CrewThreads /\ h = 1
  BY <1>1 DEF Shape
<1>3. TypeOK
  BY DEF IInv
<1>4. /\ stack' \in [Threads -> Seq(Frames)]
      /\ \A u \in Threads : stack'[u] # <<>> <=> stack[u] # <<>>
      /\ Height(t)' = h /\ Frame(t, h)' = g /\ OnlyAt(t, h)
  BY <1>1, <1>3, BecomeFrames
<1> QED BY <1>2, <1>3, <1>4 DEF TypeOK, Threads

LEMMA BaseStep ==
    ASSUME IInv, TypeOK', NEW t \in Threads, NEW was, At(t, was), was # "run",
           Frame(t, Height(t)).role \in {"crew", "helper"},
           NEW g \in Frames, g.role \in {"crew", "helper"}, g.at # "run", Become(t, g),
           UNCHANGED <<claims, made, list, outside>>,
           mutex' = mutex \/ mutex = None \/ mutex = t,
           helpers' = helpers + (IF g.role = "helper" /\ g.at # "leave" THEN 1 ELSE 0)
               - (IF Frame(t, Height(t)).role = "helper" /\ was # "leave" THEN 1 ELSE 0),
           \A p \in Posts :
               /\ running'[p] = running[p]
                      + (IF g.at \in Joined /\ g.post = p THEN 1 ELSE 0)
                      - (IF was \in Joined /\ Frame(t, Height(t)).post = p THEN 1 ELSE 0)
               /\ wanted'[p] + running'[p] <= MaxJobs
               /\ wanted[p] = 0 /\ running[p] = 0 => wanted'[p] = 0 /\ running'[p] = 0,
           Shape(t, 1)', JoinedCall(t, 1)'
    PROVE  /\ FramesFit' /\ OneOwner' /\ YoungerAbove' /\ WordsExact' /\ JobsExact' /\ SlotsHeld'
           /\ g.at \notin {"parked", "scan"} => Watched'
<1> DEFINE f == Frame(t, 1)
<1>1. /\ t \in CrewThreads /\ Height(t) = 1 /\ Height(t)' = 1
      /\ Frame(t, 1)' = g /\ OnlyAt(t, 1) /\ Alike(t, 1)
  BY BaseFrames, OnlyAlike
<1>2. /\ f.at = was /\ f.role \in {"crew", "helper"}
      /\ \A p : InAt(t, 1, p) <=> f.role # "own" /\ f.at \in Joined /\ f.post = p
      /\ \A k : RunAt(t, 1, k) <=> FALSE
  BY <1>1, TopIs
<1>3. ~OwnAt(t, 1) /\ ~OwnAt(t, 1)'
  BY <1>1, <1>2 DEF OwnAt, IsOwn
<1>4. OneOwner' /\ YoungerAbove'
  BY <1>1, <1>3, OwnersKept
<1>5. FramesFit'
  <2>1. ASSUME NEW u \in Threads, NEW e \in Nat \ {0}, OwnAt(u, e), Frame(u, e).at = "offer"
        PROVE  wanted'[Frame(u, e).post] = 0 /\ running'[Frame(u, e).post] = 0
    <3>1. OwnCall(u, e)
      BY <2>1 DEF IInv, FramesFit, OwnAt
    <3> QED BY <2>1, <3>1 DEF OwnCall, OwnAt
  <2>2. made' >= made
    BY CrewAssumption DEF IInv, TypeOK
  <2>3. OwnCall(t, 1)'
    BY <1>1 DEF OwnCall, IsOwn
  <2> QED BY <1>1, <2>1, <2>2, <2>3, FitsStep
<1>6. WordsExact'
  <2>1. \A p \in Posts : \A u \in Threads : \A e \in Nat \ {0} :
            u # t \/ e # 1 => (InAt(u, e, p)' <=> InAt(u, e, p))
    BY <1>1, CountsOnly DEF IInv
  <2>2. \A p : InAt(t, 1, p)' <=> g.at \in Joined /\ g.post = p
    BY <1>1 DEF InAt, IsIn
  <2>3. ASSUME NEW p \in Posts
        PROVE  /\ running'[p] = running[p] + (IF InAt(t, 1, p)' THEN 1 ELSE 0)
                                           - (IF InAt(t, 1, p) THEN 1 ELSE 0)
               /\ wanted'[p] + running'[p] <= MaxJobs
               /\ claims'[p] <= made'
               /\ claims'[p] = None => wanted'[p] = 0 /\ running'[p] = 0
    BY <1>1, <1>2, <2>2 DEF IInv, WordsExact
  <2> QED BY <2>1, <2>3, WordsStep
<1>7. JobsExact'
  <2>1. \A k : RunAt(t, 1, k)' <=> FALSE
    BY <1>1 DEF RunAt
  <2>2. \A k \in Calls : \A u \in Threads : \A e \in Nat \ {0} :
            RunAt(u, e, k)' <=> RunAt(u, e, k)
    BY <1>1, <1>2, <2>1, CountsOnly DEF IInv
  <2> QED BY <2>2, JobsSame
<1>8. SlotsHeld'
  <2>1. HoldsOne(t) <=> f.role = "helper" /\ was # "leave"
    BY <1>1, <1>2 DEF HoldsOne
  <2>2. HoldsOne(t)' <=> g.role = "helper" /\ g.at # "leave"
    BY <1>1 DEF HoldsOne
  <2>3. helpers \in Nat /\ outside \in Nat
    BY CrewAssumption DEF IInv, TypeOK
  <2> QED BY <1>1, <2>1, <2>2, <2>3, SlotsStep
<1>9. g.at \notin {"parked", "scan"} => Watched'
  BY <1>1, WatchAwake
<1> QED BY <1>4, <1>5, <1>6, <1>7, <1>8, <1>9

LEMMA IdleFrames ==
    ASSUME NEW place \in Places, NEW q \in 0..Postings
    PROVE  LET g == Idle(place, q) IN
           g \in Frames /\ g.at = place /\ g.role = "crew" /\ g.post = q /\ g.call = None
<1>1. "crew" \in Roles /\ None \in 0..MaxCalls
  BY CrewAssumption DEF Roles, None
<1> QED BY <1>1 DEF Frames, Idle

LEMMA TakeStep ==
    ASSUME IInv, NEW t \in Threads, Take(t)
    PROVE  IInv'
<1> DEFINE h == Height(t)  f == Frame(t, h)
<1>1. At(t, "look") /\ UNCHANGED <<claims, closed, made, list, helpers, outside, mutex>>
  BY DEF Take
<1>2. PICK q \in Posts : Join(q) /\ Become(t, Idle("reserve", q))
  BY DEF Take
<1> DEFINE g == Idle("reserve", q)
<1>3. h \in Nat \ {0} /\ f \in Frames /\ f.at = "look" /\ Shape(t, h)
  BY <1>1, TopIs
<1>4. f.role \in {"crew", "helper"} /\ f.role # "helper"
  BY <1>3 DEF Shape, Frames, Roles
<1>5. /\ g \in Frames /\ g.at = "reserve" /\ g.role = "crew" /\ g.post = q /\ g.call = None
      /\ Become(t, g)
  <2>1. "reserve" \in Places /\ q \in 0..Postings
    BY CrewAssumption DEF Places, Posts
  <2> QED BY <1>2, <2>1, IdleFrames
<1> HIDE DEF g
<1>6. /\ t \in CrewThreads /\ h = 1 /\ Height(t)' = 1
      /\ stack' \in [Threads -> Seq(Frames)]
      /\ \A u \in CrewThreads : stack'[u] # <<>>
      /\ Frame(t, 1)' = g /\ OnlyAt(t, 1)
  BY <1>1, <1>4, <1>5, BaseFrames
<1>7. TypeOK
  BY DEF IInv
<1>8. /\ wanted[q] \in Nat /\ wanted[q] > 0 /\ running[q] \in Nat
      /\ wanted[q] + running[q] <= MaxJobs /\ claims[q] # None
      /\ wanted' = [wanted EXCEPT ![q] = @ - 1]
      /\ running' = [running EXCEPT ![q] = @ + 1]
  BY <1>2, <1>7, CrewAssumption DEF Join, TypeOK, IInv, WordsExact
<1>9. wanted' \in [Posts -> 0..MaxJobs] /\ running' \in [Posts -> 0..MaxJobs]
  BY <1>7, <1>8, CrewAssumption DEF TypeOK
<1>10. TypeOK'
  BY <1>1, <1>6, <1>7, <1>9 DEF TypeOK, list
<1>11. ASSUME NEW p \in Posts
       PROVE  /\ running'[p] = running[p] + (IF g.at \in Joined /\ g.post = p THEN 1 ELSE 0)
                                          - (IF "look" \in Joined /\ f.post = p THEN 1 ELSE 0)
              /\ wanted'[p] + running'[p] <= MaxJobs
              /\ wanted[p] = 0 /\ running[p] = 0 => wanted'[p] = 0 /\ running'[p] = 0
  <2>1. "look" \notin Joined /\ g.at \in Joined
    BY <1>5 DEF Joined
  <2>2. /\ wanted[p] \in Nat /\ running[p] \in Nat /\ wanted[p] + running[p] <= MaxJobs
        /\ wanted'[p] = IF p = q THEN wanted[p] - 1 ELSE wanted[p]
        /\ running'[p] = IF p = q THEN running[p] + 1 ELSE running[p]
    <3>1. wanted \in [Posts -> 0..MaxJobs] /\ running \in [Posts -> 0..MaxJobs]
      BY <1>7 DEF TypeOK
    <3>2. wanted[p] + running[p] <= MaxJobs
      BY DEF IInv, WordsExact
    <3> QED BY <1>8, <3>1, <3>2, CrewAssumption
  <2> QED BY <1>5, <1>8, <2>1, <2>2, CrewAssumption
<1>12. Shape(t, 1)' /\ JoinedCall(t, 1)'
  <2>1. Shape(t, 1)'
    BY <1>5, <1>6 DEF Shape
  <2>2. JoinedCall(t, 1)'
    BY <1>1, <1>5, <1>6, <1>8 DEF JoinedCall
  <2> QED BY <2>1, <2>2
<1>13. helpers' = helpers + (IF g.role = "helper" /\ g.at # "leave" THEN 1 ELSE 0)
                  - (IF f.role = "helper" /\ "look" # "leave" THEN 1 ELSE 0)
  BY <1>1, <1>4, <1>5, <1>7, CrewAssumption DEF TypeOK
<1>14. /\ FramesFit' /\ OneOwner' /\ YoungerAbove' /\ WordsExact' /\ JobsExact' /\ SlotsHeld'
       /\ Watched'
  BY <1>1, <1>4, <1>5, <1>10, <1>11, <1>12, <1>13, BaseStep
<1> QED BY <1>10, <1>14 DEF IInv

LEMMA ReserveStep ==
    ASSUME IInv, NEW t \in Threads, Reserve(t)
    PROVE  IInv'
<1> DEFINE h == Height(t)  f == Frame(t, h)  g == [f EXCEPT !.at = "enter", !.role = "helper"]
<1>1. At(t, "reserve") /\ UNCHANGED <<posting, made, list, outside, mutex>>
  BY DEF Reserve
<1>2. CASE Goto(t, "handback") /\ UNCHANGED helpers
  BY <1>1, <1>2, NoSlotStep
<1>3. CASE helpers < Limit /\ helpers' = helpers + 1
               /\ Become(t, [Top(t) EXCEPT !.at = "enter", !.role = "helper"])
  <2>1. /\ h \in Nat \ {0} /\ f \in Frames /\ f.at = "reserve" /\ Shape(t, h) /\ Top(t) = f
        /\ JoinedCall(t, h)
    BY <1>1, TopIs
  <2>2. f.role = "crew"
    BY <2>1 DEF Shape, Frames, Roles
  <2>3. /\ g \in Frames /\ g.at = "enter" /\ g.role = "helper" /\ g.post = f.post
        /\ g.call = f.call /\ Become(t, g)
    BY <1>3, <2>1 DEF Frames, Places, Roles
  <2> HIDE DEF g
  <2>4. /\ t \in CrewThreads /\ h = 1 /\ Height(t)' = 1
        /\ stack' \in [Threads -> Seq(Frames)]
        /\ \A u \in CrewThreads : stack'[u] # <<>>
        /\ Frame(t, 1)' = g /\ OnlyAt(t, 1)
    BY <1>1, <2>2, <2>3, BaseFrames
  <2>5. TypeOK
    BY DEF IInv
  <2>6. TypeOK'
    <3>1. helpers' \in outside'..Limit
      BY <1>1, <1>3, <2>5, CrewAssumption DEF TypeOK
    <3> QED BY <1>1, <2>4, <2>5, <3>1 DEF TypeOK, list, posting
  <2>7. claims' = claims /\ wanted' = wanted /\ running' = running
    BY <1>1 DEF posting
  <2>8. ASSUME NEW p \in Posts
        PROVE  /\ running'[p] = running[p] + (IF g.at \in Joined /\ g.post = p THEN 1 ELSE 0)
                                    - (IF "reserve" \in Joined /\ f.post = p THEN 1 ELSE 0)
               /\ wanted'[p] + running'[p] <= MaxJobs
               /\ wanted[p] = 0 /\ running[p] = 0 => wanted'[p] = 0 /\ running'[p] = 0
    <3>1. "reserve" \in Joined /\ g.at \in Joined
      BY <2>3 DEF Joined
    <3>2. running[p] \in Nat /\ wanted[p] + running[p] <= MaxJobs
      BY <2>5, CrewAssumption DEF TypeOK, IInv, WordsExact
    <3> QED BY <2>3, <2>7, <3>1, <3>2
  <2>9. Shape(t, 1)' /\ JoinedCall(t, 1)'
    <3>1. Shape(t, 1)'
      BY <2>3, <2>4 DEF Shape
    <3>2. f.post \in Posts /\ claims[f.post] # None /\ f.call = None
      BY <2>1, <2>2 DEF JoinedCall, IsIn, Joined
    <3>3. JoinedCall(t, 1)'
      BY <2>3, <2>4, <2>7, <3>2 DEF JoinedCall
    <3> QED BY <3>1, <3>3
  <2>10. helpers' = helpers + (IF g.role = "helper" /\ g.at # "leave" THEN 1 ELSE 0)
                    - (IF f.role = "helper" /\ "reserve" # "leave" THEN 1 ELSE 0)
    BY <1>3, <2>2, <2>3, <2>5, CrewAssumption DEF TypeOK
  <2>11. /\ FramesFit' /\ OneOwner' /\ YoungerAbove' /\ WordsExact' /\ JobsExact' /\ SlotsHeld'
         /\ Watched'
    BY <1>1, <2>2, <2>3, <2>6, <2>7, <2>8, <2>9, <2>10, BaseStep
  <2> QED BY <2>6, <2>11 DEF IInv
<1> QED BY <1>2, <1>3 DEF Reserve

\* A thread goes back to looking: the frame and what it counted for.
LEMMA RestStep ==
    ASSUME IInv, NEW t \in Threads, NEW was, At(t, was), was \in {"handback", "leave"},
           Frame(t, Height(t)).role \in {"crew", "helper"}, Become(t, Resting),
           NEW p \in Posts, p = Frame(t, Height(t)).post,
           running' = [running EXCEPT ![p] = @ - 1],
           \/ wanted' = wanted
           \/ wanted' = [wanted EXCEPT ![p] = @ + 1],
           UNCHANGED <<claims, closed, made, list, helpers, outside, mutex>>,
           was = "leave" \/ Frame(t, Height(t)).role = "crew"
    PROVE  IInv'
<1> DEFINE h == Height(t)  f == Frame(t, h)  g == Idle("look", 0)
<1>1. /\ h \in Nat \ {0} /\ f \in Frames /\ f.at = was /\ Shape(t, h)
      /\ \A q : InAt(t, h, q) <=> f.role # "own" /\ f.at \in Joined /\ f.post = q
  BY TopIs
<1>2. g \in Frames /\ g.at = "look" /\ g.role = "crew" /\ Become(t, g)
  <2>1. "look" \in Places /\ 0 \in 0..Postings
    BY CrewAssumption DEF Places
  <2> QED BY <2>1, IdleFrames DEF Resting
<1> HIDE DEF g
<1>3. /\ t \in CrewThreads /\ h = 1 /\ Height(t)' = 1
      /\ stack' \in [Threads -> Seq(Frames)]
      /\ \A u \in CrewThreads : stack'[u] # <<>>
      /\ Frame(t, 1)' = g /\ OnlyAt(t, 1)
  BY <1>2, BaseFrames
<1>4. TypeOK
  BY DEF IInv
<1>5. was \in Joined /\ g.at \notin Joined
  BY <1>2 DEF Joined
<1>6. running[p] >= 1 /\ running[p] \in Nat
  <2>1. InAt(t, h, p)
    BY <1>1, <1>5
  <2> QED BY <2>1, InsideCounted
<1>7. ASSUME NEW q \in Posts
      PROVE  /\ running'[q] = running[q] + (IF g.at \in Joined /\ g.post = q THEN 1 ELSE 0)
                                   - (IF was \in Joined /\ f.post = q THEN 1 ELSE 0)
             /\ running'[q] \in Nat /\ wanted'[q] \in Nat
             /\ wanted'[q] + running'[q] <= MaxJobs
             /\ wanted[q] = 0 /\ running[q] = 0 => wanted'[q] = 0 /\ running'[q] = 0
  <2>1. /\ wanted[q] \in Nat /\ running[q] \in Nat /\ wanted[q] + running[q] <= MaxJobs
        /\ wanted'[q] = wanted[q] \/ (q = p /\ wanted'[q] = wanted[q] + 1)
        /\ running'[q] = IF q = p THEN running[q] - 1 ELSE running[q]
    <3>1. wanted \in [Posts -> 0..MaxJobs] /\ running \in [Posts -> 0..MaxJobs]
      BY <1>4 DEF TypeOK
    <3>2. wanted[q] + running[q] <= MaxJobs
      BY DEF IInv, WordsExact
    <3> QED BY <3>1, <3>2, CrewAssumption
  <2> QED BY <1>5, <1>6, <2>1, CrewAssumption
<1>8. wanted' \in [Posts -> 0..MaxJobs] /\ running' \in [Posts -> 0..MaxJobs]
  <2>1. \A q \in Posts : wanted'[q] \in 0..MaxJobs /\ running'[q] \in 0..MaxJobs
    BY <1>7, CrewAssumption
  <2>2. DOMAIN wanted' = Posts /\ DOMAIN running' = Posts
    BY <1>4 DEF TypeOK
  <2>3. wanted' = [q \in Posts |-> wanted'[q]] /\ running' = [q \in Posts |-> running'[q]]
    BY <1>4, <2>2 DEF TypeOK
  <2> QED BY <2>1, <2>3
<1>9. TypeOK'
  BY <1>3, <1>4, <1>8 DEF TypeOK, list
<1>10. Shape(t, 1)' /\ JoinedCall(t, 1)'
  BY <1>2, <1>3 DEF Shape, JoinedCall, IsIn, Joined
<1>11. helpers' = helpers + (IF g.role = "helper" /\ g.at # "leave" THEN 1 ELSE 0)
                  - (IF f.role = "helper" /\ was # "leave" THEN 1 ELSE 0)
  BY <1>2, <1>4, CrewAssumption DEF TypeOK
<1>12. was # "run"
  OBVIOUS
<1>13. /\ FramesFit' /\ OneOwner' /\ YoungerAbove' /\ WordsExact' /\ JobsExact' /\ SlotsHeld'
       /\ Watched'
  BY <1>2, <1>7, <1>9, <1>10, <1>11, <1>12, BaseStep
<1> QED BY <1>9, <1>13 DEF IInv

LEMMA HandBackStep ==
    ASSUME IInv, NEW t \in Threads, HandBack(t)
    PROVE  IInv'
<1> DEFINE h == Height(t)  f == Frame(t, h)
<1>1. /\ At(t, "handback") /\ Become(t, Resting)
      /\ UNCHANGED <<claims, closed, made, list, helpers, outside, mutex>>
  BY DEF HandBack
<1>2. /\ h \in Nat \ {0} /\ f \in Frames /\ f.at = "handback" /\ Shape(t, h) /\ Top(t) = f
      /\ JoinedCall(t, h)
  BY <1>1, TopIs
<1>3. f.role = "crew" /\ f.post \in Posts
  <2>1. f.role = "crew"
    BY <1>2 DEF Shape, Frames, Roles
  <2> QED BY <1>2, <2>1 DEF JoinedCall, IsIn, Joined
<1>4. /\ running' = [running EXCEPT ![f.post] = @ - 1]
      /\ wanted' = [wanted EXCEPT ![f.post] = IF closed[f.post] THEN @ ELSE @ + 1]
  BY <1>2 DEF HandBack
<1>5. \/ wanted' = wanted
      \/ wanted' = [wanted EXCEPT ![f.post] = @ + 1]
  BY <1>3, <1>4 DEF IInv, TypeOK
<1> QED BY <1>1, <1>2, <1>3, <1>4, <1>5, RestStep

LEMMA LeaveHelperStep ==
    ASSUME IInv, NEW t \in Threads, Leave(t), Top(t).role = "helper"
    PROVE  IInv'
<1> DEFINE h == Height(t)  f == Frame(t, h)
<1>1. /\ At(t, "leave") /\ Become(t, Resting)
      /\ UNCHANGED <<claims, wanted, closed, made, list, helpers, outside, mutex>>
  BY DEF Leave
<1>2. /\ h \in Nat \ {0} /\ f \in Frames /\ f.at = "leave" /\ Top(t) = f /\ JoinedCall(t, h)
  BY <1>1, TopIs
<1>3. f.role = "helper" /\ f.post \in Posts
  BY <1>2 DEF JoinedCall, IsIn, Joined
<1>4. running' = [running EXCEPT ![f.post] = @ - 1]
  BY <1>2 DEF Leave
<1> QED BY <1>1, <1>2, <1>3, <1>4, RestStep

\* A crew thread that looks, sleeps or wakes.
LEMMA RoamStep ==
    ASSUME IInv, NEW t \in Threads,
           NEW was \in {"look", "awake", "scan", "parked"}, At(t, was),
           NEW place \in {"look", "awake", "scan", "parked"}, NEW q \in 0..Postings,
           Become(t, Idle(place, q)),
           UNCHANGED <<posting, made, list, helpers, outside>>,
           mutex' \in {None} \cup Threads,
           mutex' = mutex \/ mutex = None \/ mutex = t,
           place = "scan" => mutex' = t /\ q \in Posts
    PROVE  /\ TypeOK' /\ FramesFit' /\ OneOwner' /\ YoungerAbove' /\ WordsExact' /\ JobsExact'
           /\ SlotsHeld'
           /\ place \notin {"parked", "scan"} => Watched'
           /\ t \in CrewThreads /\ Height(t) = 1 /\ Height(t)' = 1 /\ OnlyAt(t, 1)
           /\ Frame(t, 1)' = Idle(place, q)
<1> DEFINE h == Height(t)  f == Frame(t, h)  g == Idle(place, q)
<1>1. h \in Nat \ {0} /\ f \in Frames /\ f.at = was /\ Shape(t, h)
  BY TopIs
<1>2. f.role = "crew"
  BY <1>1 DEF Shape, Frames, Roles
<1>3. /\ g \in Frames /\ g.at = place /\ g.role = "crew" /\ g.post = q /\ g.call = None
      /\ Become(t, g)
  <2>1. place \in Places
    BY DEF Places
  <2> QED BY <2>1, IdleFrames
<1> HIDE DEF g
<1>4. /\ t \in CrewThreads /\ h = 1 /\ Height(t)' = 1
      /\ stack' \in [Threads -> Seq(Frames)]
      /\ \A u \in CrewThreads : stack'[u] # <<>>
      /\ Frame(t, 1)' = g /\ OnlyAt(t, 1)
  BY <1>2, <1>3, BaseFrames
<1>5. TypeOK
  BY DEF IInv
<1>6. claims' = claims /\ wanted' = wanted /\ running' = running /\ closed' = closed
  BY DEF posting
<1>7. TypeOK'
  BY <1>4, <1>5, <1>6 DEF TypeOK, list
<1>8. was \notin Joined /\ g.at \notin Joined /\ g.at # "run" /\ was # "run"
  BY <1>3 DEF Joined
<1>9. \A p \in Posts :
          /\ running'[p] = running[p] + (IF g.at \in Joined /\ g.post = p THEN 1 ELSE 0)
                                      - (IF was \in Joined /\ f.post = p THEN 1 ELSE 0)
          /\ wanted'[p] + running'[p] <= MaxJobs
          /\ wanted[p] = 0 /\ running[p] = 0 => wanted'[p] = 0 /\ running'[p] = 0
  BY <1>5, <1>6, <1>8, CrewAssumption DEF TypeOK, IInv, WordsExact
<1>10. Shape(t, 1)' /\ JoinedCall(t, 1)'
  <2>1. Shape(t, 1)'
    BY <1>3, <1>4 DEF Shape
  <2>2. JoinedCall(t, 1)'
    BY <1>3, <1>4, <1>8 DEF JoinedCall, IsIn
  <2> QED BY <2>1, <2>2
<1>11. helpers' = helpers + (IF g.role = "helper" /\ g.at # "leave" THEN 1 ELSE 0)
                  - (IF f.role = "helper" /\ was # "leave" THEN 1 ELSE 0)
  BY <1>2, <1>3, <1>5, CrewAssumption DEF TypeOK
<1>12. /\ FramesFit' /\ OneOwner' /\ YoungerAbove' /\ WordsExact' /\ JobsExact' /\ SlotsHeld'
       /\ g.at \notin {"parked", "scan"} => Watched'
  BY <1>2, <1>3, <1>6, <1>7, <1>8, <1>9, <1>10, <1>11, BaseStep
<1>13. Frame(t, 1)' = Idle(place, q)
  BY <1>4 DEF g
<1> QED BY <1>3, <1>4, <1>7, <1>12, <1>13

LEMMA WantingSame ==
    ASSUME IInv, TypeOK', NEW t \in Threads, NEW d \in Nat \ {0}, OnlyAt(t, d),
           ~OwnAt(t, d)', wanted' = wanted, NEW p, Wanting(p)'
    PROVE  Wanting(p)
<1>1. PICK u \in Threads : \E e \in 1..Height(u)' :
          /\ IsOwn(u, e)' /\ Frame(u, e)'.post = p
          /\ Frame(u, e)'.at \in {"claim", "run", "close"}
  BY DEF Wanting
<1>2. PICK e \in 1..Height(u)' :
          /\ IsOwn(u, e)' /\ Frame(u, e)'.post = p
          /\ Frame(u, e)'.at \in {"claim", "run", "close"}
  BY <1>1
<1>3. Height(u) \in Nat /\ Height(u)' \in Nat
  BY Heights, HeightsNext DEF IInv
<1>4. u # t \/ e # d
  BY <1>2 DEF OwnAt
<1>5. e \in 1..Height(u) /\ Frame(u, e)' = Frame(u, e)
  BY <1>2, <1>3, <1>4 DEF OnlyAt
<1>6. wanted[p] > 0
  BY DEF Wanting
<1> QED BY <1>2, <1>5, <1>6 DEF Wanting, IsOwn

LEMMA WatchesSame ==
    ASSUME IInv, NEW t \in Threads, NEW d, OnlyAt(t, d), NEW u \in CrewThreads, u # t, NEW p,
           Watches(u, p)
    PROVE  Watches(u, p)'
<1>1. u \in Threads \ {t} /\ stack[u] # <<>>
  BY DEF Threads, IInv, TypeOK
<1>2. Height(u) \in Nat \ {0}
  BY <1>1, FramesOfStack DEF IInv
<1>3. Height(u)' = Height(u) /\ Frame(u, Height(u))' = Frame(u, Height(u))
  BY <1>1, <1>2 DEF OnlyAt
<1> QED BY <1>3 DEF Watches

LEMMA SpuriousWakeupStep ==
    ASSUME IInv, NEW t \in CrewThreads, SpuriousWakeup(t)
    PROVE  IInv'
<1>1. /\ At(t, "parked") /\ Become(t, Idle("awake", 0))
      /\ UNCHANGED <<posting, made, list, helpers, outside, mutex>>
  BY DEF SpuriousWakeup, Woken
<1>2. t \in Threads /\ 0 \in 0..Postings /\ mutex \in {None} \cup Threads
  BY CrewAssumption DEF Threads, IInv, TypeOK
<1>3. /\ TypeOK' /\ FramesFit' /\ OneOwner' /\ YoungerAbove' /\ WordsExact' /\ JobsExact'
      /\ SlotsHeld' /\ Watched'
  BY <1>1, <1>2, RoamStep
<1> QED BY <1>3 DEF IInv

LEMMA ScanStep ==
    ASSUME IInv, NEW t \in CrewThreads, Scan(t)
    PROVE  IInv'
<1>1. /\ At(t, "look") \/ At(t, "awake")
      /\ mutex = None /\ mutex' = t /\ Become(t, Idle("scan", 1))
      /\ UNCHANGED <<posting, made, list, helpers, outside>>
  BY DEF Scan
<1>2. t \in Threads /\ 1 \in 0..Postings /\ 1 \in Posts
  BY CrewAssumption DEF Threads, Posts
<1>3. /\ TypeOK' /\ FramesFit' /\ OneOwner' /\ YoungerAbove' /\ WordsExact' /\ JobsExact'
      /\ SlotsHeld' /\ OnlyAt(t, 1) /\ Height(t)' = 1 /\ Frame(t, 1)' = Idle("scan", 1)
  BY <1>1, <1>2, RoamStep
<1>4. Watched'
  <2>1. \A p \in Posts : Watches(t, p)'
    <3>1. Frame(t, Height(t))'.at = "scan" /\ Frame(t, Height(t))'.post = 1
      BY <1>3 DEF Idle
    <3> QED BY <3>1, CrewAssumption DEF Watches, Posts
  <2> QED BY <2>1 DEF Watched
<1> QED BY <1>3, <1>4 DEF IInv

LEMMA ScanNextStep ==
    ASSUME IInv, NEW t \in CrewThreads, ScanNext(t)
    PROVE  IInv'
<1> DEFINE h == Height(t)  f == Frame(t, h)  p == f.post
<1>1. /\ At(t, "scan") /\ UNCHANGED <<posting, made, list, helpers, outside>>
      /\ t \in Threads
  BY DEF ScanNext, Threads
<1>2. h \in Nat \ {0} /\ f \in Frames /\ f.at = "scan" /\ Shape(t, h) /\ Top(t) = f
  BY <1>1, TopIs
<1>3. /\ mutex = t /\ p \in Posts /\ f.role = "crew"
      /\ f.call \in 0..MaxCalls
  BY <1>2 DEF Shape, Frames, Roles
<1>4. /\ \A q \in Posts : wanted[q] \in Nat
      /\ wanted' = wanted
  BY <1>1, CrewAssumption DEF IInv, TypeOK, posting
<1>5. CASE wanted[p] > 0
  <2>1. Become(t, Idle("look", 0)) /\ mutex' = None
    BY <1>2, <1>5 DEF ScanNext, Resting
  <2>2. 0 \in 0..Postings
    BY CrewAssumption
  <2>3. /\ TypeOK' /\ FramesFit' /\ OneOwner' /\ YoungerAbove' /\ WordsExact' /\ JobsExact'
        /\ SlotsHeld' /\ Watched'
    BY <1>1, <1>3, <2>1, <2>2, RoamStep
  <2> QED BY <2>3 DEF IInv
<1>6. CASE ~(wanted[p] > 0) /\ p < Postings
  <2>1. Become(t, Idle("scan", p + 1)) /\ mutex' = mutex
    BY <1>2, <1>6 DEF ScanNext
  <2>2. mutex \in {None} \cup Threads
    BY DEF IInv, TypeOK
  <2>3. p + 1 \in 0..Postings /\ p + 1 \in Posts
    BY <1>3, <1>6, CrewAssumption DEF Posts
  <2>4. /\ TypeOK' /\ FramesFit' /\ OneOwner' /\ YoungerAbove' /\ WordsExact' /\ JobsExact'
        /\ SlotsHeld' /\ Height(t) = 1
        /\ OnlyAt(t, 1) /\ Height(t)' = 1 /\ Frame(t, 1)' = Idle("scan", p + 1)
    BY <1>1, <1>3, <2>1, <2>2, <2>3, RoamStep
  <2>5. Watched'
    <3>1. ASSUME NEW q \in Posts, Wanting(q)'
          PROVE  CrewThreads = {} \/ \E u \in CrewThreads : Watches(u, q)'
      <4>1. Wanting(q)
        <5>1. ~OwnAt(t, 1)'
          BY <2>4 DEF OwnAt, IsOwn, Idle
        <5> QED BY <1>1, <1>4, <2>4, <3>1, <5>1, WantingSame
      <4>2. PICK u \in CrewThreads : Watches(u, q)
        BY <4>1 DEF IInv, Watched
      <4>3. CASE u = t
        <5>1. p <= q /\ p # q
          BY <1>2, <1>6, <4>1, <4>2, <4>3 DEF Watches, Wanting
        <5>2. p + 1 <= q
          BY <1>3, <5>1 DEF Posts
        <5>3. Watches(t, q)'
          BY <2>4, <5>2 DEF Watches, Idle
        <5> QED BY <5>3
      <4>4. CASE u # t
        BY <1>1, <2>4, <4>2, <4>4, WatchesSame
      <4> QED BY <4>3, <4>4
    <3> QED BY <3>1 DEF Watched
  <2> QED BY <2>4, <2>5 DEF IInv
<1>7. CASE ~(wanted[p] > 0) /\ ~(p < Postings)
  <2>1. Become(t, Idle("parked", 0)) /\ mutex' = None
    BY <1>2, <1>7 DEF ScanNext
  <2>2. 0 \in 0..Postings
    BY CrewAssumption
  <2>4. /\ TypeOK' /\ FramesFit' /\ OneOwner' /\ YoungerAbove' /\ WordsExact' /\ JobsExact'
        /\ SlotsHeld' /\ Height(t) = 1
        /\ OnlyAt(t, 1) /\ Height(t)' = 1 /\ Frame(t, 1)' = Idle("parked", 0)
    BY <1>1, <1>3, <2>1, <2>2, RoamStep
  <2>5. Watched'
    <3>1. ASSUME NEW q \in Posts, Wanting(q)'
          PROVE  CrewThreads = {} \/ \E u \in CrewThreads : Watches(u, q)'
      <4>1. Wanting(q)
        <5>1. ~OwnAt(t, 1)'
          BY <2>4 DEF OwnAt, IsOwn, Idle
        <5> QED BY <1>1, <1>4, <2>4, <3>1, <5>1, WantingSame
      <4>2. PICK u \in CrewThreads : Watches(u, q)
        BY <4>1 DEF IInv, Watched
      <4>3. u # t
        <5>1. SUFFICES ASSUME u = t PROVE FALSE
          OBVIOUS
        <5>2. p <= q /\ p # q
          BY <1>2, <1>7, <4>1, <4>2, <5>1 DEF Watches, Wanting
        <5>3. q \in 1..Postings /\ p \in 1..Postings /\ Postings \in Nat
          BY <1>3, <3>1, CrewAssumption DEF Posts
        <5> HIDE DEF p
        <5> QED BY <1>7, <5>2, <5>3
      <4> QED BY <1>1, <2>4, <4>2, <4>3, WatchesSame
    <3> QED BY <3>1 DEF Watched
  <2> QED BY <2>4, <2>5 DEF IInv
<1> QED BY <1>5, <1>6, <1>7

-------------------------------------------------------------------------------
(* Steps into a posting and out of it, and calls made and ended.           *)

LEMMA EnterStep ==
    ASSUME IInv, NEW t \in Threads, Enter(t)
    PROVE  IInv'
<1> DEFINE h == Height(t)  f == Frame(t, h)
           g == [f EXCEPT !.at = "claim", !.call = claims[f.post]]
<1>1. At(t, "enter") /\ UNCHANGED <<posting, made, list, helpers, outside, mutex>>
  BY DEF Enter
<1>2. /\ stack[t] # <<>> /\ h \in Nat \ {0} /\ h \in 1..h
      /\ f \in Frames /\ f.at = "enter" /\ Shape(t, h) /\ Top(t) = f
      /\ JoinedCall(t, h)
      /\ \A p : InAt(t, h, p) <=> f.role # "own" /\ f.at \in Joined /\ f.post = p
      /\ \A k : RunAt(t, h, k) <=> FALSE
  BY <1>1, TopIs
<1>3. Become(t, g)
  BY <1>2 DEF Enter
<1>4. TypeOK
  BY DEF IInv
<1>5. f.role \in {"helper", "guest"} /\ f.role # "own" /\ f.role # "crew"
  BY <1>2 DEF Shape, Frames, Roles
<1>6. f.post \in Posts /\ claims[f.post] # None /\ claims[f.post] \in 0..MaxCalls
  <2>1. f.post \in Posts /\ claims[f.post] # None
    BY <1>2, <1>5 DEF JoinedCall, IsIn, Joined
  <2> QED BY <1>4, <2>1 DEF TypeOK
<1>7. /\ g \in Frames /\ g.at = "claim" /\ g.role = f.role /\ g.post = f.post
      /\ g.call = claims[f.post]
  BY <1>2, <1>6 DEF Frames, Places
<1> HIDE DEF g
<1>8. /\ stack' \in [Threads -> Seq(Frames)]
      /\ \A u \in Threads : stack'[u] # <<>> <=> stack[u] # <<>>
      /\ Height(t)' = h /\ Frame(t, h)' = g /\ OnlyAt(t, h)
  BY <1>2, <1>3, <1>4, <1>7, BecomeFrames
<1>9. claims' = claims /\ wanted' = wanted /\ running' = running /\ closed' = closed
  BY <1>1 DEF posting
<1>10. TypeOK'
  <2>1. \A u \in CrewThreads : stack'[u] # <<>>
    BY <1>4, <1>8 DEF TypeOK, Threads
  <2> QED BY <1>1, <1>4, <1>8, <1>9, <2>1 DEF TypeOK, list
<1>11. Alike(t, h) /\ ~OwnAt(t, h) /\ ~OwnAt(t, h)'
  BY <1>2, <1>5, <1>7, <1>8, OnlyAlike DEF OwnAt, IsOwn
<1>12. OneOwner' /\ YoungerAbove'
  <2>1. h >= Height(t)'
    BY <1>2, <1>8
  <2> QED BY <1>2, <1>8, <1>9, <1>10, <1>11, <2>1, OwnersKept
<1>13. FramesFit'
  <2>1. Shape(t, h)'
    BY <1>2, <1>5, <1>7, <1>8 DEF Shape
  <2>2. OwnCall(t, h)'
    BY <1>5, <1>7, <1>8 DEF OwnCall, IsOwn
  <2>3. JoinedCall(t, h)'
    BY <1>6, <1>7, <1>8, <1>9 DEF JoinedCall
  <2>4. ASSUME NEW u \in Threads, NEW e \in Nat \ {0}, OwnAt(u, e), Frame(u, e).at = "offer"
        PROVE  wanted'[Frame(u, e).post] = 0 /\ running'[Frame(u, e).post] = 0
    <3>1. OwnCall(u, e)
      BY <2>4 DEF IInv, FramesFit, OwnAt
    <3> QED BY <1>9, <2>4, <3>1 DEF OwnCall, OwnAt
  <2>5. h >= h /\ ~(h > h) /\ made' >= made /\ mutex' = mutex
    BY <1>1, <1>2, CrewAssumption DEF IInv, TypeOK
  <2> QED BY <1>2, <1>8, <1>9, <1>10, <2>1, <2>2, <2>3, <2>4, <2>5, FitsStep
<1>14. WordsExact'
  <2>1. \A p \in Posts : \A u \in Threads : \A e \in Nat \ {0} :
            u # t \/ e # h => (InAt(u, e, p)' <=> InAt(u, e, p))
    BY <1>4, <1>8, <1>10, CountsOnly
  <2>2. \A p : InAt(t, h, p)' <=> InAt(t, h, p)
    <3>1. \A p : InAt(t, h, p)' <=> f.post = p
      BY <1>2, <1>5, <1>7, <1>8 DEF InAt, IsIn, Joined
    <3>2. "enter" \in Joined
      BY DEF Joined
    <3> QED BY <1>2, <1>5, <3>1, <3>2
  <2>3. ASSUME NEW p \in Posts
        PROVE  /\ running'[p] = running[p] + (IF InAt(t, h, p)' THEN 1 ELSE 0)
                                           - (IF InAt(t, h, p) THEN 1 ELSE 0)
               /\ wanted'[p] + running'[p] <= MaxJobs
               /\ claims'[p] <= made'
               /\ claims'[p] = None => wanted'[p] = 0 /\ running'[p] = 0
    <3>1. running[p] \in Nat
      BY <1>4, CrewAssumption DEF TypeOK
    <3> QED BY <1>1, <1>9, <2>2, <3>1 DEF IInv, WordsExact
  <2> QED BY <1>2, <1>8, <1>10, <2>1, <2>3, WordsStep
<1>15. JobsExact'
  <2>1. \A k : RunAt(t, h, k)' <=> FALSE
    BY <1>7, <1>8 DEF RunAt
  <2>2. \A k \in Calls : \A u \in Threads : \A e \in Nat \ {0} :
            RunAt(u, e, k)' <=> RunAt(u, e, k)
    BY <1>2, <1>4, <1>8, <1>10, <2>1, CountsOnly
  <2> QED BY <1>1, <1>2, <1>10, <2>2, JobsSame
<1>16. SlotsHeld'
  <2>1. HoldsOne(t)' <=> HoldsOne(t)
    <3>1. CASE h = 1
      BY <1>2, <1>7, <1>8, <3>1 DEF HoldsOne
    <3>2. CASE h > 1
      BY <1>2, <1>8, <3>2, HoldsSame
    <3> QED BY <1>2, <3>1, <3>2
  <2>2. helpers' - outside' = helpers - outside /\ helpers - outside \in Int
    BY <1>1, <1>4, CrewAssumption DEF TypeOK
  <2> QED BY <1>2, <1>8, <1>10, <2>1, <2>2, SlotsStep
<1>17. Watched'
  <2>1. CASE t \in CrewThreads
    BY <1>7, <1>8, <2>1, WatchAwake
  <2>2. CASE t \in Callers
    <3>1. \A u \in Threads : \A e \in Nat \ {0} :
              (u # t \/ e # h) /\ OwnAt(u, e)' => Frame(u, e)' = Frame(u, e)
      BY <1>8, <1>10, Heights, HeightsNext DEF OnlyAt, OwnAt, IInv
    <3>2. \A u \in CrewThreads :
              Height(u)' = Height(u) /\ Frame(u, Height(u))' = Frame(u, Height(u))
      BY <1>2, <1>8, <2>2, CrewKept
    <3>3. \A p \in Posts : wanted'[p] <= wanted[p]
      BY <1>4, <1>9, CrewAssumption DEF TypeOK
    <3> QED BY <1>2, <1>8, <1>10, <1>11, <1>12, <2>2, <3>1, <3>2, <3>3, WatchCaller
  <2> QED BY <2>1, <2>2 DEF Threads
<1> QED BY <1>10, <1>12, <1>13, <1>14, <1>15, <1>16, <1>17 DEF IInv

LEMMA WordsTyped ==
    ASSUME IInv, NEW q \in Posts
    PROVE  /\ wanted[q] \in Nat /\ running[q] \in Nat /\ wanted[q] + running[q] <= MaxJobs
           /\ claims[q] <= made
           /\ claims[q] = None => wanted[q] = 0 /\ running[q] = 0
<1>1. wanted \in [Posts -> 0..MaxJobs] /\ running \in [Posts -> 0..MaxJobs]
  BY DEF IInv, TypeOK
<1>2. wanted[q] \in 0..MaxJobs /\ running[q] \in 0..MaxJobs
  BY <1>1
<1>3. /\ wanted[q] + running[q] <= MaxJobs /\ claims[q] <= made
      /\ claims[q] = None => wanted[q] = 0 /\ running[q] = 0
  BY DEF IInv, WordsExact
<1> QED BY <1>2, <1>3

LEMMA LeaveGuestStep ==
    ASSUME IInv, NEW t \in Threads, Leave(t), Top(t).role # "helper"
    PROVE  IInv'
<1> DEFINE h == Height(t)  f == Frame(t, h)  p == f.post
<1>1. /\ At(t, "leave") /\ Pop(t)
      /\ UNCHANGED <<claims, wanted, closed, made, list, helpers, outside, mutex>>
  BY DEF Leave
<1>2. /\ stack[t] # <<>> /\ h \in Nat \ {0} /\ h \in 1..h
      /\ f \in Frames /\ f.at = "leave" /\ Shape(t, h) /\ Top(t) = f
      /\ JoinedCall(t, h) /\ (OwnAt(t, h) <=> f.role = "own")
      /\ \A q : InAt(t, h, q) <=> f.role # "own" /\ f.at \in Joined /\ f.post = q
      /\ \A k : RunAt(t, h, k) <=> FALSE
  BY <1>1, TopIs
<1>3. f.role = "guest" /\ h > 1
  BY <1>2 DEF Shape, Frames, Roles
<1>4. TypeOK
  BY DEF IInv
<1>5. p \in Posts /\ running' = [running EXCEPT ![p] = @ - 1]
  BY <1>2, <1>3 DEF JoinedCall, IsIn, Joined, Leave
<1>6. \A q : InAt(t, h, q) <=> p = q
  BY <1>2, <1>3 DEF Joined
<1>7. running[p] >= 1 /\ running[p] \in Nat
  BY <1>5, <1>6, InsideCounted
<1>8. /\ stack' \in [Threads -> Seq(Frames)]
      /\ \A u \in Threads : u # t => (stack'[u] # <<>> <=> stack[u] # <<>>)
      /\ stack'[t] # <<>> /\ Height(t)' = h - 1 /\ OnlyAt(t, h)
  BY <1>1, <1>2, <1>3, <1>4, PopFrames
<1>9. TypeOK'
  <2>1. \A u \in CrewThreads : stack'[u] # <<>>
    BY <1>4, <1>8 DEF TypeOK, Threads
  <2>2. running' \in [Posts -> 0..MaxJobs]
    BY <1>4, <1>5, <1>7, CrewAssumption DEF TypeOK
  <2> QED BY <1>1, <1>4, <1>8, <2>1, <2>2 DEF TypeOK, list
<1>10. /\ ~(h \in 1..(h - 1)) /\ h >= Height(t)' /\ h >= h /\ ~(h > h) /\ ~(h <= Height(t)')
       /\ h - 1 \in 1..(h - 1) /\ h - 1 \in Nat \ {0} /\ h - 1 # h
  BY <1>2, <1>3, <1>8
<1>11. Alike(t, h) /\ ~OwnAt(t, h)
  BY <1>2, <1>3, <1>8, OnlyAlike
<1>12. \A e : e = h => ~OwnAt(t, e)' /\ \A q : ~InAt(t, e, q)' /\ ~RunAt(t, e, q)'
  BY <1>8, <1>10 DEF OwnAt, InAt, RunAt
<1>13. OneOwner' /\ YoungerAbove'
  BY <1>1, <1>2, <1>9, <1>10, <1>11, <1>12, OwnersKept
<1>14. FramesFit'
  <2>1. ASSUME NEW u \in Threads, NEW e \in Nat \ {0}, OwnAt(u, e), Frame(u, e).at = "offer"
        PROVE  wanted'[Frame(u, e).post] = 0 /\ running'[Frame(u, e).post] = 0
    <3> DEFINE q == Frame(u, e).post
    <3>1. OwnCall(u, e)
      BY <2>1 DEF IInv, FramesFit, OwnAt
    <3>2. q \in Posts /\ wanted[q] = 0 /\ running[q] = 0
      BY <2>1, <3>1 DEF OwnCall, OwnAt
    <3>3. q # p
      BY <1>7, <3>2
    <3> QED BY <1>1, <1>4, <1>5, <3>2, <3>3 DEF TypeOK
  <2>2. made' >= made
    BY <1>1, CrewAssumption DEF IInv, TypeOK
  <2> QED BY <1>1, <1>2, <1>8, <1>9, <1>10, <2>1, <2>2, FitsStep
<1>15. WordsExact'
  <2>1. \A q \in Posts : \A u \in Threads : \A e \in Nat \ {0} :
            u # t \/ e # h => (InAt(u, e, q)' <=> InAt(u, e, q))
    BY <1>4, <1>8, <1>9, CountsOnly
  <2>2. ASSUME NEW d, d = h, NEW q \in Posts
        PROVE  /\ running'[q] = running[q] + (IF InAt(t, d, q)' THEN 1 ELSE 0)
                                           - (IF InAt(t, d, q) THEN 1 ELSE 0)
               /\ wanted'[q] + running'[q] <= MaxJobs
               /\ claims'[q] <= made'
               /\ claims'[q] = None => wanted'[q] = 0 /\ running'[q] = 0
    <3>1. /\ running[q] \in Nat /\ wanted[q] \in Nat /\ wanted[q] + running[q] <= MaxJobs
          /\ running'[q] = IF q = p THEN running[q] - 1 ELSE running[q]
          /\ claims[q] <= made
          /\ claims[q] = None => wanted[q] = 0 /\ running[q] = 0
      <4>1. running \in [Posts -> 0..MaxJobs]
        BY <1>4 DEF TypeOK
      <4>2. running'[q] = IF q = p THEN running[q] - 1 ELSE running[q]
        BY <1>5, <4>1
      <4> QED BY <4>2, WordsTyped
    <3>2. InAt(t, d, q) <=> p = q
      BY <1>6, <2>2
    <3>3. ~InAt(t, d, q)'
      BY <1>12, <2>2
    <3> HIDE DEF p
    <3> QED BY <1>1, <1>7, <3>1, <3>2, <3>3, CrewAssumption
  <2> QED BY <1>2, <1>9, <2>1, <2>2, WordsStep
<1>16. JobsExact'
  <2>1. \A k \in Calls : \A u \in Threads : \A e \in Nat \ {0} :
            RunAt(u, e, k)' <=> RunAt(u, e, k)
    BY <1>2, <1>4, <1>8, <1>9, <1>12, CountsOnly
  <2> QED BY <1>1, <1>2, <1>9, <2>1, JobsSame
<1>17. SlotsHeld'
  <2>1. HoldsOne(t)' <=> HoldsOne(t)
    BY <1>2, <1>3, <1>8, HoldsSame
  <2>2. helpers' - outside' = helpers - outside /\ helpers - outside \in Int
    BY <1>1, <1>4, CrewAssumption DEF TypeOK
  <2> QED BY <1>2, <1>8, <1>9, <2>1, <2>2, SlotsStep
<1>18. Watched'
  <2>1. CASE t \in CrewThreads
    <3>1. Shape(t, h - 1)
      BY <1>2, <1>10 DEF IInv, FramesFit
    <3>2. Frame(t, h - 1).at \in {"run", "retire"}
      BY <1>2, <1>10, <3>1 DEF Shape
    <3>3. \A e : e = h - 1 => Frame(t, e)' = Frame(t, e)
      BY <1>2, <1>8, <1>10 DEF OnlyAt
    <3>4. Frame(t, Height(t))'.at \notin {"parked", "scan"}
      BY <1>8, <3>2, <3>3
    <3> QED BY <2>1, <3>4, WatchAwake
  <2>2. CASE t \in Callers
    <3>1. \A u \in Threads : \A e \in Nat \ {0} :
              (u # t \/ e # h) /\ OwnAt(u, e)' => Frame(u, e)' = Frame(u, e)
      BY <1>8, <1>9, Heights, HeightsNext DEF OnlyAt, OwnAt, IInv
    <3>2. \A u \in CrewThreads :
              Height(u)' = Height(u) /\ Frame(u, Height(u))' = Frame(u, Height(u))
      BY <1>2, <1>8, <2>2, CrewKept
    <3>3. \A q \in Posts : wanted'[q] <= wanted[q]
      BY <1>1, <1>4, CrewAssumption DEF TypeOK
    <3> QED BY <1>2, <1>8, <1>9, <1>11, <1>12, <1>13, <2>2, <3>1, <3>2, <3>3, WatchCaller
  <2> QED BY <2>1, <2>2 DEF Threads
<1> QED BY <1>9, <1>13, <1>14, <1>15, <1>16, <1>17, <1>18 DEF IInv

LEMMA FreeStep ==
    ASSUME IInv, NEW t \in Threads, At(t, "retire"), Pop(t),
           wanted[Top(t).post] = 0, running[Top(t).post] = 0,
           claims' = [claims EXCEPT ![Top(t).post] = None],
           UNCHANGED <<wanted, running, closed, made, list, helpers, outside, mutex>>
    PROVE  IInv'
<1> DEFINE h == Height(t)  f == Frame(t, h)  p == f.post
<1>1. /\ stack[t] # <<>> /\ h \in Nat \ {0} /\ h \in 1..h
      /\ f \in Frames /\ f.at = "retire" /\ Shape(t, h) /\ Top(t) = f
      /\ OwnCall(t, h) /\ (OwnAt(t, h) <=> f.role = "own")
      /\ \A q : InAt(t, h, q) <=> f.role # "own" /\ f.at \in Joined /\ f.post = q
      /\ \A k : RunAt(t, h, k) <=> FALSE
  BY TopIs
<1>2. /\ f.role = "own" /\ OwnAt(t, h) /\ (t \in CrewThreads => h > 1)
      /\ \A q : ~InAt(t, h, q)
  BY <1>1 DEF Shape, Frames, Roles
<1>3. TypeOK
  BY DEF IInv
<1>4. /\ p \in Posts /\ claims' = [claims EXCEPT ![p] = None]
      /\ wanted[p] = 0 /\ running[p] = 0
  BY <1>1, <1>2 DEF OwnCall, IsOwn
<1>5. \A q \in Posts : claims'[q] = IF q = p THEN None ELSE claims[q]
  BY <1>3, <1>4 DEF TypeOK
<1>6. /\ stack' \in [Threads -> Seq(Frames)]
      /\ \A u \in Threads : u # t => (stack'[u] # <<>> <=> stack[u] # <<>>)
      /\ stack'[t] # <<>> <=> h > 1
      /\ Height(t)' = h - 1 /\ OnlyAt(t, h)
  BY <1>1, <1>3, PopFrames
<1>7. TypeOK'
  <2>1. \A u \in CrewThreads : stack'[u] # <<>>
    BY <1>2, <1>3, <1>6 DEF TypeOK, Threads
  <2>2. claims' \in [Posts -> 0..MaxCalls]
    <3>1. None \in 0..MaxCalls /\ claims \in [Posts -> 0..MaxCalls]
      BY <1>3, CrewAssumption DEF TypeOK, None
    <3> QED BY <1>4, <3>1
  <2> QED BY <1>3, <1>6, <2>1, <2>2 DEF TypeOK, list
<1>8. /\ ~(h \in 1..(h - 1)) /\ h >= Height(t)' /\ h >= h /\ ~(h > h) /\ ~(h <= Height(t)')
      /\ h > 1 => h - 1 \in 1..(h - 1) /\ h - 1 \in Nat \ {0} /\ h - 1 # h
  BY <1>1, <1>6
<1>9. Alike(t, h)
  BY <1>6, OnlyAlike
<1>10. \A e : e = h => ~OwnAt(t, e)' /\ \A q : ~InAt(t, e, q)' /\ ~RunAt(t, e, q)'
  BY <1>6, <1>8 DEF OwnAt, InAt, RunAt
<1>11. \A u \in Threads : Height(u) \in Nat /\ Height(u)' \in Nat
  BY <1>3, <1>7, Heights, HeightsNext
\* Nobody else is in the posting, nor owns it.
<1>12. ASSUME NEW u \in Threads, NEW e \in Nat \ {0}, u # t \/ e # h, OwnAt(u, e)
       PROVE  Frame(u, e).post \in Posts /\ Frame(u, e).post # p
  <2>1. OwnCall(u, e) /\ e \in 1..Height(u)
    BY <1>12 DEF IInv, FramesFit, OwnAt
  <2>2. Frame(u, e).post \in Posts
    BY <1>12, <2>1 DEF OwnCall, OwnAt
  <2>3. Frame(u, e).post # p
    BY <1>1, <1>2, <1>12, <2>1 DEF IInv, OneOwner, OwnAt
  <2> QED BY <2>2, <2>3
<1>13. ASSUME NEW u \in Threads, NEW e \in Nat \ {0}, InAt(u, e, Frame(u, e).post)
       PROVE  Frame(u, e).post \in Posts /\ Frame(u, e).post # p
  <2>1. JoinedCall(u, e)
    BY <1>13 DEF IInv, FramesFit, InAt
  <2>2. Frame(u, e).post \in Posts
    BY <1>13, <2>1 DEF JoinedCall, InAt
  <2>3. running[Frame(u, e).post] >= 1
    BY <1>13, <2>2, InsideCounted
  <2> QED BY <1>4, <2>2, <2>3
<1>14. FramesFit'
  <2>1. ASSUME NEW u \in Threads, NEW e \in Nat \ {0}, u # t \/ e # h, OwnAt(u, e)
        PROVE  /\ claims'[Frame(u, e).post] = claims[Frame(u, e).post]
               /\ Frame(u, e).at = "offer" =>
                      wanted'[Frame(u, e).post] = 0 /\ running'[Frame(u, e).post] = 0
    <3>1. OwnCall(u, e)
      BY <2>1 DEF IInv, FramesFit, OwnAt
    <3> QED BY <1>5, <1>12, <2>1, <3>1 DEF OwnCall, OwnAt
  <2>2. ASSUME NEW u \in Threads, NEW e \in Nat \ {0}, InAt(u, e, Frame(u, e).post)
        PROVE  claims'[Frame(u, e).post] = claims[Frame(u, e).post]
    BY <1>5, <1>13, <2>2
  <2>3. made' >= made
    BY CrewAssumption DEF IInv, TypeOK
  <2> QED BY <1>1, <1>6, <1>7, <1>8, <2>1, <2>2, <2>3, FitsStep
<1>15. OneOwner'
  <2>1. ASSUME NEW u \in Threads, NEW e \in Nat \ {0}
        PROVE  /\ OwnAt(u, e)' <=> OwnAt(u, e) /\ (u # t \/ e # h)
               /\ OwnAt(u, e)' => Frame(u, e)' = Frame(u, e)
    <3>1. CASE u = t /\ e = h
      BY <1>10, <3>1
    <3>2. CASE u # t \/ e # h
      <4>1. /\ e \in 1..Height(u) <=> e \in 1..Height(u)'
            /\ e \in 1..Height(u) => Frame(u, e)' = Frame(u, e)
        BY <1>6, <1>11, <3>2 DEF OnlyAt
      <4> QED BY <3>2, <4>1 DEF OwnAt, IsOwn
    <3> QED BY <3>1, <3>2
  <2>2. ASSUME NEW q \in Posts, claims'[q] # None
        PROVE  \E u \in Threads : \E e \in 1..Height(u)' : IsOwn(u, e)' /\ Frame(u, e)'.post = q
    <3>1. q # p /\ claims[q] # None
      BY <1>5, <2>2
    <3>2. PICK u \in Threads : \E e \in 1..Height(u) : IsOwn(u, e) /\ Frame(u, e).post = q
      BY <3>1 DEF IInv, OneOwner
    <3>3. PICK e \in 1..Height(u) : IsOwn(u, e) /\ Frame(u, e).post = q
      BY <3>2
    <3>4. e \in Nat \ {0} /\ OwnAt(u, e) /\ (u # t \/ e # h)
      BY <1>11, <3>1, <3>3 DEF OwnAt
    <3> QED BY <2>1, <3>3, <3>4 DEF OwnAt
  <2>3. ASSUME NEW u \in Threads, NEW v \in Threads,
               NEW e \in 1..Height(u)', NEW g \in 1..Height(v)',
               IsOwn(u, e)', IsOwn(v, g)', Frame(u, e)'.post = Frame(v, g)'.post
        PROVE  u = v /\ e = g
    <3>1. e \in Nat \ {0} /\ g \in Nat \ {0} /\ OwnAt(u, e)' /\ OwnAt(v, g)'
      BY <1>11, <2>3 DEF OwnAt
    <3>2. OwnAt(u, e) /\ OwnAt(v, g) /\ Frame(u, e).post = Frame(v, g).post
      BY <2>1, <2>3, <3>1
    <3> QED BY <3>2 DEF IInv, OneOwner, OwnAt
  <2> QED BY <2>2, <2>3 DEF OneOwner
<1>16. YoungerAbove'
  <2> SUFFICES ASSUME NEW u \in Threads, NEW g \in 1..Height(u)', NEW e \in 1..(g - 1),
                      IsOwn(u, g)'
               PROVE  claims'[Frame(u, e)'.post] < Frame(u, g)'.call
    BY DEF YoungerAbove
  <2>1. /\ g \in Nat \ {0} /\ e \in Nat \ {0} /\ g <= Height(u)' /\ e <= Height(u)' /\ e < g
        /\ u # t \/ (e # h /\ g # h)
    BY <1>8, <1>11
  <2>2. /\ g \in 1..Height(u) /\ e \in 1..Height(u)
        /\ Frame(u, g)' = Frame(u, g) /\ Frame(u, e)' = Frame(u, e)
    BY <1>6, <1>11, <2>1 DEF OnlyAt
  <2>3. claims[Frame(u, e).post] < Frame(u, g).call
    BY <2>1, <2>2 DEF IInv, YoungerAbove, IsOwn
  <2>4. Frame(u, g).call \in Nat /\ Frame(u, g).call >= 1
    <3>1. OwnCall(u, g) /\ made \in Nat
      BY <1>3, <2>2, CrewAssumption DEF IInv, FramesFit, TypeOK
    <3> QED BY <2>2, <3>1 DEF OwnCall, IsOwn
  <2>5. Frame(u, e).post \in Posts
    <3>1. Shape(u, e) /\ OwnCall(u, e) /\ JoinedCall(u, e) /\ e < Height(u)
      BY <1>11, <2>1, <2>2 DEF IInv, FramesFit
    <3> QED BY <3>1 DEF Shape, OwnCall, JoinedCall, IsOwn, IsIn, Joined
  <2> QED BY <1>5, <2>2, <2>3, <2>4, <2>5 DEF None
<1>17. WordsExact'
  <2>1. \A q \in Posts : \A u \in Threads : \A e \in Nat \ {0} :
            u # t \/ e # h => (InAt(u, e, q)' <=> InAt(u, e, q))
    BY <1>3, <1>6, <1>7, CountsOnly
  <2>2. ASSUME NEW d, d = h, NEW q \in Posts
        PROVE  /\ running'[q] = running[q] + (IF InAt(t, d, q)' THEN 1 ELSE 0)
                                           - (IF InAt(t, d, q) THEN 1 ELSE 0)
               /\ wanted'[q] + running'[q] <= MaxJobs
               /\ claims'[q] <= made'
               /\ claims'[q] = None => wanted'[q] = 0 /\ running'[q] = 0
    <3>1. /\ running[q] \in Nat /\ wanted[q] + running[q] <= MaxJobs
          /\ claims[q] <= made /\ made \in Nat
          /\ claims[q] = None => wanted[q] = 0 /\ running[q] = 0
      BY <1>3, CrewAssumption DEF TypeOK, IInv, WordsExact
    <3>2. ~InAt(t, d, q) /\ ~InAt(t, d, q)'
      BY <1>2, <1>10, <2>2
    <3> HIDE DEF p
    <3> QED BY <1>4, <1>5, <3>1, <3>2 DEF None
  <2> QED BY <1>1, <1>7, <2>1, <2>2, WordsStep
<1>18. JobsExact'
  <2>1. \A k \in Calls : \A u \in Threads : \A e \in Nat \ {0} :
            RunAt(u, e, k)' <=> RunAt(u, e, k)
    BY <1>1, <1>3, <1>6, <1>7, <1>10, CountsOnly
  <2> QED BY <1>1, <1>7, <2>1, JobsSame
<1>19. SlotsHeld'
  <2>1. HoldsOne(t)' <=> HoldsOne(t)
    <3>1. CASE t \in CrewThreads
      BY <1>1, <1>2, <1>6, <3>1, HoldsSame
    <3>2. CASE t \notin CrewThreads
      BY <3>2 DEF HoldsOne
    <3> QED BY <3>1, <3>2
  <2>2. helpers' - outside' = helpers - outside /\ helpers - outside \in Int
    BY <1>3, CrewAssumption DEF TypeOK
  <2> QED BY <1>1, <1>6, <1>7, <2>1, <2>2, SlotsStep
<1>20. Watched'
  <2>1. CASE t \in CrewThreads
    <3>1. Shape(t, h - 1) /\ h > 1
      BY <1>1, <1>2, <1>8, <2>1 DEF IInv, FramesFit
    <3>2. Frame(t, h - 1).at \in {"run", "retire"}
      BY <1>1, <1>8, <3>1 DEF Shape
    <3>3. \A e : e = h - 1 => Frame(t, e)' = Frame(t, e)
      BY <1>1, <1>6, <1>8, <3>1 DEF OnlyAt
    <3>4. Frame(t, Height(t))'.at \notin {"parked", "scan"}
      BY <1>6, <3>2, <3>3
    <3> QED BY <2>1, <3>4, WatchAwake
  <2>2. CASE t \in Callers
    <3>1. \A u \in Threads : \A e \in Nat \ {0} :
              (u # t \/ e # h) /\ OwnAt(u, e)' => Frame(u, e)' = Frame(u, e)
      BY <1>6, <1>11 DEF OnlyAt, OwnAt
    <3>2. \A u \in CrewThreads :
              Height(u)' = Height(u) /\ Frame(u, Height(u))' = Frame(u, Height(u))
      BY <1>1, <1>6, <2>2, CrewKept
    <3>3. \A q \in Posts : wanted'[q] <= wanted[q]
      BY <1>3, CrewAssumption DEF TypeOK
    <3> QED BY <1>1, <1>7, <1>9, <1>10, <1>15, <2>2, <3>1, <3>2, <3>3, WatchCaller
  <2> QED BY <2>1, <2>2 DEF Threads
<1> QED BY <1>7, <1>14, <1>15, <1>16, <1>17, <1>18, <1>19, <1>20 DEF IInv

LEMMA RetireStep ==
    ASSUME IInv, NEW t \in Threads, Retire(t)
    PROVE  IInv'
<1>1. /\ At(t, "retire")
      /\ UNCHANGED <<wanted, running, closed, made, list, helpers, outside, mutex>>
  BY DEF Retire
<1>2. CASE /\ wanted[Top(t).post] = 0 /\ running[Top(t).post] = 0
           /\ claims' = [claims EXCEPT ![Top(t).post] = None] /\ Pop(t)
  BY <1>1, <1>2, FreeStep
<1>3. CASE Goto(t, "help") /\ UNCHANGED claims
  BY <1>1, <1>3, WaitOnStep DEF posting
<1> QED BY <1>2, <1>3 DEF Retire

LEMMA LeaveStep ==
    ASSUME IInv, NEW t \in Threads, Leave(t)
    PROVE  IInv'
BY LeaveHelperStep, LeaveGuestStep

LEMMA PostStep ==
    ASSUME IInv, NEW t \in Threads, NEW n \in 2..MaxJobs, Post(t, n)
    PROVE  IInv'
<1> DEFINE h == Height(t)  k == made + 1
<1>1. PICK p \in Posts :
          /\ claims[p] = None
          /\ claims' = [claims EXCEPT ![p] = k]
          /\ Push(t, [at |-> "offer", role |-> "own", post |-> p, call |-> k])
  BY DEF Post
<1>2. /\ (t \in Callers /\ stack[t] = <<>>) \/ At(t, "run")
      /\ made < MaxCalls /\ made' = k /\ jobs' = [jobs EXCEPT ![k] = n]
      /\ UNCHANGED <<wanted, running, closed, next, done, helpers, outside, mutex>>
  BY DEF Post
<1> DEFINE g == [at |-> "offer", role |-> "own", post |-> p, call |-> k]
<1>3. TypeOK
  BY DEF IInv
<1>4. made \in Nat /\ k \in Calls /\ k \in 1..MaxCalls /\ k > made
  BY <1>2, <1>3, CrewAssumption DEF TypeOK, Calls
<1>5. g \in Frames /\ g.at = "offer" /\ g.role = "own" /\ g.post = p /\ g.call = k
  <2>1. p \in 0..Postings /\ k \in 0..MaxCalls
    BY <1>4, CrewAssumption DEF Posts
  <2> QED BY <2>1 DEF Frames, Places, Roles
<1> HIDE DEF g
<1>6. /\ stack' \in [Threads -> Seq(Frames)]
      /\ \A u \in Threads : stack[u] # <<>> => stack'[u] # <<>>
      /\ Height(t)' = h + 1 /\ Frame(t, Height(t))' = g /\ OnlyAt(t, h + 1)
      /\ h \in Nat
  BY <1>1, <1>3, <1>5, PushFrames, FramesOfStack DEF g
<1>7. /\ stack[t] = <<>> <=> h = 0
      /\ h > 0 => At(t, "run") /\ Frame(t, h).at = "run" /\ h \in 1..h
  <2>1. stack[t] = <<>> <=> h = 0
    BY <1>3, <1>6, FramesOfStack
  <2>2. At(t, "run") => h > 0 /\ Frame(t, h).at = "run" /\ stack[t] # <<>> /\ h \in 1..h
    BY TopIs
  <2> QED BY <1>2, <2>1, <2>2
<1>8. claims' \in [Posts -> 0..MaxCalls] /\ jobs' \in [Calls -> 0..MaxJobs]
  <2>1. k \in 0..MaxCalls /\ n \in 0..MaxJobs
    BY <1>4, CrewAssumption
  <2> QED BY <1>1, <1>2, <1>3, <1>4, <2>1 DEF TypeOK
<1>9. TypeOK'
  <2>1. \A u \in CrewThreads : stack'[u] # <<>>
    BY <1>3, <1>6 DEF TypeOK, Threads
  <2>2. made' \in 0..MaxCalls
    BY <1>2, <1>4, CrewAssumption
  <2> QED BY <1>2, <1>3, <1>6, <1>8, <2>1, <2>2 DEF TypeOK
<1>10. \A q \in Posts : claims'[q] = IF q = p THEN k ELSE claims[q]
  BY <1>1, <1>3 DEF TypeOK
<1>11. \A u \in Threads : Height(u) \in Nat /\ Height(u)' \in Nat
  BY <1>3, <1>9, Heights, HeightsNext
<1>12. /\ wanted[p] = 0 /\ running[p] = 0
       /\ \A q \in Posts : claims[q] <= made /\ claims[q] \in Nat /\ (q # p => claims'[q] = claims[q])
  BY <1>1, <1>3, <1>10, CrewAssumption DEF IInv, WordsExact, TypeOK
<1>13. \A e : e = h + 1 =>
           /\ e \in 1..Height(t)' /\ ~(e \in 1..h) /\ e \in Nat \ {0}
           /\ Frame(t, e)' = g /\ OwnAt(t, e)' /\ ~OwnAt(t, e)
           /\ \A q : ~InAt(t, e, q) /\ ~InAt(t, e, q)' /\ ~RunAt(t, e, q) /\ ~RunAt(t, e, q)'
  BY <1>5, <1>6 DEF OwnAt, InAt, RunAt, IsOwn, IsIn
\* The frames there were are of other postings.
<1>14. ASSUME NEW u \in Threads, NEW e \in Nat \ {0}, OwnAt(u, e)
       PROVE  Frame(u, e).post \in Posts /\ Frame(u, e).post # p
  <2>1. OwnCall(u, e) /\ e \in 1..Height(u)
    BY <1>14 DEF IInv, FramesFit, OwnAt
  <2>2. Frame(u, e).post \in Posts /\ claims[Frame(u, e).post] \in 1..made
    BY <1>14, <2>1 DEF OwnCall, OwnAt
  <2> QED BY <1>1, <1>4, <2>2 DEF None
<1>15. ASSUME NEW u \in Threads, NEW e \in Nat \ {0}, InAt(u, e, Frame(u, e).post)
       PROVE  Frame(u, e).post \in Posts /\ Frame(u, e).post # p
  <2>1. JoinedCall(u, e)
    BY <1>15 DEF IInv, FramesFit, InAt
  <2> QED BY <1>1, <1>15, <2>1 DEF JoinedCall, InAt
<1>16. FramesFit'
  <2>1. ASSUME NEW u \in Threads, NEW e \in Nat \ {0}, OwnAt(u, e)
        PROVE  /\ claims'[Frame(u, e).post] = claims[Frame(u, e).post]
               /\ Frame(u, e).at = "offer" =>
                      wanted'[Frame(u, e).post] = 0 /\ running'[Frame(u, e).post] = 0
    <3>1. OwnCall(u, e)
      BY <2>1 DEF IInv, FramesFit, OwnAt
    <3> QED BY <1>2, <1>12, <1>14, <2>1, <3>1 DEF OwnCall, OwnAt
  <2>2. ASSUME NEW u \in Threads, NEW e \in Nat \ {0}, InAt(u, e, Frame(u, e).post)
        PROVE  claims'[Frame(u, e).post] = claims[Frame(u, e).post]
    BY <1>12, <1>15, <2>2
  <2>3. ASSUME NEW d, d = h + 1
        PROVE  Shape(t, d)' /\ OwnCall(t, d)' /\ JoinedCall(t, d)'
    <3>1. Frame(t, d)' = g /\ d \in Nat
      BY <1>6, <1>13, <2>3
    <3>2. t \in CrewThreads => d # 1
      BY <1>3, <1>6, <1>7, <2>3, CrewAssumption DEF TypeOK
    <3>3. Shape(t, d)'
      BY <1>5, <1>6, <2>3, <3>1, <3>2 DEF Shape
    <3>4. OwnCall(t, d)'
      <4>1. claims'[p] = k /\ k \in 1..made' /\ wanted'[p] = 0 /\ running'[p] = 0
        BY <1>2, <1>4, <1>10, <1>12
      <4> QED BY <1>5, <3>1, <4>1 DEF OwnCall
    <3>5. JoinedCall(t, d)'
      BY <1>5, <3>1 DEF JoinedCall, IsIn
    <3> QED BY <3>3, <3>4, <3>5
  <2>4. /\ h + 1 \in Nat \ {0} /\ h + 1 >= h /\ h + 1 >= Height(t)'
        /\ h + 1 > h => h = 0 \/ At(t, "run")
        /\ made' >= made /\ mutex' = mutex
    BY <1>2, <1>4, <1>6, <1>7
  <2>5. PICK d \in Nat \ {0} : d = h + 1
    BY <2>4
  <2>6. OnlyAt(t, d) /\ d >= h /\ d >= Height(t)' /\ (d > h => h = 0 \/ At(t, "run"))
    BY <1>6, <2>4, <2>5 DEF OnlyAt
  <2>7. Shape(t, d)' /\ OwnCall(t, d)' /\ JoinedCall(t, d)'
    BY <2>3, <2>5
  <2> QED BY <1>9, <2>1, <2>2, <2>4, <2>6, <2>7, FitsStep
<1>17. ASSUME NEW u \in Threads, NEW e \in Nat \ {0}, u # t \/ e # h + 1
       PROVE  /\ e \in 1..Height(u) <=> e \in 1..Height(u)'
              /\ e \in 1..Height(u) => Frame(u, e)' = Frame(u, e)
              /\ OwnAt(u, e)' <=> OwnAt(u, e)
  <2>1. /\ e \in 1..Height(u) <=> e \in 1..Height(u)'
        /\ e \in 1..Height(u) => Frame(u, e)' = Frame(u, e)
    BY <1>6, <1>11, <1>17 DEF OnlyAt
  <2> QED BY <2>1 DEF OwnAt, IsOwn
<1>18. OneOwner'
  <2>1. ASSUME NEW q \in Posts, claims'[q] # None
        PROVE  \E u \in Threads : \E e \in 1..Height(u)' : IsOwn(u, e)' /\ Frame(u, e)'.post = q
    <3>1. CASE q = p
      <4>1. \A e : e = h + 1 => e \in 1..Height(t)' /\ IsOwn(t, e)' /\ Frame(t, e)'.post = q
        BY <1>5, <1>13, <3>1 DEF IsOwn
      <4> QED BY <4>1
    <3>2. CASE q # p
      <4>1. PICK u \in Threads : \E e \in 1..Height(u) : IsOwn(u, e) /\ Frame(u, e).post = q
        BY <1>12, <2>1, <3>2 DEF IInv, OneOwner
      <4>2. PICK e \in 1..Height(u) : IsOwn(u, e) /\ Frame(u, e).post = q
        BY <4>1
      <4>3. e \in Nat \ {0} /\ (u # t \/ e # h + 1)
        BY <1>11
      <4> QED BY <1>17, <4>2, <4>3 DEF IsOwn
    <3> QED BY <3>1, <3>2
  <2>2. ASSUME NEW u \in Threads, NEW v \in Threads,
               NEW e \in 1..Height(u)', NEW i \in 1..Height(v)',
               IsOwn(u, e)', IsOwn(v, i)', Frame(u, e)'.post = Frame(v, i)'.post
        PROVE  u = v /\ e = i
    <3>1. e \in Nat \ {0} /\ i \in Nat \ {0} /\ OwnAt(u, e)' /\ OwnAt(v, i)'
      BY <1>11, <2>2 DEF OwnAt
    <3>2. CASE (u # t \/ e # h + 1) /\ (v # t \/ i # h + 1)
      <4>1. OwnAt(u, e) /\ OwnAt(v, i) /\ Frame(u, e).post = Frame(v, i).post
        BY <1>17, <2>2, <3>1, <3>2
      <4> QED BY <4>1 DEF IInv, OneOwner, OwnAt
    <3>3. CASE (u = t /\ e = h + 1) /\ (v # t \/ i # h + 1)
      <4>1. OwnAt(v, i) /\ Frame(v, i)' = Frame(v, i)
        BY <1>17, <2>2, <3>1, <3>3
      <4>2. Frame(u, e)'.post = p
        BY <1>5, <1>13, <3>3
      <4> QED BY <1>14, <2>2, <3>1, <4>1, <4>2
    <3>4. CASE (v = t /\ i = h + 1) /\ (u # t \/ e # h + 1)
      <4>1. OwnAt(u, e) /\ Frame(u, e)' = Frame(u, e)
        BY <1>17, <2>2, <3>1, <3>4
      <4>2. Frame(v, i)'.post = p
        BY <1>5, <1>13, <3>4
      <4> QED BY <1>14, <2>2, <3>1, <4>1, <4>2
    <3>5. CASE (v = t /\ i = h + 1) /\ (u = t /\ e = h + 1)
      BY <3>5
    <3> QED BY <3>2, <3>3, <3>4, <3>5
  <2> QED BY <2>1, <2>2 DEF OneOwner
<1>19. YoungerAbove'
  <2> SUFFICES ASSUME NEW u \in Threads, NEW i \in 1..Height(u)', NEW e \in 1..(i - 1),
                      IsOwn(u, i)'
               PROVE  claims'[Frame(u, e)'.post] < Frame(u, i)'.call
    BY DEF YoungerAbove
  <2>1. /\ i \in Nat \ {0} /\ e \in Nat \ {0} /\ i <= Height(u)' /\ e < i
        /\ u # t \/ e # h + 1
        /\ e \in 1..Height(u)'
    BY <1>6, <1>11
  <2>2. /\ e \in 1..Height(u) /\ Frame(u, e)' = Frame(u, e)
        /\ e < Height(u) \/ (u = t /\ e = h)
    <3>1. e \in 1..Height(u) /\ Frame(u, e)' = Frame(u, e)
      BY <1>17, <2>1
    <3>2. u # t => Height(u)' = Height(u)
      BY <1>6 DEF OnlyAt
    <3> QED BY <1>6, <1>11, <2>1, <3>1, <3>2
  <2>3. Frame(u, e).post \in Posts /\ Frame(u, e).post # p
    <3>1. Shape(u, e) /\ Frame(u, e) \in Frames
      BY <1>3, <2>2, FramesOfStack DEF IInv, FramesFit
    <3>2. Frame(u, e).at = "run" \/ (Frame(u, e).role = "own" /\ Frame(u, e).at = "retire")
      BY <1>7, <2>1, <2>2, <3>1 DEF Shape
    <3>3. OwnAt(u, e) \/ InAt(u, e, Frame(u, e).post)
      BY <2>2, <3>2 DEF OwnAt, InAt, IsOwn, IsIn, Joined
    <3> QED BY <1>14, <1>15, <2>1, <3>3
  <2>4. CASE u = t /\ i = h + 1
    <3>1. Frame(u, i)'.call = k
      BY <1>5, <1>13, <2>4
    <3> QED BY <1>4, <1>12, <2>2, <2>3, <3>1
  <2>5. CASE u # t \/ i # h + 1
    <3>1. i \in 1..Height(u) /\ Frame(u, i)' = Frame(u, i) /\ IsOwn(u, i)
      BY <1>17, <2>1, <2>5 DEF IsOwn
    <3>2. claims[Frame(u, e).post] < Frame(u, i).call
      BY <2>1, <3>1 DEF IInv, YoungerAbove
    <3> QED BY <1>12, <2>2, <2>3, <3>1, <3>2
  <2> QED BY <2>4, <2>5
<1>20. WordsExact'
  <2>1. \A q \in Posts : \A u \in Threads : \A e \in Nat \ {0} :
            u # t \/ e # h + 1 => (InAt(u, e, q)' <=> InAt(u, e, q))
    BY <1>3, <1>6, <1>9, CountsOnly
  <2>2. ASSUME NEW d, d = h + 1, NEW q \in Posts
        PROVE  /\ running'[q] = running[q] + (IF InAt(t, d, q)' THEN 1 ELSE 0)
                                           - (IF InAt(t, d, q) THEN 1 ELSE 0)
               /\ wanted'[q] + running'[q] <= MaxJobs
               /\ claims'[q] <= made'
               /\ claims'[q] = None => wanted'[q] = 0 /\ running'[q] = 0
    <3>1. /\ running[q] \in Nat /\ wanted[q] + running[q] <= MaxJobs
          /\ claims[q] = None => wanted[q] = 0 /\ running[q] = 0
          /\ wanted' = wanted /\ running' = running /\ made' = k
      BY <1>2, <1>3, CrewAssumption DEF TypeOK, IInv, WordsExact
    <3>2. ~InAt(t, d, q) /\ ~InAt(t, d, q)'
      BY <1>13, <2>2
    <3>3. claims'[q] <= k
      BY <1>4, <1>10, <1>12
    <3>4. claims'[q] = None => claims[q] = None
      BY <1>4, <1>10 DEF None
    <3> HIDE DEF k
    <3> QED BY <3>1, <3>2, <3>3, <3>4
  <2>3. h + 1 \in Nat \ {0}
    BY <1>6
  <2> QED BY <1>9, <2>1, <2>2, <2>3, WordsStep
<1>21. JobsExact'
  <2>1. \A c \in Calls : \A u \in Threads : \A e \in Nat \ {0} :
            u # t \/ e # h + 1 => (RunAt(u, e, c)' <=> RunAt(u, e, c))
    BY <1>3, <1>6, <1>9, CountsOnly
  <2>2. ASSUME NEW d, d = h + 1, NEW c \in Calls
        PROVE  /\ done'[c] + (IF RunAt(t, d, c)' THEN 1 ELSE 0) - Least(next'[c], jobs'[c])
                    = done[c] + (IF RunAt(t, d, c) THEN 1 ELSE 0) - Least(next[c], jobs[c])
               /\ c <= made' => jobs'[c] >= 2
               /\ c > made' => jobs'[c] = 0 /\ next'[c] = 0
    <3>1. /\ done[c] \in Nat /\ next[c] \in Nat /\ jobs[c] \in Nat
          /\ next' = next /\ done' = done /\ made' = made + 1
          /\ jobs'[c] = IF c = made + 1 THEN n ELSE jobs[c]
      BY <1>2, <1>3, CrewAssumption DEF TypeOK
    <3>2. /\ c <= made => jobs[c] >= 2
          /\ c > made => jobs[c] = 0 /\ next[c] = 0
      BY DEF IInv, JobsExact
    <3>3. ~RunAt(t, d, c) /\ ~RunAt(t, d, c)'
      BY <1>13, <2>2
    <3>4. Least(next'[c], jobs'[c]) = Least(next[c], jobs[c])
      BY <1>4, <3>1, <3>2 DEF Least
    <3>5. c \in Nat
      BY CrewAssumption DEF Calls
    <3> QED BY <1>4, <3>1, <3>2, <3>3, <3>4, <3>5
  <2>3. h + 1 \in Nat \ {0}
    BY <1>6
  <2> QED BY <1>9, <2>1, <2>2, <2>3, JobsStep
<1>22. SlotsHeld'
  <2>1. HoldsOne(t)' <=> HoldsOne(t)
    <3>1. CASE t \in CrewThreads
      <4>1. h > 0
        BY <1>3, <1>6, <3>1, FramesOfStack DEF TypeOK
      <4> QED BY <1>6, <4>1, HoldsSame
    <3>2. CASE t \notin CrewThreads
      BY <3>2 DEF HoldsOne
    <3> QED BY <3>1, <3>2
  <2>2. helpers' - outside' = helpers - outside /\ helpers - outside \in Int
    BY <1>2, <1>3, CrewAssumption DEF TypeOK
  <2>3. h + 1 \in Nat \ {0}
    BY <1>6
  <2> QED BY <1>6, <1>9, <2>1, <2>2, <2>3, SlotsStep
<1>23. Watched'
  <2>1. CASE t \in CrewThreads
    BY <1>5, <1>6, <2>1, WatchAwake
  <2>2. CASE t \in Callers
    <3>1. \A u \in Threads : \A e \in Nat \ {0} :
              (u # t \/ e # h + 1) /\ OwnAt(u, e)' => Frame(u, e)' = Frame(u, e)
      BY <1>17 DEF OwnAt
    <3>2. \A u \in CrewThreads :
              Height(u)' = Height(u) /\ Frame(u, Height(u))' = Frame(u, Height(u))
      BY <1>6, <2>2, CrewKept
    <3>3. \A q \in Posts : wanted'[q] <= wanted[q]
      BY <1>2, <1>3, CrewAssumption DEF TypeOK
    <3>4. \A e : e = h + 1 => Frame(t, e)'.at = "offer"
      BY <1>5, <1>13
    <3>5. h + 1 \in Nat \ {0} /\ Alike(t, h + 1)
      BY <1>6, OnlyAlike
    <3> QED BY <1>9, <1>18, <2>2, <3>1, <3>2, <3>3, <3>4, <3>5, WatchCaller
  <2> QED BY <2>1, <2>2 DEF Threads
<1> QED BY <1>9, <1>16, <1>18, <1>19, <1>20, <1>21, <1>22, <1>23 DEF IInv

LEMMA HelpFrames ==
    ASSUME TypeOK, NEW t \in Threads, stack[t] # <<>>, NEW f \in Frames, NEW g \in Frames,
           stack' = [stack EXCEPT ![t] = <<g, f>> \o Tail(@)]
    PROVE  /\ stack' \in [Threads -> Seq(Frames)]
           /\ \A u \in Threads : stack[u] # <<>> => stack'[u] # <<>>
           /\ Height(t)' = Height(t) + 1
           /\ Frame(t, Height(t))' = g
           /\ \A d : d = Height(t) => Frame(t, d)' = f
           /\ \A u \in Threads \ {t} : Height(u)' = Height(u)
           /\ \A u \in Threads : \A e \in Nat \ {0} :
                 u # t \/ e < Height(t) => Frame(u, e)' = Frame(u, e)
<1> DEFINE s == stack[t]  r == <<g, f>> \o Tail(s)
<1>1. s \in Seq(Frames) /\ s # <<>>
  BY DEF TypeOK
<1>2. Len(s) \in Nat \ {0}
  BY <1>1
<1>3. Tail(s) \in Seq(Frames) /\ Len(Tail(s)) = Len(s) - 1
  BY <1>1
<1>4. \A i \in 1..(Len(s) - 1) : Tail(s)[i] = s[i + 1]
  BY <1>1, <1>2
<1>5. <<g, f>> \in Seq(Frames) /\ Len(<<g, f>>) = 2 /\ <<g, f>>[1] = g /\ <<g, f>>[2] = f
  OBVIOUS
<1>6. r \in Seq(Frames) /\ Len(r) = Len(s) + 1
  BY <1>2, <1>3, <1>5
<1>7. r[1] = g /\ r[2] = f /\ \A i \in 2..Len(s) : r[i + 1] = s[i]
  BY <1>2, <1>3, <1>4, <1>5
<1>8. stack \in [Threads -> Seq(Frames)]
  BY DEF TypeOK
<1>9. stack'[t] = r /\ \A u \in Threads \ {t} : stack'[u] = stack[u]
  BY <1>8
<1>10. stack' \in [Threads -> Seq(Frames)]
  BY <1>6, <1>8
<1>11. \A u \in Threads : stack[u] # <<>> => stack'[u] # <<>>
  <2>1. r # <<>>
    BY <1>2, <1>6, Nonempty
  <2> QED BY <1>9, <2>1
<1>12. Height(t)' = Height(t) + 1 /\ \A u \in Threads \ {t} : Height(u)' = Height(u)
  BY <1>6, <1>9 DEF Height
<1>13. Frame(t, Height(t))' = g /\ \A d : d = Height(t) => Frame(t, d)' = f
  BY <1>2, <1>6, <1>7, <1>9 DEF Frame, Height
<1>14. ASSUME NEW e \in Nat \ {0}, e < Height(t)
       PROVE  Frame(t, e)' = Frame(t, e)
  <2>1. Len(s) + 1 - e \in 2..Len(s) /\ Len(r) + 1 - e = (Len(s) + 1 - e) + 1
    BY <1>2, <1>6, <1>14 DEF Height
  <2> QED BY <1>6, <1>7, <1>9, <2>1 DEF Height, Frame
<1>15. \A u \in Threads \ {t} : \A e \in Nat : Frame(u, e)' = Frame(u, e)
  BY <1>9 DEF Height, Frame
<1> QED BY <1>10, <1>11, <1>12, <1>13, <1>14, <1>15

LEMMA HelpStep ==
    ASSUME IInv, NEW t \in Threads, Help(t)
    PROVE  IInv'
<1> DEFINE h == Height(t)  f == Frame(t, h)  f2 == [f EXCEPT !.at = "retire"]
<1>1. At(t, "help") /\ UNCHANGED <<claims, closed, made, list, helpers, outside, mutex>>
  BY DEF Help
<1>2. /\ stack[t] # <<>> /\ h \in Nat \ {0} /\ h \in 1..h
      /\ f \in Frames /\ f.at = "help" /\ Shape(t, h) /\ Top(t) = f
      /\ OwnCall(t, h) /\ (OwnAt(t, h) <=> f.role = "own")
      /\ \A q : InAt(t, h, q) <=> f.role # "own" /\ f.at \in Joined /\ f.post = q
      /\ \A k : RunAt(t, h, k) <=> FALSE
  BY <1>1, TopIs
<1>3. PICK p \in Posts \ {f.post} :
          /\ Join(p)
          /\ stack' = [stack EXCEPT ![t] =
                 <<[at |-> "enter", role |-> "guest", post |-> p, call |-> None],
                   [f EXCEPT !.at = "retire"]>> \o Tail(@)]
  BY <1>2 DEF Help
<1> DEFINE g == [at |-> "enter", role |-> "guest", post |-> p, call |-> None]
<1>4. TypeOK
  BY DEF IInv
<1>5. f.role = "own" /\ OwnAt(t, h) /\ (t \in CrewThreads => h > 1)
  BY <1>2 DEF Shape, Frames, Roles
<1>6. /\ f2 \in Frames /\ f2.at = "retire" /\ f2.role = "own" /\ f2.post = f.post
      /\ f2.call = f.call
  BY <1>2, <1>5 DEF Frames, Places
<1>7. g \in Frames /\ g.at = "enter" /\ g.role = "guest" /\ g.post = p /\ g.call = None
  <2>1. p \in 0..Postings /\ None \in 0..MaxCalls
    BY CrewAssumption DEF Posts, None
  <2> QED BY <2>1 DEF Frames, Places, Roles
<1>8. stack' = [stack EXCEPT ![t] = <<g, f2>> \o Tail(@)]
  BY <1>3
<1> HIDE DEF g, f2
<1>9. /\ stack' \in [Threads -> Seq(Frames)]
      /\ \A u \in Threads : stack[u] # <<>> => stack'[u] # <<>>
      /\ Height(t)' = h + 1
      /\ Frame(t, Height(t))' = g
      /\ \A d : d = h => Frame(t, d)' = f2
      /\ \A u \in Threads \ {t} : Height(u)' = Height(u)
      /\ \A u \in Threads : \A e \in Nat \ {0} :
            u # t \/ e < h => Frame(u, e)' = Frame(u, e)
  BY <1>2, <1>4, <1>6, <1>7, <1>8, HelpFrames
<1>10. /\ p \in Posts /\ p # f.post
       /\ wanted[p] \in Nat /\ wanted[p] > 0 /\ running[p] \in Nat
       /\ wanted[p] + running[p] <= MaxJobs /\ claims[p] # None
       /\ wanted' = [wanted EXCEPT ![p] = @ - 1]
       /\ running' = [running EXCEPT ![p] = @ + 1]
  BY <1>3, <1>4, CrewAssumption DEF Join, TypeOK, IInv, WordsExact
<1>11. TypeOK'
  <2>1. wanted' \in [Posts -> 0..MaxJobs] /\ running' \in [Posts -> 0..MaxJobs]
    BY <1>4, <1>10, CrewAssumption DEF TypeOK
  <2>2. \A u \in CrewThreads : stack'[u] # <<>>
    BY <1>4, <1>9 DEF TypeOK, Threads
  <2> QED BY <1>1, <1>4, <1>9, <2>1, <2>2 DEF TypeOK, list
<1>12. \A u \in Threads : Height(u) \in Nat /\ Height(u)' \in Nat
  BY <1>4, <1>11, Heights, HeightsNext
<1>13. \A e : e = h + 1 =>
           /\ e \in 1..Height(t)' /\ ~(e \in 1..h) /\ e \in Nat \ {0}
           /\ Frame(t, e)' = g /\ ~OwnAt(t, e)' /\ ~OwnAt(t, e)
           /\ \A q : ~InAt(t, e, q) /\ (InAt(t, e, q)' <=> p = q)
           /\ \A q : ~RunAt(t, e, q) /\ ~RunAt(t, e, q)'
  BY <1>2, <1>7, <1>9 DEF OwnAt, InAt, RunAt, IsOwn, IsIn, Joined
<1>14. ASSUME NEW u \in Threads, NEW e \in Nat \ {0}, u # t \/ e # h + 1
       PROVE  /\ e <= Height(u) <=> e <= Height(u)'
              /\ \/ e <= Height(u) => Frame(u, e)' = Frame(u, e)
                 \/ u = t /\ e = h
  BY <1>2, <1>9, <1>12, <1>14
<1>15. \A e : e = h => /\ e \in 1..Height(t)' /\ Frame(t, e)' = f2
                       /\ OwnAt(t, e)' /\ OwnAt(t, e)
                       /\ \A q : ~InAt(t, e, q) /\ ~InAt(t, e, q)'
                       /\ \A q : ~RunAt(t, e, q) /\ ~RunAt(t, e, q)'
  BY <1>2, <1>5, <1>6, <1>9 DEF OwnAt, InAt, RunAt, IsOwn, IsIn
<1>16. ASSUME NEW u \in Threads, NEW e \in Nat \ {0}, u # t \/ e # h + 1
       PROVE  /\ \A q : InAt(u, e, q)' <=> InAt(u, e, q)
              /\ \A q : RunAt(u, e, q)' <=> RunAt(u, e, q)
  <2>1. CASE u = t /\ e = h
    BY <1>15, <2>1
  <2>2. CASE u # t \/ e # h
    <3>1. /\ e \in 1..Height(u) <=> e \in 1..Height(u)'
          /\ e \in 1..Height(u) => Frame(u, e)' = Frame(u, e)
      BY <1>12, <1>14, <1>16, <2>2
    <3> QED BY <3>1 DEF InAt, RunAt, IsIn
  <2> QED BY <2>1, <2>2
<1>17. Alike(t, h + 1)
  <2>1. ASSUME NEW u \in Threads, NEW e \in Nat \ {0}, u # t \/ e # h + 1
        PROVE  /\ e <= Height(u) <=> e <= Height(u)'
               /\ e <= Height(u) => /\ Frame(u, e)'.role = Frame(u, e).role
                                    /\ Frame(u, e)'.post = Frame(u, e).post
                                    /\ Frame(u, e)'.call = Frame(u, e).call
    BY <1>5, <1>6, <1>9, <1>14, <2>1
  <2> QED BY <2>1 DEF Alike
<1>18. h + 1 \in Nat \ {0} /\ h + 1 >= Height(t)'
  BY <1>2, <1>9
<1>19. OneOwner' /\ YoungerAbove'
  BY <1>1, <1>11, <1>13, <1>17, <1>18, OwnersKept
<1>20. \A q \in Posts :
           /\ wanted[q] \in Nat /\ running[q] \in Nat /\ wanted[q] + running[q] <= MaxJobs
           /\ wanted'[q] = IF q = p THEN wanted[q] - 1 ELSE wanted[q]
           /\ running'[q] = IF q = p THEN running[q] + 1 ELSE running[q]
  <2>1. wanted \in [Posts -> 0..MaxJobs] /\ running \in [Posts -> 0..MaxJobs]
    BY <1>4 DEF TypeOK
  <2>2. ASSUME NEW q \in Posts
        PROVE  /\ wanted'[q] = IF q = p THEN wanted[q] - 1 ELSE wanted[q]
               /\ running'[q] = IF q = p THEN running[q] + 1 ELSE running[q]
    BY <1>10, <2>1
  <2> QED BY <2>2, WordsTyped
<1>21. FramesFit'
  <2> SUFFICES ASSUME NEW u \in Threads, NEW e \in 1..Height(u)'
               PROVE  Shape(u, e)' /\ OwnCall(u, e)' /\ JoinedCall(u, e)'
    BY DEF FramesFit
  <2>1. e \in Nat \ {0}
    BY <1>12
  <2>2. CASE u = t /\ e = h + 1
    <3>1. Frame(u, e)' = g /\ e > 1
      BY <1>2, <1>13, <2>2
    <3>2. Shape(u, e)'
      BY <1>7, <1>9, <2>2, <3>1 DEF Shape
    <3>3. OwnCall(u, e)'
      BY <1>7, <3>1 DEF OwnCall, IsOwn
    <3>4. JoinedCall(u, e)'
      BY <1>1, <1>7, <1>10, <3>1 DEF JoinedCall
    <3> QED BY <3>2, <3>3, <3>4
  <2>3. CASE u = t /\ e = h
    <3>1. Frame(u, e)' = f2
      BY <1>15, <2>3
    <3>2. Shape(u, e)'
      BY <1>2, <1>5, <1>6, <2>3, <3>1 DEF Shape
    <3>3. OwnCall(u, e)'
      BY <1>1, <1>2, <1>5, <1>6, <3>1 DEF OwnCall, IsOwn
    <3>4. JoinedCall(u, e)'
      BY <1>6, <3>1 DEF JoinedCall, IsIn
    <3> QED BY <3>2, <3>3, <3>4
  <2>4. CASE ~(u = t /\ e = h + 1) /\ ~(u = t /\ e = h)
    <3>1. /\ e \in 1..Height(u) /\ Frame(u, e)' = Frame(u, e)
          /\ e < Height(u)' <=> e < Height(u) \/ u = t
          /\ u = t => e < h
      BY <1>9, <1>12, <1>14, <2>1, <2>4
    <3>2. Shape(u, e) /\ OwnCall(u, e) /\ JoinedCall(u, e)
      BY <3>1 DEF IInv, FramesFit
    <3>3. Shape(u, e)'
      BY <1>1, <3>1, <3>2 DEF Shape
    <3>4. OwnCall(u, e)'
      <4>1. SUFFICES ASSUME IsOwn(u, e)
                     PROVE  OwnCall(u, e)'
        BY <3>1 DEF OwnCall, IsOwn
      <4>2. /\ Frame(u, e).post \in Posts
            /\ Frame(u, e).at = "offer" =>
                  wanted'[Frame(u, e).post] = 0 /\ running'[Frame(u, e).post] = 0
        BY <1>10, <1>20, <3>2, <4>1 DEF OwnCall
      <4> QED BY <1>1, <3>1, <3>2, <4>1, <4>2 DEF OwnCall
    <3>5. JoinedCall(u, e)'
      BY <1>1, <3>1, <3>2 DEF JoinedCall, IsIn
    <3> QED BY <3>3, <3>4, <3>5
  <2> QED BY <2>2, <2>3, <2>4
<1>22. WordsExact'
  <2>1. ASSUME NEW d, d = h + 1, NEW q \in Posts
        PROVE  /\ running'[q] = running[q] + (IF InAt(t, d, q)' THEN 1 ELSE 0)
                                           - (IF InAt(t, d, q) THEN 1 ELSE 0)
               /\ wanted'[q] + running'[q] <= MaxJobs
               /\ claims'[q] <= made'
               /\ claims'[q] = None => wanted'[q] = 0 /\ running'[q] = 0
    <3>1. ~InAt(t, d, q) /\ (InAt(t, d, q)' <=> p = q)
      BY <1>13, <2>1
    <3>2. claims[q] <= made /\ (claims[q] = None => wanted[q] = 0 /\ running[q] = 0)
      BY DEF IInv, WordsExact
    <3> QED BY <1>1, <1>10, <1>20, <3>1, <3>2, CrewAssumption
  <2> QED BY <1>11, <1>16, <1>18, <2>1, WordsStep
<1>23. JobsExact'
  <2>1. ASSUME NEW k \in Calls, NEW u \in Threads, NEW e \in Nat \ {0}
        PROVE  RunAt(u, e, k)' <=> RunAt(u, e, k)
    BY <1>13, <1>16
  <2> QED BY <1>1, <1>11, <1>18, <2>1, JobsSame
<1>24. SlotsHeld'
  <2>1. ASSUME NEW u \in CrewThreads
        PROVE  HoldsOne(u)' <=> HoldsOne(u)
    <3>1. u \in Threads /\ (u = t => 1 < h)
      BY <1>5 DEF Threads
    <3>2. Frame(u, 1)' = Frame(u, 1)
      BY <1>9, <3>1
    <3> QED BY <3>2 DEF HoldsOne
  <2>2. HoldsOne(t)' <=> HoldsOne(t)
    BY <2>1 DEF HoldsOne
  <2>3. Cardinality(Helping)' = Cardinality(Helping)
    BY <2>1, <2>2, HelpingCount
  <2> QED BY <1>1, <2>3 DEF IInv, SlotsHeld
<1>25. Watched'
  <2>1. CASE t \in CrewThreads
    BY <1>7, <1>9, <2>1, WatchAwake
  <2>2. CASE t \in Callers
    <3>1. ASSUME NEW u \in Threads, NEW e \in Nat \ {0}, u # t \/ e # h + 1,
                 OwnAt(u, e)', Frame(u, e)'.at \in {"claim", "run", "close"}
          PROVE  Frame(u, e).at \in {"claim", "run", "close"}
      <4>1. ~(u = t /\ e = h)
        BY <1>6, <1>15, <3>1
      <4>2. e <= Height(u)
        BY <1>12, <1>14, <3>1 DEF OwnAt
      <4> QED BY <1>14, <3>1, <4>1, <4>2
    <3>2. \A u \in CrewThreads :
              Height(u)' = Height(u) /\ Frame(u, Height(u))' = Frame(u, Height(u))
      <4> SUFFICES ASSUME NEW u \in CrewThreads
                   PROVE  Height(u)' = Height(u) /\ Frame(u, Height(u))' = Frame(u, Height(u))
        OBVIOUS
      <4>1. u \in Threads \ {t} /\ stack[u] # <<>>
        BY <1>4, <2>2, CrewAssumption DEF Threads, TypeOK
      <4>2. Height(u) \in Nat \ {0}
        BY <1>4, <4>1, FramesOfStack
      <4> QED BY <1>9, <4>1, <4>2
    <3>3. \A q \in Posts : wanted'[q] <= wanted[q]
      BY <1>20
    <3> QED BY <1>11, <1>13, <1>17, <1>18, <1>19, <2>2, <3>1, <3>2, <3>3, WatchCaller
  <2> QED BY <2>1, <2>2 DEF Threads
<1> QED BY <1>11, <1>19, <1>21, <1>22, <1>23, <1>24, <1>25 DEF IInv

LEMMA SignalFrames ==
    ASSUME IInv, NEW t \in Threads, Signal(t)
    PROVE  LET h == Height(t)  f == Frame(t, h) IN
           /\ h \in Nat \ {0} /\ f \in Frames /\ f.at = "signal" /\ f.role = "own"
           /\ stack' \in [Threads -> Seq(Frames)]
           /\ \A u \in Threads : stack'[u] # <<>> <=> stack[u] # <<>>
           /\ \A u \in Threads : Height(u)' = Height(u)
           /\ Frame(t, h)' = [f EXCEPT !.at = "claim"]
           /\ \A u \in Threads : \A e \in 1..Height(u) :
                 u # t \/ e # h =>
                     \/ Frame(u, e)' = Frame(u, e) /\ Frame(u, e).at # "parked"
                     \/ /\ Frame(u, e).at = "parked" /\ Frame(u, e)' = Woken
                        /\ u \in CrewThreads /\ e = 1 /\ Height(u) = 1
                        /\ Frame(u, e).role = "crew"
<1> DEFINE h == Height(t)  f == Frame(t, h)  f2 == [f EXCEPT !.at = "claim"]
           s == stack[t]  r == <<f2>> \o Tail(s)
<1>1. /\ stack[t] # <<>> /\ h \in Nat \ {0} /\ h \in 1..h /\ f \in Frames
      /\ f.at = "signal" /\ Shape(t, h) /\ Top(t) = f
  <2>1. At(t, "signal")
    BY DEF Signal
  <2> QED BY <2>1, TopIs
<1>2. f.role = "own"
  BY <1>1 DEF Shape, Frames, Roles
<1>3. TypeOK
  BY DEF IInv
<1>4. f2 \in Frames
  BY <1>1 DEF Frames, Places
<1>5. stack' = [u \in Threads |->
            IF u = t THEN r ELSE IF At(u, "parked") THEN <<Woken>> ELSE stack[u]]
  BY <1>1 DEF Signal
<1> HIDE DEF f2
<1>6. r \in Seq(Frames) /\ Len(r) = Len(s) /\ r[1] = f2 /\ \A i \in 2..Len(s) : r[i] = s[i]
  <2>1. s \in Seq(Frames) /\ s # <<>>
    BY <1>1, <1>3 DEF TypeOK
  <2>2. Len(s) \in Nat \ {0}
    BY <2>1
  <2>3. Tail(s) \in Seq(Frames) /\ Len(Tail(s)) = Len(s) - 1
    BY <2>1
  <2>4. \A i \in 1..(Len(s) - 1) : Tail(s)[i] = s[i + 1]
    BY <2>1, <2>2
  <2>5. <<f2>> \in Seq(Frames) /\ Len(<<f2>>) = 1 /\ <<f2>>[1] = f2
    BY <1>4
  <2> QED BY <2>2, <2>3, <2>4, <2>5
<1>7. \A u \in Threads :
          /\ u = t => stack'[u] = r
          /\ u # t /\ At(u, "parked") => stack'[u] = <<Woken>>
          /\ u # t /\ ~At(u, "parked") => stack'[u] = stack[u]
  BY <1>5
<1>8. Woken \in Frames
  <2>1. "awake" \in Places /\ 0 \in 0..Postings
    BY CrewAssumption DEF Places
  <2> QED BY <2>1, IdleFrames DEF Woken
<1>9. ASSUME NEW u \in Threads, At(u, "parked")
      PROVE  /\ stack[u] # <<>> /\ Height(u) = 1 /\ u \in CrewThreads
             /\ Frame(u, 1).role = "crew" /\ Frame(u, 1).at = "parked"
  <2>1. LET w == Height(u) IN
            /\ stack[u] # <<>> /\ w \in Nat \ {0} /\ Frame(u, w) \in Frames
            /\ Frame(u, w).at = "parked" /\ Shape(u, w)
    BY <1>9, TopIs
  <2>2. Frame(u, Height(u)).role = "crew"
    BY <2>1 DEF Shape, Frames, Roles
  <2>3. Height(u) = 1 /\ u \in CrewThreads
    BY <2>1, <2>2 DEF Shape
  <2> QED BY <2>1, <2>2, <2>3
<1>10. /\ <<Woken>> \in Seq(Frames) /\ Len(<<Woken>>) = 1 /\ <<Woken>>[1] = Woken
       /\ <<Woken>> # <<>>
  BY <1>8
<1>11. stack' \in [Threads -> Seq(Frames)]
  <2>1. \A u \in Threads : stack[u] \in Seq(Frames)
    BY <1>3 DEF TypeOK
  <2>2. \A u \in Threads : (IF u = t THEN r ELSE IF At(u, "parked") THEN <<Woken>>
                            ELSE stack[u]) \in Seq(Frames)
    BY <1>6, <1>10, <2>1
  <2> HIDE DEF r
  <2> QED BY <1>5, <2>2
<1>12. \A u \in Threads : Height(u)' = Height(u)
  <2>1. \A u \in Threads : Len(stack'[u]) = Len(stack[u])
    BY <1>6, <1>7, <1>9, <1>10 DEF Height
  <2> QED BY <2>1 DEF Height
<1>13. \A u \in Threads : stack'[u] # <<>> <=> stack[u] # <<>>
  <2>1. \A u \in Threads : stack'[u] # <<>> <=> Len(stack'[u]) > 0
    BY <1>11, Nonempty
  <2>2. \A u \in Threads : stack[u] # <<>> <=> Len(stack[u]) > 0
    BY <1>3, Nonempty DEF TypeOK
  <2> QED BY <1>12, <2>1, <2>2 DEF Height
<1>14. \A d : d = h => Frame(t, d)' = f2
  <2>1. stack'[t] = r
    BY <1>7
  <2>2. Len(stack'[t]) + 1 - h = 1
    BY <1>1, <1>6, <2>1 DEF Height
  <2> HIDE DEF r, h
  <2>3. stack'[t][Len(stack'[t]) + 1 - h] = f2
    BY <1>6, <2>1, <2>2
  <2> QED BY <2>3 DEF Frame, Height
<1>15. ASSUME NEW u \in Threads, NEW e \in 1..Height(u), u # t \/ e # h
       PROVE  \/ Frame(u, e)' = Frame(u, e) /\ Frame(u, e).at # "parked"
              \/ /\ Frame(u, e).at = "parked" /\ Frame(u, e)' = Woken
                 /\ u \in CrewThreads /\ e = 1 /\ Height(u) = 1
                 /\ Frame(u, e).role = "crew"
  <2>1. Height(u) \in Nat /\ e \in Nat \ {0}
    BY <1>3, Heights
  <2>2. e < Height(u) => Frame(u, e).at # "parked"
    <3>1. Shape(u, e)
      BY DEF IInv, FramesFit
    <3> QED BY <3>1 DEF Shape
  <2>3. CASE u = t
    <3>1. e < Height(t)
      BY <1>15, <2>1, <2>3
    <3>2. Len(s) + 1 - e \in 2..Len(s)
      BY <1>1, <2>1, <3>1 DEF Height
    <3>3. Frame(t, e)' = Frame(t, e)
      BY <1>6, <1>7, <3>2 DEF Frame, Height
    <3> QED BY <2>2, <2>3, <3>1, <3>3
  <2>4. CASE u # t /\ At(u, "parked")
    <3>1. e = 1 /\ Height(u) = 1
      BY <1>9, <2>1, <2>4
    <3>2. stack'[u] = <<Woken>> /\ Len(stack'[u]) + 1 - e = 1
      BY <1>7, <1>10, <1>15, <2>4, <3>1
    <3>3. stack'[u][Len(stack'[u]) + 1 - e] = Woken
      BY <1>10, <3>2
    <3>4. Frame(u, e)' = Woken
      BY <3>3 DEF Frame, Height
    <3> QED BY <1>9, <2>4, <3>1, <3>4
  <2>5. CASE u # t /\ ~At(u, "parked")
    <3>1. Frame(u, e)' = Frame(u, e)
      BY <1>7, <2>5 DEF Frame, Height
    <3>2. Frame(u, Height(u)).at # "parked"
      BY <1>3, <2>1, <2>5, FramesOfStack DEF At
    <3> QED BY <2>1, <2>2, <3>1, <3>2
  <2> QED BY <2>3, <2>4, <2>5
<1>16. Frame(t, h)' = f2
  BY <1>12, <1>14
<1> QED BY <1>1, <1>2, <1>11, <1>12, <1>13, <1>15, <1>16 DEF f2

LEMMA SignalStep ==
    ASSUME IInv, NEW t \in Threads, Signal(t)
    PROVE  IInv'
<1> DEFINE h == Height(t)  f == Frame(t, h)  f2 == [f EXCEPT !.at = "claim"]
<1>1. /\ h \in Nat \ {0} /\ f \in Frames /\ f.at = "signal" /\ f.role = "own"
      /\ stack' \in [Threads -> Seq(Frames)]
      /\ \A u \in Threads : stack'[u] # <<>> <=> stack[u] # <<>>
      /\ \A u \in Threads : Height(u)' = Height(u)
      /\ Frame(t, h)' = f2
      /\ \A u \in Threads : \A e \in 1..Height(u) :
            u # t \/ e # h =>
                \/ Frame(u, e)' = Frame(u, e) /\ Frame(u, e).at # "parked"
                \/ /\ Frame(u, e).at = "parked" /\ Frame(u, e)' = Woken
                   /\ u \in CrewThreads /\ e = 1 /\ Height(u) = 1
                   /\ Frame(u, e).role = "crew"
  BY SignalFrames
<1>2. mutex = None /\ UNCHANGED <<posting, made, list, helpers, outside, mutex>>
  BY DEF Signal
<1>3. f2 \in Frames /\ f2.at = "claim" /\ f2.role = "own" /\ f2.post = f.post /\ f2.call = f.call
  BY <1>1 DEF Frames, Places
<1> HIDE DEF f2
<1>4. Woken.at = "awake" /\ Woken.role = "crew"
  BY DEF Woken, Idle
<1>5. TypeOK
  BY DEF IInv
<1>6. claims' = claims /\ wanted' = wanted /\ running' = running /\ closed' = closed
  BY <1>2 DEF posting
<1>7. TypeOK'
  <2>1. \A u \in CrewThreads : stack'[u] # <<>>
    BY <1>1, <1>5 DEF TypeOK, Threads
  <2> QED BY <1>1, <1>2, <1>5, <1>6, <2>1 DEF TypeOK, list
<1>8. \A u \in Threads : Height(u) \in Nat /\ Height(u)' \in Nat
  BY <1>5, <1>7, Heights, HeightsNext
<1>9. ASSUME NEW u \in Threads, NEW e \in Nat \ {0}
      PROVE  /\ \A q : InAt(u, e, q)' <=> InAt(u, e, q)
             /\ \A q : RunAt(u, e, q)' <=> RunAt(u, e, q)
             /\ OwnAt(u, e)' <=> OwnAt(u, e)
             /\ e \in 1..Height(u) =>
                   /\ OwnAt(u, e) \/ e < Height(u) =>
                         /\ Frame(u, e)'.post = Frame(u, e).post
                         /\ Frame(u, e)'.call = Frame(u, e).call
                   /\ Shape(u, e)' /\ OwnCall(u, e)' /\ JoinedCall(u, e)'
  <2>1. CASE e \notin 1..Height(u)
    BY <1>1, <2>1 DEF InAt, RunAt, OwnAt
  <2>2. CASE e \in 1..Height(u)
    <3>1. Shape(u, e) /\ OwnCall(u, e) /\ JoinedCall(u, e) /\ e \in 1..Height(u)'
      BY <1>1, <2>2 DEF IInv, FramesFit
    <3>2. CASE u = t /\ e = h
      <4>1. Frame(u, e) = f /\ Frame(u, e)' = f2 /\ Height(u)' = Height(u)
        BY <1>1, <3>2
      <4>2. /\ \A q : InAt(u, e, q)' <=> InAt(u, e, q)
            /\ \A q : RunAt(u, e, q)' <=> RunAt(u, e, q)
            /\ OwnAt(u, e)' <=> OwnAt(u, e)
        BY <1>1, <1>3, <2>2, <3>1, <4>1 DEF InAt, RunAt, OwnAt, IsOwn, IsIn
      <4>3. Shape(u, e)'
        BY <1>1, <1>3, <3>1, <4>1 DEF Shape
      <4>4. OwnCall(u, e)' /\ JoinedCall(u, e)'
        BY <1>1, <1>2, <1>3, <1>6, <3>1, <4>1 DEF OwnCall, JoinedCall, IsOwn, IsIn
      <4> QED BY <1>3, <4>1, <4>2, <4>3, <4>4
    <3>3. CASE Frame(u, e)' = Frame(u, e)
      <4>1. Height(u)' = Height(u)
        BY <1>1
      <4>2. /\ \A q : InAt(u, e, q)' <=> InAt(u, e, q)
            /\ \A q : RunAt(u, e, q)' <=> RunAt(u, e, q)
            /\ OwnAt(u, e)' <=> OwnAt(u, e)
        BY <3>3, <4>1 DEF InAt, RunAt, OwnAt, IsOwn, IsIn
      <4>3. Shape(u, e)'
        BY <1>2, <3>1, <3>3, <4>1 DEF Shape
      <4>4. OwnCall(u, e)' /\ JoinedCall(u, e)'
        BY <1>2, <1>6, <3>1, <3>3 DEF OwnCall, JoinedCall, IsOwn, IsIn
      <4> QED BY <3>3, <4>2, <4>3, <4>4
    <3>4. CASE /\ Frame(u, e).at = "parked" /\ Frame(u, e)' = Woken
               /\ u \in CrewThreads /\ e = 1 /\ Height(u) = 1
               /\ Frame(u, e).role = "crew"
      <4>1. Height(u)' = Height(u)
        BY <1>1
      <4>2. /\ \A q : InAt(u, e, q)' <=> InAt(u, e, q)
            /\ \A q : RunAt(u, e, q)' <=> RunAt(u, e, q)
            /\ OwnAt(u, e)' <=> OwnAt(u, e)
        BY <1>4, <3>4, <4>1 DEF InAt, RunAt, OwnAt, IsOwn, IsIn, Joined
      <4>3. Shape(u, e)'
        BY <1>4, <3>4, <4>1 DEF Shape
      <4>4. OwnCall(u, e)' /\ JoinedCall(u, e)'
        BY <1>4, <3>4 DEF OwnCall, JoinedCall, IsOwn, IsIn, Joined
      <4>5. ~OwnAt(u, e) /\ ~(e < Height(u))
        BY <3>4 DEF OwnAt, IsOwn
      <4> QED BY <4>2, <4>3, <4>4, <4>5
    <3> QED BY <1>1, <2>2, <3>2, <3>3, <3>4
  <2> QED BY <2>1, <2>2
<1>10. FramesFit'
  <2> SUFFICES ASSUME NEW u \in Threads, NEW e \in 1..Height(u)'
               PROVE  Shape(u, e)' /\ OwnCall(u, e)' /\ JoinedCall(u, e)'
    BY DEF FramesFit
  <2>1. e \in Nat \ {0} /\ e \in 1..Height(u)
    BY <1>1, <1>8
  <2> QED BY <1>9, <2>1
<1>11. OneOwner'
  <2>1. ASSUME NEW q \in Posts, claims'[q] # None
        PROVE  \E u \in Threads : \E e \in 1..Height(u)' : IsOwn(u, e)' /\ Frame(u, e)'.post = q
    <3>1. PICK u \in Threads : \E e \in 1..Height(u) : IsOwn(u, e) /\ Frame(u, e).post = q
      BY <1>6, <2>1 DEF IInv, OneOwner
    <3>2. PICK e \in 1..Height(u) : IsOwn(u, e) /\ Frame(u, e).post = q
      BY <3>1
    <3>3. e \in Nat \ {0} /\ OwnAt(u, e)
      BY <1>8, <3>2 DEF OwnAt
    <3> QED BY <1>9, <3>2, <3>3 DEF OwnAt
  <2>2. ASSUME NEW u \in Threads, NEW v \in Threads,
               NEW e \in 1..Height(u)', NEW g \in 1..Height(v)',
               IsOwn(u, e)', IsOwn(v, g)', Frame(u, e)'.post = Frame(v, g)'.post
        PROVE  u = v /\ e = g
    <3>1. /\ e \in Nat \ {0} /\ g \in Nat \ {0} /\ OwnAt(u, e)' /\ OwnAt(v, g)'
          /\ e \in 1..Height(u) /\ g \in 1..Height(v)
      BY <1>1, <1>8, <2>2 DEF OwnAt
    <3>2. OwnAt(u, e) /\ OwnAt(v, g) /\ Frame(u, e).post = Frame(v, g).post
      BY <1>9, <2>2, <3>1
    <3> QED BY <3>2 DEF IInv, OneOwner, OwnAt
  <2> QED BY <2>1, <2>2 DEF OneOwner
<1>12. YoungerAbove'
  <2> SUFFICES ASSUME NEW u \in Threads, NEW g \in 1..Height(u)', NEW e \in 1..(g - 1),
                      IsOwn(u, g)'
               PROVE  claims'[Frame(u, e)'.post] < Frame(u, g)'.call
    BY DEF YoungerAbove
  <2>1. /\ g \in Nat \ {0} /\ e \in Nat \ {0} /\ g \in 1..Height(u) /\ e \in 1..Height(u)
        /\ e < Height(u) /\ OwnAt(u, g)'
    BY <1>1, <1>8 DEF OwnAt
  <2>2. /\ OwnAt(u, g) /\ Frame(u, g)'.call = Frame(u, g).call
        /\ Frame(u, e)'.post = Frame(u, e).post
    BY <1>9, <2>1
  <2>3. claims[Frame(u, e).post] < Frame(u, g).call
    BY <2>1, <2>2 DEF IInv, YoungerAbove, OwnAt
  <2> QED BY <1>6, <2>2, <2>3
<1>13. WordsExact'
  <2>1. ASSUME NEW d, d = h, NEW q \in Posts
        PROVE  /\ running'[q] = running[q] + (IF InAt(t, d, q)' THEN 1 ELSE 0)
                                           - (IF InAt(t, d, q) THEN 1 ELSE 0)
               /\ wanted'[q] + running'[q] <= MaxJobs
               /\ claims'[q] <= made'
               /\ claims'[q] = None => wanted'[q] = 0 /\ running'[q] = 0
    <3>1. running[q] \in Nat /\ (InAt(t, d, q)' <=> InAt(t, d, q))
      BY <1>1, <1>5, <1>9, <2>1, CrewAssumption DEF TypeOK
    <3> QED BY <1>2, <1>6, <3>1 DEF IInv, WordsExact
  <2> QED BY <1>1, <1>7, <1>9, <2>1, WordsStep
<1>14. JobsExact'
  BY <1>1, <1>2, <1>7, <1>9, JobsSame
<1>15. SlotsHeld'
  <2>1. ASSUME NEW u \in CrewThreads
        PROVE  HoldsOne(u)' <=> HoldsOne(u)
    <3>1. u \in Threads /\ stack[u] # <<>>
      BY <1>5 DEF Threads, TypeOK
    <3>2. 1 \in 1..Height(u) /\ Height(u) \in Nat
      BY <1>5, <3>1, FramesOfStack
    <3>3. CASE u = t /\ 1 = h
      BY <1>1, <1>3, <3>3 DEF HoldsOne
    <3>4. CASE u # t \/ 1 # h
      BY <1>1, <1>4, <3>1, <3>2, <3>4 DEF HoldsOne
    <3> QED BY <3>3, <3>4
  <2>2. HoldsOne(t)' <=> HoldsOne(t)
    BY <2>1 DEF HoldsOne
  <2>3. Cardinality(Helping)' = Cardinality(Helping)
    BY <2>1, <2>2, HelpingCount
  <2> QED BY <1>2, <2>3 DEF IInv, SlotsHeld
<1>16. Watched'
  <2>1. ASSUME NEW u \in CrewThreads
        PROVE  Frame(u, Height(u))'.at \notin {"parked", "scan"}
    <3>1. u \in Threads /\ stack[u] # <<>>
      BY <1>5 DEF Threads, TypeOK
    <3>2. Height(u) \in 1..Height(u) /\ Height(u) \in Nat /\ Height(u)' = Height(u)
      BY <1>1, <1>5, <3>1, FramesOfStack
    <3>3. Frame(u, Height(u)).at # "scan"
      <4>1. Shape(u, Height(u))
        BY <3>1, <3>2 DEF IInv, FramesFit
      <4>2. u # None
        BY CrewAssumption DEF None
      <4> QED BY <1>2, <4>1, <4>2 DEF Shape
    <3>4. CASE u = t
      BY <1>1, <1>3, <3>4
    <3>5. CASE u # t
      BY <1>1, <1>4, <3>1, <3>2, <3>3, <3>5
    <3> QED BY <3>4, <3>5
  <2> QED BY <2>1 DEF Watched, Watches
<1> QED BY <1>7, <1>10, <1>11, <1>12, <1>13, <1>14, <1>15, <1>16 DEF IInv


-------------------------------------------------------------------------------
(* The steps that change no stack, and the initial states.                 *)

LEMMA StackKept ==
    ASSUME IInv, UNCHANGED <<posting, made, list, mutex, stack>>,
           helpers' - outside' = helpers - outside,
           outside' \in 0..Limit, helpers' \in outside'..Limit
    PROVE  IInv'
<1>1. /\ claims' = claims /\ wanted' = wanted /\ running' = running /\ closed' = closed
      /\ made' = made /\ jobs' = jobs /\ next' = next /\ done' = done
      /\ mutex' = mutex /\ stack' = stack
  BY DEF posting, list
<1>2. TypeOK'
  BY <1>1 DEF IInv, TypeOK
<1>3. /\ \A t : Height(t)' = Height(t)
      /\ \A t, d : Frame(t, d)' = Frame(t, d)
  BY <1>1 DEF Height, Frame
<1>4. FramesFit'
  BY <1>1, <1>3 DEF IInv, FramesFit, Shape, OwnCall, JoinedCall, IsOwn, IsIn
<1>5. OneOwner'
  BY <1>1, <1>3 DEF IInv, OneOwner, IsOwn
<1>6. YoungerAbove'
  BY <1>1, <1>3 DEF IInv, YoungerAbove, IsOwn
<1>7. Spots' = Spots
  BY <1>3 DEF Spots
<1>8. \A p : Inside(p)' = Inside(p)
  BY <1>3, <1>7 DEF Inside, IsIn
<1>9. \A k : Running(k)' = Running(k)
  BY <1>3, <1>7 DEF Running
<1>10. WordsExact'
  BY <1>1, <1>8 DEF IInv, WordsExact
<1>11. JobsExact'
  BY <1>1, <1>9 DEF IInv, JobsExact
<1>12. Helping' = Helping
  BY <1>3 DEF Helping
<1>13. SlotsHeld'
  BY <1>12 DEF IInv, SlotsHeld
<1>14. Watched'
  BY <1>1, <1>3 DEF IInv, Watched, Wanting, Watches, IsOwn
<1> QED BY <1>2, <1>4, <1>5, <1>6, <1>10, <1>11, <1>13, <1>14 DEF IInv

LEMMA OutsideStep ==
    ASSUME IInv, OutsideTakes \/ OutsideGives
    PROVE  IInv'
<1>1. /\ Limit \in Nat /\ outside \in 0..Limit /\ helpers \in outside..Limit
      /\ outside \in Int /\ helpers \in Int
  BY CrewAssumption DEF IInv, TypeOK
<1>2. UNCHANGED <<posting, made, list, mutex, stack>>
  BY DEF OutsideTakes, OutsideGives
<1>3. CASE OutsideTakes
  <2>1. outside' \in 0..Limit /\ helpers' \in outside'..Limit
        /\ helpers' - outside' = helpers - outside
    BY <1>1, <1>3 DEF OutsideTakes
  <2> QED BY <1>2, <2>1, StackKept
<1>4. CASE OutsideGives
  <2>1. outside' \in 0..Limit /\ helpers' \in outside'..Limit
        /\ helpers' - outside' = helpers - outside
    BY <1>1, <1>4 DEF OutsideGives
  <2> QED BY <1>2, <2>1, StackKept
<1> QED BY <1>3, <1>4

LEMMA Initially == Init => IInv
<1> SUFFICES ASSUME Init PROVE IInv
  OBVIOUS
<1>1. Resting \in Frames /\ Resting.role = "crew" /\ Resting.at = "look"
  <2>1. "look" \in Places /\ 0 \in 0..Postings
    BY CrewAssumption DEF Places
  <2> QED BY <2>1, IdleFrames DEF Resting, Idle
<1>2. /\ <<Resting>> \in Seq(Frames) /\ <<>> \in Seq(Frames)
      /\ Len(<<Resting>>) = 1 /\ <<Resting>>[1] = Resting /\ <<Resting>> # <<>>
      /\ Len(<<>>) = 0
  BY <1>1
<1>3. \A t \in Threads : stack[t] = IF t \in Callers THEN <<>> ELSE <<Resting>>
  BY DEF Init
<1>4. \A t \in Threads : t \in Callers <=> t \notin CrewThreads
  BY CrewAssumption DEF Threads
<1>5. TypeOK
  <2>1. stack \in [Threads -> Seq(Frames)]
    <3>1. \A t \in Threads : (IF t \in Callers THEN <<>> ELSE <<Resting>>) \in Seq(Frames)
      BY <1>2
    <3> QED BY <3>1 DEF Init
  <2>2. \A t \in CrewThreads : stack[t] # <<>>
    BY <1>2, <1>3, <1>4 DEF Threads
  <2> QED BY <2>1, <2>2, CrewAssumption DEF Init, TypeOK, None
<1>6. \A t \in Threads : Height(t) = IF t \in CrewThreads THEN 1 ELSE 0
  BY <1>2, <1>3, <1>4 DEF Height
<1>7. ASSUME NEW t \in Threads, NEW d \in 1..Height(t)
      PROVE  t \in CrewThreads /\ d = 1 /\ Frame(t, d) = Resting
  <2>1. t \in CrewThreads /\ d = 1
    BY <1>6
  <2>2. stack[t] = <<Resting>> /\ Len(stack[t]) + 1 - d = 1
    BY <1>2, <1>3, <1>4, <2>1
  <2>3. stack[t][Len(stack[t]) + 1 - d] = Resting
    BY <1>2, <2>2
  <2> QED BY <2>1, <2>3 DEF Frame, Height
<1>8. FramesFit
  BY <1>1, <1>6, <1>7 DEF FramesFit, Shape, OwnCall, JoinedCall, IsOwn, IsIn, Joined
<1>9. OneOwner
  BY <1>1, <1>7 DEF OneOwner, IsOwn, Init
<1>10. YoungerAbove
  BY <1>1, <1>7 DEF YoungerAbove, IsOwn
<1>11. \A s \in Spots : s[1] \in Threads /\ s[2] \in 1..Height(s[1])
  BY DEF Spots
<1>12. \A p : Inside(p) = {}
  BY <1>1, <1>7, <1>11 DEF Inside, IsIn, Joined
<1>13. \A k : Running(k) = {}
  BY <1>1, <1>7, <1>11 DEF Running
<1>14. IsFiniteSet({}) /\ Cardinality({}) = 0
  BY FS_EmptySet
<1>15. WordsExact
  <2> SUFFICES ASSUME NEW p \in Posts
               PROVE  /\ IsFiniteSet(Inside(p)) /\ running[p] = Cardinality(Inside(p))
                      /\ wanted[p] + running[p] <= MaxJobs
                      /\ claims[p] <= made
                      /\ claims[p] = None => wanted[p] = 0 /\ running[p] = 0
    BY DEF WordsExact
  <2>1. /\ wanted[p] = 0 /\ running[p] = 0 /\ claims[p] = 0 /\ made = 0
        /\ 0 + 0 <= MaxJobs /\ 0 <= 0
    BY CrewAssumption DEF Init, None
  <2>2. IsFiniteSet(Inside(p)) /\ Cardinality(Inside(p)) = 0
    BY <1>12, <1>14
  <2> QED BY <2>1, <2>2
<1>16. JobsExact
  <2>1. \A k \in Calls : k \in Nat \ {0}
    BY CrewAssumption DEF Calls
  <2> SUFFICES ASSUME NEW k \in Calls
               PROVE  /\ IsFiniteSet(Running(k))
                      /\ done[k] + Cardinality(Running(k)) =
                            IF next[k] < jobs[k] THEN next[k] ELSE jobs[k]
                      /\ k <= made => jobs[k] >= 2
                      /\ k > made => jobs[k] = 0 /\ next[k] = 0
    BY DEF JobsExact
  <2>2. done[k] = 0 /\ next[k] = 0 /\ jobs[k] = 0 /\ made = 0
    BY DEF Init
  <2>3. IsFiniteSet(Running(k)) /\ Cardinality(Running(k)) = 0
    BY <1>13, <1>14
  <2> QED BY <2>1, <2>2, <2>3
<1>17. SlotsHeld
  <2>1. \A t \in CrewThreads : Frame(t, 1) = Resting
    BY <1>6, <1>7 DEF Threads
  <2>2. Helping = {}
    BY <1>1, <2>1 DEF Helping
  <2> QED BY <1>14, <2>2 DEF SlotsHeld, Init
<1>18. Watched
  BY DEF Watched, Wanting, Init
<1> QED BY <1>5, <1>8, <1>9, <1>10, <1>15, <1>16, <1>17, <1>18 DEF IInv

LEMMA Inductive == IInv /\ [Next]_vars => IInv'
<1> SUFFICES ASSUME IInv, [Next]_vars PROVE IInv'
  OBVIOUS
<1>1. ASSUME NEW t \in Threads, NEW n \in 2..MaxJobs, Post(t, n) PROVE IInv'
  BY <1>1, PostStep
<1>2. ASSUME NEW t \in Threads, CallStep(t) PROVE IInv'
  BY <1>2, OfferStep, SignalStep, ClaimStep, FinishJobStep, CloseStep, RetireStep,
     HelpStep, HelpNobodyStep, EnterStep, GiveBackStep, LeaveStep DEF CallStep
<1>3. ASSUME NEW t \in CrewThreads, CrewStep(t) PROVE IInv'
  <2>1. t \in Threads
    BY DEF Threads
  <2> QED BY <1>3, <2>1, TakeStep, ReserveStep, HandBackStep, ScanStep, ScanNextStep
          DEF CrewStep
<1>4. ASSUME NEW t \in CrewThreads, SpuriousWakeup(t) PROVE IInv'
  BY <1>4, SpuriousWakeupStep
<1>5. CASE UNCHANGED vars
  <2>1. outside \in 0..Limit /\ helpers \in outside..Limit
    BY DEF IInv, TypeOK
  <2> QED BY <1>5, <2>1, StackKept DEF vars
<1> QED BY <1>1, <1>2, <1>3, <1>4, <1>5, OutsideStep DEF Next

LEMMA Inductively == Spec => []IInv
BY Initially, Inductive, PTL DEF Spec

-------------------------------------------------------------------------------
(* The invariants the runs check.                                          *)

LEMMA SlotsFollow == IInv => SlotsExact
<1> SUFFICES ASSUME IInv PROVE SlotsExact
  OBVIOUS
<1>1. ASSUME NEW t \in CrewThreads
      PROVE  (\E f \in FramesOf(t) : f.role = "helper" /\ f.at # "leave")
                <=> Frame(t, 1).role = "helper" /\ Frame(t, 1).at # "leave"
  <2>1. t \in Threads /\ stack[t] # <<>>
    BY DEF Threads, IInv, TypeOK
  <2>2. /\ Height(t) \in Nat \ {0} /\ 1 \in 1..Height(t)
        /\ FramesOf(t) = {Frame(t, d) : d \in 1..Height(t)}
    BY <2>1, FramesOfStack DEF IInv
  <2>3. \A d \in 1..Height(t) : Frame(t, d).role = "helper" => d = 1
    BY <2>1 DEF IInv, FramesFit, Shape
  <2> QED BY <2>2, <2>3
<1>2. Helping = {t \in CrewThreads : \E f \in FramesOf(t) : f.role = "helper" /\ f.at # "leave"}
  BY <1>1 DEF Helping
<1> QED BY <1>2 DEF IInv, SlotsHeld, SlotsExact

LEMMA BudgetFollows == IInv => BudgetPlusCallers
<1> SUFFICES ASSUME IInv PROVE BudgetPlusCallers
  OBVIOUS
<1> DEFINE R == {t \in Threads : At(t, "run")}
<1>1. ASSUME NEW t \in R
      PROVE  t \in Callers \cup Helping
  <2>1. t \in Threads /\ At(t, "run")
    OBVIOUS
  <2>2. CASE t \in CrewThreads
    <3>1. /\ Height(t) \in Nat \ {0} /\ 1 \in 1..Height(t) /\ Height(t) \in 1..Height(t)
          /\ Top(t) = Frame(t, Height(t))
      BY <2>1, FramesOfStack DEF IInv, At
    <3>2. Shape(t, 1) /\ Shape(t, Height(t))
      BY <2>1, <3>1 DEF IInv, FramesFit
    <3>3. Frame(t, 1).role \in {"crew", "helper"}
      BY <2>2, <3>2 DEF Shape
    <3>4. Frame(t, 1).at = "run"
      BY <2>1, <3>1, <3>2, <3>3 DEF Shape, At
    <3>5. Frame(t, 1).role = "helper"
      BY <3>2, <3>3, <3>4 DEF Shape
    <3> QED BY <2>2, <3>4, <3>5 DEF Helping
  <2> QED BY <2>1, <2>2 DEF Threads
<1>2. Helping \subseteq CrewThreads
  BY DEF Helping
<1>3. IsFiniteSet(Helping) /\ IsFiniteSet(Callers)
  BY <1>2, FS_Subset, CrewAssumption
<1>4. Callers \cap Helping = {}
  BY <1>2, CrewAssumption
<1>5. /\ IsFiniteSet(Callers \cup Helping)
      /\ Cardinality(Callers \cup Helping) = Cardinality(Callers) + Cardinality(Helping)
  <2>1. Cardinality(Callers \cap Helping) = 0
    BY <1>4, FS_EmptySet
  <2>2. Cardinality(Callers) \in Nat /\ Cardinality(Helping) \in Nat
    BY <1>3, FS_CardinalityType
  <2>3. /\ IsFiniteSet(Callers \cup Helping)
        /\ Cardinality(Callers \cup Helping) =
              Cardinality(Callers) + Cardinality(Helping) - Cardinality(Callers \cap Helping)
    BY <1>3, FS_Union
  <2> QED BY <2>1, <2>2, <2>3
<1>6. R \subseteq Callers \cup Helping
  BY <1>1
<1>7. Cardinality(R) <= Cardinality(Callers \cup Helping) /\ IsFiniteSet(R)
  BY <1>5, <1>6, FS_Subset
<1>8. /\ Cardinality(R) \in Nat /\ Cardinality(Callers) \in Nat /\ Cardinality(Helping) \in Nat
  BY <1>3, <1>7, FS_CardinalityType
<1>9. helpers - outside = Cardinality(Helping) /\ helpers \in outside..Limit
      /\ outside \in 0..Limit /\ Limit \in Nat
  BY CrewAssumption DEF IInv, SlotsHeld, TypeOK
<1> HIDE DEF R
<1>10. Cardinality(R) + outside <= Limit + Cardinality(Callers)
  BY <1>5, <1>7, <1>8, <1>9
<1> QED BY <1>10 DEF R, BudgetPlusCallers

LEMMA AliveFollows == IInv => JoinedAreAlive
<1> SUFFICES ASSUME IInv PROVE JoinedAreAlive
  OBVIOUS
<1> SUFFICES ASSUME NEW t \in Threads, NEW d \in 1..Height(t), IsIn(t, d)
             PROVE  LET f == Frame(t, d) IN
                    /\ claims[f.post] # None
                    /\ f.call # None => f.call = claims[f.post]
                    /\ \E u \in Threads : \E g \in FramesOf(u) :
                          g.role = "own" /\ g.call = claims[f.post]
  <2>1. \A u \in Threads : FramesOf(u) = {Frame(u, d) : d \in 1..Height(u)}
    BY FramesOfStack DEF IInv
  <2> QED BY <2>1 DEF JoinedAreAlive, IsIn
<1> DEFINE p == Frame(t, d).post
<1>1. /\ p \in Posts /\ claims[p] # None
      /\ Frame(t, d).call # None => Frame(t, d).call = claims[p]
  BY DEF IInv, FramesFit, JoinedCall
<1>2. PICK u \in Threads : \E e \in 1..Height(u) : IsOwn(u, e) /\ Frame(u, e).post = p
  BY <1>1 DEF IInv, OneOwner
<1>5. PICK e \in 1..Height(u) : IsOwn(u, e) /\ Frame(u, e).post = p
  BY <1>2
<1>3. Frame(u, e).role = "own" /\ Frame(u, e).call = claims[p]
  BY <1>5 DEF IInv, FramesFit, OwnCall, IsOwn
<1>4. Frame(u, e) \in FramesOf(u)
  BY FramesOfStack DEF IInv
<1> QED BY <1>1, <1>3, <1>4

LEMMA AwakeFollows == IInv => NoLostWakeup
<1> SUFFICES ASSUME IInv PROVE NoLostWakeup
  OBVIOUS
<1> SUFFICES ASSUME NEW t \in Threads, NEW d \in 1..Height(t),
                    IsOwn(t, d), Frame(t, d).at \in {"claim", "run", "close"},
                    wanted[Frame(t, d).post] > 0
             PROVE  CrewThreads = {} \/ \E u \in CrewThreads : ~At(u, "parked")
  <2>1. \A u \in Threads : FramesOf(u) = {Frame(u, d) : d \in 1..Height(u)}
    BY FramesOfStack DEF IInv
  <2> QED BY <2>1 DEF NoLostWakeup, IsOwn
<1> DEFINE p == Frame(t, d).post
<1>1. p \in Posts
  BY DEF IInv, FramesFit, OwnCall
<1>2. Wanting(p)
  BY DEF Wanting
<1>3. CrewThreads = {} \/ \E u \in CrewThreads : Watches(u, p)
  BY <1>1, <1>2 DEF IInv, Watched
<1>4. ASSUME NEW u \in CrewThreads, Watches(u, p)
      PROVE  ~At(u, "parked")
  <2>1. u \in Threads /\ stack[u] # <<>>
    BY DEF Threads, IInv, TypeOK
  <2>2. Top(u) = Frame(u, Height(u))
    BY <2>1, FramesOfStack DEF IInv
  <2> QED BY <1>4, <2>2 DEF Watches, At
<1> QED BY <1>3, <1>4

LEMMA Smallest ==
    ASSUME NEW C \in SUBSET Nat, C # {}
    PROVE  \E x \in C : \A y \in C : x <= y
<1>1. \E x \in C : \A y \in C : <<y, x>> \notin OpToRel(<, Nat)
  BY NatLessThanWellFounded, WFMin
<1>2. \A x, y \in C : <<y, x>> \notin OpToRel(<, Nat) => x <= y
  BY DEF OpToRel
<1> QED BY <1>1, <1>2

\* Of threads that each wait for one of them, one that waits in the youngest
\* call waits for a thread that is in a younger one.
LEMMA NoCycleFollows == IInv => NoWaitCycle
<1> SUFFICES ASSUME IInv, NEW S \in SUBSET Threads, S # {},
                    \A t \in S : \E u \in S : Waits(t, u)
             PROVE  FALSE
  BY DEF NoWaitCycle
<1>1. ASSUME NEW t \in S
      PROVE  /\ t \in Threads /\ Height(t) \in Nat /\ Height(t) \in 1..Height(t)
             /\ Top(t) = Frame(t, Height(t)) /\ IsOwn(t, Height(t))
             /\ Top(t).call \in 1..MaxCalls
             /\ claims[Top(t).post] = Top(t).call
  <2>1. t \in Threads /\ stack[t] # <<>> /\ Top(t).role = "own"
    BY DEF Waits
  <2>2. /\ Height(t) \in Nat \ {0} /\ Height(t) \in 1..Height(t)
        /\ Top(t) = Frame(t, Height(t)) /\ IsOwn(t, Height(t))
    BY <2>1, FramesOfStack DEF IInv, IsOwn
  <2>3. Top(t).call \in 1..made /\ claims[Top(t).post] = Top(t).call
    BY <2>1, <2>2 DEF IInv, FramesFit, OwnCall
  <2>4. made \in 0..MaxCalls /\ MaxCalls \in Nat
    BY CrewAssumption DEF IInv, TypeOK
  <2> QED BY <2>1, <2>2, <2>3, <2>4
<1>2. ASSUME NEW t \in S, NEW u \in S, Waits(t, u)
      PROVE  Top(t).call < Top(u).call
  <2>1. FramesOf(u) = {Frame(u, d) : d \in 1..Height(u)}
    BY <1>1, FramesOfStack DEF IInv
  <2>2. PICK d \in 1..Height(u) : Frame(u, d).role # "own" /\ Frame(u, d).post = Top(t).post
    BY <1>2, <2>1 DEF Waits
  <2>3. d # Height(u)
    BY <1>1, <2>2 DEF IsOwn
  <2>4. d \in 1..(Height(u) - 1)
    BY <1>1, <2>2, <2>3
  <2>5. claims[Frame(u, d).post] < Frame(u, Height(u)).call
    BY <1>1, <2>4 DEF IInv, YoungerAbove
  <2> QED BY <1>1, <2>2, <2>5
<1> DEFINE C == {MaxCalls - Top(t).call : t \in S}
<1>3. C \in SUBSET Nat /\ C # {}
  BY <1>1, CrewAssumption
<1>4. PICK x \in C : \A y \in C : x <= y
  BY <1>3, Smallest
<1>5. PICK t \in S : x = MaxCalls - Top(t).call
  BY <1>4
<1>6. PICK u \in S : Waits(t, u)
  OBVIOUS
<1>7. MaxCalls - Top(u).call \in C
  OBVIOUS
<1>8. MaxCalls - Top(t).call <= MaxCalls - Top(u).call
  BY <1>4, <1>5, <1>7
<1> HIDE DEF C
<1>9. /\ Top(t).call \in Nat /\ Top(u).call \in Nat /\ MaxCalls \in Nat
      /\ Top(t).call < Top(u).call
  BY <1>1, <1>2, <1>6, CrewAssumption
<1> QED BY <1>8, <1>9

-------------------------------------------------------------------------------
(* Theorems.                                                               *)

\* The invariant the runs check: every word, counter and stack is as the code
\* of `_run_on_crew` and `_crew_worker` means it to be.  A posting's state
\* word counts the threads in it (`_join`, `retire`), the budget's counter the
\* slots that crew threads hold (`reserve`, `release`), a call's claimed jobs
\* are those done and those that run, and the threads that run jobs at once
\* are within the budget and the callers.
THEOREM Invariance == Spec => []Inv
<1>1. IInv => Inv
  BY SlotsFollow, BudgetFollows DEF IInv, Inv
<1> QED BY <1>1, Inductively, PTL

\* A posting is not given to another call, nor its caller's frame gone, while
\* a thread that joined it is inside (`retire` returns only on a word of no
\* threads, and none joins after it is closed).
THEOREM JoinedStayAlive == Spec => []JoinedAreAlive
BY AliveFollows, Inductively, PTL

\* However calls nest and whoever helps whom, no threads wait in `retire` for
\* one another (`_help`: "no wait cycle forms"): a caller joins only from the
\* top of its stack, and the calls made above are younger.
THEOREM WaitsEnd == Spec => []NoWaitCycle
BY NoCycleFollows, Inductively, PTL

\* While a call that has woken the crew still wants a helper, some crew thread
\* is awake, although `_take` wakes nobody when it hands its place back.
THEOREM CrewStaysAwake == Spec => []NoLostWakeup
BY AwakeFollows, Inductively, PTL

-------------------------------------------------------------------------------
(* Operations at once: the other part of the run.                          *)

\* CrewLifecycle as the run instantiates it, with what is proved of it.
Owner == INSTANCE CrewLifecycleProofs
    WITH Operations <- TwoOperations, Addresses <- ThreeAddresses, Settings <- {0, 1},
         MaxHelpers <- 1, MaxStarts <- 3,
         setting <- l1, starts <- l2, current <- l3, parked <- l4, live <- l5, wanted <- l6,
         spawned <- l7, threads <- l8, stopping <- l9, worker <- l10, pc <- l11, after <- l12,
         mine <- l13, helpers <- l14, seen <- l15, joins <- l16

LEMMA OwnerAssumption == Owner!LifecycleAssumption
BY AddressesAssumption DEF Owner!LifecycleAssumption, ThreeAddresses

\* The instance of the proofs and that of the run say the same.
LEMMA OwnerInit == Owning!Init => Owner!Init
BY DEF Owner!Init, Owner!None, Owner!Workers, Owning!Init, Owning!None,
       Owning!Workers

LEMMA OwnerStep == [Owning!Next]_owned => [Owner!Next]_Owner!vars
<1>1. Owning!Next => Owner!Next
  BY DEF Owner!None, Owner!Workers, Owner!globals, Owner!crew, Owner!local,
       Owner!vars, Owner!Stopped, Owner!Using, Owner!Goto, Owner!Then,
       Owner!Own, Owner!See, Owner!Broadcast, Owner!Configure, Owner!Begin,
       Owner!CheckCurrent, Owner!LoadParked, Owner!TakeParked,
       Owner!Allocate, Owner!AllocateFails, Owner!Publish, Owner!Call,
       Owner!Use, Owner!WinSpawn, Owner!Create, Owner!CreateFails,
       Owner!PostJobs, Owner!Retire, Owner!End, Owner!Release, Owner!Offer,
       Owner!Park, Owner!LoadShutdown, Owner!TakeShutdown, Owner!Stop,
       Owner!AwaitSpawn, Owner!Join, Owner!Move, Owner!SpawnDone,
       Owner!SpawnCheck, Owner!SpawnNext, Owner!SpawnFails, Owner!Look,
       Owner!Sleep, Owner!SpuriousWakeup, Owner!StartStep, Owner!CallStep,
       Owner!EndStep, Owner!SpawnStep, Owner!WorkerStep, Owner!Next,
       Owning!None, Owning!Workers, Owning!globals, Owning!crew,
       Owning!local, Owning!vars, Owning!Stopped, Owning!Using, Owning!Goto,
       Owning!Then, Owning!Own, Owning!See, Owning!Broadcast,
       Owning!Configure, Owning!Begin, Owning!CheckCurrent,
       Owning!LoadParked, Owning!TakeParked, Owning!Allocate,
       Owning!AllocateFails, Owning!Publish, Owning!Call, Owning!Use,
       Owning!WinSpawn, Owning!Create, Owning!CreateFails, Owning!PostJobs,
       Owning!Retire, Owning!End, Owning!Release, Owning!Offer, Owning!Park,
       Owning!LoadShutdown, Owning!TakeShutdown, Owning!Stop,
       Owning!AwaitSpawn, Owning!Join, Owning!Move, Owning!SpawnDone,
       Owning!SpawnCheck, Owning!SpawnNext, Owning!SpawnFails, Owning!Look,
       Owning!Sleep, Owning!SpuriousWakeup, Owning!StartStep,
       Owning!CallStep, Owning!EndStep, Owning!SpawnStep, Owning!WorkerStep,
       Owning!Next
<1>2. owned' = owned => Owner!vars' = Owner!vars
  BY DEF owned, Owner!vars, Owner!globals, Owner!crew, Owner!local
<1> QED BY <1>1, <1>2

LEMMA OwnerSays == Owner!OwnedOnce /\ Owner!CurrentRuns => Owning!OwnedOnce /\ Owning!CurrentRuns
<1>1. \A S : Owner!Cardinality(S) = Owning!Cardinality(S)
  BY DEF Owner!Cardinality, Owning!Cardinality
<1>2. Owner!OwnedOnce => Owning!OwnedOnce
  BY <1>1 DEF Owner!OwnedOnce, Owning!OwnedOnce, Owner!Owners, Owning!Owners
<1>3. Owner!CurrentRuns => Owning!CurrentRuns
  BY DEF Owner!CurrentRuns, Owning!CurrentRuns, Owner!None, Owning!None, Owner!Using, Owning!Using
<1> QED BY <1>2, <1>3

\* However two operations overlap, a crew has one owner until it is freed, and
\* the current crew is one that runs (`Crew.start`, `Crew.release`,
\* `Crew.shutdown`).
THEOREM CrewsOwnedOnce == MCSpec => []OwnedByOne
<1> DEFINE Held == part = "own" => Owner!GInv
<1>1. MCInit => Held
  BY OwnerAssumption, OwnerInit, Owner!GeneralInit DEF MCInit
<1>2. Held /\ [MCNext]_<<part, owned, vars>> => Held'
  <2>1. CASE part = "own" /\ Owning!Next /\ UNCHANGED part
    BY <2>1, OwnerAssumption, OwnerStep, Owner!GeneralStep
  <2>2. CASE UNCHANGED <<part, owned>>
    BY <2>2, OwnerAssumption, OwnerStep, Owner!GeneralStep
  <2> QED BY <2>1, <2>2 DEF MCNext
<1>3. Held => OwnedByOne
  BY OwnerAssumption, OwnerSays, Owner!OwnedOnceFollows, Owner!CurrentFollows DEF OwnedByOne
<1> QED BY <1>1, <1>2, <1>3, PTL DEF MCSpec
================================================================================
