------------------------------- MODULE ScriptProofs -------------------------------
(***************************************************************************)
(* Proofs about programs under scripts/: the two that publish files, and   *)
(* those that check the repository.                                        *)
(*                                                                         *)
(* CalibrationFiles, for any profiles, publishers and threads and any      *)
(* number of calls and changes: the invariant adds to the types who holds  *)
(* the core's lock, and that a call goes on with the text of the file it   *)
(* has read itself; so the two models it returns are that file's, whatever *)
(* the two caches have come from.                                          *)
(*                                                                         *)
(* PackageBuild, for any number of builds and edits: the invariant says    *)
(* what is hashed, staged and put out when a build has come so far, of     *)
(* which the packages and their description follow.                        *)
(*                                                                         *)
(* TestReachability, for any programs and whatever they name: what is      *)
(* found is used, and a pass that has found nothing has left nothing to    *)
(* find.                                                                   *)
(*                                                                         *)
(* ImportBoundaries, for any modules, any imports and any order of the     *)
(* visit: until a cycle is reported the modules visited are closed under   *)
(* their imports, so that one that is left can not use itself.             *)
(***************************************************************************)
EXTENDS MCCalibration, RepositoryChecks, SequenceTheorems, WellFoundedInduction, TLAPS

\* The contents differ from one another by what is wrong with them.
LEMMA ContentsDiffer ==
    /\ NoFile \notin Profiles /\ Torn \notin Profiles
    /\ Nothing.call = "nothing"
BY ProfilesAssumption DEF NoFile, Torn, NoCosts, Nothing

LEMMA Initially == Init => Inv
<1> SUFFICES ASSUME Init PROVE Inv
  OBVIOUS
<1>1. TypeOK
  BY DEF Init, TypeOK, Contents, NoPath
<1>2. LockHeld /\ EntryOfText /\ NoMixedModels
  BY ProfilesAssumption, ContentsDiffer
  DEF Init, LockHeld, EntryOfText, NoMixedModels, Nobody, Nothing
<1> QED BY <1>1, <1>2 DEF Inv

\* A step that no thread takes changes no cache and nothing a thread has.
LEMMA OutsideStep ==
    ASSUME Inv,
           \/ \E w \in Publishers : Create(w) \/ WritePayload(w) \/ FileExists(w) \/ Killed(w)
           \/ SetPath
           \/ \E p \in Profiles : Overwrite(p)
           \/ UNCHANGED vars
    PROVE  Inv'
<1>1. UNCHANGED <<payload, cache, profile, pc, local, got>>
  BY DEF Create, WritePayload, FileExists, Killed, Publish, SetPath, Overwrite, vars,
     publishing
<1>2. /\ file' \in [Profiles -> Contents] /\ had' \in [Profiles -> SUBSET Contents]
      /\ setting' \in Profiles
      /\ step' \in [Publishers -> {"begin", "write", "returned", "collision", "killed"}]
  <2>1. TypeOK
    BY DEF Inv
  <2>2. ASSUME NEW p \in Profiles, NEW content \in Contents, Put(p, content)
        PROVE  file' \in [Profiles -> Contents] /\ had' \in [Profiles -> SUBSET Contents]
    <3>1. file' = [file EXCEPT ![p] = content] /\ had' = [had EXCEPT ![p] = @ \cup {content}]
      BY <2>2 DEF Put
    <3>2. had[p] \cup {content} \in SUBSET Contents
      BY <2>1 DEF TypeOK
    <3> QED BY <2>1, <3>1, <3>2 DEF TypeOK
  <2>3. ASSUME NEW w \in Publishers,
               NEW there \in {"begin", "write", "returned", "collision", "killed"},
               Publish(w, there)
        PROVE  /\ step' \in [Publishers -> {"begin", "write", "returned", "collision", "killed"}]
               /\ setting' \in Profiles
    BY <2>1, <2>3 DEF TypeOK, Publish
  <2>4. \A w \in Publishers : payload[w] \in Profiles
    BY <2>1 DEF TypeOK
  <2>5. Profiles \subseteq Contents /\ Torn \in Contents
    BY DEF Contents
  <2>6. CASE \E w \in Publishers : Create(w) \/ WritePayload(w)
    BY <2>2, <2>3, <2>4, <2>5, <2>6 DEF Create, WritePayload
  <2>7. CASE \E w \in Publishers : FileExists(w) \/ Killed(w)
    BY <2>1, <2>3, <2>7 DEF FileExists, Killed, TypeOK
  <2>8. CASE SetPath
    BY <2>1, <2>8 DEF SetPath, TypeOK, publishing
  <2>9. CASE \E p \in Profiles : Overwrite(p)
    BY <2>1, <2>2, <2>5, <2>9 DEF Overwrite, TypeOK, publishing
  <2>10. CASE UNCHANGED vars
    BY <2>1, <2>10 DEF TypeOK, vars, disk, publishing
  <2> QED BY <2>6, <2>7, <2>8, <2>9, <2>10
<1>3. TypeOK'
  BY <1>1, <1>2 DEF Inv, TypeOK, cache, local
<1>4. LockHeld' /\ EntryOfText' /\ NoMixedModels'
  BY <1>1 DEF Inv, LockHeld, EntryOfText, NoMixedModels, cache, local
<1> QED BY <1>3, <1>4 DEF Inv

\* What the invariant says of one thread.
Fits(t) ==
    /\ pc[t] \in {"load", "read cpu", "read accel"} =>
          entry[t] = NoFile \/ entry[t] = text[t]
    /\ pc[t] # "idle" => mine[t] \in Profiles /\ got[t].call = "nothing"
    /\ got[t].call = "measured" =>
          got[t].accel = text[t].accel /\ got[t].cpu = text[t].cpu /\ got[t].cpu = got[t].core

Same(t) ==
    /\ pc'[t] = pc[t] /\ mine'[t] = mine[t] /\ text'[t] = text[t]
    /\ entry'[t] = entry[t] /\ got'[t] = got[t]

\* A step of one thread leaves what the others have.
LEMMA OthersFit ==
    ASSUME Inv, NEW t \in Threads, Fits(t)', \A u \in Threads \ {t} : Same(u)
    PROVE  EntryOfText' /\ NoMixedModels'
<1>1. \A u \in Threads : Fits(u)'
  <2> SUFFICES ASSUME NEW u \in Threads PROVE Fits(u)'
    OBVIOUS
  <2>1. CASE u = t
    BY <2>1
  <2>2. CASE u # t
    <3>1. Same(u)
      BY <2>2
    <3>2. Fits(u)
      BY DEF Inv, EntryOfText, NoMixedModels, Fits
    <3> QED BY <3>1, <3>2 DEF Same, Fits
  <2> QED BY <2>1, <2>2
<1> QED BY <1>1 DEF Fits, EntryOfText, NoMixedModels

\* The lock's holder is the thread that reads the file.
LEMMA LockUntouched ==
    ASSUME Inv, NEW t \in Threads, \A u \in Threads \ {t} : Same(u), lock' = lock,
           pc[t] \in {"read cpu", "read accel"} <=> pc'[t] \in {"read cpu", "read accel"}
    PROVE  LockHeld'
BY DEF Inv, LockHeld, Same

LEMMA LockTaken ==
    ASSUME Inv, NEW t \in Threads, \A u \in Threads \ {t} : Same(u),
           lock = Nobody, lock' = t, pc'[t] \in {"read cpu", "read accel"}
    PROVE  LockHeld'
BY ProfilesAssumption DEF Inv, LockHeld, Same, Nobody

LEMMA LockDropped ==
    ASSUME Inv, NEW t \in Threads, \A u \in Threads \ {t} : Same(u),
           lock = t, lock' = Nobody, pc'[t] \notin {"read cpu", "read accel"}
    PROVE  LockHeld'
BY ProfilesAssumption DEF Inv, LockHeld, Same, Nobody

LEMMA StartStep ==
    ASSUME Inv, NEW t \in Threads, StartLoad(t) \/ StartMeasured(t)
    PROVE  Inv'
<1>1. TypeOK
  BY DEF Inv
<1>2. UNCHANGED <<file, had, setting, changes, step, payload, lock, costs, path, profile>>
  BY DEF StartLoad, StartMeasured, disk, publishing, cache
<1>3. /\ pc[t] = "idle"
      /\ mine' = [mine EXCEPT ![t] = setting]
      /\ got' = [got EXCEPT ![t] = Nothing]
      /\ \E there \in {"idle", "snapshot", "load"} : pc' = [pc EXCEPT ![t] = there]
      /\ text' = text \/ text' = [text EXCEPT ![t] = file[setting]]
      /\ entry' = entry \/ entry' = [entry EXCEPT ![t] = NoFile]
  BY DEF StartLoad, StartMeasured, Goto
<1>4. setting \in Profiles /\ file[setting] \in Contents /\ NoFile \in Contents
  BY <1>1 DEF TypeOK, Contents
<1>5. TypeOK'
  <2>1. DOMAIN got' = Threads
    BY <1>1, <1>3 DEF TypeOK
  <2>2. pc' \in [Threads -> {"idle", "snapshot", "load", "read cpu", "read accel"}]
    <3>1. pc \in [Threads -> {"idle", "snapshot", "load", "read cpu", "read accel"}]
      BY <1>1 DEF TypeOK
    <3>2. PICK there \in {"idle", "snapshot", "load"} : pc' = [pc EXCEPT ![t] = there]
      BY <1>3
    <3> QED BY <3>1, <3>2
  <2>3. mine' \in [Threads -> Profiles \cup {NoPath}]
    BY <1>1, <1>3, <1>4 DEF TypeOK
  <2>4. text' \in [Threads -> Contents]
    BY <1>1, <1>3, <1>4 DEF TypeOK
  <2>5. entry' \in [Threads -> Contents]
    BY <1>1, <1>3, <1>4 DEF TypeOK
  <2> QED BY <1>1, <1>2, <2>1, <2>2, <2>3, <2>4, <2>5 DEF TypeOK
<1>6. \A u \in Threads \ {t} : Same(u)
  BY <1>1, <1>3 DEF TypeOK, Same
<1>7. /\ pc'[t] \in {"idle", "snapshot", "load"} /\ mine'[t] = setting
      /\ got'[t] = Nothing
      /\ pc'[t] = "load" => entry'[t] = NoFile
  <2>1. /\ pc'[t] \in {"idle", "snapshot", "load"} /\ mine'[t] = setting
        /\ got'[t] = Nothing
    BY <1>1, <1>3 DEF TypeOK
  <2>2. CASE StartLoad(t)
    BY <1>1, <2>1, <2>2 DEF StartLoad, TypeOK
  <2>3. CASE StartMeasured(t)
    BY <1>1, <2>1, <2>3 DEF StartMeasured, Goto, TypeOK
  <2> QED BY <2>1, <2>2, <2>3
<1>8. Fits(t)'
  BY <1>4, <1>7, ContentsDiffer DEF Fits
<1>9. LockHeld'
  BY <1>2, <1>3, <1>6, <1>7, LockUntouched
<1> QED BY <1>5, <1>6, <1>8, <1>9, OthersFit DEF Inv

LEMMA SnapshotStep ==
    ASSUME Inv, NEW t \in Threads, Snapshot(t)
    PROVE  Inv'
<1>1. TypeOK
  BY DEF Inv
<1>2. UNCHANGED <<file, had, setting, changes, step, payload, lock, costs, path, text>>
  BY DEF Snapshot, disk, publishing, cache
<1>3. pc[t] = "snapshot" /\ mine[t] \in Profiles
  BY DEF Snapshot, Inv, EntryOfText
<1>4. Taken(t) \in [path : Profiles \cup {NoPath}, text : Contents, valid : BOOLEAN]
  BY <1>1, <1>3 DEF TypeOK, Taken
<1>5. setting \in Profiles
  BY <1>1 DEF TypeOK
<1>6. CASE Matches(t)
  <2>1. /\ profile' = Taken(t)
        /\ entry' = [entry EXCEPT ![t] = Taken(t).text]
        /\ pc' = [pc EXCEPT ![t] = "load"]
        /\ mine' = [mine EXCEPT ![t] = setting]
        /\ got' = got
    BY <1>6 DEF Snapshot, Goto
  <2>2. TypeOK'
    BY <1>1, <1>2, <1>4, <1>5, <2>1 DEF TypeOK
  <2>3. \A u \in Threads \ {t} : Same(u)
    BY <1>1, <1>2, <2>1 DEF TypeOK, Same
  <2>4. /\ pc'[t] = "load" /\ entry'[t] = text'[t] /\ mine'[t] = setting
        /\ got'[t] = got[t]
    BY <1>1, <1>2, <1>6, <2>1 DEF TypeOK, Matches
  <2>5. got[t].call = "nothing"
    BY <1>3 DEF Inv, EntryOfText
  <2>6. Fits(t)'
    BY <1>5, <2>4, <2>5 DEF Fits
  <2>7. LockHeld'
    BY <1>2, <1>3, <2>3, <2>4, LockUntouched
  <2> QED BY <2>2, <2>3, <2>6, <2>7, OthersFit DEF Inv
<1>7. CASE ~Matches(t)
  <2>1. /\ profile' = Taken(t) /\ entry' = entry /\ mine' = mine
        /\ pc' = [pc EXCEPT ![t] = "idle"]
        /\ got' = [got EXCEPT ![t] = Nothing]
    BY <1>7 DEF Snapshot, Raise, Goto
  <2>2. TypeOK'
    BY <1>1, <1>2, <1>4, <2>1 DEF TypeOK
  <2>3. \A u \in Threads \ {t} : Same(u)
    BY <1>1, <1>2, <2>1 DEF TypeOK, Same
  <2>4. pc'[t] = "idle" /\ got'[t] = Nothing
    BY <1>1, <2>1 DEF TypeOK
  <2>5. Fits(t)'
    BY <2>4, ContentsDiffer DEF Fits
  <2>6. LockHeld'
    BY <1>2, <1>3, <2>3, <2>4, LockUntouched
  <2> QED BY <2>2, <2>3, <2>5, <2>6, OthersFit DEF Inv
<1> QED BY <1>6, <1>7

\* The record of a call that returns costs: the two models of a region are its
\* text's, and the CPU's is the one it has just been given.
LEMMA OneModel ==
    ASSUME NEW t \in Threads, entry[t] = NoFile \/ entry[t] = text[t],
           got'[t] =
             IF entry[t] = NoFile
             THEN [call |-> "load", path |-> mine[t], cpu |-> costs.cpu, accel |-> 0,
                   core |-> costs.cpu]
             ELSE IF costs.cpu = entry[t].cpu
             THEN [call |-> "measured", path |-> mine[t],
                   cpu |-> entry[t].cpu, accel |-> entry[t].accel, core |-> costs.cpu]
             ELSE Nothing
    PROVE  got'[t].call = "measured" =>
             /\ got'[t].accel = text[t].accel /\ got'[t].cpu = text[t].cpu
             /\ got'[t].cpu = got'[t].core
<1>1. CASE entry[t] = NoFile
  <2>1. got'[t] = [call |-> "load", path |-> mine[t], cpu |-> costs.cpu, accel |-> 0,
                   core |-> costs.cpu]
    BY <1>1
  <2>2. got'[t].call = "load"
    BY <2>1
  <2> QED BY <2>2
<1>2. CASE entry[t] # NoFile /\ costs.cpu = entry[t].cpu
  <2>1. got'[t] = [call |-> "measured", path |-> mine[t],
                   cpu |-> entry[t].cpu, accel |-> entry[t].accel, core |-> costs.cpu]
    BY <1>2
  <2>2. /\ got'[t].cpu = entry[t].cpu /\ got'[t].accel = entry[t].accel
        /\ got'[t].core = costs.cpu
    BY <2>1
  <2> QED BY <1>2, <2>2
<1>3. CASE entry[t] # NoFile /\ costs.cpu # entry[t].cpu
  BY <1>3, ContentsDiffer
<1> QED BY <1>1, <1>2, <1>3

LEMMA Returns ==
    ASSUME Inv, NEW t \in Threads, pc[t] \in {"load", "read accel"}, Return(t, costs),
           UNCHANGED <<mine, text, entry>>
    PROVE  /\ pc' = [pc EXCEPT ![t] = "idle"] /\ DOMAIN got' = Threads
           /\ \A u \in Threads \ {t} : Same(u)
           /\ Fits(t)'
<1>1. TypeOK
  BY DEF Inv
<1>2. pc' = [pc EXCEPT ![t] = "idle"] /\ pc'[t] = "idle"
  BY <1>1 DEF Return, Goto, TypeOK
<1>3. DOMAIN got' = Threads /\ \A u \in Threads \ {t} : got'[u] = got[u]
  BY <1>1 DEF Return, TypeOK
<1>4. \A u \in Threads \ {t} : Same(u)
  BY <1>1, <1>2, <1>3 DEF Same, TypeOK
<1>5. entry[t] = NoFile \/ entry[t] = text[t]
  BY DEF Inv, EntryOfText
<1>6. got'[t].call = "measured" =>
        /\ got'[t].accel = text[t].accel /\ got'[t].cpu = text[t].cpu
        /\ got'[t].cpu = got'[t].core
  BY <1>1, <1>5, OneModel DEF Return, TypeOK
<1> QED BY <1>2, <1>3, <1>4, <1>6 DEF Fits

LEMMA Raises ==
    ASSUME Inv, NEW t \in Threads, Raise(t), UNCHANGED <<mine, text, entry>>
    PROVE  /\ pc' = [pc EXCEPT ![t] = "idle"] /\ DOMAIN got' = Threads
           /\ \A u \in Threads \ {t} : Same(u)
           /\ Fits(t)'
<1>1. TypeOK
  BY DEF Inv
<1>2. pc' = [pc EXCEPT ![t] = "idle"] /\ pc'[t] = "idle"
  BY <1>1 DEF Raise, Goto, TypeOK
<1>3. /\ DOMAIN got' = Threads /\ \A u \in Threads \ {t} : got'[u] = got[u]
      /\ got'[t] = Nothing
  BY <1>1 DEF Raise, TypeOK
<1>4. \A u \in Threads \ {t} : Same(u)
  BY <1>1, <1>2, <1>3 DEF Same, TypeOK
<1> QED BY <1>2, <1>3, <1>4, ContentsDiffer DEF Fits

\* A call that goes on, to the next of load_costs' steps.
LEMMA GoesOn ==
    ASSUME Inv, NEW t \in Threads, NEW there \in {"read cpu", "read accel"},
           pc[t] \in {"load", "read cpu"}, Goto(t, there), got' = got,
           UNCHANGED <<mine, text, entry>>
    PROVE  /\ pc'[t] = there
           /\ \A u \in Threads \ {t} : Same(u)
           /\ Fits(t)'
<1>1. TypeOK
  BY DEF Inv
<1>2. pc'[t] = there /\ \A u \in Threads \ {t} : pc'[u] = pc[u]
  BY <1>1 DEF Goto, TypeOK
<1>3. \A u \in Threads \ {t} : Same(u)
  BY <1>2 DEF Same
<1>4. /\ entry[t] = NoFile \/ entry[t] = text[t]
      /\ mine[t] \in Profiles /\ got[t].call = "nothing"
  BY DEF Inv, EntryOfText
<1> QED BY <1>2, <1>3, <1>4 DEF Fits

LEMMA LoadLockStep ==
    ASSUME Inv, NEW t \in Threads, LoadLock(t)
    PROVE  Inv'
<1>1. TypeOK
  BY DEF Inv
<1>2. /\ UNCHANGED <<file, had, setting, changes, step, payload, path, profile>>
      /\ UNCHANGED <<mine, text, entry>> /\ pc[t] = "load" /\ lock = Nobody
  BY DEF LoadLock, disk, publishing, cache, local
<1>3. CASE path = mine[t]
  <2>1. Return(t, costs) /\ UNCHANGED <<lock, costs>>
    BY <1>3 DEF LoadLock, cache
  <2>2. /\ pc' = [pc EXCEPT ![t] = "idle"] /\ DOMAIN got' = Threads
        /\ \A u \in Threads \ {t} : Same(u)
        /\ Fits(t)'
    BY <1>2, <2>1, Returns
  <2>3. TypeOK'
    BY <1>1, <1>2, <2>1, <2>2 DEF TypeOK
  <2>4. pc'[t] = "idle"
    BY <1>1, <2>2 DEF TypeOK
  <2>5. LockHeld'
    BY <1>2, <2>1, <2>2, <2>4, LockUntouched
  <2> QED BY <2>2, <2>3, <2>5, OthersFit DEF Inv
<1>4. CASE path # mine[t]
  <2>1. lock' = t /\ costs' = NoCosts /\ Goto(t, "read cpu") /\ got' = got
    BY <1>4 DEF LoadLock
  <2>2. /\ pc'[t] = "read cpu" /\ Fits(t)'
        /\ \A u \in Threads \ {t} : Same(u)
    BY <1>2, <2>1, GoesOn
  <2>3. TypeOK'
    BY <1>1, <1>2, <2>1 DEF TypeOK, Goto
  <2>4. LockHeld'
    BY <1>2, <2>1, <2>2, LockTaken
  <2> QED BY <2>2, <2>3, <2>4, OthersFit DEF Inv
<1> QED BY <1>3, <1>4

LEMMA ReadCpuStep ==
    ASSUME Inv, NEW t \in Threads, ReadCpu(t)
    PROVE  Inv'
<1>1. TypeOK
  BY DEF Inv
<1>2. /\ UNCHANGED <<file, had, setting, changes, step, payload, path, profile>>
      /\ UNCHANGED <<mine, text, entry>> /\ pc[t] = "read cpu"
  BY DEF ReadCpu, disk, publishing, local
<1>3. lock = t /\ mine[t] \in Profiles /\ file[mine[t]] \in Contents
  BY <1>1, <1>2 DEF Inv, LockHeld, EntryOfText, TypeOK
<1>4. CASE file[mine[t]].bad = "all"
  <2>1. Raise(t) /\ lock' = Nobody /\ costs' = costs
    BY <1>4 DEF ReadCpu
  <2>2. /\ pc' = [pc EXCEPT ![t] = "idle"] /\ DOMAIN got' = Threads
        /\ \A u \in Threads \ {t} : Same(u)
        /\ Fits(t)'
    BY <1>2, <2>1, Raises
  <2>3. TypeOK'
    BY <1>1, <1>2, <2>1, <2>2 DEF TypeOK
  <2>4. pc'[t] = "idle"
    BY <1>1, <2>2 DEF TypeOK
  <2>5. LockHeld'
    BY <1>3, <2>1, <2>2, <2>4, LockDropped
  <2> QED BY <2>2, <2>3, <2>5, OthersFit DEF Inv
<1>5. CASE file[mine[t]].bad # "all"
  <2>1. costs' = file[mine[t]] /\ lock' = lock /\ Goto(t, "read accel") /\ got' = got
    BY <1>5 DEF ReadCpu
  <2>2. /\ pc'[t] = "read accel" /\ Fits(t)'
        /\ \A u \in Threads \ {t} : Same(u)
    BY <1>2, <2>1, GoesOn
  <2>3. TypeOK'
    BY <1>1, <1>2, <1>3, <2>1 DEF TypeOK, Goto
  <2>4. LockHeld'
    BY <1>2, <2>1, <2>2, LockUntouched
  <2> QED BY <2>2, <2>3, <2>4, OthersFit DEF Inv
<1> QED BY <1>4, <1>5

LEMMA ReadAccelStep ==
    ASSUME Inv, NEW t \in Threads, ReadAccel(t)
    PROVE  Inv'
<1>1. TypeOK
  BY DEF Inv
<1>2. /\ UNCHANGED <<file, had, setting, changes, step, payload, costs, profile>>
      /\ UNCHANGED <<mine, text, entry>> /\ pc[t] = "read accel" /\ lock' = Nobody
  BY DEF ReadAccel, disk, publishing, local
<1>3. lock = t /\ mine[t] \in Profiles
  BY <1>2 DEF Inv, LockHeld, EntryOfText
<1>4. \/ Raise(t) /\ path' = path
      \/ Return(t, costs) /\ path' = mine[t]
  BY DEF ReadAccel
<1>5. /\ pc' = [pc EXCEPT ![t] = "idle"] /\ DOMAIN got' = Threads
      /\ \A u \in Threads \ {t} : Same(u)
      /\ Fits(t)'
  BY <1>2, <1>4, Raises, Returns
<1>6. TypeOK'
  BY <1>1, <1>2, <1>3, <1>4, <1>5 DEF TypeOK
<1>7. pc'[t] = "idle"
  BY <1>1, <1>5 DEF TypeOK
<1>8. LockHeld'
  BY <1>2, <1>3, <1>5, <1>7, LockDropped
<1> QED BY <1>5, <1>6, <1>8, OthersFit DEF Inv

LEMMA Step == Inv /\ [Next]_vars => Inv'
<1> SUFFICES ASSUME Inv, [Next]_vars PROVE Inv'
  OBVIOUS
<1>1. CASE \E t \in Threads : StartLoad(t) \/ StartMeasured(t)
  BY <1>1, StartStep
<1>2. CASE \E t \in Threads : ThreadStep(t)
  BY <1>2, SnapshotStep, LoadLockStep, ReadCpuStep, ReadAccelStep DEF ThreadStep
<1>3. CASE \/ \E w \in Publishers : Create(w) \/ WritePayload(w) \/ FileExists(w) \/ Killed(w)
           \/ SetPath
           \/ \E p \in Profiles : Overwrite(p)
           \/ UNCHANGED vars
  BY <1>3, OutsideStep
<1> QED BY <1>1, <1>2, <1>3 DEF Next

\* The caches keep their types and locks, and a region's costs are the two
\* models of the one file its call has read, the CPU's the core's own:
\* calibration.mojo:231-268 and placement.mojo:80-103.
THEOREM Invariance == Spec => []Inv
BY Initially, Step, PTL DEF Spec

\* A publisher that returns a path has left the whole profile under it, and
\* finds it whole when another has: metal_calibration.py:212-230.
THEOREM PublishedWhole == Spec => PublishedIsWhole
<1>1. ASSUME Inv, [Next]_vars
      PROVE  \A w \in Publishers :
                step'[w] = "returned" /\ step[w] # "returned" =>
                    file'[payload[w]] = payload[w]
  <2> SUFFICES ASSUME NEW w \in Publishers, step'[w] = "returned", step[w] # "returned"
               PROVE  file'[payload[w]] = payload[w]
    OBVIOUS
  <2>1. TypeOK /\ payload[w] \in Profiles
    BY <1>1 DEF Inv, TypeOK
  <2>2. step' # step
    OBVIOUS
  <2>3. \E v \in Publishers : Create(v) \/ WritePayload(v) \/ FileExists(v) \/ Killed(v)
    BY <1>1, <2>2 DEF Next, SetPath, Overwrite, StartLoad, StartMeasured,
       ThreadStep, LoadLock, ReadCpu, ReadAccel, Snapshot, publishing, vars
  <2>4. \A v \in Publishers :
          Create(v) \/ WritePayload(v) \/ FileExists(v) \/ Killed(v) => v = w
    BY <2>1 DEF TypeOK, Create, WritePayload, FileExists, Killed, Publish
  <2>5. Create(w) \/ WritePayload(w) \/ FileExists(w) \/ Killed(w)
    BY <2>3, <2>4, Zenon
  <2>6. ~Create(w) /\ ~Killed(w)
    BY <2>1 DEF TypeOK, Create, Killed, Publish
  <2>7. CASE WritePayload(w)
    BY <2>1, <2>7 DEF TypeOK, WritePayload, Put
  <2>8. CASE FileExists(w)
    <3>1. /\ file' = file
          /\ step' = [step EXCEPT ![w] =
                          IF file[payload[w]] # payload[w] THEN "collision" ELSE "returned"]
      BY <2>8 DEF FileExists, Publish
    <3>2. step'[w] = IF file[payload[w]] # payload[w] THEN "collision" ELSE "returned"
      BY <2>1, <3>1 DEF TypeOK
    <3>3. CASE file[payload[w]] # payload[w]
      BY <3>2, <3>3
    <3>4. CASE file[payload[w]] = payload[w]
      BY <3>1, <3>4
    <3> QED BY <3>3, <3>4
  <2> QED BY <2>5, <2>6, <2>7, <2>8
<1> QED BY <1>1, Invariance, PTL DEF Spec, PublishedIsWhole

-------------------------------------------------------------------------------
(* Builds.                                                                 *)

Early == {"hash", "hash metal", "copy", "compile"}
Late == {"cpu-build.json", "describe", "finish"}
Stops == Early \cup Late \cup {"idle", "copy out", "replace"}
Listed == {Build!list[i] : i \in DOMAIN Build!list}

BuildTypes ==
    /\ tree \in [Build!Trees -> 1..MaxEdits + 1]
    /\ builds \in 0..MaxBuilds
    /\ stop \in Stops
    /\ provider \in Build!Providers
    /\ at \in 1..4 /\ (stop # "idle" => at <= Len(Build!list))
    /\ DOMAIN stage \subseteq Build!Packages
    /\ DOMAIN output = Build!Packages /\ output = [p \in Build!Packages |-> output[p]]
    /\ description.state \in {"absent", "partial", "whole"}

\* What is hashed is what the trees are until they are copied, unless somebody
\* edits them in between.
Hashed ==
    /\ stop = "hash metal" => provider = "metal"
    /\ stop # "idle" /\ provider = "cpu" => metal = <<>>
    /\ stop \in {"hash metal", "copy"} /\ quiet => identity = tree["dataframe"]
    /\ stop = "copy" /\ quiet /\ provider = "metal" =>
          metal = <<tree["dataframe"], tree["dataframe_metal"], tree["dataframe_provider"]>>

Uncopied == {"hash", "hash metal", "copy", "idle"}

\* A package of the stage is of its tree, with the identities hashed.
Staged ==
    /\ stop \in {"hash", "hash metal"} => DOMAIN stage = {} /\ at = 1
    /\ stop = "copy" => DOMAIN stage = {Build!list[i] : i \in 1..at - 1}
    /\ stop \notin {"idle", "hash", "hash metal", "copy"} => DOMAIN stage = Listed
    /\ \A p \in DOMAIN stage : stop # "idle" =>
          /\ stage[p].tree = Build!TreeOf(p, provider)
          /\ stage[p].identity = Build!Written(p)
          /\ stop = "copy" /\ quiet => stage[p].version = tree[Build!TreeOf(p, provider)]
    /\ stop \notin Uncopied /\ quiet =>
          /\ identity = stage["dataframe"].version
          /\ provider = "metal" =>
                metal = <<stage["dataframe"].version, stage["dataframe_metal"].version,
                          stage["dataframe_provider"].version>>

\* The packages before the one at hand are those of the stage.
PutOut ==
    /\ \A p \in Build!Packages : output[p] # Build!Partial
    /\ stop \in Early => output = before
    /\ stop = "replace" => temporary = stage[Build!package]
    /\ stop \in {"copy out", "replace"} =>
          \A i \in 1..at - 1 : output[Build!list[i]] = stage[Build!list[i]]
    /\ stop \in Late => \A p \in Listed : output[p] = stage[p]

Described ==
    /\ stop \in {"cpu-build.json", "describe"} => ~settled
    /\ Build!DescribesThePackages

BuildInv == BuildTypes /\ Hashed /\ Staged /\ PutOut /\ Described

\* The packages of a build.
LEMMA ListOf ==
    ASSUME NEW p \in Build!Providers
    PROVE  LET list == Build!PackagesOf(p) IN
           /\ Len(list) = (IF p = "metal" THEN 3 ELSE 2)
           /\ DOMAIN list = 1..Len(list)
           /\ list[1] = "dataframe" /\ list[2] = "dataframe_provider"
           /\ p = "metal" => list[3] = "dataframe_metal"
<1> DEFINE list == Build!PackagesOf(p)
<1>1. CASE p = "metal"
  <2> DEFINE both == <<"dataframe", "dataframe_provider">>
             back == <<"dataframe_metal">>
  <2>1. list = both \o back
    BY <1>1 DEF Build!PackagesOf
  <2>2. /\ both \in Seq(Build!Packages) /\ Len(both) = 2
        /\ both[1] = "dataframe" /\ both[2] = "dataframe_provider"
        /\ back \in Seq(Build!Packages) /\ Len(back) = 1 /\ back[1] = "dataframe_metal"
    BY DEF Build!Packages
  <2> HIDE DEF both, back
  <2>3. /\ both \o back \in Seq(Build!Packages) /\ Len(both \o back) = 3
        /\ \A i \in 1..3 : (both \o back)[i] = IF i <= 2 THEN both[i] ELSE back[i - 2]
    <3>1. /\ both \o back \in Seq(Build!Packages)
          /\ Len(both \o back) = Len(both) + Len(back)
          /\ \A i \in 1..Len(both) + Len(back) :
                (both \o back)[i] = IF i <= Len(both) THEN both[i] ELSE back[i - Len(both)]
      BY <2>2, ConcatProperties
    <3>2. Len(both) = 2 /\ Len(both) + Len(back) = 3
      BY <2>2
    <3>3. ASSUME NEW i \in 1..3
          PROVE  (both \o back)[i] = IF i <= 2 THEN both[i] ELSE back[i - 2]
      BY <3>1, <3>2
    <3>4. Len(both \o back) = 3
      BY <3>1, <3>2
    <3> QED BY <3>1, <3>3, <3>4, Zenon
  <2>4. Len(list) = 3 /\ DOMAIN list = 1..3
    BY <2>1, <2>3, LenProperties
  <2>5. /\ (both \o back)[1] = both[1] /\ (both \o back)[2] = both[2]
        /\ (both \o back)[3] = back[3 - 2]
    BY <2>3
  <2>6. 3 - 2 = 1
    OBVIOUS
  <2>7. list[1] = both[1] /\ list[2] = both[2] /\ list[3] = back[1]
    BY <2>1, <2>5, <2>6
  <2> QED BY <1>1, <2>2, <2>4, <2>7
<1>2. CASE p = "cpu"
  <2>1. list = <<"dataframe", "dataframe_provider">>
    BY <1>2 DEF Build!PackagesOf
  <2> QED BY <1>2, <2>1
<1> QED BY <1>1, <1>2 DEF Build!Providers

\* The loops stay within the packages.
LEMMA WithinList ==
    ASSUME NEW n \in 2..3, NEW i \in 1..n, NEW j,
           \/ j = i + 1 /\ i < n
           \/ j = 1
    PROVE  j \in 1..4 /\ j <= n
<1>1. CASE j = i + 1 /\ i < n
  BY <1>1
<1>2. CASE j = 1
  BY <1>2
<1> QED BY <1>1, <1>2

LEMMA ListedAre ==
    ASSUME provider \in Build!Providers
    PROVE  /\ Listed = {"dataframe", "dataframe_provider"}
                        \cup (IF provider = "metal" THEN {"dataframe_metal"} ELSE {})
           /\ Listed \subseteq Build!Packages
           /\ \A i, j \in DOMAIN Build!list : Build!list[i] = Build!list[j] => i = j
<1>1. CASE provider = "metal"
  <2>1. DOMAIN Build!list = {1, 2, 3}
    BY <1>1, ListOf DEF Build!list
  <2> QED BY <1>1, <2>1, ListOf DEF Listed, Build!Packages, Build!list
<1>2. CASE provider # "metal"
  <2>1. DOMAIN Build!list = {1, 2}
    BY <1>2, ListOf DEF Build!list, Build!Providers
  <2> QED BY <1>2, <2>1, ListOf DEF Listed, Build!Packages, Build!list
<1> QED BY <1>1, <1>2

\* A package is never partial: no tree has that name.
LEMMA StagedWhole ==
    ASSUME BuildInv, stop # "idle", NEW p \in DOMAIN stage
    PROVE  stage[p] # Build!Partial
<1>1. stage[p].tree \in Build!Trees
  <2>1. p \in Build!Packages
    BY DEF BuildInv, BuildTypes
  <2>2. stage[p].tree = Build!TreeOf(p, provider)
    BY DEF BuildInv, Staged
  <2> QED BY <2>1, <2>2 DEF Build!TreeOf, Build!Trees, Build!Packages
<1> QED BY <1>1 DEF Build!Partial, Build!Trees

LEMMA BuildInit == MaxEdits \in Nat /\ MaxBuilds \in Nat /\ Build!Init => BuildInv
<1> SUFFICES ASSUME MaxEdits \in Nat, MaxBuilds \in Nat, Build!Init PROVE BuildInv
  OBVIOUS
<1>1. BuildTypes
  <2>1. tree \in [Build!Trees -> 1..MaxEdits + 1]
    BY DEF Build!Init
  <2>2. /\ DOMAIN stage = {} /\ DOMAIN output = Build!Packages
        /\ output = [p \in Build!Packages |-> output[p]]
    BY DEF Build!Init
  <2>3. description.state = "absent"
    BY DEF Build!Init, Build!NoDescription
  <2> QED BY <2>1, <2>2, <2>3 DEF Build!Init, BuildTypes, Build!Providers, Stops
<1>2. stop = "idle" /\ \A p \in Build!Packages : output[p] = Build!Absent
  BY DEF Build!Init
<1>3. Build!Absent # Build!Partial
  BY DEF Build!Absent, Build!Partial
<1>4. Build!DescribesThePackages
  BY <1>2 DEF Build!DescribesThePackages, Build!Init, Build!NoDescription
<1>5. PutOut
  BY <1>2, <1>3 DEF PutOut, Early, Late
<1>6. Hashed /\ Staged
  BY <1>2 DEF Hashed, Staged, Uncopied, Build!Init
<1> QED BY <1>1, <1>2, <1>4, <1>5, <1>6 DEF BuildInv, Described

\* The packages and what was written of them stay as they are.
LEMMA DescribedKept ==
    ASSUME Described, UNCHANGED <<output, description, settled>>,
           stop' \in {"cpu-build.json", "describe"} => stop \in {"cpu-build.json", "describe"}
    PROVE  Described'
<1>1. Build!DescribesThePackages'
  BY DEF Described, Build!DescribesThePackages
<1> QED BY <1>1 DEF Described

\* Somebody edits a source: the build goes on with what it has.
LEMMA EditStep ==
    ASSUME BuildInv, MaxEdits \in Nat, NEW t \in Build!Trees, Build!Edit(t)
    PROVE  BuildInv'
<1>0. /\ UNCHANGED <<builds, provider, before, stop, identity, metal, stage, at, output,
                     temporary, description, settled>>
      /\ quiet' = (quiet /\ stop \notin {"hash metal", "copy"})
      /\ tree' = [tree EXCEPT ![t] = @ + 1] /\ Build!Edits < MaxEdits
  BY DEF Build!Edit, Build!files
<1>1. tree' \in [Build!Trees -> 1..MaxEdits + 1]
  <2>1. tree \in [Build!Trees -> 1..MaxEdits + 1] /\ tree' = [tree EXCEPT ![t] = @ + 1]
    BY <1>0 DEF BuildInv, BuildTypes
  <2>2. /\ tree["dataframe"] \in 1..MaxEdits + 1 /\ tree["dataframe_metal"] \in 1..MaxEdits + 1
        /\ tree["dataframe_provider"] \in 1..MaxEdits + 1
        /\ tree["providers/cpu"] \in 1..MaxEdits + 1
        /\ t \in {"dataframe", "dataframe_metal", "dataframe_provider", "providers/cpu"}
    BY <2>1 DEF Build!Trees
  <2>3. tree["dataframe"] + tree["dataframe_metal"] + tree["dataframe_provider"]
          + tree["providers/cpu"] - 4 < MaxEdits
    BY <1>0 DEF Build!Edits
  <2>4. tree[t] + 1 \in 1..MaxEdits + 1
    BY <2>2, <2>3
  <2> QED BY <2>1, <2>4
<1>2. Build!list' = Build!list /\ Build!package' = Build!package /\ Listed' = Listed
  BY <1>0 DEF Build!list, Build!PackagesOf, Build!package, Listed
<1>3. BuildTypes'
  BY <1>0, <1>1, <1>2 DEF BuildInv, BuildTypes
<1>4. Hashed' /\ Staged'
  <2>1. Hashed'
    BY <1>0 DEF BuildInv, Hashed
  <2>2. \A p : Build!Written(p)' = Build!Written(p)
    BY <1>0 DEF Build!Written
  <2>3. Staged'
    BY <1>0, <1>2, <2>2 DEF BuildInv, Staged, Uncopied
  <2> QED BY <2>1, <2>3
<1>5. PutOut' /\ Described'
  <2>1. PutOut'
    BY <1>0, <1>2 DEF BuildInv, PutOut
  <2> QED BY <1>0, <2>1, DescribedKept DEF BuildInv
<1> QED BY <1>3, <1>4, <1>5 DEF BuildInv

\* The list does not change within a build.
LEMMA SameList ==
    ASSUME provider' = provider
    PROVE  Build!list' = Build!list /\ Listed' = Listed
BY DEF Build!list, Build!PackagesOf, Listed

\* Most steps leave the trees and the descriptions.
LEMMA TypesKept ==
    ASSUME BuildInv, UNCHANGED <<tree, builds, provider>>, stop' \in Stops, at' \in 1..4,
           stop' # "idle" => at' <= Len(Build!list), DOMAIN stage' \subseteq Build!Packages,
           DOMAIN output' = Build!Packages /\ output' = [p \in Build!Packages |-> output'[p]],
           description'.state \in {"absent", "partial", "whole"}
    PROVE  BuildTypes'
BY SameList DEF BuildInv, BuildTypes

\* The stage is left as it is, by a step that hashes nothing.
LEMMA StageKept ==
    ASSUME BuildInv, UNCHANGED <<tree, provider, quiet, identity, metal, stage>>,
           stop' \in Stops, stop \notin {"idle", "hash", "hash metal", "copy"},
           stop' \notin {"hash", "hash metal", "copy"}
    PROVE  Hashed' /\ Staged'
<1>1. Listed' = Listed /\ \A p : Build!Written(p)' = Build!Written(p)
  BY SameList DEF Build!Written
<1>2. Hashed'
  BY DEF BuildInv, Hashed
<1>3. Staged'
  BY <1>1 DEF BuildInv, Staged, Uncopied
<1> QED BY <1>2, <1>3

\* A build starts, hashes, and goes idle: the packages stay as they are.
LEMMA HashSteps ==
    ASSUME BuildInv, MaxBuilds \in Nat, Build!Start \/ Build!HashCore \/ Build!HashMetal
    PROVE  BuildInv'
<1>1. CASE Build!Start
  <2>1. /\ stop' = "hash" /\ stage' = <<>> /\ at' = 1 /\ quiet' /\ before' = output
        /\ provider' \in Build!Providers /\ builds' = builds + 1 /\ builds < MaxBuilds
        /\ UNCHANGED <<tree, output, temporary, description, settled>>
    BY <1>1 DEF Build!Start, Build!files
  <2>2. DOMAIN stage' = {}
    BY <2>1
  <2>3. Len(Build!list)' \in 2..3
    BY <2>1, ListOf DEF Build!list
  <2>4. BuildTypes'
    <3>1. tree' \in [Build!Trees -> 1..MaxEdits + 1] /\ provider' \in Build!Providers
      BY <2>1 DEF BuildInv, BuildTypes
    <3>2. builds' \in 0..MaxBuilds /\ at' \in 1..4 /\ at' <= Len(Build!list)'
      <4>1. builds \in 0..MaxBuilds /\ builds < MaxBuilds
        BY <2>1 DEF BuildInv, BuildTypes
      <4>2. builds + 1 \in 0..MaxBuilds
        BY <4>1
      <4>3. 1 <= Len(Build!list)'
        BY <2>3
      <4> QED BY <2>1, <4>2, <4>3
    <3>3. /\ DOMAIN output' = Build!Packages /\ output' = [p \in Build!Packages |-> output'[p]]
          /\ description'.state \in {"absent", "partial", "whole"}
      BY <2>1 DEF BuildInv, BuildTypes
    <3>4. stop' \in Stops /\ DOMAIN stage' \subseteq Build!Packages
      BY <2>1, <2>2 DEF Stops, Early
    <3> QED BY <3>1, <3>2, <3>3, <3>4 DEF BuildTypes
  <2>5. Hashed' /\ Staged' /\ Described'
    <3>1. metal' = <<>> /\ identity' = 0
      BY <1>1 DEF Build!Start
    <3>2. Hashed' /\ Staged'
      BY <2>1, <2>2, <3>1 DEF Hashed, Staged, Uncopied
    <3> QED BY <2>1, <3>2, DescribedKept DEF BuildInv
  <2>6. PutOut'
    BY <2>1 DEF BuildInv, PutOut, Early, Late
  <2> QED BY <2>4, <2>5, <2>6 DEF BuildInv
<1>2. CASE Build!HashCore
  <2>1. /\ stop = "hash" /\ stop' \in {"hash metal", "copy"} /\ identity' = tree["dataframe"]
        /\ stop' = IF provider = "metal" THEN "hash metal" ELSE "copy"
        /\ UNCHANGED <<tree, provider, builds, quiet, before, metal, stage, at, output,
                       temporary, description, settled>>
    BY <1>2 DEF Build!HashCore, Build!inputs, Build!files
  <2>2. BuildTypes'
    BY <2>1, TypesKept DEF BuildInv, BuildTypes, Stops, Early
  <2>3. Hashed'
    BY <2>1 DEF BuildInv, Hashed
  <2>4. Staged'
    <3>1. DOMAIN stage' = {} /\ at' = 1
      BY <2>1 DEF BuildInv, Staged
    <3>2. {Build!list[i] : i \in 1..at - 1}' = {}
      BY <3>1
    <3> QED BY <2>1, <3>1, <3>2 DEF Staged, Uncopied
  <2>5. PutOut' /\ Described'
    <3>1. PutOut'
      BY <2>1 DEF BuildInv, PutOut, Early, Late
    <3> QED BY <2>1, <3>1, DescribedKept DEF BuildInv
  <2> QED BY <2>2, <2>3, <2>4, <2>5 DEF BuildInv
<1>3. CASE Build!HashMetal
  <2>1. /\ stop = "hash metal" /\ stop' = "copy"
        /\ metal' = <<tree["dataframe"], tree["dataframe_metal"], tree["dataframe_provider"]>>
        /\ UNCHANGED <<tree, provider, builds, quiet, before, identity, stage, at, output,
                       temporary, description, settled>>
    BY <1>3 DEF Build!HashMetal, Build!inputs, Build!files
  <2>2. BuildTypes'
    BY <2>1, TypesKept DEF BuildInv, BuildTypes, Stops, Early
  <2>3. Hashed'
    BY <2>1 DEF BuildInv, Hashed
  <2>4. Staged'
    <3>1. DOMAIN stage' = {} /\ at' = 1
      BY <2>1 DEF BuildInv, Staged
    <3>2. {Build!list[i] : i \in 1..at - 1}' = {}
      BY <3>1
    <3> QED BY <2>1, <3>1, <3>2 DEF Staged, Uncopied
  <2>5. PutOut' /\ Described'
    <3>1. PutOut'
      BY <2>1 DEF BuildInv, PutOut, Early, Late
    <3> QED BY <2>1, <3>1, DescribedKept DEF BuildInv
  <2> QED BY <2>2, <2>3, <2>4, <2>5 DEF BuildInv
<1> QED BY <1>1, <1>2, <1>3

\* The packages are copied to the stage, and compiled there.
LEMMA StageSteps ==
    ASSUME BuildInv, Build!Copy \/ Build!Compile
    PROVE  BuildInv'
<1>0. /\ provider \in Build!Providers /\ at \in 1..4 /\ Len(Build!list) \in 2..3
      /\ DOMAIN Build!list = 1..Len(Build!list)
  <2>1. provider \in Build!Providers /\ at \in 1..4
    BY DEF BuildInv, BuildTypes
  <2>2. /\ Len(Build!list) = (IF provider = "metal" THEN 3 ELSE 2)
        /\ DOMAIN Build!list = 1..Len(Build!list)
    BY <2>1, ListOf DEF Build!list
  <2> QED BY <2>1, <2>2
<1>1. CASE Build!Copy
  <2>1. /\ stop = "copy" /\ at \in 1..Len(Build!list)
        /\ UNCHANGED <<tree, provider, builds, quiet, before, identity, metal, output,
                       temporary, description, settled>>
    BY <1>0, <1>1 DEF BuildInv, BuildTypes, Build!Copy, Build!inputs, Build!files
  <2>2. stage' = [p \in DOMAIN stage \cup {Build!package} |->
            IF p = Build!package
            THEN [tree |-> Build!TreeOf(p, provider),
                  version |-> tree[Build!TreeOf(p, provider)],
                  identity |-> Build!Written(p)]
            ELSE stage[p]]
    BY <1>1 DEF Build!Copy
  <2>3. \/ stop' = "copy" /\ at' = at + 1 /\ at < Len(Build!list)
        \/ stop' = "compile" /\ at' = 1 /\ at = Len(Build!list)
    BY <1>1, <2>1 DEF Build!Copy, Build!Step
  <2>4. Build!package = Build!list[at]
    BY DEF Build!package
  <2>5. DOMAIN stage' = {Build!list[i] : i \in 1..at}
    <3>1. DOMAIN stage = {Build!list[i] : i \in 1..at - 1}
      BY <2>1 DEF BuildInv, Staged
    <3>2. \A i : i \in 1..at <=> i \in 1..at - 1 \/ i = at
      BY <2>1
    <3> QED BY <2>2, <2>4, <3>1, <3>2
  <2>6. Build!list' = Build!list /\ Listed' = Listed
    BY <2>1, SameList
  <2>7. DOMAIN stage' \subseteq Listed
    BY <1>0, <2>1, <2>5 DEF Listed
  <2>8. BuildTypes'
    <3>1. /\ stop' \in Stops /\ at' \in 1..4 /\ at' <= Len(Build!list)
          /\ DOMAIN stage' \subseteq Build!Packages
      <4>1. DOMAIN stage' \subseteq Build!Packages
        BY <1>0, <2>7, ListedAre
      <4>2. stop' \in Stops
        BY <2>3 DEF Stops, Early
      <4>3. at' \in 1..4 /\ at' <= Len(Build!list)
        BY <1>0, <2>1, <2>3, WithinList, Zenon
      <4> QED BY <4>1, <4>2, <4>3
    <3> QED BY <2>1, <3>1, TypesKept DEF BuildInv, BuildTypes
  <2>9. Hashed'
    BY <2>1, <2>3 DEF BuildInv, Hashed
  <2>10. Staged'
    <3>0. /\ "dataframe" \in Listed /\ "dataframe_provider" \in Listed
          /\ provider = "metal" => "dataframe_metal" \in Listed
      BY <1>0, ListedAre
    <3>1. stop' = "copy" => DOMAIN stage' = {Build!list[i] : i \in 1..at' - 1}
      BY <2>1, <2>3, <2>5
    <3>2. stop' = "compile" => DOMAIN stage' = Listed
      BY <1>0, <2>3, <2>5 DEF Listed
    <3>3. ASSUME NEW p \in DOMAIN stage'
          PROVE  /\ stage'[p].tree = Build!TreeOf(p, provider)
                 /\ stage'[p].identity = Build!Written(p)
                 /\ quiet => stage'[p].version = tree[Build!TreeOf(p, provider)]
      BY <2>1, <2>2 DEF BuildInv, Staged
    <3>4. \A p : Build!Written(p)' = Build!Written(p)
      BY <2>1 DEF Build!Written
    <3>5. ASSUME stop' = "compile", quiet
          PROVE  /\ identity = stage'["dataframe"].version
                 /\ provider = "metal" =>
                      metal = <<stage'["dataframe"].version, stage'["dataframe_metal"].version,
                                stage'["dataframe_provider"].version>>
      <4>1. \A p \in Listed : stage'[p].version = tree[Build!TreeOf(p, provider)]
        BY <3>2, <3>3, <3>5
      <4>2. stage'["dataframe"].version = tree["dataframe"]
        BY <3>0, <4>1 DEF Build!TreeOf
      <4>3. provider = "metal" =>
              /\ stage'["dataframe_metal"].version = tree["dataframe_metal"]
              /\ stage'["dataframe_provider"].version = tree["dataframe_provider"]
        BY <3>0, <4>1 DEF Build!TreeOf
      <4>4. /\ identity = tree["dataframe"]
            /\ provider = "metal" => metal = <<tree["dataframe"], tree["dataframe_metal"],
                                               tree["dataframe_provider"]>>
        BY <2>1, <3>5 DEF BuildInv, Hashed
      <4> QED BY <4>2, <4>3, <4>4
    <3> QED BY <2>1, <2>3, <2>6, <3>1, <3>2, <3>3, <3>4, <3>5 DEF Staged, Uncopied
  <2>11. PutOut' /\ Described'
    <3>1. PutOut'
      BY <2>1, <2>3 DEF BuildInv, PutOut, Early, Late
    <3> QED BY <2>1, <2>3, <3>1, DescribedKept DEF BuildInv
  <2> QED BY <2>8, <2>9, <2>10, <2>11 DEF BuildInv
<1>2. CASE Build!Compile
  <2>1. /\ stop = "compile" /\ at \in 1..Len(Build!list)
        /\ UNCHANGED <<tree, provider, builds, quiet, before, identity, metal, stage, output,
                       temporary, description, settled>>
    <3>1. stop = "compile" /\ UNCHANGED <<tree, Build!inputs, identity, metal, stage, Build!files>>
      BY <1>2 DEF Build!Compile
    <3>2. at \in 1..Len(Build!list)
      BY <1>0, <3>1 DEF BuildInv, BuildTypes
    <3> QED BY <3>1, <3>2 DEF Build!inputs, Build!files
  <2>2. \/ stop' = "compile" /\ at' = at + 1 /\ at < Len(Build!list)
        \/ stop' \in {"copy out", "idle"} /\ at' = 1
    BY <1>2 DEF Build!Compile, Build!Step
  <2>3. Build!list' = Build!list /\ Listed' = Listed
    BY <2>1, SameList
  <2>4. BuildTypes'
    <3>1. stop' \in Stops /\ at' \in 1..4 /\ at' <= Len(Build!list)
      <4>1. stop' \in Stops
        BY <2>2 DEF Stops, Early
      <4>2. at' \in 1..4 /\ at' <= Len(Build!list)
        BY <1>0, <2>1, <2>2, WithinList, Zenon
      <4> QED BY <4>1, <4>2
    <3> QED BY <2>1, <3>1, TypesKept DEF BuildInv, BuildTypes
  <2>5. Hashed' /\ Staged'
    BY <2>1, <2>2, StageKept DEF Stops, Early
  <2>6. PutOut' /\ Described'
    <3>1. stop' = "copy out" => at' = 1
      BY <2>2
    <3>2. at' = 1 => 1..at' - 1 = {}
      OBVIOUS
    <3>3. PutOut'
      BY <2>1, <2>2, <2>3, <3>1, <3>2 DEF BuildInv, PutOut, Early, Late
    <3> QED BY <2>1, <2>2, <3>3, DescribedKept DEF BuildInv
  <2> QED BY <2>4, <2>5, <2>6 DEF BuildInv
<1> QED BY <1>1, <1>2

\* One package after another goes to the output.
LEMMA OutputSteps ==
    ASSUME BuildInv, Build!CopyOut \/ Build!Replace
    PROVE  BuildInv'
<1>0. /\ provider \in Build!Providers /\ at \in 1..4 /\ Len(Build!list) \in 2..3
      /\ DOMAIN Build!list = 1..Len(Build!list)
      /\ \A i, j \in DOMAIN Build!list : Build!list[i] = Build!list[j] => i = j
      /\ Listed \subseteq Build!Packages /\ \A i \in DOMAIN Build!list : Build!list[i] \in Listed
  <2>1. provider \in Build!Providers /\ at \in 1..4
    BY DEF BuildInv, BuildTypes
  <2>2. /\ Len(Build!list) = (IF provider = "metal" THEN 3 ELSE 2)
        /\ DOMAIN Build!list = 1..Len(Build!list)
    BY <2>1, ListOf DEF Build!list
  <2>3. /\ Listed \subseteq Build!Packages
        /\ \A i, j \in DOMAIN Build!list : Build!list[i] = Build!list[j] => i = j
    BY <2>1, ListedAre
  <2> QED BY <2>1, <2>2, <2>3 DEF Listed
<1>1. CASE Build!CopyOut
  <2>1. /\ stop = "copy out" /\ stop' = "replace" /\ temporary' = stage[Build!package]
        /\ UNCHANGED <<tree, provider, builds, quiet, before, identity, metal, stage, at, output,
                       description, settled>>
    BY <1>1 DEF Build!CopyOut, Build!inputs
  <2>2. BuildTypes'
    BY <2>1, TypesKept DEF BuildInv, BuildTypes, Stops
  <2>3. Hashed' /\ Staged'
    BY <2>1, StageKept DEF Stops
  <2>4. Build!list' = Build!list /\ Build!package' = Build!package
    BY <2>1, SameList DEF Build!package
  <2>5. PutOut' /\ Described'
    <3>1. PutOut'
      BY <2>1, <2>4 DEF BuildInv, PutOut, Early, Late
    <3> QED BY <2>1, <3>1, DescribedKept DEF BuildInv
  <2> QED BY <2>2, <2>3, <2>5 DEF BuildInv
<1>2. CASE Build!Replace
  <2>1. /\ stop = "replace" /\ at \in 1..Len(Build!list)
        /\ temporary = stage[Build!package]
        /\ UNCHANGED <<tree, provider, builds, quiet, before, identity, metal, stage, description>>
    <3>1. stop = "replace" /\ UNCHANGED <<tree, Build!inputs, identity, metal, stage, description>>
      BY <1>2 DEF Build!Replace
    <3>2. at \in 1..Len(Build!list) /\ temporary = stage[Build!package]
      BY <1>0, <3>1 DEF BuildInv, BuildTypes, PutOut
    <3> QED BY <3>1, <3>2 DEF Build!inputs
  <2>2. output' = [output EXCEPT ![Build!package] = stage[Build!package]]
    BY <1>2, <2>1 DEF Build!Replace
  <2>3. \/ stop' = "copy out" /\ at' = at + 1 /\ at < Len(Build!list)
        \/ stop' = "cpu-build.json" /\ at' = 1 /\ at = Len(Build!list)
    <3>1. CASE at < Len(Build!list)
      BY <1>2, <3>1 DEF Build!Replace, Build!Step
    <3>2. CASE ~(at < Len(Build!list))
      <4>1. at = Len(Build!list)
        <5>1. \A n \in 2..3 : \A i \in 1..n : ~(i < n) => i = n
          OBVIOUS
        <5> QED BY <1>0, <2>1, <3>2, <5>1, Zenon
      <4>2. stop' = "cpu-build.json" /\ at' = 1
        BY <1>2, <3>2 DEF Build!Replace, Build!Step
      <4> QED BY <4>1, <4>2
    <3> QED BY <3>1, <3>2
  <2>4. Build!package = Build!list[at] /\ Build!package \in Build!Packages
    BY <1>0, <2>1 DEF Build!package
  <2>5. \A p \in Build!Packages :
            output'[p] = IF p = Build!package THEN stage[Build!package] ELSE output[p]
    BY <2>2 DEF BuildInv, BuildTypes
  <2>6. \A i \in 1..at : output'[Build!list[i]] = stage[Build!list[i]]
    <3> SUFFICES ASSUME NEW i \in 1..at
                 PROVE  output'[Build!list[i]] = stage[Build!list[i]]
      OBVIOUS
    <3>1. i \in DOMAIN Build!list /\ at \in DOMAIN Build!list /\ Build!list[i] \in Build!Packages
      BY <1>0, <2>1
    <3>2. CASE i = at
      BY <2>4, <2>5, <3>2
    <3>3. CASE i # at
      <4>1. i \in 1..at - 1
        BY <1>0, <3>3
      <4>2. output[Build!list[i]] = stage[Build!list[i]]
        BY <2>1, <4>1 DEF BuildInv, PutOut
      <4>3. Build!list[i] # Build!list[at]
        BY <1>0, <3>1, <3>3
      <4> QED BY <2>4, <2>5, <3>1, <4>2, <4>3
    <3> QED BY <3>2, <3>3
  <2>7. Build!list' = Build!list /\ Listed' = Listed
    BY <2>1, SameList
  <2>8. BuildTypes'
    <3>1. stop' \in Stops
      BY <2>3 DEF Stops, Late
    <3>2. at' \in 1..4 /\ at' <= Len(Build!list)
      BY <1>0, <2>1, <2>3, WithinList, Zenon
    <3>3. DOMAIN output' = Build!Packages /\ output' = [p \in Build!Packages |-> output'[p]]
      BY <2>2 DEF BuildInv, BuildTypes
    <3> QED BY <2>1, <3>1, <3>2, <3>3, TypesKept DEF BuildInv, BuildTypes
  <2>9. Hashed' /\ Staged'
    <3>1. stop' \in Stops
      BY <2>3 DEF Stops, Late
    <3> QED BY <2>1, <2>3, <3>1, StageKept
  <2>10. PutOut'
    <3>1. \A p \in Build!Packages : output'[p] # Build!Partial
      <4>1. Build!package \in DOMAIN stage
        BY <1>0, <2>1, <2>4 DEF BuildInv, Staged
      <4>2. stage[Build!package] # Build!Partial
        BY <2>1, <4>1, StagedWhole
      <4> QED BY <2>5, <4>2 DEF BuildInv, PutOut
    <3>2. stop' = "copy out" =>
              \A i \in 1..at' - 1 : output'[Build!list[i]] = stage[Build!list[i]]
      <4>1. \A a \in 1..4 : (a + 1) - 1 = a
        OBVIOUS
      <4>2. stop' = "copy out" => at' = at + 1
        BY <2>3
      <4>3. stop' = "copy out" => at' - 1 = at
        BY <1>0, <4>1, <4>2
      <4> QED BY <2>6, <4>3
    <3>3. stop' = "cpu-build.json" => \A p \in Listed : output'[p] = stage[p]
      BY <1>0, <2>3, <2>6 DEF Listed
    <3> QED BY <2>1, <2>3, <2>7, <3>1, <3>2, <3>3 DEF PutOut, Early, Late
  <2>11. Described'
    <3>1. ~settled'
      BY <1>2 DEF Build!Replace
    <3>2. Build!DescribesThePackages'
      BY <3>1 DEF Build!DescribesThePackages
    <3> QED BY <3>1, <3>2 DEF Described
  <2> QED BY <2>8, <2>9, <2>10, <2>11 DEF BuildInv
<1> QED BY <1>1, <1>2

\* What a build writes of its packages is true of them.
LEMMA DescribedNow ==
    ASSUME BuildInv, Build!Describe
    PROVE  Build!DescribesThePackages'
<1>1. /\ provider \in Build!Providers
      /\ Listed = {"dataframe", "dataframe_provider"}
                     \cup (IF provider = "metal" THEN {"dataframe_metal"} ELSE {})
  BY ListedAre DEF BuildInv, BuildTypes
<1>2. /\ stop = "describe" /\ output' = output
      /\ description' = [state |-> "whole", runtime |-> <<identity, metal>>,
                         packages |-> [p \in Listed |-> output[p]], quiet |-> quiet]
  BY DEF Build!Describe, Listed
<1>3. DOMAIN stage = Listed /\ \A p \in Listed : output[p] = stage[p]
  BY <1>2 DEF BuildInv, Staged, PutOut, Late
<1>4. \A p \in Listed : output[p].identity = Build!Written(p)
  BY <1>2, <1>3 DEF BuildInv, Staged
<1>5. output["dataframe"].identity = <<identity>>
  BY <1>1, <1>4 DEF Build!Written
<1>6. metal = IF "dataframe_metal" \in Listed THEN output["dataframe_metal"].identity ELSE <<>>
  <2>1. CASE provider = "metal"
    BY <1>1, <1>4, <2>1 DEF Build!Written
  <2>2. CASE provider = "cpu"
    BY <1>1, <1>2, <2>2 DEF BuildInv, Hashed
  <2> QED BY <1>1, <2>1, <2>2 DEF Build!Providers
<1>7. quiet =>
        /\ identity = output["dataframe"].version
        /\ "dataframe_metal" \in Listed =>
              metal = <<output["dataframe"].version, output["dataframe_metal"].version,
                        output["dataframe_provider"].version>>
  BY <1>1, <1>2, <1>3 DEF BuildInv, Staged, Uncopied
<1>8. /\ description'.state = "whole" /\ description'.runtime = <<identity, metal>>
      /\ description'.packages = [p \in Listed |-> output[p]] /\ description'.quiet = quiet
  BY <1>2
<1>9. DOMAIN description'.packages = Listed
      /\ \A p \in Listed : description'.packages[p] = output[p]
  BY <1>8
<1>10. description'.runtime[1] = identity /\ description'.runtime[2] = metal
  BY <1>8
<1> QED BY <1>1, <1>2, <1>5, <1>6, <1>7, <1>8, <1>9, <1>10 DEF Build!DescribesThePackages

\* The descriptions are written, the build ends, or it is killed.
LEMMA LastSteps ==
    ASSUME BuildInv, Build!CpuBuild \/ Build!Describe \/ Build!Finish \/ Build!Killed
    PROVE  BuildInv'
<1>1. CASE Build!CpuBuild \/ Build!Finish
  <2>1. /\ \/ stop = "cpu-build.json" /\ stop' = "describe"
           \/ stop = "finish" /\ stop' = "idle"
        /\ UNCHANGED <<tree, provider, builds, quiet, before, identity, metal, stage, at, output,
                       temporary, description, settled>>
    BY <1>1 DEF Build!CpuBuild, Build!Finish, Build!inputs, Build!files
  <2>2. BuildTypes'
    BY <2>1, TypesKept DEF BuildInv, BuildTypes, Stops, Late
  <2>3. Hashed' /\ Staged'
    BY <2>1, StageKept DEF Stops, Late
  <2>4. Listed' = Listed
    BY <2>1, SameList
  <2>5. PutOut' /\ Described'
    <3>1. PutOut'
      BY <2>1, <2>4 DEF BuildInv, PutOut, Early, Late
    <3> QED BY <2>1, <3>1, DescribedKept DEF BuildInv
  <2> QED BY <2>2, <2>3, <2>5 DEF BuildInv
<1>2. CASE Build!Describe
  <2>1. /\ stop = "describe" /\ stop' = "finish"
        /\ description' = [state |-> "whole", runtime |-> <<identity, metal>>,
                           packages |-> [p \in Listed |-> output[p]], quiet |-> quiet]
        /\ settled'
        /\ UNCHANGED <<tree, provider, builds, quiet, before, identity, metal, stage, at, output,
                       temporary>>
    BY <1>2 DEF Build!Describe, Build!inputs, Listed
  <2>2. BuildTypes'
    BY <2>1, TypesKept DEF BuildInv, BuildTypes, Stops, Late
  <2>3. Hashed' /\ Staged'
    BY <2>1, StageKept DEF Stops, Late
  <2>4. Listed' = Listed
    BY <2>1, SameList
  <2>5. PutOut'
    BY <2>1, <2>4 DEF BuildInv, PutOut, Early, Late
  <2>6. Described'
    <3>1. Build!DescribesThePackages'
      BY <1>2, DescribedNow
    <3> QED BY <2>1, <3>1 DEF Described
  <2> QED BY <2>2, <2>3, <2>5, <2>6 DEF BuildInv
<1>3. CASE Build!Killed
  <2>1. /\ stop' = "idle"
        /\ description' = IF stop = "describe"
                          THEN [Build!NoDescription EXCEPT !.state = "partial"]
                          ELSE description
        /\ UNCHANGED <<tree, provider, builds, quiet, before, identity, metal, stage, at, output,
                       settled>>
    BY <1>3 DEF Build!Killed, Build!inputs
  <2>2. description'.state \in {"absent", "partial", "whole"}
    BY <2>1 DEF BuildInv, BuildTypes, Build!NoDescription
  <2>3. BuildTypes'
    BY <2>1, <2>2, TypesKept DEF BuildInv, BuildTypes, Stops
  <2>4. Hashed' /\ Staged' /\ PutOut'
    BY <2>1 DEF BuildInv, Hashed, Staged, PutOut, Early, Late, Uncopied
  <2>5. Described'
    <3>1. CASE stop = "describe"
      <4>1. ~settled'
        BY <2>1, <3>1 DEF BuildInv, Described
      <4>2. Build!DescribesThePackages'
        BY <4>1 DEF Build!DescribesThePackages
      <4> QED BY <2>1, <4>2 DEF Described
    <3>2. CASE stop # "describe"
      BY <2>1, <3>2, DescribedKept DEF BuildInv
    <3> QED BY <3>1, <3>2
  <2> QED BY <2>3, <2>4, <2>5 DEF BuildInv
<1> QED BY <1>1, <1>2, <1>3

LEMMA BuildNext ==
    ASSUME BuildInv, MaxEdits \in Nat, MaxBuilds \in Nat, [Build!Next]_build
    PROVE  BuildInv'
<1>1. CASE Build!Next
  <2>1. CASE \E t \in Build!Trees : Build!Edit(t)
    BY <2>1, EditStep
  <2>2. CASE Build!Start \/ Build!HashCore \/ Build!HashMetal
    BY <2>2, HashSteps
  <2>3. CASE Build!Copy \/ Build!Compile
    BY <2>3, StageSteps
  <2>4. CASE Build!CopyOut \/ Build!Replace
    BY <2>4, OutputSteps
  <2>5. CASE Build!CpuBuild \/ Build!Describe \/ Build!Finish \/ Build!Killed
    BY <2>5, LastSteps
  <2> QED BY <1>1, <2>1, <2>2, <2>3, <2>4, <2>5 DEF Build!Next
<1>2. CASE UNCHANGED build
  <2>1. UNCHANGED <<tree, builds, stop, provider, identity, metal, stage, at,
                    output, temporary, description, settled, quiet, before>>
    BY <1>2 DEF build
  <2>2. Build!list' = Build!list /\ Listed' = Listed /\ Build!package' = Build!package
    BY <2>1, SameList DEF Build!package
  <2>3. \A p : Build!Written(p)' = Build!Written(p)
    BY <2>1 DEF Build!Written
  <2>4. BuildTypes' /\ Hashed' /\ Described'
    BY <2>1, <2>2, DescribedKept DEF BuildInv, BuildTypes, Hashed
  <2>5. Staged' /\ PutOut'
    <3>1. Staged'
      BY <2>1, <2>2, <2>3 DEF BuildInv, Staged, Uncopied
    <3>2. PutOut'
      BY <2>1, <2>2 DEF BuildInv, PutOut
    <3> QED BY <3>1, <3>2
  <2> QED BY <2>4, <2>5 DEF BuildInv
<1> QED BY <1>1, <1>2

\* What the invariant says of a build is what the run checks.
LEMMA BuildFollows ==
    ASSUME BuildInv
    PROVE  PackagesAreWhole /\ DescribesThePackages
<1>1. Build!TypeOK
  BY DEF BuildInv, BuildTypes, Build!TypeOK, Stops, Early, Late
<1>2. Build!PackagesAreWhole
  BY DEF BuildInv, PutOut, Early, Build!PackagesAreWhole
<1>3. Build!DescribesThePackages
  BY DEF BuildInv, Described
<1> QED BY <1>1, <1>2, <1>3 DEF PackagesAreWhole, DescribesThePackages

LEMMA BuildAlways == MCSpec => []BuildInv
<1>1. MCInit => BuildInv
  BY BuildInit, BoundsAssumption DEF MCInit
<1>2. BuildInv /\ [MCNext]_<<building, build, vars>> => BuildInv'
  <2>1. [MCNext]_<<building, build, vars>> => [Build!Next]_build
    BY DEF MCNext
  <2> QED BY <2>1, BuildNext, BoundsAssumption
<1> QED BY <1>1, <1>2, PTL DEF MCSpec

\* No package in the output is ever partial, wherever the build is killed, and
\* none changes before every package has compiled: build_package.py:69-87.
THEOREM PackagesWhole == MCSpec => []PackagesAreWhole
BY BuildAlways, BuildFollows, PTL

\* But from a build's first replacement until it has described its packages, or
\* until another one has if it is killed before that, the description is of the
\* packages beside it: build_package.py:79-145.
THEOREM PackagesDescribed == MCSpec => []DescribesThePackages
BY BuildAlways, BuildFollows, PTL

-------------------------------------------------------------------------------
(* Tests that nothing runs.                                                *)

\* A program that is found is in every set that holds what is used.
LEMMA FoundAreUsed ==
    ASSUME Tests!Inv, NEW p \in Tests!candidates, Tests!Found(p),
           NEW S \in SUBSET Tests!candidates, Tests!Closed(S)
    PROVE  p \in S
<1> USE DEF Tests!Inv
<1>1. Tests!Roots \subseteq S /\ reachable \subseteq S
  BY DEF Tests!Closed, Tests!OnlyUsed
<1>2. CASE place[p] = "globbed" \/ \E other \in Programs \ {p} : p \in importLines[other]
  BY <1>1, <1>2 DEF Tests!Roots
<1>3. CASE p \in reference
  <2>1. CASE p \in named \/ \E a \in Tests!Areas : p \in mentions[a]
    BY <1>1, <2>1 DEF Tests!Roots
  <2>2. CASE \E r \in reachable : p \in mentions[r]
    BY <1>1, <2>2 DEF Tests!Closed
  <2> QED BY <1>3, <2>1, <2>2 DEF Tests!TextIsRead
<1> QED BY <1>2, <1>3 DEF Tests!Found

\* Before the first pass nothing is found.
LEMMA TestsInit ==
    ASSUME Tests!Init
    PROVE  Tests!Inv
<1>1. Tests!TypeOK
  BY DEF Tests!Init, Tests!TypeOK, Tests!Running, Tests!Areas
<1>2. Tests!TextIsRead /\ Tests!OnlyUsed /\ Tests!NothingMissed /\ Tests!Ended
  BY DEF Tests!Init, Tests!TextIsRead, Tests!OnlyUsed, Tests!NothingMissed, Tests!Ended
<1> QED BY <1>1, <1>2 DEF Tests!Inv

\* What the files are does not change.
LEMMA FilesKept ==
    ASSUME UNCHANGED Tests!files
    PROVE  /\ Tests!candidates' = Tests!candidates /\ Tests!Areas' = Tests!Areas
           /\ Tests!Roots' = Tests!Roots
           /\ \A S : Tests!Closed(S)' = Tests!Closed(S)
BY DEF Tests!files, Tests!candidates, Tests!Areas, Tests!Roots, Tests!Closed

\* One program of a pass.
LEMMA LookStep ==
    ASSUME Tests!Inv, NEW p \in Programs, Tests!Look(p)
    PROVE  Tests!Inv'
<1>0. /\ UNCHANGED <<place, mentions, importLines, named, dangling, status>>
      /\ p \in left /\ left' = left \ {p} /\ status = Tests!Running
  BY DEF Tests!Look, Tests!files, Tests!Inv, Tests!Ended
<1>1. /\ Tests!candidates' = Tests!candidates /\ Tests!Areas' = Tests!Areas
      /\ \A S : Tests!Closed(S)' = Tests!Closed(S)
  BY <1>0, FilesKept DEF Tests!files
<1>2. Tests!TypeOK /\ p \in pending /\ p \in Tests!candidates
  BY <1>0 DEF Tests!Inv, Tests!TypeOK
<1>3. Tests!Ended'
  BY <1>0 DEF Tests!Ended
<1>4. CASE Tests!Found(p)
  <2>1. /\ pending' = pending \ {p} /\ reachable' = reachable \cup {p}
        /\ changed' = TRUE /\ reference' = reference \cup mentions[p]
    BY <1>4 DEF Tests!Look
  <2>2. Tests!TypeOK'
    BY <1>0, <1>1, <1>2, <2>1 DEF Tests!TypeOK
  <2>3. Tests!TextIsRead'
    BY <1>0, <1>1, <2>1 DEF Tests!Inv, Tests!TextIsRead
  <2>4. Tests!OnlyUsed'
    <3>1. ASSUME NEW S \in SUBSET Tests!candidates, Tests!Closed(S)
          PROVE  reachable' \subseteq S
      BY <1>2, <1>4, <2>1, <3>1, FoundAreUsed DEF Tests!Inv, Tests!OnlyUsed
    <3> QED BY <1>1, <3>1 DEF Tests!OnlyUsed
  <2>5. Tests!NothingMissed'
    BY <2>1 DEF Tests!NothingMissed
  <2> QED BY <1>3, <2>2, <2>3, <2>4, <2>5 DEF Tests!Inv
<1>5. CASE ~Tests!Found(p)
  <2>1. UNCHANGED <<pending, reachable, changed, reference>>
    BY <1>5 DEF Tests!Look
  <2>2. Tests!TypeOK'
    BY <1>0, <1>1, <1>2, <2>1 DEF Tests!TypeOK
  <2>3. Tests!TextIsRead' /\ Tests!OnlyUsed'
    BY <1>0, <1>1, <2>1 DEF Tests!Inv, Tests!TextIsRead, Tests!OnlyUsed
  <2>4. Tests!NothingMissed'
    <3>1. \A q : Tests!Found(q)' = Tests!Found(q)
      BY <1>0, <2>1 DEF Tests!Found
    <3> QED BY <1>0, <1>5, <2>1, <3>1 DEF Tests!Inv, Tests!NothingMissed
  <2> QED BY <1>3, <2>2, <2>3, <2>4 DEF Tests!Inv
<1> QED BY <1>4, <1>5

LEMMA TestsNext ==
    ASSUME Tests!Inv, Tests!Next
    PROVE  Tests!Inv'
<1>1. ASSUME Tests!NextPass \/ Tests!Finish
      PROVE  Tests!Inv'
  <2>1. /\ UNCHANGED <<place, mentions, importLines, named, reference, reachable, pending>>
        /\ left = {} /\ status = Tests!Running
    BY <1>1 DEF Tests!NextPass, Tests!Finish, Tests!files
  <2>2. /\ Tests!candidates' = Tests!candidates /\ Tests!Areas' = Tests!Areas
        /\ \A S : Tests!Closed(S)' = Tests!Closed(S)
    BY <2>1, FilesKept DEF Tests!files
  <2>3. Tests!TextIsRead' /\ Tests!OnlyUsed'
    BY <2>1, <2>2 DEF Tests!Inv, Tests!TextIsRead, Tests!OnlyUsed
  <2>4. Tests!TypeOK'
    BY <1>1, <2>1, <2>2 DEF Tests!Inv, Tests!TypeOK, Tests!NextPass, Tests!Finish
  <2>5. \A q : Tests!Found(q)' = Tests!Found(q)
    BY <2>1 DEF Tests!Found
  <2>6. CASE Tests!NextPass
    <3>1. left' = pending' /\ status' = Tests!Running
      BY <2>1, <2>6 DEF Tests!NextPass
    <3> QED BY <2>3, <2>4, <3>1 DEF Tests!Inv, Tests!NothingMissed, Tests!Ended
  <2>7. CASE Tests!Finish
    <3>1. /\ UNCHANGED <<left, changed>> /\ ~changed
          /\ status' = IF pending # {} \/ dangling' THEN 1 ELSE 0
      BY <2>7 DEF Tests!Finish
    <3>2. Tests!NothingMissed' /\ Tests!Ended'
      BY <2>1, <2>5, <3>1 DEF Tests!Inv, Tests!NothingMissed, Tests!Ended
    <3> QED BY <2>3, <2>4, <3>2 DEF Tests!Inv
  <2> QED BY <1>1, <2>6, <2>7
<1> QED BY <1>1, LookStep DEF Tests!Next

\* At the end nothing that is used is pending.
LEMMA TestsFollow ==
    ASSUME Tests!Inv
    PROVE  Tests!TypeOK /\ Tests!FoundExactly
<1>1. ASSUME status # Tests!Running
      PROVE  Tests!Closed(reachable)
  <2>1. \A p \in Tests!candidates \ reachable : ~Tests!Found(p)
    BY <1>1 DEF Tests!Inv, Tests!TypeOK, Tests!NothingMissed, Tests!Ended
  <2>2. \A p \in Tests!Roots : Tests!Found(p)
    BY DEF Tests!Inv, Tests!TextIsRead, Tests!Roots, Tests!Found
  <2>3. \A p \in reachable : \A q \in mentions[p] : Tests!Found(q)
    BY DEF Tests!Inv, Tests!TextIsRead, Tests!Found
  <2> QED BY <2>1, <2>2, <2>3 DEF Tests!Closed, Tests!Roots
<1>2. pending = {} <=> reachable = Tests!candidates
  BY DEF Tests!Inv, Tests!TypeOK
<1> QED BY <1>1, <1>2 DEF Tests!Inv, Tests!FoundExactly, Tests!OnlyUsed, Tests!Ended

\* The search finds the programs that something runs or imports and no others,
\* whatever texts name, in any order of the passes:
\* check_test_reachability.py:105-155.
THEOREM UsedAreFound == CheckSpec => []FoundExactly
<1> DEFINE Searched == tool = "tests" => Tests!Inv
<1>1. CheckInit => Searched
  BY TestsInit DEF CheckInit
<1>2. Searched /\ [CheckNext]_<<tool, search, check>> => Searched'
  <2> SUFFICES ASSUME Searched, [CheckNext]_<<tool, search, check>>, tool' = "tests"
               PROVE  Tests!Inv'
    OBVIOUS
  <2>1. tool = "tests" /\ Tests!Inv
    BY DEF CheckNext
  <2>2. CASE Tests!Next
    BY <2>1, <2>2, TestsNext
  <2>3. CASE UNCHANGED search
    <3>1. UNCHANGED <<place, mentions, importLines, named, reference, reachable, pending,
                      left, changed, dangling, status>>
      BY <2>3 DEF search
    <3>2. UNCHANGED Tests!files
      BY <3>1 DEF Tests!files
    <3>3. Tests!TypeOK'
      BY <2>1, <3>1, <3>2, FilesKept DEF Tests!Inv, Tests!TypeOK
    <3>4. Tests!TextIsRead' /\ Tests!OnlyUsed' /\ Tests!Ended'
      BY <2>1, <3>1, <3>2, FilesKept
      DEF Tests!Inv, Tests!TextIsRead, Tests!OnlyUsed, Tests!Ended
    <3>5. Tests!NothingMissed'
      BY <2>1, <3>1 DEF Tests!Inv, Tests!NothingMissed, Tests!Found
    <3> QED BY <3>3, <3>4, <3>5 DEF Tests!Inv
  <2> QED BY <2>1, <2>2, <2>3 DEF CheckNext
<1>3. Searched => FoundExactly
  BY TestsFollow DEF FoundExactly
<1> QED BY <1>1, <1>2, <1>3, PTL DEF CheckSpec

-------------------------------------------------------------------------------
(* Cycles of imports.                                                      *)

\* All but the last.
LEMMA FrontOf ==
    ASSUME NEW S, NEW s \in Seq(S), s # <<>>
    PROVE  /\ Imports!Front(s) \in Seq(S) /\ Len(s) \in Nat \ {0}
           /\ Len(Imports!Front(s)) = Len(s) - 1
           /\ \A i \in 1..Len(s) - 1 : Imports!Front(s)[i] = s[i]
           /\ Imports!Last(s) = s[Len(s)] /\ Imports!Last(s) \in S
<1>1. Len(s) \in Nat \ {0} /\ \A i \in 1..Len(s) : s[i] \in S
  BY EmptySeq, LenProperties, ElementOfSeq
<1>2. \A i \in 1..Len(s) - 1 : s[i] \in S
  BY <1>1
<1>3. Len(s) - 1 \in Int /\ 1 \in Int
  BY <1>1
<1> DEFINE f == SubSeq(s, 1, Len(s) - 1)
<1>4. /\ f \in Seq(S)
      /\ Len(f) = (IF 1 <= Len(s) - 1 THEN Len(s) - 1 - 1 + 1 ELSE 0)
      /\ \A i \in 1..Len(s) - 1 - 1 + 1 : f[i] = s[1 + i - 1]
  BY <1>2, <1>3, SubSeqProperties
<1> HIDE DEF f
<1>5. /\ Len(s) - 1 - 1 + 1 = Len(s) - 1 /\ (~(1 <= Len(s) - 1) => Len(s) - 1 = 0)
      /\ \A i \in 1..Len(s) - 1 : 1 + i - 1 = i
  <2>1. \A n \in Nat \ {0} :
            n - 1 - 1 + 1 = n - 1 /\ (~(1 <= n - 1) => n - 1 = 0)
    OBVIOUS
  <2>2. \A n \in Nat \ {0} : \A i \in 1..n - 1 : 1 + i - 1 = i
    OBVIOUS
  <2> QED BY <1>1, <2>1, <2>2
<1>6. Len(f) = Len(s) - 1 /\ \A i \in 1..Len(s) - 1 : f[i] = s[i]
  <2>1. Len(f) = Len(s) - 1
    BY <1>4, <1>5
  <2>2. \A i \in 1..Len(s) - 1 : f[i] = s[1 + i - 1]
    BY <1>4, <1>5
  <2> QED BY <1>5, <2>1, <2>2
<1>7. f = Imports!Front(s) /\ s[Len(s)] \in S
  BY <1>1 DEF f, Imports!Front
<1> QED BY <1>1, <1>4, <1>6, <1>7 DEF Imports!Last

\* The sets ahead, once a dependency of the innermost module is taken.
LEMMA RestOf ==
    ASSUME NEW S, NEW s \in Seq(SUBSET S), s # <<>>, NEW name
    PROVE  LET rest == Append(Imports!Front(s), Imports!Last(s) \ {name}) IN
           /\ rest \in Seq(SUBSET S) /\ Len(rest) = Len(s)
           /\ \A i \in 1..Len(s) - 1 : rest[i] = s[i]
           /\ rest[Len(s)] = s[Len(s)] \ {name}
<1> DEFINE f == Imports!Front(s)
           e == Imports!Last(s) \ {name}
<1>1. /\ f \in Seq(SUBSET S) /\ Len(f) = Len(s) - 1 /\ Len(s) \in Nat \ {0}
      /\ \A i \in 1..Len(s) - 1 : f[i] = s[i]
      /\ e \in SUBSET S /\ e = s[Len(s)] \ {name}
  BY FrontOf
<1> HIDE DEF f, e
<1>2. /\ Append(f, e) \in Seq(SUBSET S) /\ Len(Append(f, e)) = Len(f) + 1
      /\ \A i \in 1..Len(f) : Append(f, e)[i] = f[i]
      /\ Append(f, e)[Len(f) + 1] = e
  BY <1>1, AppendProperties
<1>3. Len(f) + 1 = Len(s)
  BY <1>1
<1>4. /\ Append(f, e) \in Seq(SUBSET S) /\ Len(Append(f, e)) = Len(s)
      /\ \A i \in 1..Len(s) - 1 : Append(f, e)[i] = s[i]
      /\ Append(f, e)[Len(s)] = s[Len(s)] \ {name}
  BY <1>1, <1>2, <1>3
<1> QED BY <1>4 DEF f, e

\* A module is used by another only if every closed set has it.
LEMMA UsesWithin ==
    ASSUME NEW S \in SUBSET Imports!Own, NEW name,
           graph[name] \subseteq S, \A s \in S : graph[s] \subseteq S
    PROVE  Imports!Uses(name) \subseteq S
BY DEF Imports!Uses

\* A module on a cycle uses itself.
LEMMA RoundTrip ==
    ASSUME NEW c \in Seq(Imports!Own), Len(c) > 1,
           NEW k \in 1..Len(c) - 1, c[k] = c[Len(c)],
           \A i \in 1..Len(c) - 1 : c[i + 1] \in graph[c[i]]
    PROVE  c[k] \in Imports!Uses(c[k])
<1>0. Len(c) \in Nat /\ k \in Nat /\ k < Len(c) /\ c[k] \in Imports!Own
  BY LenProperties, ElementOfSeq
<1> SUFFICES ASSUME NEW S \in SUBSET Imports!Own,
                    (graph[c[k]] \cup UNION {graph[s] : s \in S}) \subseteq S,
                    c[k] \notin S
             PROVE  FALSE
  BY <1>0 DEF Imports!Uses
<1> DEFINE Out == {j \in Nat : k < j /\ j <= Len(c) /\ c[j] \notin S}
<1>1. Len(c) \in Out
  BY <1>0
<1>2. PICK j \in Out : \A i \in Out : ~(<<i, j>> \in OpToRel(<, Nat))
  <2>1. Out \subseteq Nat /\ Out # {}
    BY <1>1
  <2> HIDE DEF Out
  <2> QED BY <2>1, NatLessThanWellFounded, WFMin
<1>3. j \in Nat /\ k < j /\ j <= Len(c) /\ c[j] \notin S
  BY <1>2
<1>4. \A i \in Out : ~(i < j)
  BY <1>2, <1>3 DEF OpToRel
<1>5. j - 1 \in 1..Len(c) - 1 /\ (j - 1) + 1 = j /\ j - 1 \in Nat /\ j - 1 < j
  BY <1>0, <1>3
<1>6. c[j] \in graph[c[j - 1]]
  BY <1>5
<1>7. CASE j - 1 = k
  BY <1>3, <1>6, <1>7
<1>8. CASE j - 1 # k
  <2>1. k < j - 1 /\ j - 1 <= Len(c)
    BY <1>0, <1>3, <1>5, <1>8
  <2>2. j - 1 \notin Out
    BY <1>4, <1>5
  <2>3. c[j - 1] \in S
    BY <1>5, <2>1, <2>2
  <2> QED BY <1>3, <1>6, <2>3
<1> QED BY <1>7, <1>8

\* What the imports are does not change, and with them who uses whom.
LEMMA TreeKept ==
    ASSUME UNCHANGED <<script, layer, imports, graph>>
    PROVE  /\ Imports!Own' = Imports!Own
           /\ \A n : Imports!Uses(n)' = Imports!Uses(n)
BY DEF Imports!Own, Imports!Uses

\* A module is entered: it is the innermost one, with all it imports ahead.
LEMMA Entered ==
    ASSUME Imports!Inv, NEW name \in Imports!Own, graph[name] \subseteq Imports!Own,
           NEW rest \in Seq(SUBSET Imports!Own), Len(rest) = Len(active)
    PROVE  LET way == Append(active, name)
               later == Append(rest, graph[name])
               n == Len(active)
           IN  /\ n \in Nat
               /\ way \in Seq(Imports!Own) /\ later \in Seq(SUBSET Imports!Own)
               /\ Len(way) = n + 1 /\ Len(later) = n + 1
               /\ DOMAIN way = 1..n + 1 /\ DOMAIN active = 1..n
               /\ \A i \in 1..n : way[i] = active[i] /\ later[i] = rest[i]
               /\ way[n + 1] = name /\ later[n + 1] = graph[name]
<1>1. active \in Seq(Imports!Own) /\ graph[name] \in SUBSET Imports!Own
  BY DEF Imports!Inv, Imports!WayDown
<1>2. Len(active) \in Nat /\ DOMAIN active = 1..Len(active)
  BY <1>1, LenProperties
<1>3. /\ Append(active, name) \in Seq(Imports!Own)
      /\ Len(Append(active, name)) = Len(active) + 1
      /\ \A i \in 1..Len(active) : Append(active, name)[i] = active[i]
      /\ Append(active, name)[Len(active) + 1] = name
  BY <1>1, AppendProperties
<1>4. DOMAIN Append(active, name) = 1..Len(active) + 1
  BY <1>3, LenProperties
<1>5. /\ Append(rest, graph[name]) \in Seq(SUBSET Imports!Own)
      /\ Len(Append(rest, graph[name])) = Len(rest) + 1
      /\ \A i \in 1..Len(rest) : Append(rest, graph[name])[i] = rest[i]
      /\ Append(rest, graph[name])[Len(rest) + 1] = graph[name]
  BY <1>1, AppendProperties
<1> QED BY <1>2, <1>3, <1>4, <1>5

\* The cycle that is reported: the way from `at` on, and the module again.
LEMMA Reported ==
    ASSUME NEW S, NEW s \in Seq(S), NEW name \in S, NEW from \in 1..Len(s)
    PROVE  LET c == Append(SubSeq(s, from, Len(s)), name)
               n == Len(s) - from + 1
           IN  /\ c \in Seq(S) /\ Len(c) = n + 1 /\ n \in Nat \ {0}
               /\ \A i \in 1..n : c[i] = s[from + i - 1]
               /\ c[n + 1] = name
<1>1. /\ Len(s) \in Nat /\ from \in Int /\ Len(s) \in Int /\ from <= Len(s)
      /\ \A i \in from..Len(s) : s[i] \in S
  BY LenProperties, ElementOfSeq
<1> DEFINE t == SubSeq(s, from, Len(s))
           n == Len(s) - from + 1
<1>2. /\ t \in Seq(S) /\ Len(t) = (IF from <= Len(s) THEN n ELSE 0)
      /\ \A i \in 1..n : t[i] = s[from + i - 1]
  BY <1>1, SubSeqProperties
<1>3. n \in Nat \ {0}
  BY <1>1
<1> HIDE DEF t, n
<1>4. Len(t) = n
  BY <1>1, <1>2
<1>5. /\ Append(t, name) \in Seq(S) /\ Len(Append(t, name)) = Len(t) + 1
      /\ \A i \in 1..Len(t) : Append(t, name)[i] = t[i]
      /\ Append(t, name)[Len(t) + 1] = name
  BY <1>2, AppendProperties
<1>6. /\ Append(t, name) \in Seq(S) /\ Len(Append(t, name)) = n + 1
      /\ \A i \in 1..n : Append(t, name)[i] = s[from + i - 1]
      /\ Append(t, name)[n + 1] = name
  BY <1>2, <1>4, <1>5
<1> QED BY <1>3, <1>6 DEF t, n

\* visit(name), wherever it is called: `rest` is what is ahead without it.
LEMMA VisitStep ==
    ASSUME Imports!Inv, exit = Imports!Running,
           NEW name \in Imports!Own,
           NEW rest \in Seq(SUBSET Imports!Own), Len(rest) = Len(active),
           \A i \in 1..Len(active) - 1 : rest[i] = ahead[i],
           active # <<>> => /\ name \in graph[active[Len(active)]]
                           /\ rest[Len(active)] = ahead[Len(active)] \ {name},
           UNCHANGED <<script, layer, imports, graph, failures, exit>>,
           names' \subseteq names, names \subseteq names' \cup {name},
           Imports!Visit(name, rest)
    PROVE  Imports!Inv'
<1> USE DEF Imports!Inv
<1>0. /\ Imports!Own' = Imports!Own /\ \A n : Imports!Uses(n)' = Imports!Uses(n)
      /\ Imports!Own \subseteq Modules
  BY TreeKept DEF Imports!Own
<1>1. Imports!Judged'
  <2>1. exit # Imports!Unread
    BY DEF Imports!Running, Imports!Unread
  <2> QED BY <1>0, <2>1 DEF Imports!Judged
<1>2. Imports!Ended'
  BY DEF Imports!Ended, Imports!Running
<1>3. /\ script \in Imports!Scripts /\ layer \in [Modules -> Imports!Layers]
      /\ imports \in [Modules -> SUBSET Modules] /\ graph \in [Modules -> SUBSET Imports!Own]
      /\ failures \subseteq Modules \X Modules
      /\ names' \subseteq Imports!Own /\ exit' \in {Imports!Unread, Imports!Running, 0, 1}
  BY DEF Imports!TypeOK
<1>4. /\ active \in Seq(Imports!Own) /\ Len(active) \in Nat /\ DOMAIN active = 1..Len(active)
      /\ \A i \in 1..Len(active) : active[i] \in Imports!Own
      /\ active # <<>> => Len(active) \in 1..Len(active)
  <2>1. active \in Seq(Imports!Own)
    BY DEF Imports!WayDown
  <2>2. active # <<>> => Len(active) # 0
    BY <2>1, EmptySeq
  <2> QED BY <2>1, <2>2, LenProperties, ElementOfSeq
<1>5. \A i \in 1..Len(active) : rest[i] \subseteq ahead[i]
  <2>1. \A i \in 1..Len(active) : i \in 1..Len(active) - 1 \/ i = Len(active)
    BY <1>4
  <2>2. \A i \in 1..Len(active) : active # <<>>
    BY <1>4, EmptySeq
  <2> QED BY <2>1, <2>2
<1>6. /\ \A i \in 1..Len(active) : ahead[i] \subseteq graph[active[i]] /\ active[i] \notin visited
      /\ \A i \in 1..Len(active) - 1 : active[i + 1] \in graph[active[i]] \ ahead[i]
      /\ Imports!IsInjective(active)
  BY <1>4 DEF Imports!WayDown
<1>7. Imports!Range(active) \subseteq Imports!Own
  BY <1>4 DEF Imports!Range
<1>8. Imports!Range(active)' = {active'[i] : i \in DOMAIN active'} /\ Imports!Range(active) = {active[i] : i \in 1..Len(active)}
  BY <1>4 DEF Imports!Range
\* What is ahead grows shorter, and no module is entered.
<1>9. ASSUME active' = active, ahead' = rest, visited' = visited
      PROVE  Imports!TypeOK' /\ Imports!WayDown'
  <2>1. Imports!TypeOK'
    BY <1>0, <1>3, <1>6, <1>7, <1>9 DEF Imports!TypeOK
  <2>2. \A i \in 1..Len(active) - 1 : active[i + 1] \in graph[active[i]] \ rest[i]
    BY <1>6
  <2>3. \A i \in 1..Len(active) : rest[i] \subseteq graph[active[i]] /\ active[i] \notin visited
    BY <1>5, <1>6
  <2>4. /\ active' \in Seq(Imports!Own)' /\ ahead' \in Seq(SUBSET Imports!Own)'
        /\ Len(ahead)' = Len(active)' /\ Imports!IsInjective(active)'
    BY <1>0, <1>4, <1>6, <1>9 DEF Imports!IsInjective
  <2>5. DOMAIN active' = 1..Len(active') /\ active' = active
    BY <1>4, <1>9
  <2>6. /\ \A i \in 1..Len(active') : ahead'[i] \subseteq graph'[active'[i]] /\ active'[i] \notin visited'
        /\ \A i \in 1..Len(active') - 1 : active'[i + 1] \in graph'[active'[i]] \ ahead'[i]
    BY <1>9, <2>2, <2>3
  <2> QED BY <2>1, <2>4, <2>5, <2>6 DEF Imports!WayDown
<1>10. CASE name \in Imports!Range(active)
  <2>1. active' = active /\ ahead' = rest /\ visited' = visited
    BY <1>10 DEF Imports!Visit
  <2>2. PICK from \in 1..Len(active) :
            /\ \E j \in from..Len(active) : active[j] = name
            /\ script = "query" => active[from] = name
            /\ cycles' = cycles \cup {Append(SubSeq(active, from, Len(active)), name)}
    <3>1. PICK j \in 1..Len(active) : active[j] = name
      BY <1>4, <1>10 DEF Imports!Range
    <3>2. 1 \in 1..Len(active) /\ j \in 1..Len(active)
      BY <1>4, <3>1
    <3>3. CASE script = "query"
      <4> DEFINE first == CHOOSE i \in DOMAIN active : active[i] = name
      <4>1. first \in 1..Len(active) /\ active[first] = name
        BY <1>4, <3>1
      <4>2. cycles' = cycles \cup {Append(SubSeq(active, first, Len(active)), name)}
        BY <1>10, <3>3 DEF Imports!Visit
      <4> HIDE DEF first
      <4>3. first \in first..Len(active)
        BY <1>4, <4>1
      <4> QED BY <4>1, <4>2, <4>3
    <3>4. CASE script # "query"
      <4>1. cycles' = cycles \cup {Append(SubSeq(active, 1, Len(active)), name)}
        BY <1>10, <3>4 DEF Imports!Visit
      <4> QED BY <3>1, <3>2, <3>4, <4>1
    <3> QED BY <3>3, <3>4
  <2> DEFINE c == Append(SubSeq(active, from, Len(active)), name)
             n == Len(active) - from + 1
  <2>3. /\ c \in Seq(Imports!Own) /\ Len(c) = n + 1 /\ n \in Nat \ {0}
        /\ \A i \in 1..n : c[i] = active[from + i - 1]
        /\ c[n + 1] = name
    BY <1>4, Reported
  <2>4. cycles' = cycles \cup {c}
    BY <2>2
  <2>5. PICK j \in from..Len(active) : active[j] = name
    BY <2>2
  <2> HIDE DEF c
  <2>6. \E i \in 1..Len(c) - 1 : c[i] = c[Len(c)]
    <3>1. j - from + 1 \in 1..n /\ from + (j - from + 1) - 1 = j
      BY <1>4, <2>5
    <3>2. c[j - from + 1] = active[j]
      BY <2>3, <3>1
    <3>3. Len(c) - 1 = n
      BY <2>3
    <3> QED BY <2>3, <2>5, <3>1, <3>2, <3>3
  <2>7. script = "query" => c[1] = c[Len(c)]
    <3>1. 1 \in 1..n /\ from + 1 - 1 = from
      BY <2>3
    <3> QED BY <2>2, <2>3, <3>1
  <2>8. \A i \in 1..Len(c) - 1 : c[i + 1] \in graph[c[i]]
    <3> SUFFICES ASSUME NEW i \in 1..Len(c) - 1 PROVE c[i + 1] \in graph[c[i]]
      OBVIOUS
    <3>1. i \in 1..n /\ i \in Nat
      BY <2>3
    <3>2. c[i] = active[from + i - 1]
      BY <2>3, <3>1
    <3>3. CASE i = n
      <4>1. from + i - 1 = Len(active) /\ c[i + 1] = name
        BY <1>4, <2>3, <3>3
      <4> QED BY <1>4, <3>2, <4>1
    <3>4. CASE i # n
      <4>0. \A l, f, k \in Nat : f >= 1 /\ k >= 1 /\ k <= l - f + 1 /\ k # l - f + 1 =>
                /\ k + 1 \in 1..l - f + 1 /\ f + (k + 1) - 1 = (f + k - 1) + 1
                /\ f + k - 1 \in 1..l - 1
        <5> SUFFICES ASSUME NEW l \in Nat, NEW f \in Nat, NEW k \in Nat,
                            f >= 1, k >= 1, k <= l - f + 1, k # l - f + 1
                     PROVE  /\ k + 1 \in 1..l - f + 1 /\ f + (k + 1) - 1 = (f + k - 1) + 1
                            /\ f + k - 1 \in 1..l - 1
          OBVIOUS
        <5>1. k + 1 \in 1..l - f + 1
          OBVIOUS
        <5>2. f + (k + 1) - 1 = (f + k - 1) + 1
          OBVIOUS
        <5>3. f + k - 1 \in 1..l - 1
          OBVIOUS
        <5> QED BY <5>1, <5>2, <5>3
      <4>1. /\ i + 1 \in 1..n /\ from + (i + 1) - 1 = (from + i - 1) + 1
            /\ from + i - 1 \in 1..Len(active) - 1
        <5>1. from \in Nat /\ from >= 1 /\ i >= 1 /\ i <= n
          BY <3>1
        <5> QED BY <1>4, <3>1, <3>4, <4>0, <5>1
      <4>2. c[i + 1] = active[(from + i - 1) + 1]
        BY <2>3, <4>1
      <4> QED BY <1>6, <3>2, <4>1, <4>2
    <3> QED BY <3>3, <3>4
  <2>9. Imports!CyclesReal'
    <3>1. Len(c) > 1
      BY <2>3
    <3> QED BY <1>0, <2>3, <2>4, <2>6, <2>7, <2>8, <3>1 DEF Imports!CyclesReal
  <2>10. Imports!NoCycleYet'
    BY <2>4 DEF Imports!NoCycleYet
  <2>11. Imports!NoneForgotten'
    <3>1. Imports!Range(active)' = Imports!Range(active)
      BY <2>1 DEF Imports!Range
    <3> QED BY <1>0, <1>3, <1>7, <1>10, <2>1, <3>1 DEF Imports!NoneForgotten, Imports!TypeOK
  <2> QED BY <1>1, <1>2, <1>9, <2>1, <2>9, <2>10, <2>11
<1>11. CASE name \notin Imports!Range(active) /\ name \in visited
  <2>1. active' = active /\ ahead' = rest /\ visited' = visited /\ cycles' = cycles
    BY <1>11 DEF Imports!Visit
  <2>2. Imports!CyclesReal'
    BY <1>0, <2>1 DEF Imports!CyclesReal
  <2>3. Imports!NoneForgotten'
    <3>1. Imports!Range(active)' = Imports!Range(active)
      BY <2>1 DEF Imports!Range
    <3> QED BY <1>0, <1>3, <1>7, <1>11, <2>1, <3>1 DEF Imports!NoneForgotten, Imports!TypeOK
  <2>4. ASSUME cycles = {}, NEW i \in 1..Len(active), NEW d \in graph[active[i]] \ rest[i]
        PROVE  d \in visited \/ (i < Len(active) /\ d = active[i + 1])
    <3>1. d \notin ahead[i] => d \in visited \/ (i < Len(active) /\ d = active[i + 1])
      BY <1>4, <2>4 DEF Imports!NoCycleYet
    <3>2. CASE i = Len(active)
      <4>1. active # <<>>
        BY <3>2, EmptySeq
      <4> QED BY <1>11, <2>4, <3>1, <3>2, <4>1
    <3>3. CASE i # Len(active)
      BY <1>4, <2>4, <3>1, <3>3
    <3> QED BY <3>2, <3>3
  <2>5. Imports!NoCycleYet'
    BY <1>0, <1>4, <2>1, <2>4 DEF Imports!NoCycleYet
  <2> QED BY <1>1, <1>2, <1>9, <2>1, <2>2, <2>3, <2>5
<1>12. CASE name \notin Imports!Range(active) /\ name \notin visited
  <2>1. /\ active' = Append(active, name) /\ ahead' = Append(rest, graph[name])
        /\ visited' = visited /\ cycles' = cycles
    BY <1>12 DEF Imports!Visit
  <2> DEFINE n == Len(active)
  <2>2. /\ n \in Nat
        /\ active' \in Seq(Imports!Own) /\ ahead' \in Seq(SUBSET Imports!Own)
        /\ Len(active') = n + 1 /\ Len(ahead') = n + 1
        /\ DOMAIN active' = 1..n + 1 /\ DOMAIN active = 1..n
        /\ \A i \in 1..n : active'[i] = active[i] /\ ahead'[i] = rest[i]
        /\ active'[n + 1] = name /\ ahead'[n + 1] = graph[name]
    <3>1. graph[name] \subseteq Imports!Own
      BY <1>0, <1>3
    <3>2. /\ n \in Nat
          /\ Append(active, name) \in Seq(Imports!Own)
          /\ Append(rest, graph[name]) \in Seq(SUBSET Imports!Own)
          /\ Len(Append(active, name)) = n + 1 /\ Len(Append(rest, graph[name])) = n + 1
          /\ DOMAIN Append(active, name) = 1..n + 1 /\ DOMAIN active = 1..n
          /\ \A i \in 1..n : /\ Append(active, name)[i] = active[i]
                             /\ Append(rest, graph[name])[i] = rest[i]
          /\ Append(active, name)[n + 1] = name /\ Append(rest, graph[name])[n + 1] = graph[name]
      BY <3>1, Entered
    <3> QED BY <2>1, <3>2
  <2>3. /\ \A i \in 1..n + 1 : i \in 1..n \/ i = n + 1
        /\ \A i \in 1..n : i \in 1..n - 1 \/ i = n
        /\ \A i \in 1..n - 1 : i \in 1..n /\ i + 1 \in 1..n
        /\ n + 1 - 1 = n
    BY <2>2
  <2>4. active # <<>> <=> n # 0
    BY <1>4, EmptySeq
  <2>5. \A i \in 1..n : active[i] # name
    BY <1>8, <1>12
  <2>6. Imports!Range(active)' = Imports!Range(active) \cup {name}
    <3>1. n + 1 \in 1..n + 1 /\ \A i \in 1..n : i \in 1..n + 1
      BY <2>2
    <3>2. Imports!Range(active)' \subseteq Imports!Range(active) \cup {name}
      BY <1>8, <2>2, <2>3
    <3>3. Imports!Range(active) \cup {name} \subseteq Imports!Range(active)'
      BY <1>8, <2>2, <3>1
    <3> QED BY <3>2, <3>3
  <2>7. Imports!IsInjective(active)'
    BY <1>4, <1>6, <2>2, <2>3, <2>5 DEF Imports!IsInjective
  <2>8. Imports!TypeOK'
    BY <1>0, <1>3, <1>7, <2>1, <2>2, <2>6, <2>7 DEF Imports!TypeOK
  <2>9. \A i \in 1..n + 1 : ahead'[i] \subseteq graph[active'[i]] /\ active'[i] \notin visited
    BY <1>5, <1>6, <1>12, <2>2, <2>3
  <2>10. \A i \in 1..n : active'[i + 1] \in graph[active'[i]] \ ahead'[i]
    <3> SUFFICES ASSUME NEW i \in 1..n PROVE active'[i + 1] \in graph[active'[i]] \ ahead'[i]
      OBVIOUS
    <3>1. CASE i = n
      <4>1. active # <<>>
        BY <2>2, <2>4, <3>1
      <4> QED BY <2>2, <3>1, <4>1
    <3>2. CASE i \in 1..n - 1
      BY <1>6, <2>2, <2>3, <3>2
    <3> QED BY <2>3, <3>1, <3>2
  <2>11. Imports!WayDown'
    <3>1. /\ active' \in Seq(Imports!Own)' /\ ahead' \in Seq(SUBSET Imports!Own)'
          /\ Len(ahead)' = Len(active)'
      BY <1>0, <2>2
    <3>2. \A i \in DOMAIN active' : ahead'[i] \subseteq graph'[active'[i]] /\ active'[i] \notin visited'
      BY <2>1, <2>2, <2>9
    <3>3. Len(active') - 1 = n
      BY <2>2
    <3>4. \A i \in 1..Len(active') - 1 : active'[i + 1] \in graph'[active'[i]] \ ahead'[i]
      BY <2>10, <3>3
    <3> QED BY <2>7, <3>1, <3>2, <3>4 DEF Imports!WayDown
  <2>12. Imports!CyclesReal'
    BY <1>0, <2>1 DEF Imports!CyclesReal
  <2>13. Imports!NoneForgotten'
    BY <1>0, <1>3, <1>7, <2>1, <2>6 DEF Imports!NoneForgotten, Imports!TypeOK
  <2>14. ASSUME cycles = {}, NEW i \in 1..n + 1, NEW d \in graph[active'[i]] \ ahead'[i]
         PROVE  d \in visited \/ (i < n + 1 /\ d = active'[i + 1])
    <3>1. CASE i = n + 1
      BY <2>2, <2>14, <3>1
    <3>2. CASE i = n /\ i # n + 1
      <4>1. active # <<>> /\ i \in 1..n
        BY <2>2, <2>3, <2>4, <2>14, <3>2
      <4>2. d \in graph[active[i]] /\ (d \notin ahead[i] \/ d = name)
        BY <2>2, <2>14, <3>2, <4>1
      <4>3. d \notin ahead[i] => d \in visited
        BY <1>4, <2>2, <2>14, <3>2, <4>1, <4>2 DEF Imports!NoCycleYet
      <4>4. i < n + 1 /\ active'[i + 1] = name
        BY <2>2, <3>2
      <4> QED BY <4>2, <4>3, <4>4
    <3>3. CASE i \in 1..n - 1
      <4>1. d \in graph[active[i]] \ ahead[i]
        BY <2>2, <2>3, <2>14, <3>3
      <4>2. d \in visited \/ d = active[i + 1]
        BY <2>2, <2>3, <2>14, <3>3, <4>1 DEF Imports!NoCycleYet
      <4>3. i < n + 1 /\ active'[i + 1] = active[i + 1]
        <5>1. i + 1 \in 1..n
          BY <2>3, <3>3
        <5>2. i < n + 1
          BY <2>2, <3>3
        <5> QED BY <2>2, <5>1, <5>2
      <4> QED BY <4>2, <4>3
    <3> QED BY <2>3, <3>1, <3>2, <3>3
  <2>15. Imports!NoCycleYet'
    BY <1>0, <2>1, <2>2, <2>14 DEF Imports!NoCycleYet
  <2> QED BY <1>1, <1>2, <2>8, <2>11, <2>12, <2>13, <2>15
<1> QED BY <1>10, <1>11, <1>12

\* A module is left: all it imports is visited, so it is on no cycle.
LEMMA LeaveStep ==
    ASSUME Imports!Inv, Imports!Leave
    PROVE  Imports!Inv'
<1> USE DEF Imports!Inv
<1>0. /\ UNCHANGED <<script, layer, imports, graph, failures, cycles, names, exit>>
      /\ active # <<>> /\ Imports!Last(ahead) = {}
      /\ visited' = visited \cup {Imports!Last(active)}
      /\ active' = Imports!Front(active) /\ ahead' = Imports!Front(ahead)
  BY DEF Imports!Leave, Imports!tree, Imports!read
<1>1. /\ Imports!Own' = Imports!Own /\ \A m : Imports!Uses(m)' = Imports!Uses(m)
  BY <1>0, TreeKept
<1>2. /\ script \in Imports!Scripts /\ layer \in [Modules -> Imports!Layers]
      /\ imports \in [Modules -> SUBSET Modules] /\ graph \in [Modules -> SUBSET Imports!Own]
      /\ failures \subseteq Modules \X Modules /\ visited \subseteq Imports!Own
      /\ names \subseteq Imports!Own /\ exit \in {Imports!Unread, Imports!Running, 0, 1}
  BY DEF Imports!TypeOK
<1>3. /\ active \in Seq(Imports!Own) /\ ahead \in Seq(SUBSET Imports!Own)
      /\ Len(ahead) = Len(active) /\ Len(active) \in Nat \ {0} /\ ahead # <<>>
      /\ DOMAIN active = 1..Len(active)
  <2>1. /\ active \in Seq(Imports!Own) /\ ahead \in Seq(SUBSET Imports!Own)
        /\ Len(ahead) = Len(active)
    BY DEF Imports!WayDown
  <2>2. Len(active) # 0 /\ Len(active) \in Nat /\ DOMAIN active = 1..Len(active)
    BY <1>0, <2>1, EmptySeq, LenProperties
  <2>3. ahead # <<>>
    BY <2>1, <2>2, EmptySeq
  <2> QED BY <2>1, <2>2, <2>3
<1>4. PICK n \in Nat \ {0} : n = Len(active)
  BY <1>3
<1>5. /\ active' \in Seq(Imports!Own) /\ Len(active') = n - 1
      /\ \A i \in 1..n - 1 : active'[i] = active[i]
      /\ Imports!Last(active) = active[n] /\ active[n] \in Imports!Own
  <2>1. /\ Imports!Front(active) \in Seq(Imports!Own)
        /\ Len(Imports!Front(active)) = Len(active) - 1
        /\ \A i \in 1..Len(active) - 1 : Imports!Front(active)[i] = active[i]
        /\ Imports!Last(active) = active[Len(active)] /\ Imports!Last(active) \in Imports!Own
    BY <1>0, <1>3, FrontOf
  <2> QED BY <1>0, <1>4, <2>1
<1>6. /\ ahead' \in Seq(SUBSET Imports!Own) /\ Len(ahead') = n - 1
      /\ \A i \in 1..n - 1 : ahead'[i] = ahead[i]
      /\ Imports!Last(ahead) = ahead[n]
  <2>1. /\ Imports!Front(ahead) \in Seq(SUBSET Imports!Own)
        /\ Len(Imports!Front(ahead)) = Len(ahead) - 1
        /\ \A i \in 1..Len(ahead) - 1 : Imports!Front(ahead)[i] = ahead[i]
        /\ Imports!Last(ahead) = ahead[Len(ahead)]
    BY <1>3, FrontOf
  <2> QED BY <1>0, <1>3, <1>4, <2>1
<1>7. DOMAIN active' = 1..n - 1
  BY <1>5, LenProperties
<1>8. /\ \A i \in 1..n : i \in 1..n - 1 \/ i = n
      /\ \A i \in 1..n - 1 : i \in 1..n
      /\ n \in 1..n /\ n \notin 1..n - 1
      /\ \A i \in 1..n - 1 - 1 : i \in 1..n - 1 /\ i + 1 \in 1..n - 1
      /\ \A i \in 1..n - 1 : i + 1 \in 1..n /\ (i < n - 1 \/ i + 1 = n)
      /\ \A i \in 1..n - 1 : i < n - 1 => i + 1 \in 1..n - 1
  BY <1>4
<1>9. /\ \A i \in 1..n : ahead[i] \subseteq graph[active[i]] /\ active[i] \notin visited
      /\ \A i \in 1..n - 1 : active[i + 1] \in graph[active[i]] \ ahead[i]
      /\ \A i, j \in 1..n : active[i] = active[j] => i = j
  BY <1>3, <1>4 DEF Imports!WayDown, Imports!IsInjective
<1>10. \A i \in 1..n - 1 : active[i] # active[n]
  BY <1>8, <1>9
<1>11. Imports!Range(active) = Imports!Range(active)' \cup {active[n]}
  <2>1. Imports!Range(active) = {active[i] : i \in 1..n}
    BY <1>3, <1>4 DEF Imports!Range
  <2>2. Imports!Range(active)' = {active'[i] : i \in 1..n - 1}
    BY <1>7 DEF Imports!Range
  <2>3. Imports!Range(active) \subseteq Imports!Range(active)' \cup {active[n]}
    BY <1>5, <1>8, <2>1, <2>2
  <2>4. Imports!Range(active)' \cup {active[n]} \subseteq Imports!Range(active)
    BY <1>5, <1>8, <2>1, <2>2
  <2> QED BY <2>3, <2>4
<1>12. Imports!Range(active)' \subseteq Imports!Own /\ Imports!IsInjective(active)'
  <2>1. Imports!IsInjective(active)'
    BY <1>5, <1>7, <1>8, <1>9 DEF Imports!IsInjective
  <2>2. Imports!Range(active) \subseteq Imports!Own
    BY DEF Imports!TypeOK
  <2> QED BY <1>11, <2>1, <2>2
<1>13. exit = Imports!Running
  <2>1. exit # Imports!Unread
    BY <1>0 DEF Imports!Judged
  <2>2. exit \notin {0, 1}
    BY <1>0 DEF Imports!Ended
  <2> QED BY <1>2, <2>1, <2>2
<1>14. Imports!Judged' /\ Imports!Ended'
  <2>1. exit # Imports!Unread /\ exit \notin {0, 1}
    BY <1>13 DEF Imports!Running, Imports!Unread
  <2>2. Imports!Judged'
    BY <1>0, <1>1, <2>1 DEF Imports!Judged
  <2> QED BY <1>0, <2>1, <2>2 DEF Imports!Ended
<1>15. Imports!TypeOK'
  BY <1>0, <1>1, <1>2, <1>5, <1>6, <1>12 DEF Imports!TypeOK
<1>16. Imports!WayDown'
  <2>1. /\ active' \in Seq(Imports!Own)' /\ ahead' \in Seq(SUBSET Imports!Own)'
        /\ Len(ahead)' = Len(active)'
    BY <1>1, <1>5, <1>6
  <2>2. \A i \in 1..n - 1 : ahead'[i] \subseteq graph'[active'[i]] /\ active'[i] \notin visited'
    <3> SUFFICES ASSUME NEW i \in 1..n - 1
                 PROVE  ahead'[i] \subseteq graph'[active'[i]] /\ active'[i] \notin visited'
      OBVIOUS
    <3>1. active'[i] = active[i] /\ ahead'[i] = ahead[i] /\ active[i] # active[n]
      BY <1>5, <1>6, <1>10
    <3>2. ahead[i] \subseteq graph[active[i]] /\ active[i] \notin visited
      BY <1>8, <1>9
    <3>3. graph' = graph /\ visited' = visited \cup {active[n]}
      BY <1>0, <1>5
    <3> QED BY <3>1, <3>2, <3>3
  <2>3. \A i \in 1..n - 1 - 1 : active'[i + 1] \in graph'[active'[i]] \ ahead'[i]
    BY <1>0, <1>5, <1>6, <1>8, <1>9
  <2>4. \A i \in 1..Len(active') - 1 : active'[i + 1] \in graph'[active'[i]] \ ahead'[i]
    BY <1>5, <2>3
  <2>5. \A i \in DOMAIN active' : ahead'[i] \subseteq graph'[active'[i]] /\ active'[i] \notin visited'
    BY <1>7, <2>2
  <2> QED BY <1>12, <2>1, <2>4, <2>5 DEF Imports!WayDown
<1>17. Imports!NoCycleYet'
  <2> SUFFICES ASSUME cycles = {}
               PROVE  /\ \A m \in visited' : graph'[m] \subseteq visited' /\ m \notin Imports!Uses(m)'
                      /\ \A i \in DOMAIN active' : \A d \in graph'[active'[i]] \ ahead'[i] :
                            d \in visited' \/ (i < Len(active') /\ d = active'[i + 1])
    BY <1>0 DEF Imports!NoCycleYet
  <2>1. /\ \A m \in visited : graph[m] \subseteq visited /\ m \notin Imports!Uses(m)
        /\ \A i \in 1..n : \A d \in graph[active[i]] \ ahead[i] :
              d \in visited \/ (i < n /\ d = active[i + 1])
    BY <1>3, <1>4 DEF Imports!NoCycleYet
  <2>2. visited' = visited \cup {active[n]} /\ graph' = graph
    BY <1>0, <1>5
  <2>3. graph[active[n]] \subseteq visited
    BY <1>0, <1>6, <1>8, <2>1
  <2>4. Imports!Uses(active[n]) \subseteq visited
    BY <1>2, <2>1, <2>3, UsesWithin
  <2>5. active[n] \notin Imports!Uses(active[n])
    BY <1>8, <1>9, <2>4
  <2>6. \A m \in visited' : graph'[m] \subseteq visited' /\ m \notin Imports!Uses(m)'
    BY <1>1, <2>1, <2>2, <2>3, <2>5
  <2>7. ASSUME NEW i \in 1..n - 1, NEW d \in graph'[active'[i]] \ ahead'[i]
        PROVE  d \in visited' \/ (i < n - 1 /\ d = active'[i + 1])
    <3>1. d \in graph[active[i]] \ ahead[i]
      BY <1>5, <1>6, <2>2, <2>7
    <3>2. d \in visited \/ d = active[i + 1]
      BY <1>8, <2>1, <3>1
    <3>3. CASE i + 1 = n
      BY <2>2, <3>2, <3>3
    <3>4. CASE i < n - 1
      <4>1. active'[i + 1] = active[i + 1]
        BY <1>5, <1>8, <3>4
      <4> QED BY <2>2, <3>2, <3>4, <4>1
    <3> QED BY <1>8, <3>3, <3>4
  <2> QED BY <1>5, <1>7, <2>6, <2>7
<1>18. Imports!CyclesReal'
  BY <1>0, <1>1 DEF Imports!CyclesReal
<1>19. Imports!NoneForgotten'
  <2>1. visited' = visited \cup {active[n]}
    BY <1>0, <1>5
  <2>2. script \in Imports!Visiting =>
            Imports!Own = visited \cup names \cup Imports!Range(active)
    BY <1>13 DEF Imports!NoneForgotten, Imports!Running, Imports!Unread
  <2> QED BY <1>0, <1>1, <1>11, <2>1, <2>2 DEF Imports!NoneForgotten
<1> QED BY <1>14, <1>15, <1>16, <1>17, <1>18, <1>19

\* Every import is read and judged.
LEMMA ReadStep ==
    ASSUME Imports!Inv, Imports!Read
    PROVE  Imports!Inv'
<1> USE DEF Imports!Inv
<1>0. /\ exit = Imports!Unread /\ exit' = Imports!Running
      /\ graph' = [m \in Modules |-> IF m \in Imports!Own THEN imports[m] \cap Imports!Own ELSE {}]
      /\ failures' = {e \in Modules \X Modules :
             /\ e[2] \in imports[e[1]]
             /\ <<layer[e[1]], layer[e[2]]>> \in Imports!RulesOf[script]}
      /\ names' = IF script \in Imports!Visiting THEN Imports!Own ELSE {}
      /\ UNCHANGED <<script, layer, imports, cycles, visited, active, ahead>>
  BY DEF Imports!Read, Imports!tree
<1>1. /\ Imports!Own' = Imports!Own /\ visited = {} /\ active = <<>>
      /\ graph = [m \in Modules |-> {}]
  BY <1>0 DEF Imports!Own, Imports!Judged, Imports!NoImports
<1>2. cycles = {}
  <2> SUFFICES ASSUME NEW c \in cycles PROVE FALSE
    OBVIOUS
  <2>1. /\ c \in Seq(Imports!Own) /\ Len(c) > 1
        /\ \A i \in 1..Len(c) - 1 : c[i + 1] \in graph[c[i]]
    BY DEF Imports!CyclesReal
  <2>2. Len(c) \in Nat /\ 1 \in 1..Len(c) - 1 /\ 1 \in 1..Len(c) /\ c[1] \in Imports!Own
    BY <2>1, LenProperties, ElementOfSeq
  <2>3. c[2] \in graph[c[1]]
    BY <2>1, <2>2
  <2> QED BY <1>1, <2>2, <2>3 DEF Imports!Own
<1>3. Imports!TypeOK'
  <2>1. graph' \in [Modules -> SUBSET Imports!Own']
    BY <1>0, <1>1
  <2>2. names' \subseteq Imports!Own' /\ failures' \subseteq Modules \X Modules
    BY <1>0, <1>1
  <2>3. Imports!Range(active)' = Imports!Range(active)
    BY <1>0 DEF Imports!Range
  <2> QED BY <1>0, <1>1, <2>1, <2>2, <2>3 DEF Imports!TypeOK, Imports!IsInjective
<1>4. Imports!Judged'
  <2>1. exit' # Imports!Unread
    BY <1>0 DEF Imports!Unread, Imports!Running
  <2> QED BY <1>0, <1>1, <2>1 DEF Imports!Judged
<1>5. Imports!WayDown'
  <2>1. Len(active) = 0 /\ DOMAIN active = {} /\ 1..Len(active) - 1 = {}
    BY <1>1
  <2> QED BY <1>0, <1>1, <2>1 DEF Imports!WayDown, Imports!IsInjective
<1>6. Imports!NoCycleYet' /\ Imports!CyclesReal'
  BY <1>0, <1>1, <1>2 DEF Imports!NoCycleYet, Imports!CyclesReal
<1>7. Imports!NoneForgotten'
  BY <1>0, <1>1 DEF Imports!NoneForgotten, Imports!Range
<1>8. Imports!Ended'
  BY <1>0 DEF Imports!Ended, Imports!Running
<1> QED BY <1>3, <1>4, <1>5, <1>6, <1>7, <1>8

\* The script ends with what it has found.
LEMMA FinishStep ==
    ASSUME Imports!Inv, Imports!Finish
    PROVE  Imports!Inv'
<1> USE DEF Imports!Inv
<1>0. /\ active = <<>> /\ names = {} /\ exit = Imports!Running
      /\ exit' = IF failures # {} \/ cycles # {} THEN 1 ELSE 0
      /\ UNCHANGED <<script, layer, imports, graph, failures, cycles, visited, active,
                     ahead, names>>
  BY DEF Imports!Finish, Imports!tree, Imports!read
<1>1. /\ Imports!Own' = Imports!Own /\ \A m : Imports!Uses(m)' = Imports!Uses(m)
  BY <1>0, TreeKept
<1>2. exit # Imports!Unread /\ exit' # Imports!Unread /\ exit' \in {0, 1}
  BY <1>0 DEF Imports!Unread, Imports!Running
<1>3. Imports!Range(active)' = Imports!Range(active)
      /\ Imports!IsInjective(active)' = Imports!IsInjective(active)
  BY <1>0 DEF Imports!Range, Imports!IsInjective
<1>4. Imports!TypeOK'
  BY <1>0, <1>1, <1>2, <1>3 DEF Imports!TypeOK
<1>5. Imports!Judged'
  BY <1>0, <1>1, <1>2 DEF Imports!Judged
<1>6. Imports!WayDown'
  BY <1>0, <1>1, <1>3 DEF Imports!WayDown
<1>7. Imports!NoCycleYet' /\ Imports!CyclesReal'
  BY <1>0, <1>1 DEF Imports!NoCycleYet, Imports!CyclesReal
<1>8. Imports!NoneForgotten'
  BY <1>0, <1>1, <1>2, <1>3 DEF Imports!NoneForgotten
<1>9. Imports!Ended'
  BY <1>0 DEF Imports!Ended
<1> QED BY <1>4, <1>5, <1>6, <1>7, <1>8, <1>9

\* A module is visited from the top, or from the one that imports it.
LEMMA VisitSteps ==
    ASSUME Imports!Inv, Imports!VisitTop \/ Imports!VisitDependency
    PROVE  Imports!Inv'
<1>0. /\ Imports!TypeOK /\ Imports!Judged /\ Imports!WayDown /\ Imports!Ended
      /\ names \subseteq Imports!Own /\ graph \in [Modules -> SUBSET Imports!Own]
      /\ Imports!Own \subseteq Modules
      /\ exit \in {Imports!Unread, Imports!Running, 0, 1}
  BY DEF Imports!Inv, Imports!TypeOK, Imports!Own
<1>1. CASE Imports!VisitTop
  <2>1. PICK name \in names : names' = names \ {name} /\ Imports!Visit(name, ahead)
    BY <1>1 DEF Imports!VisitTop
  <2>2. UNCHANGED <<script, layer, imports, graph, failures, exit>> /\ active = <<>>
    BY <1>1 DEF Imports!VisitTop, Imports!tree, Imports!read
  <2>3. exit = Imports!Running
    BY <1>0, <2>1 DEF Imports!Judged, Imports!Ended
  <2>4. ahead \in Seq(SUBSET Imports!Own) /\ Len(ahead) = Len(active)
    BY <1>0 DEF Imports!WayDown
  <2>5. names' \subseteq names /\ names \subseteq names' \cup {name} /\ name \in Imports!Own
    BY <1>0, <2>1
  <2> QED BY <2>1, <2>2, <2>3, <2>4, <2>5, VisitStep
<1>2. CASE Imports!VisitDependency
  <2>1. UNCHANGED <<script, layer, imports, graph, failures, names, exit>> /\ active # <<>>
    BY <1>2 DEF Imports!VisitDependency, Imports!tree, Imports!read
  <2>2. PICK name \in Imports!Last(ahead) :
            Imports!Visit(name, Append(Imports!Front(ahead), Imports!Last(ahead) \ {name}))
    BY <1>2 DEF Imports!VisitDependency
  <2> DEFINE rest == Append(Imports!Front(ahead), Imports!Last(ahead) \ {name})
  <2>3. exit = Imports!Running
    BY <1>0, <2>1 DEF Imports!Judged, Imports!Ended
  <2>4. /\ active \in Seq(Imports!Own) /\ ahead \in Seq(SUBSET Imports!Own)
        /\ Len(ahead) = Len(active) /\ DOMAIN active = 1..Len(active) /\ Len(active) \in Nat
    BY <1>0, LenProperties DEF Imports!WayDown
  <2>5. Len(active) # 0 /\ ahead # <<>>
    BY <2>1, <2>4, EmptySeq
  <2>6. /\ rest \in Seq(SUBSET Imports!Own) /\ Len(rest) = Len(ahead)
        /\ \A i \in 1..Len(ahead) - 1 : rest[i] = ahead[i]
        /\ rest[Len(ahead)] = ahead[Len(ahead)] \ {name}
    <3> DEFINE more(q) ==
            LET new == Append(Imports!Front(ahead), Imports!Last(ahead) \ {q})
            IN  /\ new \in Seq(SUBSET Imports!Own) /\ Len(new) = Len(ahead)
                /\ \A i \in 1..Len(ahead) - 1 : new[i] = ahead[i]
                /\ new[Len(ahead)] = ahead[Len(ahead)] \ {q}
    <3>1. \A q : more(q)
      BY <2>4, <2>5, RestOf
    <3>2. more(name)
      BY <3>1
    <3> QED BY <3>2
  <2>7. Imports!Last(ahead) = ahead[Len(active)]
    BY <2>4 DEF Imports!Last
  <2>8. Len(active) \in DOMAIN active
    BY <2>4, <2>5
  <2>9. ahead[Len(active)] \subseteq graph[active[Len(active)]]
    BY <1>0, <2>8 DEF Imports!WayDown
  <2>10. name \in graph[active[Len(active)]] /\ name \in Imports!Own
    <3>1. active[Len(active)] \in Imports!Own
      BY <2>4, <2>8, ElementOfSeq
    <3> QED BY <1>0, <2>7, <2>9, <3>1
  <2>11. Imports!Visit(name, rest)
    BY <2>2
  <2> HIDE DEF rest
  <2>12. /\ Len(rest) = Len(active)
         /\ \A i \in 1..Len(active) - 1 : rest[i] = ahead[i]
         /\ rest[Len(active)] = ahead[Len(active)] \ {name}
    BY <2>4, <2>6
  <2>13. UNCHANGED <<script, layer, imports, graph, failures, exit>>
         /\ names' \subseteq names /\ names \subseteq names' \cup {name}
    BY <2>1
  <2> QED BY <2>3, <2>6, <2>10, <2>11, <2>12, <2>13, VisitStep
<1> QED BY <1>1, <1>2

LEMMA ImportsSteps ==
    ASSUME Imports!Inv, [Imports!Next]_check
    PROVE  Imports!Inv'
<1>1. CASE Imports!Next
  BY <1>1, VisitSteps, LeaveStep, ReadStep, FinishStep DEF Imports!Next
<1>2. CASE UNCHANGED check
  <2>0. UNCHANGED <<script, layer, imports, graph, failures, cycles, visited, active, ahead,
                    names, exit>>
    BY <1>2 DEF check
  <2>1. /\ Imports!Own' = Imports!Own /\ \A m : Imports!Uses(m)' = Imports!Uses(m)
    BY <2>0, TreeKept
  <2>2. Imports!TypeOK' /\ Imports!Judged' /\ Imports!WayDown'
    BY <2>0, <2>1 DEF Imports!Inv, Imports!TypeOK, Imports!Judged, Imports!WayDown,
                      Imports!Range, Imports!IsInjective
  <2>3. Imports!NoCycleYet' /\ Imports!CyclesReal' /\ Imports!NoneForgotten' /\ Imports!Ended'
    BY <2>0, <2>1 DEF Imports!Inv, Imports!NoCycleYet, Imports!CyclesReal,
                      Imports!NoneForgotten, Imports!Ended, Imports!Range
  <2> QED BY <2>2, <2>3 DEF Imports!Inv
<1> QED BY <1>1, <1>2

LEMMA ImportsStart ==
    ASSUME Imports!Init
    PROVE  Imports!Inv
<1>0. /\ script \in Imports!Scripts /\ layer \in [Modules -> Seen[script]]
      /\ imports \in [Modules -> SUBSET Modules] /\ graph = [m \in Modules |-> {}]
      /\ failures = {} /\ cycles = {} /\ visited = {} /\ active = <<>> /\ ahead = <<>>
      /\ names = {} /\ exit = Imports!Unread
  BY DEF Imports!Init, Imports!NoImports
<1>1. Seen[script] \subseteq Imports!Layers
  BY <1>0, LayersAssumption DEF Imports!SeenLayers
<1>2. layer \in [Modules -> Imports!Layers]
  BY <1>0, <1>1
<1>3. Len(active) = 0 /\ DOMAIN active = {} /\ 1..Len(active) - 1 = {}
  BY <1>0
<1>4. active \in Seq(Imports!Own) /\ ahead \in Seq(SUBSET Imports!Own) /\ Len(ahead) = Len(active)
  BY <1>0, EmptySeq
<1>5. Imports!Range(active) = {} /\ Imports!IsInjective(active)
  BY <1>3 DEF Imports!Range, Imports!IsInjective
<1>6. Imports!TypeOK
  BY <1>0, <1>2, <1>4, <1>5 DEF Imports!TypeOK
<1>7. Imports!Judged /\ Imports!Ended
  BY <1>0 DEF Imports!Judged, Imports!NoImports, Imports!Ended, Imports!Unread
<1>8. Imports!WayDown
  BY <1>3, <1>4, <1>5 DEF Imports!WayDown
<1>9. Imports!NoCycleYet /\ Imports!CyclesReal /\ Imports!NoneForgotten
  BY <1>0, <1>3 DEF Imports!NoCycleYet, Imports!CyclesReal, Imports!NoneForgotten
<1> QED BY <1>6, <1>7, <1>8, <1>9 DEF Imports!Inv

\* At the end every module has been visited, and what was reported is a cycle.
LEMMA CyclesFound ==
    ASSUME Imports!Inv
    PROVE  Imports!CyclesReported
<1> USE DEF Imports!Inv
<1>1. ASSUME NEW c \in cycles
      PROVE  /\ c \in Seq(Imports!Own) /\ Len(c) \in Nat /\ Len(c) > 1 /\ c # <<>>
             /\ \E i \in 1..Len(c) - 1 : c[i] = c[Len(c)]
             /\ script = "query" => c[1] = c[Len(c)]
             /\ \A i \in 1..Len(c) - 1 : c[i + 1] \in graph[c[i]]
  <2>1. /\ c \in Seq(Imports!Own) /\ Len(c) > 1
        /\ \E i \in 1..Len(c) - 1 : c[i] = c[Len(c)]
        /\ script = "query" => c[1] = c[Len(c)]
        /\ \A i \in 1..Len(c) - 1 : c[i + 1] \in graph[c[i]]
    BY <1>1 DEF Imports!CyclesReal
  <2> QED BY <2>1, LenProperties, EmptySeq
<1>2. ASSUME NEW c \in cycles
      PROVE  \E m \in Imports!Own : m \in Imports!Uses(m)
  <2>1. PICK k \in 1..Len(c) - 1 : c[k] = c[Len(c)]
    BY <1>1, <1>2
  <2>2. c \in Seq(Imports!Own) /\ Len(c) > 1 /\ \A i \in 1..Len(c) - 1 : c[i + 1] \in graph[c[i]]
    BY <1>1, <1>2
  <2>3. c[k] \in Imports!Uses(c[k])
    BY <2>1, <2>2, RoundTrip
  <2> QED BY <2>3 DEF Imports!Uses
<1>3. ASSUME exit \in {0, 1}, script \in Imports!Visiting, cycles = {}
      PROVE  \A m \in Imports!Own : m \notin Imports!Uses(m)
  <2>1. active = <<>> /\ names = {} /\ exit # Imports!Unread
    BY <1>3 DEF Imports!Ended, Imports!Unread
  <2>2. Imports!Range(active) = {}
    BY <2>1 DEF Imports!Range
  <2>3. Imports!Own = visited
    BY <1>3, <2>1, <2>2 DEF Imports!NoneForgotten
  <2> QED BY <1>3, <2>3 DEF Imports!NoCycleYet
<1>4. ASSUME NEW c \in cycles
      PROVE  /\ Imports!Last(c) \in Imports!Range(Imports!Front(c))
             /\ script = "query" => Head(c) = Imports!Last(c)
  <2>1. /\ Imports!Front(c) \in Seq(Imports!Own) /\ Len(Imports!Front(c)) = Len(c) - 1
        /\ \A i \in 1..Len(c) - 1 : Imports!Front(c)[i] = c[i]
        /\ Imports!Last(c) = c[Len(c)]
    BY <1>1, <1>4, FrontOf
  <2>2. DOMAIN Imports!Front(c) = 1..Len(c) - 1
    BY <2>1, LenProperties
  <2>3. PICK k \in 1..Len(c) - 1 : c[k] = c[Len(c)]
    BY <1>1, <1>4
  <2>4. Imports!Last(c) \in Imports!Range(Imports!Front(c))
    BY <2>1, <2>2, <2>3 DEF Imports!Range
  <2>5. Head(c) = c[1]
    BY <1>1, <1>4
  <2> QED BY <1>1, <1>4, <2>1, <2>4, <2>5
<1> QED BY <1>1, <1>2, <1>3, <1>4 DEF Imports!CyclesReported

\* What an import that no rule rejects may lead to, and what it may not.
LEMMA RulesSuffice ==
    ASSUME NEW s \in Imports!Scripts, NEW a \in Imports!Part[s], a # "lazy_api",
           NEW b \in Imports!Layers, <<a, b>> \notin Imports!RulesOf[s]
    PROVE  /\ b \notin Imports!OutOfReach[s]
           /\ b \in Imports!Part[s] =>
                  b # "lazy_api" /\ (b = "query_execution" => a = "query_execution")
<1>1. CASE s = "query"
  BY <1>1 DEF Imports!RulesOf, Imports!Part, Imports!OutOfReach, Imports!QueryRules,
      Imports!Query, Imports!Planning
<1>2. CASE s = "aggregation"
  BY <1>2 DEF Imports!RulesOf, Imports!Part, Imports!OutOfReach, Imports!AggregationRules
<1>3. CASE s = "joins"
  BY <1>3 DEF Imports!RulesOf, Imports!Part, Imports!OutOfReach, Imports!JoinRules
<1>4. CASE s = "storage"
  BY <1>4 DEF Imports!RulesOf, Imports!Part, Imports!OutOfReach, Imports!StorageRules,
      Imports!Storage
<1>5. CASE s = "kernels"
  BY <1>5 DEF Imports!RulesOf, Imports!Part, Imports!OutOfReach, Imports!KernelRules
<1>6. CASE s = "text"
  BY <1>6 DEF Imports!RulesOf, Imports!Part, Imports!OutOfReach, Imports!TextRules, Imports!Text
<1>7. CASE s = "json"
  BY <1>7 DEF Imports!RulesOf, Imports!Part, Imports!OutOfReach, Imports!JsonRules
<1> QED BY <1>1, <1>2, <1>3, <1>4, <1>5, <1>6, <1>7 DEF Imports!Scripts, Imports!RulesOf

\* A tree that passes: nothing it excepts leads round the rules.
LEMMA RulesKept ==
    ASSUME Imports!Inv
    PROVE  Imports!LayersHold
<1> SUFFICES ASSUME exit = 0, NEW m \in Imports!Own, layer[m] # "lazy_api",
                    NEW n \in Imports!Uses(m) \cup {m}
             PROVE  /\ \A d \in imports[n] : layer[d] \notin Imports!OutOfReach[script]
                    /\ layer[n] = "query_execution" => layer[m] = "query_execution"
  BY DEF Imports!LayersHold
<1>0. /\ script \in Imports!Scripts /\ layer \in [Modules -> Imports!Layers]
      /\ imports \in [Modules -> SUBSET Modules]
      /\ Imports!Own \subseteq Modules /\ \A k \in Imports!Own : layer[k] \in Imports!Part[script]
  BY DEF Imports!Inv, Imports!TypeOK, Imports!Own
<1>1. exit # Imports!Unread
  BY DEF Imports!Unread
<1>2. /\ graph = [k \in Modules |-> IF k \in Imports!Own THEN imports[k] \cap Imports!Own ELSE {}]
      /\ failures = {e \in Modules \X Modules :
             /\ e[2] \in imports[e[1]]
             /\ <<layer[e[1]], layer[e[2]]>> \in Imports!RulesOf[script]}
      /\ failures = {}
  BY <1>1 DEF Imports!Inv, Imports!Judged, Imports!Ended
<1>3. \A k \in Modules : \A d \in imports[k] : <<layer[k], layer[d]>> \notin Imports!RulesOf[script]
  <2> SUFFICES ASSUME NEW k \in Modules, NEW d \in imports[k]
               PROVE  <<layer[k], layer[d]>> \notin Imports!RulesOf[script]
    OBVIOUS
  <2>1. <<k, d>> \in Modules \X Modules
    BY <1>0
  <2> QED BY <1>2, <2>1
<1>4. ASSUME NEW k \in Imports!Own, layer[k] # "lazy_api", NEW d \in imports[k]
      PROVE  /\ layer[d] \notin Imports!OutOfReach[script]
             /\ d \in Imports!Own => /\ layer[d] # "lazy_api"
                                     /\ layer[d] = "query_execution" => layer[k] = "query_execution"
  <2>1. /\ layer[k] \in Imports!Part[script] /\ layer[d] \in Imports!Layers
        /\ <<layer[k], layer[d]>> \notin Imports!RulesOf[script]
    BY <1>0, <1>3, <1>4
  <2>2. /\ layer[d] \notin Imports!OutOfReach[script]
        /\ layer[d] \in Imports!Part[script] =>
               /\ layer[d] # "lazy_api"
               /\ layer[d] = "query_execution" => layer[k] = "query_execution"
    BY <1>0, <1>4, <2>1, RulesSuffice
  <2> QED BY <1>0, <2>2
<1> DEFINE T == {k \in Imports!Own : /\ layer[k] # "lazy_api"
                                     /\ layer[k] = "query_execution" => layer[m] = "query_execution"}
<1>5. \A k \in T : graph[k] \subseteq T
  <2> SUFFICES ASSUME NEW k \in T, NEW d \in graph[k] PROVE d \in T
    OBVIOUS
  <2>1. k \in Imports!Own /\ d \in imports[k] /\ d \in Imports!Own
    BY <1>0, <1>2
  <2>2. layer[d] # "lazy_api" /\ (layer[d] = "query_execution" => layer[k] = "query_execution")
    BY <1>4, <2>1
  <2> QED BY <2>1, <2>2
<1>6. m \in T /\ T \in SUBSET Imports!Own
  OBVIOUS
<1> HIDE DEF T
<1>7. Imports!Uses(m) \subseteq T
  BY <1>5, <1>6, UsesWithin
<1>8. n \in T
  BY <1>6, <1>7
<1>9. n \in Imports!Own /\ layer[n] # "lazy_api"
      /\ (layer[n] = "query_execution" => layer[m] = "query_execution")
  BY <1>8 DEF T
<1> QED BY <1>4, <1>9

\* The boundary checks report a cycle when there is one and only then, in
\* whatever order they visit, and what they pass has no chain of imports that
\* leads out of its reach: check_lazy_boundaries.py:56-126 and the others.
THEOREM BoundariesAreHeld == CheckSpec => []BoundariesHold
<1> DEFINE Checked == tool = "imports" => Imports!Inv
<1>1. CheckInit => Checked
  BY ImportsStart DEF CheckInit
<1>2. Checked /\ [CheckNext]_<<tool, search, check>> => Checked'
  <2> SUFFICES ASSUME Checked, [CheckNext]_<<tool, search, check>>, tool' = "imports"
               PROVE  Imports!Inv'
    OBVIOUS
  <2>1. tool = "imports" /\ Imports!Inv
    BY DEF CheckNext
  <2>2. [Imports!Next]_check
    BY <2>1 DEF CheckNext
  <2> QED BY <2>1, <2>2, ImportsSteps
<1>3. Checked => BoundariesHold
  <2>1. Imports!Inv => Imports!TypeOK
    BY DEF Imports!Inv
  <2> QED BY <2>1, CyclesFound, RulesKept DEF BoundariesHold
<1> QED BY <1>1, <1>2, <1>3, PTL DEF CheckSpec
===================================================================================
