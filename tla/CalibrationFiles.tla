---------------------------- MODULE CalibrationFiles ----------------------------
(***************************************************************************)
(* A calibration file from its publication to the costs a query gets:      *)
(* scripts/metal_calibration.py, `publish`; dataframe/placement.mojo,      *)
(* `load_costs`, the core's cache of CPU costs; and                        *)
(* dataframe_metal/calibration.mojo, `measured_costs`, with the back end's *)
(* own cache of the whole profile.                                         *)
(*                                                                         *)
(* Profiles are published under the hash of their content by publishers    *)
(* that may be killed while they write.  Queries run on several threads    *)
(* while the path in DATAFRAME_HANDOFF_CALIBRATION changes and a file may  *)
(* be overwritten in place.  A profile's path is the profile itself, and   *)
(* its costs one CPU model and one GPU model.  That the identity matches   *)
(* and the rows are in range is taken as given: both only make             *)
(* measured_costs return nothing.                                          *)
(***************************************************************************)
EXTENDS Naturals, FiniteSets

CONSTANTS
    Profiles,       \* [cpu, accel, bad]: bad is "no" or "accel", a core
                    \* model of the GPU that is refused after the CPU's
    Threads,
    Publishers,
    MaxChanges,     \* bounds: changes of the path, overwritten files, and
    MaxCalls        \* calls

NoCosts == [cpu |-> 0, accel |-> 0, bad |-> "all"]  \* not a profile at all
Torn == [NoCosts EXCEPT !.cpu = 1]
NoFile == [NoCosts EXCEPT !.cpu = 2]
Contents == Profiles \cup {Torn, NoFile}
NoPath == NoFile

ASSUME ProfilesAssumption ==
    /\ \A p \in Profiles : p.bad \in {"no", "accel"} /\ p.cpu > 0 /\ p.accel > 0
    /\ "nobody" \notin Threads

VARIABLES
    file,           \* what is under each path
    had,            \* what has been under each path (history)
    setting,        \* the path in the environment
    changes,
    step,           \* each publisher's: "begin", "write", "done", ...
    payload,        \* what each publishes
    lock,           \* _CostCache.lock
    costs,          \* _CostCache: the CPU costs (or NoCosts) and their path
    path,
    profile,        \* _ProfileCache: path, text and whether it is valid
    pc,             \* each thread's place, and its locals:
    calls,
    mine,           \*   the path it has read from the environment
    text,           \*   the file it has read, in measured_costs
    entry,          \*   the region it has found in the profile's cache
    got             \*   what its last call returned

disk == <<file, had, setting, changes>>
publishing == <<step, payload>>
cache == <<lock, costs, path>>
local == <<mine, text, entry>>
vars == <<disk, publishing, cache, profile, pc, calls, local, got>>

Nobody == "nobody"
Nothing == [call |-> "nothing", path |-> NoPath, cpu |-> 0, accel |-> 0, core |-> 0]

TypeOK ==
    /\ file \in [Profiles -> Contents]
    /\ had \in [Profiles -> SUBSET Contents]
    /\ setting \in Profiles
    /\ step \in [Publishers -> {"begin", "write", "returned", "collision", "killed"}]
    /\ payload \in [Publishers -> Profiles]
    /\ lock \in Threads \cup {Nobody}
    /\ costs \in Contents \cup {NoCosts} /\ path \in Profiles \cup {NoPath}
    /\ profile \in [path : Profiles \cup {NoPath}, text : Contents, valid : BOOLEAN]
    /\ pc \in [Threads -> {"idle", "snapshot", "load", "read cpu", "read accel"}]
    /\ mine \in [Threads -> Profiles \cup {NoPath}]
    /\ text \in [Threads -> Contents] /\ entry \in [Threads -> Contents]
    /\ DOMAIN got = Threads

Init ==
    /\ file = [p \in Profiles |-> NoFile]
    /\ had = [p \in Profiles |-> {}]
    /\ setting \in Profiles
    /\ changes = 0
    /\ step = [w \in Publishers |-> "begin"]
    /\ payload \in [Publishers -> Profiles]
    /\ lock = Nobody /\ costs = NoCosts /\ path = NoPath
    /\ profile = [path |-> NoPath, text |-> NoFile, valid |-> FALSE]
    /\ pc = [t \in Threads |-> "idle"]
    /\ calls = 0
    /\ mine = [t \in Threads |-> NoPath]
    /\ text = [t \in Threads |-> NoFile]
    /\ entry = [t \in Threads |-> NoFile]
    /\ got = [t \in Threads |-> Nothing]

Put(p, content) ==
    /\ file' = [file EXCEPT ![p] = content]
    /\ had' = [had EXCEPT ![p] = @ \cup {content}]

-------------------------------------------------------------------------------
(* publish(profile, directory)                                             *)

Publish(w, there) ==
    /\ step' = [step EXCEPT ![w] = there]
    /\ UNCHANGED <<payload, setting, changes, cache, profile, pc, calls, local, got>>

\* path.open("xb"): it creates the file, empty, or finds one.
Create(w) ==
    /\ step[w] = "begin" /\ file[payload[w]] = NoFile
    /\ Put(payload[w], Torn)
    /\ Publish(w, "write")

WritePayload(w) ==
    /\ step[w] = "write"
    /\ Put(payload[w], payload[w])
    /\ Publish(w, "returned")

\* A slip: a file that exists is taken for the profile.
FileExistsUnread(w) ==
    /\ step[w] = "begin" /\ file[payload[w]] # NoFile
    /\ Publish(w, "returned")
    /\ UNCHANGED <<file, had>>

\* A file of that name that holds anything else is a "collision".
FileExists(w) ==
    /\ step[w] = "begin" /\ file[payload[w]] # NoFile
    /\ Publish(w, IF file[payload[w]] # payload[w] THEN "collision" ELSE "returned")
    /\ UNCHANGED <<file, had>>

\* A publisher is killed, half way through the file or before it.
Killed(w) ==
    /\ step[w] \in {"begin", "write"}
    /\ Publish(w, "killed")
    /\ UNCHANGED <<file, had>>

-------------------------------------------------------------------------------
(* The host: it selects a path, and may write over a file in place.        *)

SetPath ==
    /\ changes < MaxChanges
    /\ changes' = changes + 1
    /\ setting' \in Profiles \ {setting}
    /\ UNCHANGED <<file, had, publishing, cache, profile, pc, calls, local, got>>

Overwrite(p) ==
    /\ changes < MaxChanges
    /\ changes' = changes + 1
    /\ file[p] # NoFile /\ \A w \in Publishers : payload[w] = p => step[w] # "write"
    /\ \E content \in Profiles \ {file[p]} : Put(p, content)
    /\ UNCHANGED <<setting, publishing, cache, profile, pc, calls, local, got>>

-------------------------------------------------------------------------------
(* load_costs("cpu"), by a query of its own or from measured_costs.        *)

Goto(t, there) == pc' = [pc EXCEPT ![t] = there]
Locals(t) == UNCHANGED <<mine, text, entry>>

\* The call returns: `found` are the CPU costs of load_costs.  measured_costs
\* goes on to compare them with those of its region.
Return(t, found) ==
    /\ Goto(t, "idle")
    /\ got' = [got EXCEPT ![t] =
        IF entry[t] = NoFile
        THEN [call |-> "load", path |-> mine[t], cpu |-> found.cpu, accel |-> 0,
              core |-> found.cpu]
        ELSE IF found.cpu = entry[t].cpu
        THEN [call |-> "measured", path |-> mine[t],
              cpu |-> entry[t].cpu, accel |-> entry[t].accel, core |-> found.cpu]
        ELSE Nothing]

Raise(t) ==
    /\ Goto(t, "idle")
    /\ got' = [got EXCEPT ![t] = Nothing]

StartLoad(t) ==
    /\ pc[t] = "idle" /\ calls < MaxCalls
    /\ calls' = calls + 1
    /\ mine' = [mine EXCEPT ![t] = setting]
    /\ entry' = [entry EXCEPT ![t] = NoFile]
    /\ Goto(t, "load")
    /\ got' = [got EXCEPT ![t] = Nothing]
    /\ UNCHANGED <<disk, publishing, cache, profile, text>>

\* With the lock, a cache of this path answers; any other is emptied.
LoadLock(t) ==
    /\ pc[t] = "load" /\ lock = Nobody
    /\ IF path = mine[t]
       THEN /\ Return(t, costs)
            /\ UNCHANGED cache
       ELSE /\ lock' = t
            /\ costs' = NoCosts
            /\ Goto(t, "read cpu")
            /\ UNCHANGED <<path, got>>
    /\ UNCHANGED <<disk, publishing, profile, calls, local>>

\* _read_costs opens the file once for each engine.
ReadCpu(t) ==
    /\ pc[t] = "read cpu"
    /\ IF file[mine[t]].bad = "all"
       THEN /\ lock' = Nobody
            /\ Raise(t)
            /\ UNCHANGED costs
       ELSE /\ costs' = file[mine[t]]
            /\ Goto(t, "read accel")
            /\ UNCHANGED <<lock, got>>
    /\ UNCHANGED <<disk, publishing, path, profile, calls, local>>

ReadAccel(t) ==
    /\ pc[t] = "read accel"
    /\ lock' = Nobody
    /\ IF file[mine[t]].bad # "no"
       THEN /\ Raise(t)
            /\ UNCHANGED path
       ELSE /\ path' = mine[t]
            /\ Return(t, costs)
    /\ UNCHANGED <<disk, publishing, costs, profile, calls, local>>

-------------------------------------------------------------------------------
(* measured_costs(key, rows)                                               *)

\* The path, and the file's bytes.
StartMeasured(t) ==
    /\ pc[t] = "idle" /\ calls < MaxCalls
    /\ calls' = calls + 1
    /\ mine' = [mine EXCEPT ![t] = setting]
    /\ text' = [text EXCEPT ![t] = file[setting]]
    /\ Goto(t, IF file[setting] = NoFile THEN "idle" ELSE "snapshot")
    /\ got' = [got EXCEPT ![t] = Nothing]
    /\ UNCHANGED <<disk, publishing, cache, profile, entry>>

\* The cache takes the first text of a path, parses it, and gives a region
\* only while the file still has that text.
Taken(t) ==
    IF profile.path # mine[t]
    THEN [path |-> mine[t], text |-> text[t], valid |-> text[t].bad # "all"]
    ELSE profile
\* A slip: the bytes of the file are not compared.
MatchesPath(t) == Taken(t).valid
Matches(t) == Taken(t).valid /\ Taken(t).text = text[t]

\* _snapshot, under its own lock: it reads nothing from outside.  Parsing may
\* raise, and then the path stays taken and invalid.
Snapshot(t) ==
    /\ pc[t] = "snapshot"
    /\ profile' = Taken(t)
    /\ IF Matches(t)
       THEN /\ entry' = [entry EXCEPT ![t] = Taken(t).text]
            /\ Goto(t, "load")
            /\ mine' = [mine EXCEPT ![t] = setting]
            /\ UNCHANGED got
       ELSE /\ Raise(t)
            /\ UNCHANGED <<entry, mine>>
    /\ UNCHANGED <<disk, publishing, cache, calls, text>>

-------------------------------------------------------------------------------

ThreadStep(t) ==
    \/ LoadLock(t) \/ ReadCpu(t) \/ ReadAccel(t) \/ Snapshot(t)

Next ==
    \/ \E w \in Publishers : Create(w) \/ WritePayload(w) \/ FileExists(w) \/ Killed(w)
    \/ SetPath
    \/ \E p \in Profiles : Overwrite(p)
    \/ \E t \in Threads : StartLoad(t) \/ StartMeasured(t) \/ ThreadStep(t)

Spec == Init /\ [][Next]_vars

-------------------------------------------------------------------------------

\* A publisher that returns a path has the whole profile under it, also after
\* another was killed while it wrote the same profile, or is writing it:
\* metal_calibration.py:222-226.
PublishedIsWhole ==
    [][\A w \in Publishers :
        step'[w] = "returned" /\ step[w] # "returned" => file'[payload[w]] = payload[w]]_vars

\* The costs of a region are the two models of the file that this very call
\* has read, and the CPU's is the one the core goes by: "An overwritten cached
\* path cannot mix new GPU and old CPU models" (calibration.mojo:244-245),
\* whatever paths the two caches have come from.
NoMixedModels ==
    \A t \in Threads : got[t].call = "measured" =>
        /\ got[t].accel = text[t].accel
        /\ got[t].cpu = text[t].cpu
        /\ got[t].cpu = got[t].core

\* The lock is held while the file is read; what a call goes on with is the
\* text of its own file, of a path it has been given.
LockHeld == \A t \in Threads : pc[t] \in {"read cpu", "read accel"} <=> lock = t
EntryOfText ==
    \A t \in Threads :
        /\ pc[t] \in {"load", "read cpu", "read accel"} =>
              entry[t] = NoFile \/ entry[t] = text[t]
        /\ pc[t] # "idle" => mine[t] \in Profiles /\ got[t].call = "nothing"

Inv == TypeOK /\ LockHeld /\ EntryOfText /\ NoMixedModels

\* The core's cache gives the costs of the path asked for: costs that are, or
\* were, in the file of that path ("The calibration last read, by path",
\* placement.mojo:58; "The file is read once per path", placement.mojo:84).
CostsOfTheirPath ==
    \A t \in Threads : got[t].call = "load" =>
        \E c \in had[got[t].path] : c.cpu = got[t].cpu
===============================================================================
