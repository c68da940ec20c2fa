-------------------------- MODULE DeviceResidence --------------------------
(***************************************************************************)
(* A buffer whose data lives in an accelerator's memory                    *)
(* (dataframe/storage/residence.mojo).  Threads share one residence by     *)
(* counted references; the first read on the host claims the copy by       *)
(* compare-and-swap, the other readers spin until it is there or has       *)
(* failed.  The last reference frees the host copy and the device memory.  *)
(*                                                                         *)
(* The loads and stores of `_state` and `_host` are steps of their own;    *)
(* the device's own copy runs between CopyBegin and CopyEnd.               *)
(***************************************************************************)
EXTENDS Naturals, FiniteSets

CONSTANTS Threads,    \* threads that may hold a reference
          MaxReads    \* bound: host reads begun in all

VARIABLES unified,    \* the CPU reads the device memory in place
          empty,      \* no bytes: bytes == 0
          state,      \* _state
          host,       \* _host: where the host address points, or "null"
          block,      \* the host block of `_copy`: "none", "filling", "whole", "freed"
          copies,     \* copies begun
          releases,   \* calls of the release callback
          holders,    \* the threads with a reference
          at,         \* where each thread is in host_address
          got,        \* the address a thread's last call returned
          reads       \* reads begun in all
vars == <<unified, empty, state, host, block, copies, releases, holders, at, got, reads>>

States == {"not copied", "copying", "copied", "failed"}
Places == {"idle", "look", "fetch", "claim", "copy", "filling", "fail", "store", "announce"}

TypeOK ==
    /\ unified \in BOOLEAN /\ empty \in BOOLEAN
    /\ state \in States
    /\ host \in {"null", "device", "block"}
    /\ block \in {"none", "filling", "whole", "freed"}
    /\ copies \in Nat /\ releases \in 0..1
    /\ holders \subseteq Threads
    /\ at \in [Threads -> Places]
    /\ got \in [Threads -> {"none", "raised", "null", "device", "block"}]
    /\ reads \in 0..MaxReads

Init ==
    /\ unified \in BOOLEAN /\ empty \in BOOLEAN
    /\ host = IF unified THEN "device" ELSE "null"
    /\ state = IF unified THEN "copied" ELSE "not copied"
    /\ block = "none" /\ copies = 0 /\ releases = 0 /\ reads = 0
    /\ holders \in (SUBSET Threads) \ {{}}
    /\ at = [t \in Threads |-> "idle"]
    /\ got = [t \in Threads |-> "none"]

Goto(t, place) == at' = [at EXCEPT ![t] = place]
Answer(t, address) == got' = [got EXCEPT ![t] = address] /\ Goto(t, "idle")

(* A reference is copied to another thread, with the buffer it is in.      *)
Share(t, u) ==
    /\ t \in holders /\ u \notin holders /\ reads < MaxReads
    /\ holders' = holders \union {u}
    /\ UNCHANGED <<unified, empty, state, host, block, copies, releases, at, got, reads>>

Call(t) ==
    /\ t \in holders /\ at[t] = "idle" /\ reads < MaxReads
    /\ reads' = reads + 1
    /\ Goto(t, "look")
    /\ UNCHANGED <<unified, empty, state, host, block, copies, releases, holders, got>>

(* One turn of the loop: the state decides; "raised" is the Error of a     *)
(* failed copy, which every caller gets.                                   *)
Look(t) ==
    /\ at[t] = "look"
    /\ \/ state = "copied" /\ Goto(t, "fetch") /\ UNCHANGED got
       \/ state = "failed" /\ Answer(t, "raised")
       \/ state \in {"not copied", "copying"} /\ Goto(t, "claim") /\ UNCHANGED got
    /\ UNCHANGED <<unified, empty, state, host, block, copies, releases, holders, reads>>

Fetch(t) ==
    /\ at[t] = "fetch"
    /\ Answer(t, host)
    /\ UNCHANGED <<unified, empty, state, host, block, copies, releases, holders, reads>>

(* compare_exchange(_NOT_COPIED, _COPYING); who loses yields and looks     *)
(* again.                                                                  *)
Claim(t) ==
    /\ at[t] = "claim"
    /\ \/ state = "not copied" /\ state' = "copying" /\ Goto(t, "copy")
       \/ state # "not copied" /\ Goto(t, "look") /\ UNCHANGED state
    /\ UNCHANGED <<unified, empty, host, block, copies, releases, holders, got, reads>>

CopyBegin(t) ==
    /\ at[t] = "copy"
    /\ \/ empty /\ Goto(t, "store") /\ UNCHANGED <<block, copies>>
       \/ ~empty /\ block' = "filling" /\ copies' = copies + 1 /\ Goto(t, "filling")
    /\ UNCHANGED <<unified, empty, state, host, releases, holders, got, reads>>

(* The backend's callback returns: 0, or an error and the block goes.      *)
CopyEnd(t) ==
    /\ at[t] = "filling"
    /\ \/ block' = "whole" /\ Goto(t, "store")
       \/ block' = "freed" /\ Goto(t, "fail")
    /\ UNCHANGED <<unified, empty, state, host, copies, releases, holders, got, reads>>

\* A slip: a failed copy raises for its own caller and leaves the state.
FailQuietly(t) ==
    /\ at[t] = "fail"
    /\ Answer(t, "raised")
    /\ UNCHANGED <<unified, empty, state, host, block, copies, releases, holders, reads>>

Fail(t) ==
    /\ at[t] = "fail"
    /\ state' = "failed"
    /\ Goto(t, "look")
    /\ UNCHANGED <<unified, empty, host, block, copies, releases, holders, got, reads>>

\* A slip: the state is stored before the address is.
StoreHostLate(t) ==
    /\ at[t] = "store"
    /\ state' = "copied"
    /\ Goto(t, "announce")
    /\ UNCHANGED <<unified, empty, host, block, copies, releases, holders, got, reads>>

(* The address first, then the state that lets the others fetch it.        *)
StoreHost(t) ==
    /\ at[t] = "store"
    /\ host' = IF empty THEN "null" ELSE "block"
    /\ Goto(t, "announce")
    /\ UNCHANGED <<unified, empty, state, block, copies, releases, holders, got, reads>>

Announce(t) ==
    /\ at[t] = "announce"
    /\ state' = "copied"
    /\ Answer(t, IF empty THEN "null" ELSE "block")
    /\ UNCHANGED <<unified, empty, host, block, copies, releases, holders, reads>>

(* A thread gives its reference up; the last one runs __deinit__.          *)
Drop(t) ==
    /\ t \in holders /\ at[t] = "idle"
    /\ holders' = holders \ {t}
    /\ got' = [got EXCEPT ![t] = "none"]
    /\ IF holders # {t}
       THEN UNCHANGED <<block, releases>>
       ELSE /\ releases' = releases + 1
            /\ block' = IF ~unified /\ ~empty /\ state = "copied" THEN "freed" ELSE block
    /\ UNCHANGED <<unified, empty, state, host, copies, at, reads>>

Step(t) ==
    \/ Look(t) \/ Fetch(t) \/ Claim(t) \/ CopyBegin(t) \/ CopyEnd(t)
    \/ Fail(t) \/ StoreHost(t) \/ Announce(t)

Next ==
    \E t \in Threads :
        \/ Call(t) \/ Step(t) \/ Drop(t)
        \/ \E u \in Threads : Share(t, u)

(* A thread inside host_address is scheduled again and again, and the      *)
(* backend's callback returns.                                             *)
Fairness == \A t \in Threads : WF_vars(Step(t))

Spec == Init /\ [][Next]_vars /\ Fairness

-----------------------------------------------------------------------------
(* One copy, whole before anybody has its address, and freed exactly when  *)
(* the last reference goes, as the device memory is; a thread inside the   *)
(* copy still has its reference (the doc: "the first host read copies the  *)
(* bytes once, however many threads ask at the same time").                *)
OneWholeCopy ==
    /\ copies <= 1
    /\ \A t \in Threads :
          /\ at[t] # "idle" => t \in holders
          /\ got[t] \in {"null", "device", "block"} =>
                /\ got[t] = "null" <=> empty /\ ~unified
                /\ got[t] = "block" => block = "whole"
                /\ releases = 0
    /\ state = "failed" => block = "freed"
    /\ holders = {} => releases = 1 /\ block \in {"none", "freed"}

(* Every call returns an address or raises, also when the copy it waited   *)
(* for has failed.                                                         *)
ReadsEnd == \A t \in Threads : (at[t] # "idle") ~> (at[t] = "idle")
=============================================================================
