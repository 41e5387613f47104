---------------------------- MODULE ArchiveStore ----------------------------
(***************************************************************************)
(* What the download cache promises for one artifact when the machine runs *)
(* one build at a time.  The artifact is absent, torn (something is at the *)
(* cache path and it is not the whole artifact) or whole.  A build may     *)
(* fail at any moment, but it succeeds only from a whole artifact, and a   *)
(* whole artifact is never lost.                                           *)
(*                                                                         *)
(* DownloadCache implements this; InstallTree uses it as the cache of the  *)
(* installers.                                                             *)
(***************************************************************************)
CONSTANT Builds

VARIABLES
    store,   \* what the cache path holds
    outcome  \* how each build stands

vars == <<store, outcome>>

StoreState == {"absent", "torn", "whole"}
Outcome == {"idle", "running", "ok", "failed"}

TypeOK == store \in StoreState /\ outcome \in [Builds -> Outcome]

Init == store = "absent" /\ outcome = [b \in Builds |-> "idle"]

Start(b) ==
    /\ \A c \in Builds : outcome[c] # "running"
    /\ outcome' = [outcome EXCEPT ![b] = "running"]
    /\ UNCHANGED store

\* The running build opens the file, empty.
Open(b) ==
    /\ outcome[b] = "running"
    /\ store = "absent" /\ store' = "torn"
    /\ UNCHANGED outcome

\* The running build writes the last byte.
Complete(b) ==
    /\ outcome[b] = "running"
    /\ store = "torn" /\ store' = "whole"
    /\ UNCHANGED outcome

Succeed(b) ==
    /\ outcome[b] = "running"
    /\ store = "whole"
    /\ outcome' = [outcome EXCEPT ![b] = "ok"]
    /\ UNCHANGED store

\* A build that fails may take a torn artifact away with it.
Fail(b) ==
    /\ outcome[b] = "running"
    /\ outcome' = [outcome EXCEPT ![b] = "failed"]
    /\ store' = store \/ (store = "torn" /\ store' = "absent")

Next == \E b \in Builds : Start(b) \/ Open(b) \/ Complete(b) \/ Succeed(b) \/ Fail(b)

Spec == Init /\ [][Next]_vars

=============================================================================
