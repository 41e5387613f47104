----------------------------- MODULE ToolPromise -----------------------------
(***************************************************************************)
(* What the install goals promise about npm, pnpm and corepack: a tool is  *)
(* missing or is exactly one release of itself, it is replaced only by     *)
(* being taken away and put back whole, only the goal that asks for a tool *)
(* touches it, and a goal reports success only when the release it asked   *)
(* for is the one in place.                                                *)
(***************************************************************************)
CONSTANTS Runs, Tools, Versions, Requests, Missing

VARIABLES
    place,   \* the version each tool is at, or Missing
    want,    \* the request of each run
    report   \* how each run stands

vars == <<place, want, report>>

Outcome == {"idle", "working", "ok", "failed"}

TypeOK ==
    /\ place \in [Tools -> Versions \cup {Missing}]
    /\ want \in [Runs -> Requests]
    /\ report \in [Runs -> Outcome]

Init ==
    /\ place = [t \in Tools |-> Missing]
    /\ want \in [Runs -> Requests]
    /\ report = [r \in Runs |-> "idle"]

Ask(r) ==
    /\ report[r] # "working"
    /\ report' = [report EXCEPT ![r] = "working"]
    /\ \E g \in Requests : want' = [want EXCEPT ![r] = g]
    /\ UNCHANGED place

TakeAway(r) ==
    /\ report[r] = "working"
    /\ place' = [place EXCEPT ![want[r].tool] = Missing]
    /\ UNCHANGED <<want, report>>

Put(r) ==
    /\ report[r] = "working"
    /\ place[want[r].tool] = Missing
    /\ place' = [place EXCEPT ![want[r].tool] = want[r].version]
    /\ UNCHANGED <<want, report>>

Succeed(r) ==
    /\ report[r] = "working"
    /\ place[want[r].tool] = want[r].version
    /\ report' = [report EXCEPT ![r] = "ok"]
    /\ UNCHANGED <<place, want>>

\* A goal may fail at any moment, and a crash fails several at once.
GiveUp ==
    /\ report' \in [Runs -> Outcome]
    /\ \A r \in Runs :
        report'[r] # report[r] => report[r] = "working" /\ report'[r] = "failed"
    /\ UNCHANGED <<place, want>>

Next == GiveUp \/ \E r \in Runs : Ask(r) \/ TakeAway(r) \/ Put(r) \/ Succeed(r)

Spec == Init /\ [][Next]_vars

=============================================================================
