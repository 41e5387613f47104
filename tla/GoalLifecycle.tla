---------------------------- MODULE GoalLifecycle ----------------------------
(***************************************************************************)
(* goal.Execute, build after build, in a host that knows what changed: the *)
(* skip flags, the incremental-build decisions of the package-manager and  *)
(* of the file-watching goals, the two ways a failure is reported, and the *)
(* refreshing of output directories.                                       *)
(*                                                                         *)
(* The host is external; it is what BuildContext asks for: the changes     *)
(* since the last build, and the refreshing of directories.  The changes a *)
(* build began with are what it sees; after a failed build they are still  *)
(* changes.  A build that is not incremental is one in FullBuildContext.   *)
(***************************************************************************)
EXTENDS Integers, FiniteSets, Sequences

CONSTANTS
    Plan,     \* the executions of a build, in order: a sequence of goals
    Installs, \* the goals that install tools; the others run one
    Packages, \* the goals that watch package.json
    Watching, \* the goals that watch trigger files and a source directory
    NoSrcdir, \* those of them that have no source directory configured
    None      \* no tool is running

Goals == {Plan[i] : i \in DOMAIN Plan}
Files == {"package.json", "trigger", "source"}

ASSUME PlanAssumption == Plan \in Seq(Goals) /\ None \notin Goals
ASSUME KindAssumption ==
    /\ Installs \cup Packages \cup Watching \subseteq Goals
    /\ Installs \cap (Packages \cup Watching) = {} /\ Packages \cap Watching = {}
    /\ NoSrcdir \subseteq Watching

\* What the goal's tool makes its output from.
InputsOf(g) ==
    CASE g \in Installs -> {}
      [] g \in Packages -> {"package.json"}
      [] g \in Watching -> {"trigger", "source"}
      [] OTHER -> Files

\* The parameters of a build that decide what is executed and reported.
Session == [incremental : BOOLEAN, testing : BOOLEAN,
            skipTests : BOOLEAN, testFailureIgnore : BOOLEAN, skip : SUBSET Goals]

VARIABLES
    session,  \* the parameters of the current build
    build,    \* "none", "running", "ok" or "failed"
    next,     \* the position in Plan of the goal to execute next
    running,  \* the goal that is doing its work, or None
    delta,    \* the changes the current build sees
    pending,  \* the changes since it began
    due,      \* by goal: the inputs that changed since its tool last used them
    reading,  \* those of them the running tool has been started for
    excused,  \* by goal: those a build was told to pass over, until it succeeds
    unseen,   \* the goals whose output the host has not been told of
    outcome   \* by goal: how its tool ended in the current build

vars == <<session, build, next, running, delta, pending, due, reading, excused, unseen, outcome>>

TypeOK ==
    /\ session \in Session
    /\ build \in {"none", "running", "ok", "failed"}
    /\ next \in 1 .. Len(Plan) + 1
    /\ running \in Goals \cup {None}
    /\ delta \subseteq Files /\ pending \subseteq Files
    /\ reading \subseteq Files
    /\ due \in [Goals -> SUBSET Files] /\ excused \in [Goals -> SUBSET Files]
    /\ unseen \subseteq Watching
    /\ outcome \in [Goals -> {"none", "ok", "failed"}]

Init ==
    /\ session \in Session
    /\ build = "none"
    /\ next = 1
    /\ running = None
    /\ delta = {} /\ pending = Files
    /\ due = [g \in Goals |-> InputsOf(g)]
    /\ reading = {}
    /\ excused = [g \in Goals |-> {}]
    /\ unseen = {}
    /\ outcome = [g \in Goals |-> "none"]

-----------------------------------------------------------------------------
(***************************************************************************)
(* The developer and the host.                                             *)
(***************************************************************************)

\* A tool that is running may have read the file before or not: what changes
\* meanwhile stays due.
Edit(f) ==
    /\ pending' = pending \cup {f}
    /\ due' = [g \in Goals |-> IF f \in InputsOf(g) THEN due[g] \cup {f} ELSE due[g]]
    /\ excused' = [g \in Goals |-> excused[g] \ {f}]
    /\ UNCHANGED <<session, build, next, running, delta, reading, unseen, outcome>>

BeginBuild ==
    /\ build # "running"
    /\ session' \in Session
    /\ build' = "running"
    /\ next' = 1
    /\ delta' = IF build = "failed" THEN delta \cup pending ELSE pending
    /\ pending' = {}
    /\ outcome' = [g \in Goals |-> "none"]
    /\ UNCHANGED <<running, due, reading, excused, unseen>>

EndBuild ==
    /\ build = "running" /\ running = None /\ next > Len(Plan)
    /\ build' = "ok"
    /\ UNCHANGED <<session, next, running, delta, pending, due, reading, excused, unseen, outcome>>

-----------------------------------------------------------------------------
(***************************************************************************)
(* Execute.                                                                *)
(***************************************************************************)

SkipExecution(g) == (session.skipTests /\ session.testing) \/ g \in session.skip

PackageJSONUnchanged(g) == "package.json" \notin delta /\ session.incremental

\* Variant: with a source directory, only that is looked at.
ShouldExecuteSourceOnly(g) ==
    ~session.incremental \/ g \in NoSrcdir \/ "source" \in delta

ShouldExecute(g) ==
    \/ ~session.incremental
    \/ "trigger" \in delta
    \/ g \in NoSrcdir
    \/ "source" \in delta

StandsDown(g) ==
    \/ g \in Packages /\ PackageJSONUnchanged(g)
    \/ g \in Watching /\ ~ShouldExecute(g)

Turn(g) == build = "running" /\ running = None /\ next <= Len(Plan) /\ Plan[next] = g

Skip(g) ==
    /\ Turn(g)
    /\ SkipExecution(g)
    /\ next' = next + 1
    /\ excused' = [excused EXCEPT ![g] = @ \cup due[g]]
    /\ UNCHANGED <<session, build, running, delta, pending, due, reading, unseen, outcome>>

StandDown(g) ==
    /\ Turn(g)
    /\ ~SkipExecution(g) /\ StandsDown(g)
    /\ next' = next + 1
    /\ UNCHANGED <<session, build, running, delta, pending, due, reading, excused, unseen, outcome>>

\* Variant: every goal is taken to have an output directory.
StartToolUnseen(g) ==
    /\ Turn(g)
    /\ ~SkipExecution(g) /\ ~StandsDown(g)
    /\ running' = g
    /\ due' = [due EXCEPT ![g] = {}]
    /\ reading' = due[g]
    /\ unseen' = unseen \cup {g}
    /\ UNCHANGED <<session, build, next, delta, pending, excused, outcome>>

\* From here on the tool reads its inputs and writes its output.
StartTool(g) ==
    /\ Turn(g)
    /\ ~SkipExecution(g) /\ ~StandsDown(g)
    /\ running' = g
    /\ due' = [due EXCEPT ![g] = {}]
    /\ reading' = due[g]
    /\ unseen' = unseen \cup ({g} \cap Watching)
    /\ UNCHANGED <<session, build, next, delta, pending, excused, outcome>>

ToolSucceeds(g) ==
    /\ running = g
    /\ running' = None
    /\ next' = next + 1
    /\ outcome' = [outcome EXCEPT ![g] = "ok"]
    /\ reading' = {}
    /\ excused' = [excused EXCEPT ![g] = {}]
    /\ unseen' = unseen \ {g}
    /\ UNCHANGED <<session, build, delta, pending, due>>

\* What the failed tool had been started for is due again.
Owe(g) ==
    /\ due' = [due EXCEPT ![g] = @ \cup reading]
    /\ reading' = {}

\* Variant: the failure of an installer is ignored as well.
MayIgnoreAny(g) == session.testFailureIgnore /\ session.testing

\* Only the failure of a task, not that of an installer, and only in a testing phase.
MayIgnore(g) == g \notin Installs /\ session.testFailureIgnore /\ session.testing

\* The failure is reported and ends the build.
ToolFails(g) ==
    /\ running = g /\ ~MayIgnore(g)
    /\ running' = None
    /\ build' = "failed"
    /\ outcome' = [outcome EXCEPT ![g] = "failed"]
    /\ Owe(g)
    /\ UNCHANGED <<session, next, delta, pending, excused, unseen>>

\* The failure is logged and the goal counts as executed.
FailureIgnored(g) ==
    /\ running = g /\ MayIgnore(g)
    /\ running' = None
    /\ next' = next + 1
    /\ outcome' = [outcome EXCEPT ![g] = "failed"]
    /\ Owe(g)
    /\ excused' = [excused EXCEPT ![g] = @ \cup reading]
    /\ UNCHANGED <<session, build, delta, pending, unseen>>

Execute(g) ==
    Skip(g) \/ StandDown(g) \/ StartTool(g) \/ ToolSucceeds(g) \/ ToolFails(g) \/ FailureIgnored(g)

Next ==
    \/ \E f \in Files : Edit(f)
    \/ BeginBuild \/ EndBuild
    \/ \E g \in Goals : Execute(g)

Spec == Init /\ [][Next]_vars

-----------------------------------------------------------------------------

\* The goal has not had its turn in the current build.
ToCome(g) == running # g /\ \E i \in next .. Len(Plan) : Plan[i] = g

\* No change is overlooked: an input that changed since a goal's tool last used
\* it is one the host will still report when the goal has its turn, unless a
\* skip flag or an ignored failure passed over it; the goals that stand down in
\* between stand down for nothing else (packageJSONUnchanged, ShouldExecute).
NothingOverlooked ==
    \A g \in Goals :
        due[g] \ excused[g] \subseteq
            pending \cup (IF build = "failed" \/ (build = "running" /\ ToCome(g)) THEN delta ELSE {})

\* A build that ends well has no failed goal in it, but for tasks whose failure
\* is ignored in a testing phase, and the host has been told of everything a tool wrote that
\* did not fail (Execute, runWatched).
GreenIsHonest ==
    build = "ok" =>
        \A g \in Goals :
            /\ outcome[g] = "failed" =>
                 g \notin Installs /\ session.testFailureIgnore /\ session.testing
            /\ outcome[g] = "ok" => g \notin unseen

=============================================================================
