----------------------------- MODULE InstallTree -----------------------------
(***************************************************************************)
(* The state the installers share: one install directory                   *)
(*                                                                         *)
(*     node/node, node/node.exe      the binary                            *)
(*     node/tmp/                     a distribution being unpacked         *)
(*     node/node_modules/<tool>/     npm, pnpm and corepack                *)
(*     node/node_modules/package/    a tool's tarball being unpacked       *)
(*     node/<tool>, node/<tool>.cmd  the tools' launchers                  *)
(*                                                                         *)
(* the download cache, one mutex per installer and process, and the runs   *)
(* of install goals that work on them.                                     *)
(*                                                                         *)
(* A directory is its package.json and the rest of its files, its code;    *)
(* unpacking, copying and deleting go one of the two at a time, so a crash *)
(* between them leaves half.                                               *)
(*                                                                         *)
(* The mutexes keep the runs of one process from fetching an artifact side *)
(* by side.  Nothing keeps two processes from it: the check, the request   *)
(* and the writing of the file are steps of their own, a file that is      *)
(* being written is there for everybody, and what unpacking it comes to is *)
(* open.  DownloadCache looks at the chunks of one such file.              *)
(***************************************************************************)
EXTENDS Integers, FiniteSets

CONSTANTS
    Runs,          \* the goal executions that may be going on
    Procs,         \* the processes they may belong to
    NodeVersions,  \* the Node.js releases
    PreNpm,        \* those before v4, which bundle no npm
    Versions,      \* the versions of the tools
    Bundled,       \* the npm and corepack versions each Node.js release bundles
    EsmFrom,       \* the pnpm versions whose entry point is pnpm.mjs
    Goals,         \* the install goals the user may run, and in which process
    None,          \* no file
    Torn,          \* a package.json or a launcher cut short
    Free,          \* a mutex nobody holds
    Changed,       \* the mark of a run whose archive changed while it read it
    Faults,        \* the kinds of fault that may happen
    MaxFaults      \* bound on their number

Tools == {"npm", "pnpm", "corepack"}
BundledTools == {"npm", "corepack"}
Releases == Tools \X Versions
Provided == "provided"
Systems == {"unix", "windows"}
Entries == {"script", "js", "cjs", "mjs"}

FaultKinds == {"refuse", "torn", "disk", "clear", "rename", "crash"}

ASSUME NodeAssumption == PreNpm \subseteq NodeVersions
ASSUME VersionAssumption == Provided \notin Versions /\ EsmFrom \subseteq Versions
ASSUME BundledAssumption == Bundled \in [NodeVersions -> [BundledTools -> Versions]]
ASSUME GoalAssumption ==
    Goals \subseteq [tool : Tools, version : Versions \cup {Provided},
                    node : NodeVersions, proc : Procs, system : Systems]
ASSUME PnpmGoalAssumption == \A g \in Goals : g.tool = "pnpm" => g.version # Provided
ASSUME AbsentAssumption ==
    /\ None \notin NodeVersions \cup Releases \cup Entries
    /\ Runs \cap {"absent", "torn", "whole"} = {}
    /\ Torn \notin Releases
    /\ Free \notin Runs
ASSUME FaultAssumption == Faults \subseteq FaultKinds /\ MaxFaults \in Nat

VARIABLES
    node,      \* the release the binary in place answers for, or None
    tmp,       \* what node/tmp holds of each release: "bin", "mods"
    dir,       \* the directories under node_modules
    launcher,  \* what the launcher of each tool points at, or None
    cache,     \* the download cache, by artifact: the file's state, or the
               \* run that is still writing it
    lock,      \* the run holding each process's installer mutexes, or Free
    pc,        \* where each run is
    goal,      \* the goal it runs, and the process it runs in
    wrote,     \* the parts it has written in its current step, and Changed
               \* when another process changed the archive it reads meanwhile
    faults     \* faults used up so far

vars == <<node, tmp, dir, launcher, cache, lock, pc, goal, wrote, faults>>

-----------------------------------------------------------------------------

Content == [json : Releases \cup {None, Torn}, code : SUBSET Releases]

EmptyDir == [json |-> None, code |-> {}]
Exactly(release) == [json |-> release, code |-> {release}]

Dirs == Tools \cup {"package"}

\* A Node.js release is an archive, and for Windows also a bare binary.
NodeArtifacts == {"node", "node.exe"} \X NodeVersions
ToolArtifacts == Tools \X (Versions \cup {Provided})
Artifacts == NodeArtifacts \cup ToolArtifacts

\* The registry has no tarball called corepack-provided.tgz.
Published == NodeArtifacts \cup Releases

Locks == Procs \X ({"node"} \cup Tools)

NodeSteps == {"node.check", "node.fetch", "node.save", "node.unpack", "node.replace", "node.move",
              "node.npm", "node.copy", "node.scripts", "node.tidy",
              "node.exe", "node.write"}
ToolSteps == {"tool.check", "tool.fetch", "tool.save", "tool.clear", "tool.unpack", "tool.rename",
              "tool.copy", "tool.link"}
Waiting == {"node.lock", "tool.lock"}
Resting == {"idle", "ok", "failed"}

Parts == {"bin", "mods", "file", Changed} \cup ({"json", "code"} \X Dirs)

ASSUME MarkAssumption == Changed \notin {"bin", "mods", "file"} \cup ({"json", "code"} \X Dirs)

TypeOK ==
    /\ node \in NodeVersions \cup {None}
    /\ tmp \in [NodeVersions -> SUBSET {"bin", "mods"}]
    /\ dir \in [Dirs -> Content]
    /\ launcher \in [Tools -> Entries \cup {None, Torn}]
    /\ cache \in [Artifacts -> {"absent", "torn", "whole"} \cup Runs]
    /\ lock \in [Locks -> Runs \cup {Free}]
    /\ pc \in [Runs -> Resting \cup Waiting \cup NodeSteps \cup ToolSteps]
    /\ goal \in [Runs -> Goals]
    /\ wrote \in [Runs -> SUBSET Parts]
    /\ faults \in 0 .. MaxFaults

Init ==
    /\ node = None
    /\ tmp = [v \in NodeVersions |-> {}]
    /\ dir = [d \in Dirs |-> EmptyDir]
    /\ launcher = [t \in Tools |-> None]
    /\ cache = [a \in Artifacts |-> "absent"]
    /\ lock = [k \in Locks |-> Free]
    /\ pc = [r \in Runs |-> "idle"]
    /\ goal \in [Runs -> Goals]
    /\ \A r, s \in Runs : goal[r].system = goal[s].system
    /\ wrote = [r \in Runs |-> {}]
    /\ faults = 0

-----------------------------------------------------------------------------
(***************************************************************************)
(* Control: a run goes from step to step, and a failure returns from every *)
(* installer at once, releasing its mutex on the way.                      *)
(***************************************************************************)

Goto(r, from, to) == pc[r] = from /\ pc' = [pc EXCEPT ![r] = to]

Step(r, from, to) == Goto(r, from, to) /\ wrote' = [wrote EXCEPT ![r] = {}]

Released(r) == [k \in Locks |-> IF lock[k] = r THEN Free ELSE lock[k]]

\* Mutexes do not cross processes.
ProcOf(r) == goal[r].proc

OnWindows(r) == goal[r].system = "windows"

Acquire(r, installer, from, to) ==
    LET k == <<ProcOf(r), installer>> IN
    /\ Step(r, from, to)
    /\ lock[k] = Free
    /\ lock' = [lock EXCEPT ![k] = r]

\* Return from an installer: to the next one, or with the run's outcome.
Return(r, from, to) == Step(r, from, to) /\ lock' = Released(r)

Unfaulty == faults' = faults

Fault(kind) ==
    /\ kind \in Faults
    /\ faults < MaxFaults
    /\ faults' = faults + 1

-----------------------------------------------------------------------------
(***************************************************************************)
(* Files.                                                                  *)
(***************************************************************************)

PutJson(d, release) == [dir EXCEPT ![d].json = release]
PutCode(d, releases) == [dir EXCEPT ![d].code = @ \cup releases]

\* Write one more part of the content of a release, or of a directory being
\* copied, into directory d.
WritePart(r, d, content) ==
    \E part \in {"json", "code"} :
        /\ <<part, d>> \notin wrote[r]
        /\ wrote' = [wrote EXCEPT ![r] = @ \cup {<<part, d>>}]
        /\ dir' = IF part = "json" THEN PutJson(d, content.json)
                                   ELSE PutCode(d, content.code)

Wrote(r, d) == {"json", "code"} \X {d} \subseteq wrote[r]

\* The launcher scripts are copied from npm/bin next to node, unless they are
\* there already; scripts the release does not have are passed over.
NpmScriptsDue ==
    launcher["npm"] = None /\ \E v \in Versions : <<"npm", v>> \in dir["npm"].code

CopiedNpmScripts ==
    IF NpmScriptsDue THEN [launcher EXCEPT !["npm"] = "script"] ELSE launcher

\* A launcher that is being written when the writing fails may be left half.
HalfWritten(t, writing) ==
    IF writing THEN {launcher, [launcher EXCEPT ![t] = Torn]} ELSE {launcher}

-----------------------------------------------------------------------------
(***************************************************************************)
(* The download cache.                                                     *)
(***************************************************************************)

\* install-node-and-npm passes its npmVersion on, install-node-and-corepack
\* only "provided", and install-node-and-pnpm nothing.
NpmProvided(r) == goal[r].version = Provided

\* Windows without its npm.
Bare(r) == OnWindows(r) /\ ~NpmProvided(r)

NodeArtifact(r) == <<IF Bare(r) THEN "node.exe" ELSE "node", goal[r].node>>

ToolRelease(r) == <<goal[r].tool, goal[r].version>>

\* The runs that are reading the archive of an artifact.
Readers(artifact) ==
    {q \in Runs :
        \/ pc[q] \in {"node.unpack", "node.exe", "node.write"} /\ NodeArtifact(q) = artifact
        \/ pc[q] = "tool.unpack" /\ ToolRelease(q) = artifact}

\* Run r changes what is cached, under whoever is reading it.
Recache(r, artifact, state, parts) ==
    /\ cache' = [cache EXCEPT ![artifact] = state]
    /\ wrote' = [q \in Runs |->
                    CASE q = r -> parts
                      [] q # r /\ q \in Readers(artifact) -> wrote[q] \cup {Changed}
                      [] OTHER -> wrote[q]]

\* What r reads was changed under it, or is still being written: depending on
\* what it had read by then it comes to the end of a whole archive, to an end
\* too early, or to something else that is no archive.
Disturbed(r, artifact) == Changed \in wrote[r] \/ cache[artifact] \in Runs

ReadsWhole(r, artifact) == cache[artifact] = "whole" \/ Disturbed(r, artifact)
ReadsShort(r, artifact) == cache[artifact] = "torn" \/ Disturbed(r, artifact)
ReadsNothing(r, artifact) == cache[artifact] = "absent" \/ Disturbed(r, artifact)

\* downloadFileIfMissing: the artifact is requested when nothing is cached.
FetchCheck(r, artifact, from, save, to) ==
    /\ \/ cache[artifact] # "absent" /\ Step(r, from, to)
       \/ cache[artifact] = "absent" /\ artifact \in Published /\ Step(r, from, save)
    /\ UNCHANGED <<cache, lock, faults>>

\* A request that is refused leaves nothing.
FetchRefused(r, artifact, from) ==
    /\ cache[artifact] = "absent"
    /\ Return(r, from, "failed")
    /\ \/ artifact \notin Published /\ Unfaulty
       \/ Fault("refuse")
    /\ UNCHANGED cache

\* The body is in memory: the path is opened and emptied, whatever other
\* processes have put there since the check.
FetchCreate(r, artifact, save) ==
    /\ pc[r] = save
    /\ "file" \notin wrote[r]
    /\ Recache(r, artifact, r, {"file"})
    /\ UNCHANGED <<pc, lock, faults>>

\* The last to have emptied the file completes it; for a file that has been
\* emptied again or removed the end of the writing changes nothing.
FileLeft(r, artifact, state) == IF cache[artifact] = r THEN state ELSE cache[artifact]

\* A body cut short unnoticed leaves a torn file and goes on.  (Cut short on top
\* of another process's bytes it may have a hole instead, as in DownloadCache;
\* here it is torn.)
FetchDone(r, artifact, save, to) ==
    /\ Goto(r, save, to)
    /\ "file" \in wrote[r]
    /\ \/ Recache(r, artifact, FileLeft(r, artifact, "whole"), {}) /\ Unfaulty
       \/ Recache(r, artifact, FileLeft(r, artifact, "torn"), {}) /\ Fault("torn")
    /\ UNCHANGED lock

\* A full disk leaves a torn file and fails.
FetchFails(r, artifact, save) ==
    /\ Goto(r, save, "failed")
    /\ "file" \in wrote[r]
    /\ lock' = Released(r)
    /\ Recache(r, artifact, FileLeft(r, artifact, "torn"), {})
    /\ Fault("disk")

FetchStep(r, artifact, from, save, to) ==
    \/ FetchCheck(r, artifact, from, save, to)
    \/ FetchRefused(r, artifact, from)
    \/ FetchCreate(r, artifact, save)
    \/ FetchDone(r, artifact, save, to)
    \/ FetchFails(r, artifact, save)

\* A truncated archive is deleted, by its path, and the install fails.
EvictStep(r, artifact, from) ==
    /\ Goto(r, from, "failed")
    /\ ReadsShort(r, artifact)
    /\ lock' = Released(r)
    /\ Recache(r, artifact, "absent", {})

=============================================================================
