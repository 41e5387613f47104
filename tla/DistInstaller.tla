---------------------------- MODULE DistInstaller ----------------------------
(***************************************************************************)
(* YarnInstaller.Install and BunInstaller.Install, called again and again  *)
(* by the goals of one process.  Both ask the installed tool its version,  *)
(* fetch an archive, clear what an earlier install left, unpack and put    *)
(* the result in place; Yarn unpacks into the directory it clears, Bun     *)
(* next to the one it installs into:                                       *)
(*                                                                         *)
(*     node/yarn/dist/             Yarn, as the executor wants it          *)
(*     node/yarn/yarn-<version>/   what most archives of Yarn hold         *)
(*     bun/bun                     Bun                                     *)
(*     bun-<platform>/bun          what the archives of Bun hold           *)
(*                                                                         *)
(* A directory is its parts: Yarn's launcher and its library, which knows  *)
(* the version; Bun's one binary.  A part that was cut short is as good as *)
(* missing: the tool does not answer.  The cache of an artifact is what    *)
(* ArchiveStore promises: fetching is one step, as one process installs    *)
(* here and its mutex covers the fetch.                                    *)
(***************************************************************************)
EXTENDS Integers, FiniteSets

CONSTANTS
    Runs,       \* the goal executions that may be going on
    Versions,   \* the versions of the tool
    DistRoot,   \* the Yarn versions whose archive holds "dist" itself
    None,       \* no file
    Free,       \* the mutex is not held
    Faults,     \* the kinds of fault that may happen
    MaxFaults   \* bound on their number

FaultKinds == {"probe", "refuse", "torn", "disk", "clear", "rename", "crash"}

ASSUME VersionAssumption == DistRoot \subseteq Versions /\ None \notin Versions
ASSUME FreeAssumption == Free \notin Runs
ASSUME FaultAssumption == Faults \subseteq FaultKinds /\ MaxFaults \in Nat

VARIABLES
    tool,    \* "yarn" or "bun"
    berry,   \* is this a project of Yarn Berry?
    dir,     \* the directories: parts and the version each part is of
    runnable,\* is Bun's binary marked executable?
    cache,   \* the download cache, by version
    lock,    \* the run holding the installer's mutex, or Free
    pc,      \* where each run is
    goal,    \* the version it wants, and whether it is written with its "v"
    wrote,   \* the parts it has written or deleted in its current step
    warned,  \* has a directory resisted deletion, which is only warned about?
    faults   \* faults used up so far

vars == <<tool, berry, dir, runnable, cache, lock, pc, goal, wrote, warned, faults>>

Parts == {"launcher", "library"}
Dirs == {"installed", "platform"} \cup Versions

Steps == {"check", "fetch", "clear", "unpack", "root", "replace", "move", "mark", "tidy"}
Resting == {"idle", "ok", "failed"}

TypeOK ==
    /\ tool \in {"yarn", "bun"}
    /\ berry \in BOOLEAN
    /\ dir \in [Dirs -> [Parts -> Versions \cup {None}]]
    /\ runnable \in BOOLEAN
    /\ cache \in [Versions -> {"absent", "torn", "whole"}]
    /\ lock \in Runs \cup {Free}
    /\ pc \in [Runs -> Resting \cup Steps \cup {"lock"}]
    /\ goal \in [Runs -> [version : Versions, prefixed : BOOLEAN]]
    /\ wrote \in [Runs -> SUBSET (Parts \X Dirs)]
    /\ warned \in BOOLEAN
    /\ faults \in 0 .. MaxFaults

Empty == [p \in Parts |-> None]

Init ==
    /\ tool \in {"yarn", "bun"}
    /\ berry \in (IF tool = "yarn" THEN BOOLEAN ELSE {FALSE})
    /\ dir = [d \in Dirs |-> Empty]
    /\ runnable = FALSE
    /\ cache = [v \in Versions |-> "absent"]
    /\ lock = Free
    /\ pc = [r \in Runs |-> "idle"]
    /\ goal \in [Runs -> [version : Versions, prefixed : {TRUE}]]
    /\ wrote = [r \in Runs |-> {}]
    /\ warned = FALSE
    /\ faults = 0

-----------------------------------------------------------------------------

Version(r) == goal[r].version

\* The parts an archive of the tool has, the directory it unpacks to, and the
\* directories that are cleared before.
PartsOf == IF tool = "yarn" THEN Parts ELSE {"launcher"}

Root(r) ==
    CASE tool = "bun" -> "platform"
      [] tool = "yarn" -> IF Version(r) \in DistRoot THEN "installed" ELSE Version(r)

Cleared == IF tool = "yarn" THEN {"installed"} \cup Versions ELSE {"platform"}

Exists(d) == dir[d] # Empty

\* The installed tool answers `--version` when nothing of it is missing.
Works ==
    /\ \A p \in PartsOf : dir["installed"][p] # None
    /\ tool = "bun" => runnable

Answer == dir["installed"][IF tool = "yarn" THEN "library" ELSE "launcher"]

Step(r, from, to) ==
    /\ pc[r] = from
    /\ pc' = [pc EXCEPT ![r] = to]
    /\ wrote' = [wrote EXCEPT ![r] = {}]

\* Install returns, and the deferred Unlock releases the mutex.
Return(r, from, outcome) == Step(r, from, outcome) /\ lock' = Free

Unfaulty == faults' = faults

Fault(kind) ==
    /\ kind \in Faults
    /\ faults < MaxFaults
    /\ faults' = faults + 1

-----------------------------------------------------------------------------
(***************************************************************************)
(* The steps the two installers share.                                     *)
(***************************************************************************)

Start(r) ==
    /\ pc[r] \in Resting
    /\ pc' = [pc EXCEPT ![r] = "lock"]
    /\ \E g \in [version : Versions, prefixed : BOOLEAN] : goal' = [goal EXCEPT ![r] = g]
    /\ UNCHANGED <<tool, berry, dir, runnable, cache, lock, wrote, warned, faults>>

\* Variant: no mutex.
LockOpen(r) ==
    /\ Step(r, "lock", "check")
    /\ UNCHANGED <<tool, berry, dir, runnable, cache, lock, goal, warned, faults>>

Lock(r) ==
    /\ lock = Free
    /\ Step(r, "lock", "check")
    /\ lock' = r
    /\ UNCHANGED <<tool, berry, dir, runnable, cache, goal, warned, faults>>

\* In a Berry project the launcher hands over to the project's own release,
\* whose major version is all that is asked for.
IsAlreadyInstalled(r) == Works /\ (Answer = Version(r) \/ berry)

Skip(r) ==
    /\ IsAlreadyInstalled(r)
    /\ Return(r, "check", "ok")
    /\ UNCHANGED <<tool, berry, dir, runnable, cache, goal, warned, faults>>

\* "Yarn version has to start with prefix 'v'", once it turns out to be needed.
Refuse(r) ==
    /\ tool = "yarn" /\ ~goal[r].prefixed
    /\ (~IsAlreadyInstalled(r) /\ Unfaulty) \/ Fault("probe")
    /\ Return(r, "check", "failed")
    /\ UNCHANGED <<tool, berry, dir, runnable, cache, goal, warned>>

\* Variant: the old install goes before there is anything to replace it with.
NeededClearsFirst(r) ==
    /\ tool = "yarn" => goal[r].prefixed
    /\ ~IsAlreadyInstalled(r) /\ Unfaulty
    /\ Step(r, "check", "fetch")
    /\ dir' = [dir EXCEPT !["installed"] = Empty]
    /\ UNCHANGED <<tool, berry, runnable, cache, lock, goal, warned>>

\* A tool that cannot be asked counts as not installed.
Needed(r) ==
    /\ tool = "yarn" => goal[r].prefixed
    /\ (~IsAlreadyInstalled(r) /\ Unfaulty) \/ Fault("probe")
    /\ Step(r, "check", "fetch")
    /\ UNCHANGED <<tool, berry, dir, runnable, cache, lock, goal, warned>>

Fetched(r) ==
    /\ Step(r, "fetch", "clear")
    /\ \/ cache[Version(r)] # "absent" /\ UNCHANGED <<cache, faults>>
       \/ /\ cache[Version(r)] = "absent"
          /\ \/ cache' = [cache EXCEPT ![Version(r)] = "whole"] /\ Unfaulty
             \/ cache' = [cache EXCEPT ![Version(r)] = "torn"] /\ Fault("torn")
    /\ UNCHANGED <<tool, berry, dir, runnable, lock, goal, warned>>

\* A Bun version without its "v" is cached under the same name but asked for
\* under another one, which the server need not know.
FetchFails(r) ==
    /\ cache[Version(r)] = "absent"
    /\ Return(r, "fetch", "failed")
    /\ \/ Fault("refuse") /\ UNCHANGED cache
       \/ tool = "bun" /\ ~goal[r].prefixed /\ Unfaulty /\ UNCHANGED cache
       \/ Fault("disk") /\ cache' = [cache EXCEPT ![Version(r)] = "torn"]
    /\ UNCHANGED <<tool, berry, dir, runnable, goal, warned>>

Left == {pd \in Parts \X Cleared : dir[pd[2]][pd[1]] # None}

\* Variant: the installed directory is not among those cleared.
ClearPartScratch(r) ==
    /\ pc[r] = "clear"
    /\ \E pd \in Left :
         /\ dir' = IF pd[2] = "installed" THEN dir ELSE [dir EXCEPT ![pd[2]][pd[1]] = None]
         /\ wrote' = [wrote EXCEPT ![r] = @ \cup {pd}]
    /\ UNCHANGED <<tool, berry, runnable, cache, lock, pc, goal, warned, faults>>

ClearPart(r) ==
    /\ pc[r] = "clear"
    /\ \E pd \in Left :
         /\ dir' = [dir EXCEPT ![pd[2]][pd[1]] = None]
         /\ wrote' = [wrote EXCEPT ![r] = @ \cup {pd}]
    /\ UNCHANGED <<tool, berry, runnable, cache, lock, pc, goal, warned, faults>>

\* A directory that resists is warned about; the install goes on.
ClearEnds(r) ==
    /\ Step(r, "clear", "unpack")
    /\ \/ Left \subseteq wrote[r] /\ Unfaulty /\ UNCHANGED warned
       \/ Left # {} /\ Fault("clear") /\ warned' = TRUE
    /\ UNCHANGED <<tool, berry, dir, runnable, cache, lock, goal>>

UnpackPart(r) ==
    /\ pc[r] = "unpack"
    /\ tool = "bun" => cache[Version(r)] = "whole"
    /\ \E p \in PartsOf :
         /\ <<p, Root(r)>> \notin wrote[r]
         /\ dir' = [dir EXCEPT ![Root(r)][p] = Version(r)]
         /\ wrote' = [wrote EXCEPT ![r] = @ \cup {<<p, Root(r)>>}]
    /\ UNCHANGED <<tool, berry, runnable, cache, lock, pc, goal, warned, faults>>

Unpacked(r) ==
    /\ cache[Version(r)] = "whole"
    /\ PartsOf \X {Root(r)} \subseteq wrote[r]
    /\ Step(r, "unpack", IF tool = "yarn" THEN "root" ELSE "replace")
    /\ UNCHANGED <<tool, berry, dir, runnable, cache, lock, goal, warned, faults>>

\* Variant: the truncated archive stays.
UnpackTornKeeps(r) ==
    /\ cache[Version(r)] = "torn"
    /\ Return(r, "unpack", "failed")
    /\ UNCHANGED <<tool, berry, dir, runnable, cache, goal, warned, faults>>

\* A tarball cut short is deleted, with everything of Yarn.  A zip cut short is
\* "not a valid zip file", which is no end of file: it stays.
UnpackTorn(r) ==
    /\ cache[Version(r)] = "torn"
    /\ Return(r, "unpack", "failed")
    /\ IF tool = "yarn"
       THEN /\ cache' = [cache EXCEPT ![Version(r)] = "absent"]
            /\ dir' = [d \in Dirs |-> IF d \in Cleared THEN Empty ELSE dir[d]]
       ELSE UNCHANGED <<cache, dir>>
    /\ UNCHANGED <<tool, berry, runnable, goal, warned, faults>>

UnpackFails(r) ==
    /\ Return(r, "unpack", "failed")
    /\ Fault("disk")
    /\ UNCHANGED <<tool, berry, dir, runnable, cache, goal, warned>>

-----------------------------------------------------------------------------
(***************************************************************************)
(* Yarn: ensureCorrectYarnRootDirectory.                                   *)
(***************************************************************************)

RootFound(r) ==
    /\ Exists("installed")
    /\ Return(r, "root", "ok")
    /\ UNCHANGED <<tool, berry, dir, runnable, cache, goal, warned, faults>>

RootRenamed(r) ==
    /\ ~Exists("installed")
    /\ Return(r, "root", "ok")
    /\ dir' = [dir EXCEPT !["installed"] = dir[Root(r)], ![Root(r)] = Empty]
    /\ UNCHANGED <<tool, berry, runnable, cache, goal, warned, faults>>

RootFails(r) ==
    /\ ~Exists("installed")
    /\ Return(r, "root", "failed")
    /\ Fault("rename")
    /\ UNCHANGED <<tool, berry, dir, runnable, cache, goal, warned>>

-----------------------------------------------------------------------------
(***************************************************************************)
(* Bun: the binary takes the place of the old one.                         *)
(***************************************************************************)

RemoveOld(r) ==
    /\ Step(r, "replace", "move")
    /\ dir' = [dir EXCEPT !["installed"] = Empty]
    /\ UNCHANGED <<tool, berry, runnable, cache, lock, goal, warned, faults>>

\* A file that came out of a zip is not executable.
Move(r) ==
    /\ Step(r, "move", "mark")
    /\ dir' = [dir EXCEPT !["installed"] = dir["platform"], !["platform"] = Empty]
    /\ runnable' = FALSE
    /\ UNCHANGED <<tool, berry, cache, lock, goal, warned, faults>>

SetExecutable(r) ==
    /\ Step(r, "mark", "tidy")
    /\ runnable' = TRUE
    /\ UNCHANGED <<tool, berry, dir, cache, lock, goal, warned, faults>>

\* The old binary may be in use, the new one impossible to move or to make
\* executable, the directory it came in impossible to delete.
ReplaceFails(r) ==
    /\ \E s \in {"replace", "move", "mark", "tidy"} : Return(r, s, "failed")
    /\ Fault("rename")
    /\ UNCHANGED <<tool, berry, dir, runnable, cache, goal, warned>>

Tidy(r) ==
    /\ Return(r, "tidy", "ok")
    /\ UNCHANGED <<tool, berry, dir, runnable, cache, goal, warned, faults>>

-----------------------------------------------------------------------------

\* The process dies, with every run in it; an archive that was being written
\* may be torn.
Crash ==
    LET active == {r \in Runs : pc[r] \notin Resting} IN
    /\ Fault("crash")
    /\ active # {}
    /\ pc' = [r \in Runs |-> IF r \in active THEN "failed" ELSE pc[r]]
    /\ wrote' = [r \in Runs |-> {}]
    /\ lock' = Free
    /\ \/ UNCHANGED cache
       \/ \E r \in active :
            /\ pc[r] = "fetch" /\ cache[Version(r)] = "absent"
            /\ cache' = [cache EXCEPT ![Version(r)] = "torn"]
    /\ UNCHANGED <<tool, berry, dir, runnable, goal, warned>>

Install(r) ==
    \/ Lock(r) \/ Skip(r) \/ Refuse(r) \/ Needed(r) \/ Fetched(r) \/ FetchFails(r)
    \/ ClearPart(r) \/ ClearEnds(r)
    \/ UnpackPart(r) \/ Unpacked(r) \/ UnpackTorn(r) \/ UnpackFails(r)
    \/ RootFound(r) \/ RootRenamed(r) \/ RootFails(r)
    \/ RemoveOld(r) \/ Move(r) \/ SetExecutable(r) \/ ReplaceFails(r) \/ Tidy(r)

Next == Crash \/ \E r \in Runs : Start(r) \/ Install(r)

Spec == Init /\ [][Next]_vars

\* A run that can go on does, a mutex of Go starves nobody who waits for it, and
\* a user whose goal failed tries it again.
Fairness ==
    \A r \in Runs : WF_vars(Install(r)) /\ SF_vars(Lock(r)) /\ WF_vars(Start(r))

FairSpec == Spec /\ Fairness

-----------------------------------------------------------------------------

Reports(r) == pc[r] # "ok" /\ pc'[r] = "ok"

\* A goal that succeeds leaves a tool that answers with the version it asked
\* for, or, in a Berry project, one that answers; for Yarn unless a directory
\* resisted deletion, after which the old "dist" passes for the new one
\* (ensureCorrectYarnRootDirectory; the probe of yarnIsAlreadyInstalled).
SuccessAnswers ==
    [][\A r \in Runs : Reports(r) /\ (tool = "yarn" => ~warned)
          => Works' /\ (Answer' = Version(r) \/ berry)]_vars

\* The installed directory never holds parts of two releases: "The existing
\* yarn directory goes first, both to clear out stale files ..."
\* (yarn_installer.go:144).
OneRelease ==
    ~warned => Cardinality({dir["installed"][p] : p \in Parts} \ {None}) <= 1

\* A working install is given up only by a run that has the archive of the
\* version it wants: downloading comes first, and a refused download costs
\* nothing.  Bun keeps the old binary even until the new one is unpacked
\* (installYarn, installBunDefault).
GivenUpForAnother ==
    [][Works /\ ~Works' =>
          \E r \in Runs :
             /\ pc[r] \in Steps
             /\ cache[Version(r)] # "absent"
             /\ tool = "bun" => dir["platform"]["launcher"] = Version(r)]_vars

\* What no retry can help: Bun's archive is torn, and nothing deletes a zip.
Hopeless(r) == tool = "bun" /\ cache[Version(r)] = "torn"

\* Whatever was interrupted, once the faults are over a goal that is tried
\* again succeeds, unless it spells the version without its "v".
RetriesSucceed ==
    \A r \in Runs : []<>(pc[r] = "ok" \/ Hopeless(r) \/ ~goal[r].prefixed)

=============================================================================
