---------------------------- MODULE InstallGoals ----------------------------
(***************************************************************************)
(* The goals install-node-and-npm, -pnpm and -corepack: each runs the Node *)
(* installer and then the tool's.  Goals are started again and again, with *)
(* other versions, after failures and crashes, by one user or several.     *)
(***************************************************************************)
EXTENDS NodeInstaller, NodeModuleInstaller

StartGoal(r) ==
    /\ pc[r] \in Resting
    /\ pc' = [pc EXCEPT ![r] = "node.lock"]
    /\ \E g \in Goals : g.system = goal[r].system /\ goal' = [goal EXCEPT ![r] = g]
    /\ UNCHANGED <<node, tmp, dir, launcher, cache, lock, wrote, faults>>

\* Writing files that a crash can cut short.
Copying(r, d) ==
    /\ <<"json", d>> \notin wrote[r]
    /\ \/ pc[r] = "node.copy" /\ d \in BundledTools
       \/ pc[r] = "tool.copy" /\ d = Tool(r)

Linking(r, t) ==
    /\ launcher[t] = None
    /\ \/ pc[r] = "node.scripts" /\ t = "npm" /\ NpmScriptsDue
       \/ pc[r] = "tool.link" /\ t = Tool(r) /\ WritesLauncher(r)

\* The process dies with every run in it; of the files those runs were writing
\* any may be torn.  The mutexes go with the process.
Crash(p) ==
    LET mine == {r \in Runs : ProcOf(r) = p /\ pc[r] \notin Resting} IN
    /\ Fault("crash")
    /\ mine # {}
    /\ pc' = [r \in Runs |-> IF r \in mine THEN "failed" ELSE pc[r]]
    /\ wrote' = [r \in Runs |-> IF r \in mine THEN {} ELSE wrote[r]]
    /\ lock' = [k \in Locks |-> IF k[1] = p THEN Free ELSE lock[k]]
    /\ cache' = [a \in Artifacts |-> IF cache[a] \in mine THEN "torn" ELSE cache[a]]
    /\ \E torn \in SUBSET {d \in Tools : \E r \in mine : Copying(r, d)} :
         dir' = [d \in Dirs |->
                     IF d \in torn THEN [json |-> Torn, code |-> dir[d].code] ELSE dir[d]]
    /\ \E torn \in SUBSET {t \in Tools : \E r \in mine : Linking(r, t)} :
         launcher' = [t \in Tools |-> IF t \in torn THEN Torn ELSE launcher[t]]
    /\ UNCHANGED <<node, tmp, goal>>

Work(r) == NodeNext(r) \/ ToolNext(r)

Next ==
    \/ \E r \in Runs : StartGoal(r) \/ Work(r)
    \/ \E p \in Procs : Crash(p)

Spec == Init /\ [][Next]_vars

\* A run that can go on does, and a user whose goal failed tries it again.
Fairness == \A r \in Runs : WF_vars(Work(r)) /\ WF_vars(StartGoal(r))

FairSpec == Spec /\ Fairness

\* The same, but nobody has to start a goal again.
WorkSpec == Spec /\ \A r \in Runs : WF_vars(Work(r))

-----------------------------------------------------------------------------
(***************************************************************************)
(* What a goal that succeeds has established.                              *)
(***************************************************************************)

Reports(r) == pc[r] # "ok" /\ pc'[r] = "ok"

\* A truncated download that Windows keeps for ever (cache_windows_stuck).
Stuck(r) == OnWindows(r) /\ cache[NodeArtifact(r)] = "torn"

\* A goal that asked for a version leaves a package.json of that version in
\* place, and the Node.js release it asked for.
SuccessHasVersion ==
    [][\A r \in Runs : Reports(r) /\ goal[r].version # Provided
          => /\ ToolDir(r)'.json = ToolRelease(r)
             /\ node' = goal[r].node \/ Stuck(r)]_vars

\* The directory of the tool holds that release and nothing of another one:
\* "The existing npm directory goes first, both to clear out stale files ..."
\* (npm_installer.go:156, node_module_installer.go:117).
SuccessIsExact ==
    [][\A r \in Runs : Reports(r) /\ goal[r].version # Provided
          => ToolDir(r)' = Exactly(ToolRelease(r))]_vars

\* The launcher a goal reports points at a file that exists: "then links its
\* launcher" (pnpm_installer.go:78).
SuccessHasLauncher ==
    [][\A r \in Runs : Reports(r) => launcher'[Tool(r)] \in EntryPoints(Tool(r))']_vars

\* A "provided" goal leaves the tool its Node.js release bundles: "use the npm
\* bundled with that Node release" (README.md:82).
ProvidedIsThere ==
    [][\A r \in Runs : Reports(r) /\ goal[r].version = Provided
          => ToolDir(r)'.code # {}]_vars

\* A "provided" goal that has put a Node.js distribution in place has put the
\* npm it bundles there too, and but on Windows, where the npm installer does
\* it, its launchers (node_installer.go:200-211, 254-260).
ProvidedArrives ==
    \A r \in Runs : pc[r] = "node.tidy" /\ NpmProvided(r)
        => /\ \A t \in BundledTools :
                /\ dir[t].json = BundledDir(r, t).json
                /\ BundledDir(r, t).code \subseteq dir[t].code
           /\ OnWindows(r) \/ launcher["npm"] # None

(***************************************************************************)
(* What runs that share an install directory may not do to each other.     *)
(***************************************************************************)

SameProcess(r, s) == r # s /\ ProcOf(r) = ProcOf(s)

\* "nodeInstallLock serialises installs so two goals in one build cannot unpack
\* into the same directory at once" (node_installer.go:19-20): while a goal has
\* a distribution in node/tmp no other goal of its process unpacks or deletes
\* there.
NodeUnpackIsExclusive ==
    \A r, s \in Runs : SameProcess(r, s) => ~(pc[r] \in NodeSteps /\ pc[s] \in NodeSteps)

\* Goals of one process that install the same tool take turns.
ToolInstallIsExclusive ==
    \A r, s \in Runs : SameProcess(r, s) /\ Tool(r) = Tool(s) =>
        ~(pc[r] \in ToolSteps /\ pc[s] \in ToolSteps)

(***************************************************************************)
(* The promise, and its liveness.                                          *)
(***************************************************************************)

PlaceOf ==
    [t \in Tools |->
        IF \E v \in Versions : dir[t] = Exactly(<<t, v>>) THEN dir[t].json[2] ELSE None]

ReportOf == [r \in Runs |-> IF pc[r] \in Resting THEN pc[r] ELSE "working"]

\* Without crashes and directories that resist deletion, goals keep ToolPromise
\* in spite of refused and truncated downloads (the clear, unpack and rename of
\* installNpm and installModule, and the check before them).
Promise == INSTANCE ToolPromise WITH
    Requests <- Goals, Missing <- None,
    place <- PlaceOf, want <- goal, report <- ReportOf

PromiseSpec == Promise!Spec

\* What no retry can help: npm is "provided" by a release that bundles none, a
\* crash cut a package.json short while it was copied, or Windows keeps a
\* truncated zip.
Hopeless(r) == NpmTooOld(r) \/ ToolDir(r).json = Torn \/ Stuck(r)

\* Whatever was interrupted, once the faults are over a goal that is tried
\* again succeeds ("Please try the build again", node_installer.go:169).
RetriesSucceed == \A r \in Runs : []<>(pc[r] = "ok" \/ Hopeless(r))

\* A package.json of the right version with nothing behind it, which is what
\* two processes that unpack and rename "package" side by side can leave: the
\* check takes it for an install, and there is nothing to link.
Gutted(r) == VersionMatches(r) /\ EntryPoints(Tool(r)) = {}

\* Two processes may hurt each other at any point: read archives half written,
\* remove them when they are whole, clear and rename each other's directories.
\* But for a gutted directory nothing they leave behind is beyond a retry of
\* the one that goes on alone ("the next build starts from scratch",
\* node_installer.go:168).
AloneRetriesSucceed ==
    \A r \in Runs :
        /\ <>[](\A s \in Runs \ {r} : pc[s] \in Resting)
        /\ []<>(pc[r] \notin Resting)
        => []<>(pc[r] = "ok" \/ Hopeless(r) \/ Gutted(r))

=============================================================================
