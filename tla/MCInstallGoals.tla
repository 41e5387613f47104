--------------------------- MODULE MCInstallGoals ---------------------------
(***************************************************************************)
(* Instances of InstallGoals: two Node.js releases that bundle different   *)
(* npms and one that bundles none, two versions of every tool.             *)
(***************************************************************************)
EXTENDS InstallGoals

MCVersions == {"1", "2", "a", "b"}

MCBundled == [v \in NodeVersions |->
                [t \in BundledTools |-> IF v = "v18" THEN "a" ELSE "b"]]

GoalsOf(tools, versions, nodes, procs) ==
    [tool : tools, version : versions, node : nodes, proc : procs, system : {"unix"}]

OnBothSystems(goals) == goals \cup {[g EXCEPT !.system = "windows"] : g \in goals}

NpmGoals(versions, nodes) == GoalsOf({"npm"}, versions, nodes, {"p1"})
PnpmGoals(versions) == GoalsOf({"pnpm"}, versions, {"v18"}, {"p1"})

\* Every tool at a version of its own choosing, over two Node.js releases.
UpgradeGoals ==
    OnBothSystems(NpmGoals({"1", "2"}, {"v18", "v20"})
        \cup GoalsOf({"pnpm", "corepack"}, {"1", "2"}, {"v18"}, {"p1"}))

\* npm up and down, "provided", and "provided" by a release that has none.
NpmMixedGoals ==
    OnBothSystems(NpmGoals({"1", "2", Provided}, {"v18"}) \cup NpmGoals({Provided}, {"v0"}))

\* The same goal twice, in one process or in two.
SharedGoals == GoalsOf({"pnpm"}, {"1"}, {"v18"}, {"p1", "p2"})

PnpmThenProvidedGoals == PnpmGoals({"1"}) \cup NpmGoals({Provided}, {"v18"})

=============================================================================
