------------------------- MODULE NodeModuleInstaller -------------------------
(***************************************************************************)
(* NPMInstaller.Install and the installer pnpm and corepack share: unpack  *)
(* the tool's tarball into node_modules, where it becomes the directory    *)
(* "package", rename that to the tool's name, and put a launcher next to   *)
(* node: a symbolic link, on Windows a script.  Each tool has a mutex of   *)
(* its own; "package" has none.                                            *)
(***************************************************************************)
EXTENDS InstallTree

Tool(r) == goal[r].tool
ToolDir(r) == dir[Tool(r)]

\* Variant: no mutex.
ToolLockOpen(r) ==
    /\ Step(r, "tool.lock", "tool.check")
    /\ UNCHANGED <<node, tmp, dir, launcher, cache, lock, goal, faults>>

ToolLock(r) ==
    /\ Acquire(r, Tool(r), "tool.lock", "tool.check")
    /\ UNCHANGED <<node, tmp, dir, launcher, cache, goal, faults>>

\* npm "provided" keeps whatever is there; corepack "provided" keeps it if its
\* package.json exists; otherwise package.json must name the version.
KeepsProvided(r) ==
    /\ goal[r].version = Provided
    /\ Tool(r) = "npm" \/ (Tool(r) = "corepack" /\ ToolDir(r).json # None)

NpmTooOld(r) ==
    goal[r].version = Provided /\ Tool(r) = "npm" /\ goal[r].node \in PreNpm

VersionMatches(r) ==
    /\ ToolDir(r).json \in Releases
    /\ ToolDir(r).json[2] = goal[r].version

ToolSkip(r) ==
    /\ ~NpmTooOld(r)
    /\ KeepsProvided(r) \/ VersionMatches(r)
    /\ Step(r, "tool.check", "tool.link")
    /\ UNCHANGED <<node, tmp, dir, launcher, cache, lock, goal, faults>>

\* npm "provided" is refused for the old releases of Node.js; a package.json
\* that does not parse fails every attempt.
ToolRefused(r) ==
    /\ \/ NpmTooOld(r)
       \/ ~KeepsProvided(r) /\ ToolDir(r).json = Torn
    /\ Return(r, "tool.check", "failed")
    /\ UNCHANGED <<node, tmp, dir, launcher, cache, goal, faults>>

ToolNeeded(r) ==
    /\ ~KeepsProvided(r) /\ ~VersionMatches(r) /\ ToolDir(r).json # Torn
    /\ Step(r, "tool.check", "tool.fetch")
    /\ UNCHANGED <<node, tmp, dir, launcher, cache, lock, goal, faults>>

ToolFetch(r) ==
    /\ FetchStep(r, ToolRelease(r), "tool.fetch", "tool.save", "tool.clear")
    /\ UNCHANGED <<node, tmp, dir, launcher, goal>>

\* clearExistingInstall: os.RemoveAll goes file by file, and sees no file twice.
Left(r) ==
    {part \in {"json", "code"} \X {Tool(r)} :
        IF part[1] = "json" THEN ToolDir(r).json # None ELSE ToolDir(r).code # {}}

ToolClearPart(r) ==
    /\ pc[r] = "tool.clear"
    /\ \E part \in Left(r) \ wrote[r] :
         /\ wrote' = [wrote EXCEPT ![r] = @ \cup {part}]
         /\ dir' = IF part[1] = "json" THEN [dir EXCEPT ![Tool(r)].json = None]
                                      ELSE [dir EXCEPT ![Tool(r)].code = {}]
    /\ UNCHANGED <<node, tmp, launcher, cache, lock, pc, goal, faults>>

\* Variant: a directory left in place whether or not it can be cleared.
ToolClearedAnyway(r) ==
    /\ Step(r, "tool.clear", "tool.unpack")
    /\ Unfaulty
    /\ UNCHANGED <<node, tmp, dir, launcher, cache, lock, goal>>

\* A directory that cannot be cleared, or that another process has filled
\* again, is only warned about.
ToolCleared(r) ==
    /\ Step(r, "tool.clear", "tool.unpack")
    /\ \/ Left(r) \subseteq wrote[r] /\ Unfaulty
       \/ ~(Left(r) \subseteq wrote[r]) /\ Fault("clear")
    /\ UNCHANGED <<node, tmp, dir, launcher, cache, lock, goal>>

ToolUnpackPart(r) ==
    /\ pc[r] = "tool.unpack"
    /\ WritePart(r, "package", Exactly(ToolRelease(r)))
    /\ UNCHANGED <<node, tmp, launcher, cache, lock, pc, goal, faults>>

ToolUnpacked(r) ==
    /\ Wrote(r, "package")
    /\ ReadsWhole(r, ToolRelease(r))
    /\ Step(r, "tool.unpack", "tool.rename")
    /\ UNCHANGED <<node, tmp, dir, launcher, cache, lock, goal, faults>>

\* Variants: the truncated archive stays; what it left in "package" stays.
ToolUnpackEOFKeeps(r) ==
    /\ ReadsShort(r, ToolRelease(r))
    /\ Return(r, "tool.unpack", "failed")
    /\ dir' = [dir EXCEPT !["package"] = EmptyDir]
    /\ UNCHANGED <<node, tmp, launcher, cache, goal, faults>>

ToolUnpackEOFLeaves(r) ==
    /\ EvictStep(r, ToolRelease(r), "tool.unpack")
    /\ UNCHANGED <<node, tmp, dir, launcher, goal, faults>>

ToolUnpackEOF(r) ==
    /\ EvictStep(r, ToolRelease(r), "tool.unpack")
    /\ dir' = [dir EXCEPT !["package"] = EmptyDir]
    /\ UNCHANGED <<node, tmp, launcher, goal, faults>>

ToolUnpackFails(r) ==
    /\ Return(r, "tool.unpack", "failed")
    /\ Fault("disk") \/ (ReadsNothing(r, ToolRelease(r)) /\ Unfaulty)
    /\ UNCHANGED <<node, tmp, dir, launcher, cache, goal>>

RenameApplies(r) == dir["package"] # EmptyDir /\ ToolDir(r) = EmptyDir

ToolRename(r) ==
    /\ RenameApplies(r)
    /\ \/ /\ Step(r, "tool.rename", "tool.link")
          /\ dir' = [dir EXCEPT ![Tool(r)] = dir["package"], !["package"] = EmptyDir]
          /\ Unfaulty
       \/ /\ Step(r, "tool.rename", "tool.copy")
          /\ Fault("rename")
          /\ UNCHANGED dir
    /\ UNCHANGED <<node, tmp, launcher, cache, lock, goal>>

\* With the old directory still there, or "package" gone, the install goes on
\* as if it were done.
ToolRenameSkipped(r) ==
    /\ ~RenameApplies(r)
    /\ Step(r, "tool.rename", "tool.link")
    /\ UNCHANGED <<node, tmp, dir, launcher, cache, lock, goal, faults>>

\* The fallback copies "package", which stays behind.
ToolCopyPart(r) ==
    /\ pc[r] = "tool.copy"
    /\ WritePart(r, Tool(r), dir["package"])
    /\ UNCHANGED <<node, tmp, launcher, cache, lock, pc, goal, faults>>

\* Variant: the copy is not waited for.
ToolCopiedEarly(r) ==
    /\ Step(r, "tool.copy", "tool.link")
    /\ UNCHANGED <<node, tmp, dir, launcher, cache, lock, goal, faults>>

ToolCopied(r) ==
    /\ Wrote(r, Tool(r))
    /\ Step(r, "tool.copy", "tool.link")
    /\ UNCHANGED <<node, tmp, dir, launcher, cache, lock, goal, faults>>

ToolCopyFails(r) ==
    /\ Return(r, "tool.copy", "failed")
    /\ Fault("disk")
    /\ UNCHANGED <<node, tmp, dir, launcher, cache, goal>>

\* Variant: no launcher.
NpmScriptsSkipped(r) ==
    /\ Tool(r) = "npm"
    /\ Return(r, "tool.link", "ok")
    /\ UNCHANGED <<node, tmp, dir, launcher, cache, goal, faults>>

NpmScripts(r) ==
    /\ Tool(r) = "npm"
    /\ Return(r, "tool.link", "ok")
    /\ launcher' = CopiedNpmScripts
    /\ UNCHANGED <<node, tmp, dir, cache, goal, faults>>

\* The entry points a directory has: pnpm prefers the ESM one.
EntryPoints(t) ==
    LET installed == {v \in Versions : <<t, v>> \in dir[t].code} IN
    CASE t = "pnpm" -> {IF v \in EsmFrom THEN "mjs" ELSE "cjs" : v \in installed}
      [] t = "corepack" -> IF installed = {} THEN {} ELSE {"js"}
      [] t = "npm" -> IF installed = {} THEN {} ELSE {"script"}

Preferred(entries) == IF "mjs" \in entries THEN "mjs" ELSE CHOOSE e \in entries : TRUE

\* A launcher that exists is left alone, even one whose target is gone.
LinkExisting(r) ==
    /\ Tool(r) # "npm"
    /\ launcher[Tool(r)] # None
    /\ Return(r, "tool.link", "ok")
    /\ UNCHANGED <<node, tmp, dir, launcher, cache, goal, faults>>

LinkNew(r) ==
    /\ Tool(r) # "npm"
    /\ launcher[Tool(r)] = None
    /\ EntryPoints(Tool(r)) # {}
    /\ Return(r, "tool.link", "ok")
    /\ launcher' = [launcher EXCEPT ![Tool(r)] = Preferred(EntryPoints(Tool(r)))]
    /\ UNCHANGED <<node, tmp, dir, cache, goal, faults>>

\* A launcher that is about to be written, file by file, where it is wanted.
WritesLauncher(r) ==
    /\ launcher[Tool(r)] = None
    /\ EntryPoints(Tool(r)) # {}
    /\ Tool(r) = "npm" \/ OnWindows(r)

LinkFails(r) ==
    /\ launcher[Tool(r)] = None
    /\ \/ Tool(r) # "npm" /\ EntryPoints(Tool(r)) = {} /\ Unfaulty /\ UNCHANGED launcher
       \/ Fault("disk") /\ launcher' \in HalfWritten(Tool(r), WritesLauncher(r))
    /\ Return(r, "tool.link", "failed")
    /\ UNCHANGED <<node, tmp, dir, cache, goal>>

ToolNext(r) ==
    \/ ToolLock(r) \/ ToolSkip(r) \/ ToolRefused(r) \/ ToolNeeded(r) \/ ToolFetch(r)
    \/ ToolClearPart(r) \/ ToolCleared(r)
    \/ ToolUnpackPart(r) \/ ToolUnpacked(r) \/ ToolUnpackEOF(r) \/ ToolUnpackFails(r)
    \/ ToolRename(r) \/ ToolRenameSkipped(r)
    \/ ToolCopyPart(r) \/ ToolCopied(r) \/ ToolCopyFails(r)
    \/ NpmScripts(r) \/ LinkExisting(r) \/ LinkNew(r) \/ LinkFails(r)

=============================================================================
