---------------------------- MODULE NodeInstaller ----------------------------
(***************************************************************************)
(* NodeInstaller.Install: unpack the distribution into node/tmp, move the  *)
(* binary into place and, when npm is "provided", copy the distribution's  *)
(* node_modules over the installed ones.  On Windows the distribution is a *)
(* zip, which is only unpacked for the sake of its npm: otherwise a bare   *)
(* node.exe is copied straight from the cache.                             *)
(***************************************************************************)
EXTENDS InstallTree

BundlesNone(r) == NpmProvided(r) /\ goal[r].node \in PreNpm

\* Variant: no mutex.
NodeLockOpen(r) ==
    /\ Step(r, "node.lock", "node.check")
    /\ UNCHANGED <<node, tmp, dir, launcher, cache, lock, goal, faults>>

NodeLock(r) ==
    /\ Acquire(r, "node", "node.lock", "node.check")
    /\ UNCHANGED <<node, tmp, dir, launcher, cache, goal, faults>>

\* `node --version` answers for the binary in place.
NodeIsAlreadyInstalled(r) == node = goal[r].node

NodeSkip(r) ==
    /\ NodeIsAlreadyInstalled(r)
    /\ Return(r, "node.check", "tool.lock")
    /\ UNCHANGED <<node, tmp, dir, launcher, cache, goal, faults>>

\* Windows asks whether npm is bundled at all before it installs anything.
NodeRefused(r) ==
    /\ OnWindows(r) /\ BundlesNone(r)
    /\ ~NodeIsAlreadyInstalled(r)
    /\ Return(r, "node.check", "failed")
    /\ UNCHANGED <<node, tmp, dir, launcher, cache, goal, faults>>

NodeNeeded(r) ==
    /\ ~NodeIsAlreadyInstalled(r)
    /\ ~(OnWindows(r) /\ BundlesNone(r))
    /\ Step(r, "node.check", "node.fetch")
    /\ UNCHANGED <<node, tmp, dir, launcher, cache, lock, goal, faults>>

NodeFetch(r) ==
    /\ FetchStep(r, NodeArtifact(r), "node.fetch", "node.save",
                 IF Bare(r) THEN "node.exe" ELSE "node.unpack")
    /\ UNCHANGED <<node, tmp, dir, launcher, goal>>

\* The directory of a zip is its end: of a truncated one nothing is unpacked.
NodeUnpackPart(r) ==
    /\ pc[r] = "node.unpack"
    /\ OnWindows(r) => ReadsWhole(r, NodeArtifact(r))
    /\ \E part \in {"bin", "mods"} \ wrote[r] :
         /\ wrote' = [wrote EXCEPT ![r] = @ \cup {part}]
         /\ tmp' = [tmp EXCEPT ![goal[r].node] = @ \cup {part}]
    /\ UNCHANGED <<node, dir, launcher, cache, lock, pc, goal, faults>>

NodeUnpacked(r) ==
    /\ Step(r, "node.unpack", "node.replace")
    /\ {"bin", "mods"} \subseteq wrote[r]
    /\ ReadsWhole(r, NodeArtifact(r))
    /\ UNCHANGED <<node, tmp, dir, launcher, cache, lock, goal, faults>>

\* Variant: the truncated archive stays.
NodeUnpackEOFKeeps(r) ==
    /\ ~OnWindows(r)
    /\ ReadsShort(r, NodeArtifact(r))
    /\ Return(r, "node.unpack", "failed")
    /\ tmp' = [v \in NodeVersions |-> {}]
    /\ UNCHANGED <<node, dir, launcher, cache, goal, faults>>

\* A truncated archive is deleted together with what it left behind.
NodeUnpackEOF(r) ==
    /\ ~OnWindows(r)
    /\ EvictStep(r, NodeArtifact(r), "node.unpack")
    /\ tmp' = [v \in NodeVersions |-> {}]
    /\ UNCHANGED <<node, dir, launcher, goal, faults>>

\* Variant: the unpacking fails on a file that is there already.
NodeUnpackFailsOnLeavings(r) ==
    /\ Return(r, "node.unpack", "failed")
    /\ \/ ReadsNothing(r, NodeArtifact(r))
       \/ tmp[goal[r].node] # {} /\ wrote[r] = {}
    /\ UNCHANGED <<node, tmp, dir, launcher, cache, goal, faults>>

\* Any other failure leaves archive and tmp: so does another process's removal
\* of the archive, and on Windows a truncated one.
NodeUnpackFails(r) ==
    /\ Return(r, "node.unpack", "failed")
    /\ \/ Fault("disk")
       \/ ReadsNothing(r, NodeArtifact(r)) /\ Unfaulty
       \/ OnWindows(r) /\ ReadsShort(r, NodeArtifact(r)) /\ Unfaulty
    /\ UNCHANGED <<node, tmp, dir, launcher, cache, goal>>

\* The old binary goes before the new one is renamed into its place.  Windows
\* replaces it by the renaming, and copies over it when that fails.
NodeRemoveOld(r) ==
    /\ "bin" \in tmp[goal[r].node]
    /\ Step(r, "node.replace", "node.move")
    /\ IF OnWindows(r) THEN Fault("rename") ELSE Unfaulty
    /\ node' = None
    /\ UNCHANGED <<tmp, dir, launcher, cache, lock, goal>>

NodeRenameOver(r) ==
    /\ OnWindows(r)
    /\ "bin" \in tmp[goal[r].node]
    /\ Step(r, "node.replace", "node.npm")
    /\ node' = goal[r].node
    /\ tmp' = [tmp EXCEPT ![goal[r].node] = @ \ {"bin"}]
    /\ UNCHANGED <<dir, launcher, cache, lock, goal, faults>>

NodeBinaryMissing(r) ==
    /\ "bin" \notin tmp[goal[r].node]
    /\ Return(r, "node.replace", "failed")
    /\ UNCHANGED <<node, tmp, dir, launcher, cache, goal, faults>>

NodeMove(r) ==
    /\ "bin" \in tmp[goal[r].node]
    /\ Step(r, "node.move", "node.npm")
    /\ node' = goal[r].node
    /\ tmp' = [tmp EXCEPT ![goal[r].node] = @ \ {"bin"}]
    /\ UNCHANGED <<dir, launcher, cache, lock, goal, faults>>

\* The binary may be in use, or gone from tmp.
NodeReplaceFails(r) ==
    /\ \/ Return(r, "node.replace", "failed") /\ Fault("rename")
       \/ Return(r, "node.move", "failed") /\ Fault("rename")
       \/ /\ Return(r, "node.move", "failed") /\ Unfaulty
          /\ "bin" \notin tmp[goal[r].node]
    /\ UNCHANGED <<node, tmp, dir, launcher, cache, goal>>

NodeWithoutNpm(r) ==
    /\ ~NpmProvided(r)
    /\ Step(r, "node.npm", "node.tidy")
    /\ UNCHANGED <<node, tmp, dir, launcher, cache, lock, goal, faults>>

\* "Node didn't include NPM prior to v4.0.0" comes after the binary is in place.
NodeTooOld(r) ==
    /\ BundlesNone(r)
    /\ Return(r, "node.npm", "failed")
    /\ UNCHANGED <<node, tmp, dir, launcher, cache, goal, faults>>

NodeKeepsNpm(r) ==
    /\ NpmProvided(r)
    /\ ~BundlesNone(r)
    /\ \/ "mods" \in tmp[goal[r].node] /\ Step(r, "node.npm", "node.copy") /\ UNCHANGED lock
       \/ "mods" \notin tmp[goal[r].node] /\ Return(r, "node.npm", "failed")
    /\ UNCHANGED <<node, tmp, dir, launcher, cache, goal, faults>>

BundledDir(r, t) == Exactly(<<t, Bundled[goal[r].node][t]>>)

\* copyDirectory merges: files the old release had and the new one lacks stay.
NodeCopyPart(r) ==
    /\ pc[r] = "node.copy"
    /\ \E t \in BundledTools : WritePart(r, t, BundledDir(r, t))
    /\ UNCHANGED <<node, tmp, launcher, cache, lock, pc, goal, faults>>

\* Variant: the copy is not waited for.
NodeCopiedEarly(r) ==
    /\ Step(r, "node.copy", "node.scripts")
    /\ UNCHANGED <<node, tmp, dir, launcher, cache, lock, goal, faults>>

NodeCopied(r) ==
    /\ \A t \in BundledTools : Wrote(r, t)
    /\ Step(r, "node.copy", IF OnWindows(r) THEN "node.tidy" ELSE "node.scripts")
    /\ UNCHANGED <<node, tmp, dir, launcher, cache, lock, goal, faults>>

\* A binary that cannot be made executable, a copy that fails or a tmp that
\* cannot be deleted fails the install with the new binary already in place.
NodeFinishFails(r) ==
    /\ \E s \in {"node.npm", "node.copy", "node.scripts", "node.tidy"} :
         /\ Return(r, s, "failed")
         /\ launcher' \in HalfWritten("npm", s = "node.scripts" /\ NpmScriptsDue)
    /\ Fault("disk")
    /\ UNCHANGED <<node, tmp, dir, cache, goal>>

NodeScripts(r) ==
    /\ Step(r, "node.scripts", "node.tidy")
    /\ launcher' = CopiedNpmScripts
    /\ UNCHANGED <<node, tmp, dir, cache, lock, goal, faults>>

NodeTidy(r) ==
    /\ Return(r, "node.tidy", "tool.lock")
    /\ tmp' = [v \in NodeVersions |-> {}]
    /\ UNCHANGED <<node, dir, launcher, cache, goal, faults>>

\* The bare binary is written over the old one, as it is: that of a truncated
\* download answers for no version.
ExeOpened(r) ==
    /\ cache[NodeArtifact(r)] # "absent"
    /\ pc[r] = "node.exe"
    /\ pc' = [pc EXCEPT ![r] = "node.write"]
    /\ node' = None
    /\ UNCHANGED <<tmp, dir, launcher, cache, lock, goal, wrote, faults>>

ExeWritten(r) ==
    /\ Return(r, "node.write", "tool.lock")
    /\ \/ ReadsWhole(r, NodeArtifact(r)) /\ node' = goal[r].node
       \/ ReadsShort(r, NodeArtifact(r)) /\ node' = None
    /\ UNCHANGED <<tmp, dir, launcher, cache, goal, faults>>

ExeFails(r) ==
    /\ \/ \E s \in {"node.exe", "node.write"} : Return(r, s, "failed") /\ Fault("disk")
       \/ /\ Return(r, "node.exe", "failed") /\ Unfaulty
          /\ cache[NodeArtifact(r)] = "absent"
    /\ UNCHANGED <<node, tmp, dir, launcher, cache, goal>>

NodeNext(r) ==
    \/ NodeLock(r) \/ NodeSkip(r) \/ NodeRefused(r) \/ NodeNeeded(r) \/ NodeFetch(r)
    \/ NodeUnpackPart(r) \/ NodeUnpacked(r) \/ NodeUnpackEOF(r) \/ NodeUnpackFails(r)
    \/ NodeRemoveOld(r) \/ NodeRenameOver(r) \/ NodeBinaryMissing(r) \/ NodeMove(r) \/ NodeReplaceFails(r)
    \/ NodeWithoutNpm(r) \/ NodeTooOld(r) \/ NodeKeepsNpm(r)
    \/ NodeCopyPart(r) \/ NodeCopied(r) \/ NodeFinishFails(r)
    \/ NodeScripts(r) \/ NodeTidy(r)
    \/ ExeOpened(r) \/ ExeWritten(r) \/ ExeFails(r)

=============================================================================
