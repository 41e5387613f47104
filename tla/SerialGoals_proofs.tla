-------------------------- MODULE SerialGoals_proofs --------------------------
(***************************************************************************)
(* Proofs about install goals that do not overlap, of any number of runs,  *)
(* processes, versions and faults: what a goal that succeeds has left in   *)
(* the install directory, and that the goals implement ToolPromise.        *)
(***************************************************************************)
EXTENDS InstallGoals_proofs

Active(r) == pc[r] \notin Resting

\* Goals run one after the other, in one process or in several.
OneAtATime == \A r, s \in Runs : Active(r) /\ Active(s) => r = s

-----------------------------------------------------------------------------
(***************************************************************************)
(* Where the run at work stands.                                           *)
(***************************************************************************)

Saving == {"node.save", "tool.save"}
Reading == {"node.unpack", "node.exe", "node.write", "tool.unpack"}
BinaryDone == {"node.npm", "node.copy", "node.scripts", "node.tidy", "tool.lock"} \cup ToolSteps

\* Past the replacing of the binary, the one in place is the goal's.
BinaryInv(r) == pc[r] \in BinaryDone => node = goal[r].node \/ Stuck(r)

\* A bare binary is only copied when something is cached.
BareInv(r) ==
    pc[r] \in {"node.exe", "node.write"} => Bare(r) /\ cache[NodeArtifact(r)] # "absent"

\* What of the bundled tools has been copied.
CopiedJson(r, t) == dir[t].json = BundledDir(r, t).json
CopiedCode(r, t) == BundledDir(r, t).code \subseteq dir[t].code

CopyInv(r) ==
    /\ pc[r] = "node.copy" =>
         /\ NpmProvided(r)
         /\ \A t \in BundledTools :
              /\ <<"json", t>> \in wrote[r] => CopiedJson(r, t)
              /\ <<"code", t>> \in wrote[r] => CopiedCode(r, t)
    /\ pc[r] \in {"node.scripts", "node.tidy"} /\ NpmProvided(r) =>
         \A t \in BundledTools : CopiedJson(r, t) /\ CopiedCode(r, t)
    /\ pc[r] = "node.tidy" /\ NpmProvided(r) => OnWindows(r) \/ launcher["npm"] # None

\* What has been cleared stays so until the new release is put there.
ClearInv(r) ==
    /\ pc[r] = "tool.clear" =>
         /\ <<"json", Tool(r)>> \in wrote[r] => ToolDir(r).json = None
         /\ <<"code", Tool(r)>> \in wrote[r] => ToolDir(r).code = {}
    /\ pc[r] \in {"tool.unpack", "tool.rename"} => ToolDir(r) = EmptyDir

\* "package" becomes the release, and then the tool's directory does.
PackageInv(r) ==
    /\ pc[r] = "tool.unpack" /\ <<"json", "package">> \in wrote[r]
         => dir["package"].json = ToolRelease(r)
    /\ pc[r] \in {"tool.rename", "tool.copy"} => dir["package"].json = ToolRelease(r)
    /\ pc[r] = "tool.copy" /\ <<"json", Tool(r)>> \in wrote[r]
         => ToolDir(r).json = ToolRelease(r)
    /\ pc[r] = "tool.link" /\ goal[r].version # Provided
         => ToolDir(r).json = ToolRelease(r)

RunInv(r) == BinaryInv(r) /\ BareInv(r) /\ CopyInv(r) /\ ClearInv(r) /\ PackageInv(r)

\* The package.json of a tool's directory is of that tool.
OwnName ==
    \A t \in Tools : dir[t].json \in Releases => dir[t].json[1] = t

\* Whoever is writing a file of the cache is at it ...
WriterInv ==
    \A a \in Artifacts, r \in Runs : cache[a] = r =>
        \/ pc[r] = "node.save" /\ a = NodeArtifact(r)
        \/ pc[r] = "tool.save" /\ a = ToolRelease(r)

\* ... it still has the file it has begun, and no archive changes under the run
\* that reads it.
ArchiveRun(r) ==
    /\ pc[r] = "node.save" /\ "file" \in wrote[r] => cache[NodeArtifact(r)] = r
    /\ pc[r] = "tool.save" /\ "file" \in wrote[r] => cache[ToolRelease(r)] = r
    /\ pc[r] \in Reading => Changed \notin wrote[r]

ArchiveInv == WriterInv /\ \A r \in Runs : ArchiveRun(r)

SerialInv == LockInv /\ OwnName /\ ArchiveInv /\ \A r \in Runs : RunInv(r)

-----------------------------------------------------------------------------
(***************************************************************************)
(* Only the run at work is anywhere.                                       *)
(***************************************************************************)

LEMMA RestingRun == ASSUME NEW r \in Runs, ~Active(r)' PROVE RunInv(r)'
BY DEF Active, Resting, RunInv, BinaryInv, BareInv, CopyInv, ClearInv, PackageInv,
   BinaryDone, ToolSteps

LEMMA WaitingRun == ASSUME NEW r \in Runs, pc'[r] = "node.lock" PROVE RunInv(r)'
BY DEF RunInv, BinaryInv, BareInv, CopyInv, ClearInv, PackageInv, BinaryDone, ToolSteps

LEMMA WorkIsActive == ASSUME NEW r \in Runs, Work(r) PROVE Active(r)
<1>1. CASE NodeNext(r)
  BY <1>1 DEF Active, Resting, NodeNext, NodeLock, NodeSkip, NodeRefused, NodeNeeded,
     NodeFetch, NodeUnpackPart, NodeUnpacked, NodeUnpackEOF, NodeUnpackFails,
     NodeRemoveOld, NodeRenameOver, NodeBinaryMissing, NodeMove, NodeReplaceFails,
     NodeWithoutNpm, NodeTooOld, NodeKeepsNpm, NodeCopyPart, NodeCopied,
     NodeFinishFails, NodeScripts, NodeTidy, ExeOpened, ExeWritten, ExeFails,
     Acquire, FetchStep, FetchCheck, FetchRefused,
     FetchCreate, FetchDone, FetchFails, EvictStep, Recache, Return, Step, Goto
<1>2. CASE ToolNext(r)
  BY <1>2 DEF Active, Resting, ToolNext, ToolLock, ToolSkip, ToolRefused, ToolNeeded,
     ToolFetch, ToolClearPart, ToolCleared, ToolUnpackPart, ToolUnpacked,
     ToolUnpackEOF, ToolUnpackFails, ToolRename, ToolRenameSkipped, ToolCopyPart,
     ToolCopied, ToolCopyFails, NpmScripts, LinkExisting, LinkNew, LinkFails,
     Acquire, FetchStep, FetchCheck, FetchRefused,
     FetchCreate, FetchDone, FetchFails, EvictStep, Recache, Return, Step, Goto
<1> QED
  BY <1>1, <1>2 DEF Work

LEMMA OthersRest ==
    ASSUME TypeInv, OneAtATime, NEW r \in Runs, Work(r), NEW s \in Runs, s # r
    PROVE  ~Active(s) /\ ~Active(s)'
<1>1. pc' = pc \/ \E to : pc' = [pc EXCEPT ![r] = to]
  BY WorkProceeds DEF Proceeds, Stays, Leaves, Enters
<1>2. pc'[s] = pc[s]
  BY <1>1 DEF TypeInv, TypeOK
<1> QED
  BY <1>2, WorkIsActive DEF OneAtATime, Active

\* A goal's archives are neither each other's nor the tool's.
LEMMA ArtifactsDiffer ==
    ASSUME TypeOK, NEW r \in Runs
    PROVE  NodeArtifact(r) # ToolRelease(r)
BY ArtifactType DEF NodeArtifact, ToolRelease, Tools

-----------------------------------------------------------------------------
(***************************************************************************)
(* Goals that do not overlap have their archives to themselves: a file is  *)
(* there, whole or torn, from the end of its fetching on.                  *)
(***************************************************************************)

LEMMA RecacheStep ==
    ASSUME NEW r \in Runs, NEW a, NEW state, NEW parts, Recache(r, a, state, parts)
    PROVE  wrote'[r] = parts /\ cache' = [cache EXCEPT ![a] = state]
BY DEF Recache

\* What a fetch comes to when nobody interferes.
Kept(r, a, from, save, to) ==
    /\ cache' = cache
    /\ pc[r] = from
    /\ \/ pc'[r] \in {"failed", save} /\ wrote'[r] = {}
       \/ pc'[r] = to /\ wrote'[r] = {} /\ cache[a] # "absent"

Saved(r, a, save, to) ==
    /\ pc[r] = save
    /\ \/ cache' = [cache EXCEPT ![a] = r] /\ pc'[r] = save
       \/ /\ cache' \in {[cache EXCEPT ![a] = "torn"], [cache EXCEPT ![a] = "whole"]}
          /\ pc'[r] \in {"failed", to}
          /\ wrote'[r] = {}

LEMMA FetchAlone ==
    ASSUME TypeOK, NEW r \in Runs, NEW a \in Artifacts, NEW from, NEW save, NEW to,
           pc[r] = save /\ "file" \in wrote[r] => cache[a] = r,
           FetchStep(r, a, from, save, to)
    PROVE  Kept(r, a, from, save, to) \/ Saved(r, a, save, to)
<1>1. CASE FetchCheck(r, a, from, save, to)
  BY <1>1 DEF FetchCheck, Step, Goto, Kept, TypeOK
<1>2. CASE FetchRefused(r, a, from)
  BY <1>2 DEF FetchRefused, Return, Step, Goto, Kept, TypeOK
<1>3. CASE FetchCreate(r, a, save)
  BY <1>3, RecacheStep DEF FetchCreate, Saved
<1>4. ASSUME NEW state \in {"torn", "whole"}, NEW next, Goto(r, save, next),
             "file" \in wrote[r], Recache(r, a, FileLeft(r, a, state), {})
      PROVE  /\ pc[r] = save /\ pc'[r] = next
             /\ cache' = [cache EXCEPT ![a] = state] /\ wrote'[r] = {}
  <2>1. pc[r] = save /\ pc'[r] = next
    BY <1>4 DEF Goto, TypeOK
  <2>2. FileLeft(r, a, state) = state
    BY <1>4, <2>1 DEF FileLeft
  <2> QED
    BY <1>4, <2>1, <2>2, RecacheStep
<1>5. CASE FetchDone(r, a, save, to)
  BY <1>4, <1>5 DEF FetchDone, Saved
<1>6. CASE FetchFails(r, a, save)
  BY <1>4, <1>6 DEF FetchFails, Saved
<1> QED
  BY <1>1, <1>2, <1>3, <1>5, <1>6 DEF FetchStep

LEMMA EvictAlone ==
    ASSUME TypeOK, NEW r \in Runs, NEW a, NEW from, EvictStep(r, a, from)
    PROVE  /\ pc[r] = from /\ pc'[r] = "failed"
           /\ cache' = [cache EXCEPT ![a] = "absent"]
BY RecacheStep DEF EvictStep, Goto, TypeOK

\* The archive the run at work reads is there for it alone.
Undisturbed(r) ==
    /\ pc[r] \in {"node.unpack", "node.exe", "node.write"} => ~Disturbed(r, NodeArtifact(r))
    /\ pc[r] = "tool.unpack" => ~Disturbed(r, ToolRelease(r))

LEMMA Quiet ==
    ASSUME TypeOK, OneAtATime, ArchiveInv, NEW r \in Runs
    PROVE  Undisturbed(r)
<1> SUFFICES ASSUME pc[r] \in Reading, NEW a \in Artifacts PROVE ~Disturbed(r, a)
  BY ArtifactType DEF Undisturbed, Reading
<1>1. Changed \notin wrote[r]
  BY DEF ArchiveInv, ArchiveRun
<1>2. ASSUME NEW s \in Runs PROVE cache[a] # s
  <2>1. cache[a] = s => pc[s] \in Saving
    BY DEF ArchiveInv, WriterInv, Saving
  <2>2. pc[s] \notin Saving
    BY DEF OneAtATime, Active, Resting, Reading, Saving
  <2> QED
    BY <2>1, <2>2
<1> QED
  BY <1>1, <1>2 DEF Disturbed

\* A step of the run at work keeps ArchiveInv when the cache is right for it.
LEMMA ArchiveKept ==
    ASSUME TypeInv, OneAtATime, ArchiveInv, NEW r \in Runs, Work(r),
           \A a \in Artifacts : cache'[a] = cache[a] \/ cache'[a] \in {"absent", "torn", "whole", r},
           \A a \in Artifacts : cache'[a] = r =>
              \/ pc'[r] = "node.save" /\ a = NodeArtifact(r)
              \/ pc'[r] = "tool.save" /\ a = ToolRelease(r),
           ArchiveRun(r)'
    PROVE  ArchiveInv'
<1>1. goal' = goal
  BY WorkProceeds DEF Proceeds
<1>2. UNCHANGED <<NodeArtifact(r), ToolRelease(r)>>
  BY <1>1 DEF NodeArtifact, Bare, OnWindows, NpmProvided, ToolRelease
<1>3. ASSUME NEW s \in Runs, s # r PROVE ArchiveRun(s)'
  BY <1>3, OthersRest DEF Active, Resting, ArchiveRun, Reading
<1>4. ASSUME NEW a \in Artifacts, NEW s \in Runs, s # r PROVE cache'[a] # s
  <2>1. cache[a] # s
    BY <1>4, OthersRest DEF ArchiveInv, WriterInv, Active, Resting
  <2> QED
    BY <1>4, <2>1, AbsentAssumption
<1>5. WriterInv'
  BY <1>2, <1>4 DEF WriterInv
<1> QED
  BY <1>3, <1>5 DEF ArchiveInv

LEMMA ArchiveFetch ==
    ASSUME TypeInv, OneAtATime, ArchiveInv, NEW r \in Runs, Work(r),
           NEW a \in Artifacts, NEW from, NEW save, NEW to,
           FetchStep(r, a, from, save, to), UNCHANGED goal,
           \/ /\ a = NodeArtifact(r) /\ from = "node.fetch" /\ save = "node.save"
              /\ to \in {"node.exe", "node.unpack"}
           \/ /\ a = ToolRelease(r) /\ from = "tool.fetch" /\ save = "tool.save"
              /\ to = "tool.clear"
    PROVE  ArchiveInv'
<1> USE DEF TypeInv
<1>1. UNCHANGED <<NodeArtifact(r), ToolRelease(r)>>
  BY DEF NodeArtifact, Bare, OnWindows, NpmProvided, ToolRelease
<1>2. Kept(r, a, from, save, to) \/ Saved(r, a, save, to)
  BY FetchAlone DEF ArchiveInv, ArchiveRun
<1>3. ASSUME NEW b \in Artifacts, cache[b] = r PROVE pc[r] = save /\ b = a
  <2>1. pc[r] \in {from, save}
    BY <1>2 DEF Kept, Saved
  <2> QED
    BY <1>3, <2>1 DEF ArchiveInv, WriterInv
<1>4. CASE Kept(r, a, from, save, to)
  <2>1. \A b \in Artifacts : cache'[b] # r
    BY <1>3, <1>4 DEF Kept
  <2>2. ArchiveRun(r)'
    BY <1>4 DEF Kept, ArchiveRun, Reading
  <2> QED
    BY <1>4, <2>1, <2>2, ArchiveKept DEF Kept
<1>5. CASE Saved(r, a, save, to)
  <2>1. CASE cache' = [cache EXCEPT ![a] = r] /\ pc'[r] = save
    <3>1. cache'[a] = r /\ \A b \in Artifacts : b # a => cache'[b] = cache[b]
      BY <2>1 DEF TypeOK
    <3>2. ArchiveRun(r)'
      BY <1>1, <2>1, <3>1 DEF ArchiveRun, Reading
    <3>3. \A b \in Artifacts : cache'[b] = r => b = a
      BY <1>3, <3>1
    <3> QED
      BY <2>1, <3>1, <3>2, <3>3, ArchiveKept
  <2>2. CASE /\ cache' \in {[cache EXCEPT ![a] = "torn"], [cache EXCEPT ![a] = "whole"]}
             /\ pc'[r] \in {"failed", to}
             /\ wrote'[r] = {}
    <3>1. cache'[a] \in {"torn", "whole"} /\ \A b \in Artifacts : b # a => cache'[b] = cache[b]
      BY <2>2 DEF TypeOK
    <3>2. \A b \in Artifacts : cache'[b] # r
      BY <1>3, <3>1, AbsentAssumption
    <3>3. ArchiveRun(r)'
      BY <2>2 DEF ArchiveRun, Reading
    <3> QED
      BY <3>1, <3>2, <3>3, ArchiveKept
  <2> QED
    BY <1>5, <2>1, <2>2 DEF Saved
<1> QED
  BY <1>2, <1>4, <1>5

LEMMA ArchiveWork ==
    ASSUME TypeInv, OneAtATime, ArchiveInv, NEW r \in Runs, Work(r)
    PROVE  ArchiveInv'
<1> USE DEF TypeInv
<1>1. CASE NodeFetch(r)
  <2> DEFINE to == IF Bare(r) THEN "node.exe" ELSE "node.unpack"
  <2>1. /\ FetchStep(r, NodeArtifact(r), "node.fetch", "node.save", to) /\ UNCHANGED goal
        /\ to \in {"node.exe", "node.unpack"}
    BY <1>1 DEF NodeFetch
  <2> HIDE DEF to
  <2> QED
    BY <2>1, ArtifactType, ArchiveFetch
<1>2. CASE ToolFetch(r)
  BY <1>2, ArtifactType, ArchiveFetch DEF ToolFetch
<1>3. ASSUME pc[r] \notin Saving, cache' = cache, ArchiveRun(r)' PROVE ArchiveInv'
  <2>1. \A a \in Artifacts : cache[a] # r
    BY <1>3 DEF ArchiveInv, WriterInv, Saving
  <2> QED
    BY <1>3, <2>1, ArchiveKept
<1>4. CASE NodeUnpackEOF(r) \/ ToolUnpackEOF(r)
  <2>1. PICK a \in Artifacts, from \in {"node.unpack", "tool.unpack"} : EvictStep(r, a, from)
    BY <1>4, ArtifactType DEF NodeUnpackEOF, ToolUnpackEOF
  <2>2. /\ pc[r] \notin Saving /\ pc'[r] = "failed"
        /\ cache' = [cache EXCEPT ![a] = "absent"]
    BY <2>1, EvictAlone DEF Saving
  <2>3. \A b \in Artifacts : cache[b] # r
    BY <2>2 DEF ArchiveInv, WriterInv, Saving
  <2>4. \A b \in Artifacts : cache'[b] \in {cache[b], "absent"}
    BY <2>2 DEF TypeOK
  <2>5. ArchiveRun(r)'
    BY <2>2 DEF ArchiveRun, Reading
  <2> QED
    BY <2>3, <2>4, <2>5, AbsentAssumption, ArchiveKept
<1>5. CASE NodeUnpackPart(r) \/ ToolUnpackPart(r) \/ ExeOpened(r)
  <2>1. /\ pc[r] \in Reading /\ pc[r] \notin Saving /\ pc'[r] \in Reading /\ cache' = cache
        /\ \/ wrote' = wrote
           \/ \E part \in {"bin", "mods"} \cup ({"json", "code"} \X Dirs) :
                wrote' = [wrote EXCEPT ![r] = @ \cup {part}]
    BY <1>5 DEF NodeUnpackPart, ToolUnpackPart, WritePart, ExeOpened, Reading, Saving,
       Dirs, TypeOK
  <2>2. Changed \notin wrote[r]
    BY <2>1 DEF ArchiveInv, ArchiveRun
  <2>3. Changed \notin wrote'[r]
    BY <2>1, <2>2, MarkAssumption DEF TypeOK
  <2>4. ArchiveRun(r)'
    BY <2>1, <2>3 DEF ArchiveRun, Reading
  <2> QED
    BY <1>3, <2>1, <2>4
<1>6. CASE NodeNext(r) /\ ~(NodeFetch(r) \/ NodeUnpackEOF(r) \/ NodeUnpackPart(r) \/ ExeOpened(r))
  <2>1. pc[r] \notin Saving /\ cache' = cache /\ pc'[r] \notin Saving \cup Reading
    BY <1>6 DEF NodeNext, NodeLock, NodeSkip, NodeRefused, NodeNeeded, NodeUnpacked,
       NodeUnpackFails, NodeRemoveOld, NodeRenameOver, NodeBinaryMissing, NodeMove,
       NodeReplaceFails, NodeWithoutNpm, NodeTooOld, NodeKeepsNpm, NodeCopyPart,
       NodeCopied, NodeFinishFails, NodeScripts, NodeTidy, ExeWritten, ExeFails,
       Acquire, Return, Step, Goto, Saving, Reading, TypeOK
  <2> QED
    BY <1>3, <2>1 DEF ArchiveRun, Saving, Reading
<1>7. CASE ToolNext(r) /\ ~(ToolFetch(r) \/ ToolUnpackEOF(r) \/ ToolUnpackPart(r))
  <2>1. /\ pc[r] \notin Saving /\ cache' = cache /\ pc'[r] \notin Saving
        /\ pc'[r] \notin Reading \/ wrote'[r] = {}
    BY <1>7 DEF ToolNext, ToolLock, ToolSkip, ToolRefused, ToolNeeded, ToolClearPart,
       ToolCleared, ToolUnpacked, ToolUnpackFails, ToolRename, ToolRenameSkipped,
       ToolCopyPart, ToolCopied, ToolCopyFails, NpmScripts, LinkExisting, LinkNew,
       LinkFails, Acquire, Return, Step, Goto, Saving, Reading, TypeOK
  <2> QED
    BY <1>3, <2>1 DEF ArchiveRun, Saving, Reading
<1> QED
  BY <1>1, <1>2, <1>4, <1>5, <1>6, <1>7 DEF Work

-----------------------------------------------------------------------------
(***************************************************************************)
(* The steps of the Node installer.                                        *)
(***************************************************************************)

\* A run that has not reached the tool, nor yet replaced the binary.
Early == {"node.check", "node.fetch", "node.save", "node.unpack", "node.replace", "node.move"}

LEMMA EarlyRun ==
    ASSUME NEW r \in Runs, pc'[r] \in Early \cup Resting
    PROVE  RunInv(r)'
BY DEF Early, Resting, RunInv, BinaryInv, BareInv, CopyInv, ClearInv, PackageInv,
   BinaryDone, ToolSteps

\* Into the finishing steps of the Node installer: the tool's directory is not
\* spoken of yet.
LEMMA LateRun ==
    ASSUME NEW r \in Runs, BinaryInv(r)', BareInv(r)', CopyInv(r)', pc'[r] \notin ToolSteps
    PROVE  RunInv(r)'
BY DEF RunInv, ClearInv, PackageInv, ToolSteps

LEMMA NodeRun ==
    ASSUME TypeInv, NEW r \in Runs, RunInv(r), ArchiveRun(r), Undisturbed(r), NodeNext(r)
    PROVE  RunInv(r)'
<1> USE DEF TypeInv
<1>1. CASE \/ NodeRefused(r) \/ NodeUnpackEOF(r) \/ NodeUnpackFails(r)
           \/ NodeBinaryMissing(r) \/ NodeReplaceFails(r) \/ NodeTooOld(r)
           \/ NodeFinishFails(r) \/ ExeFails(r)
  <2>1. pc'[r] = "failed"
    BY <1>1 DEF NodeRefused, NodeUnpackEOF, EvictStep, NodeUnpackFails, NodeBinaryMissing,
       NodeReplaceFails, NodeTooOld, NodeFinishFails, ExeFails, Return, Step, Goto, TypeOK
  <2> QED
    BY <2>1, EarlyRun DEF Resting
<1>2. CASE NodeLock(r) \/ NodeNeeded(r) \/ NodeUnpacked(r) \/ NodeRemoveOld(r)
  <2>1. pc'[r] \in Early
    BY <1>2 DEF NodeLock, NodeNeeded, NodeUnpacked, NodeRemoveOld, Acquire, Step, Goto,
       TypeOK, Early
  <2> QED
    BY <2>1, EarlyRun
<1>3. CASE NodeSkip(r)
  <2>1. pc'[r] = "tool.lock" /\ node' = goal'[r].node
    BY <1>3 DEF NodeSkip, NodeIsAlreadyInstalled, Return, Step, Goto, TypeOK
  <2> QED
    BY <2>1, LateRun DEF BinaryInv, BareInv, CopyInv, ToolSteps
<1>4. CASE NodeFetch(r)
  <2> DEFINE to == IF Bare(r) THEN "node.exe" ELSE "node.unpack"
  <2>a. FetchStep(r, NodeArtifact(r), "node.fetch", "node.save", to)
    BY <1>4 DEF NodeFetch
  <2>b. Kept(r, NodeArtifact(r), "node.fetch", "node.save", to)
          \/ Saved(r, NodeArtifact(r), "node.save", to)
    <3> HIDE DEF to
    <3> QED
      BY <2>a, ArtifactType, FetchAlone DEF ArchiveRun
  <2>1. \/ pc'[r] \in {"failed", "node.save", "node.unpack"}
        \/ pc'[r] = "node.exe" /\ Bare(r) /\ cache'[NodeArtifact(r)] # "absent"
    BY <2>b, ArtifactType DEF Kept, Saved, TypeOK
  <2>2. Bare(r)' = Bare(r) /\ NodeArtifact(r)' = NodeArtifact(r)
    BY <1>4 DEF NodeFetch, Bare, OnWindows, NpmProvided, NodeArtifact
  <2>3. pc'[r] = "node.exe" => BareInv(r)'
    BY <2>1, <2>2 DEF BareInv
  <2> QED
    BY <2>1, <2>3, EarlyRun, LateRun DEF Early, Resting, BinaryInv, BinaryDone, CopyInv, ToolSteps
<1>5. CASE NodeUnpackPart(r)
  <2>1. pc'[r] = "node.unpack"
    BY <1>5 DEF NodeUnpackPart
  <2> QED
    BY <2>1, EarlyRun DEF Early
<1>6. CASE NodeRenameOver(r) \/ NodeMove(r)
  <2>1. pc'[r] = "node.npm" /\ node' = goal'[r].node
    BY <1>6 DEF NodeRenameOver, NodeMove, Step, Goto, TypeOK
  <2> QED
    BY <2>1, LateRun DEF BinaryInv, BareInv, CopyInv, ToolSteps
<1>7. CASE NodeWithoutNpm(r)
  <2>1. /\ pc[r] = "node.npm" /\ pc'[r] = "node.tidy" /\ ~NpmProvided(r)
        /\ UNCHANGED <<node, cache, goal>>
    BY <1>7 DEF NodeWithoutNpm, Step, Goto, TypeOK
  <2>2. BinaryInv(r)'
    BY <2>1 DEF RunInv, BinaryInv, BinaryDone, Stuck, OnWindows, NodeArtifact, Bare, NpmProvided
  <2> QED
    BY <2>1, <2>2, LateRun DEF BareInv, CopyInv, ToolSteps, NpmProvided
<1>8. CASE NodeKeepsNpm(r)
  <2>1. \/ pc'[r] = "failed"
        \/ /\ pc[r] = "node.npm" /\ pc'[r] = "node.copy" /\ NpmProvided(r)
           /\ wrote'[r] = {} /\ UNCHANGED <<node, cache, goal>>
    BY <1>8 DEF NodeKeepsNpm, Return, Step, Goto, TypeOK
  <2>2. CASE pc'[r] = "failed"
    BY <2>2, EarlyRun DEF Resting
  <2>3. CASE /\ pc[r] = "node.npm" /\ pc'[r] = "node.copy" /\ NpmProvided(r)
             /\ wrote'[r] = {} /\ UNCHANGED <<node, cache, goal>>
    <3>1. BinaryInv(r)'
      BY <2>3 DEF RunInv, BinaryInv, BinaryDone, Stuck, OnWindows, NodeArtifact, Bare, NpmProvided
    <3> QED
      BY <2>3, <3>1, LateRun DEF BareInv, CopyInv, ToolSteps, NpmProvided
  <2> QED
    BY <2>1, <2>2, <2>3
<1>9. CASE NodeCopyPart(r)
  <2>1. PICK t \in BundledTools, part \in {"json", "code"} :
          /\ <<part, t>> \notin wrote[r]
          /\ wrote' = [wrote EXCEPT ![r] = @ \cup {<<part, t>>}]
          /\ dir' = IF part = "json" THEN PutJson(t, BundledDir(r, t).json)
                                     ELSE PutCode(t, BundledDir(r, t).code)
    BY <1>9 DEF NodeCopyPart, WritePart
  <2>2. /\ pc[r] = "node.copy"
        /\ UNCHANGED <<node, tmp, launcher, cache, lock, pc, goal, faults>>
    BY <1>9 DEF NodeCopyPart
  <2>3. BinaryInv(r)'
    BY <2>2 DEF RunInv, BinaryInv, BinaryDone, Stuck, OnWindows, NodeArtifact, Bare, NpmProvided
  <2>4. CopyInv(r)'
    <3>1. NpmProvided(r)'
      BY <2>2 DEF RunInv, CopyInv, NpmProvided
    <3>2. wrote'[r] = wrote[r] \cup {<<part, t>>}
      BY <2>1 DEF TypeOK
    <3>3. ASSUME NEW u \in BundledTools
          PROVE  /\ dir'[u].json = IF part = "json" /\ u = t THEN BundledDir(r, t).json
                                                           ELSE dir[u].json
                 /\ dir[u].code \subseteq dir'[u].code
                 /\ part = "code" /\ u = t => BundledDir(r, t).code \subseteq dir'[u].code
      <4>1. t \in Dirs /\ u \in Dirs
        BY DEF BundledTools, Dirs, Tools
      <4>2. CASE part = "json"
        BY <2>1, <4>1, <4>2 DEF PutJson, TypeOK, Content
      <4>3. CASE part = "code"
        BY <2>1, <4>1, <4>3 DEF PutCode, TypeOK, Content
      <4> QED
        BY <4>2, <4>3
    <3>4. \A u \in BundledTools : BundledDir(r, u)' = BundledDir(r, u)
      BY <2>2 DEF BundledDir
    <3>5. ASSUME NEW u \in BundledTools, <<"json", u>> \in wrote'[r]
          PROVE  CopiedJson(r, u)'
      <4>1. <<"json", u>> \in wrote[r] \/ (part = "json" /\ u = t)
        BY <3>2, <3>5
      <4>2. <<"json", u>> \in wrote[r] => dir[u].json = BundledDir(r, u).json
        BY <2>2 DEF RunInv, CopyInv, CopiedJson
      <4>3. dir'[u].json = BundledDir(r, u).json
        BY <3>3, <4>1, <4>2
      <4> QED
        BY <3>4, <4>3 DEF CopiedJson
    <3>6. ASSUME NEW u \in BundledTools, <<"code", u>> \in wrote'[r]
          PROVE  CopiedCode(r, u)'
      <4>1. <<"code", u>> \in wrote[r] \/ (part = "code" /\ u = t)
        BY <3>2, <3>6
      <4>2. <<"code", u>> \in wrote[r] => BundledDir(r, u).code \subseteq dir[u].code
        BY <2>2 DEF RunInv, CopyInv, CopiedCode
      <4>3. BundledDir(r, u).code \subseteq dir'[u].code
        BY <3>3, <4>1, <4>2
      <4> QED
        BY <3>4, <4>3 DEF CopiedCode
    <3> QED
      BY <2>2, <3>1, <3>5, <3>6 DEF CopyInv
  <2> QED
    BY <2>2, <2>3, <2>4, LateRun DEF BareInv, ToolSteps
<1>10. CASE NodeCopied(r)
  <2>1. /\ pc[r] = "node.copy" /\ UNCHANGED <<node, dir, cache, goal>>
        /\ \A t \in BundledTools : Wrote(r, t)
        /\ pc'[r] = IF OnWindows(r) THEN "node.tidy" ELSE "node.scripts"
    BY <1>10 DEF NodeCopied, Step, Goto, TypeOK
  <2>2. BinaryInv(r)'
    BY <2>1 DEF RunInv, BinaryInv, BinaryDone, Stuck, OnWindows, NodeArtifact, Bare, NpmProvided
  <2>3. \A t \in BundledTools : CopiedJson(r, t) /\ CopiedCode(r, t)
    BY <2>1 DEF RunInv, CopyInv, Wrote
  <2>4. CopyInv(r)'
    BY <2>1, <2>3 DEF CopyInv, CopiedJson, CopiedCode, BundledDir, OnWindows
  <2> QED
    BY <2>1, <2>2, <2>4, LateRun DEF BareInv, ToolSteps
<1>11. CASE NodeScripts(r)
  <2>1. /\ pc[r] = "node.scripts" /\ pc'[r] = "node.tidy"
        /\ UNCHANGED <<node, dir, cache, goal>>
        /\ launcher' = CopiedNpmScripts
    BY <1>11 DEF NodeScripts, Step, Goto, TypeOK
  <2>2. BinaryInv(r)'
    BY <2>1 DEF RunInv, BinaryInv, BinaryDone, Stuck, OnWindows, NodeArtifact, Bare, NpmProvided
  <2>3. ASSUME NpmProvided(r) PROVE launcher'["npm"] # None
    <3>1. Bundled[goal[r].node]["npm"] \in Versions
      BY ArtifactType, BundledAssumption DEF BundledTools
    <3>2. <<"npm", Bundled[goal[r].node]["npm"]>> \in dir["npm"].code
      BY <2>1, <2>3 DEF RunInv, CopyInv, CopiedCode, BundledDir, Exactly, BundledTools
    <3>3. launcher["npm"] = None => launcher'["npm"] = "script"
      BY <2>1, <3>1, <3>2 DEF CopiedNpmScripts, NpmScriptsDue, TypeOK, Tools
    <3> QED
      BY <2>1, <3>3, AbsentAssumption DEF Entries, CopiedNpmScripts, NpmScriptsDue
  <2>4. CopyInv(r)'
    BY <2>1, <2>3 DEF RunInv, CopyInv, CopiedJson, CopiedCode, BundledDir, NpmProvided, OnWindows
  <2> QED
    BY <2>1, <2>2, <2>4, LateRun DEF BareInv, ToolSteps
<1>12. CASE NodeTidy(r)
  <2>1. /\ pc[r] = "node.tidy" /\ pc'[r] = "tool.lock"
        /\ UNCHANGED <<node, cache, goal>>
    BY <1>12 DEF NodeTidy, Return, Step, Goto, TypeOK
  <2>2. BinaryInv(r)'
    BY <2>1 DEF RunInv, BinaryInv, BinaryDone, Stuck, OnWindows, NodeArtifact, Bare, NpmProvided
  <2> QED
    BY <2>1, <2>2, LateRun DEF BareInv, CopyInv, ToolSteps
<1>13. CASE ExeOpened(r)
  <2>1. pc[r] = "node.exe" /\ pc'[r] = "node.write" /\ UNCHANGED <<cache, goal>>
    BY <1>13 DEF ExeOpened, Step, Goto, TypeOK
  <2>2. BareInv(r)'
    BY <2>1 DEF RunInv, BareInv, Bare, OnWindows, NpmProvided, NodeArtifact
  <2> QED
    BY <2>1, <2>2, LateRun DEF BinaryInv, BinaryDone, CopyInv, ToolSteps
<1>14. CASE ExeWritten(r)
  <2>1. /\ pc[r] = "node.write" /\ pc'[r] = "tool.lock" /\ UNCHANGED <<cache, goal>>
        /\ \/ cache[NodeArtifact(r)] = "whole" /\ node' = goal[r].node
           \/ cache[NodeArtifact(r)] = "torn" /\ node' = None
    BY <1>14 DEF ExeWritten, Return, Step, Goto, TypeOK, Undisturbed, ReadsWhole, ReadsShort
  <2>2. node' = goal[r].node \/ Stuck(r)
    BY <2>1, ArtifactType DEF RunInv, BareInv, Bare, Stuck, TypeOK
  <2>3. BinaryInv(r)'
    BY <2>1, <2>2 DEF BinaryInv, Stuck, OnWindows, NodeArtifact, Bare, NpmProvided
  <2> QED
    BY <2>1, <2>3, LateRun DEF BareInv, CopyInv, ToolSteps
<1> QED
  BY <1>1, <1>2, <1>3, <1>4, <1>5, <1>6, <1>7, <1>8, <1>9, <1>10, <1>11, <1>12,
     <1>13, <1>14 DEF NodeNext

-----------------------------------------------------------------------------
(***************************************************************************)
(* The steps of the tools' installers.                                     *)
(***************************************************************************)

LEMMA ToolFrame ==
    ASSUME TypeOK, NEW r \in Runs, ToolNext(r)
    PROVE  UNCHANGED <<node, goal>> /\ cache'[NodeArtifact(r)] = cache[NodeArtifact(r)]
<1>1. CASE ToolFetch(r) \/ ToolUnpackEOF(r)
  <2>1. /\ UNCHANGED <<node, goal>>
        /\ cache' = cache \/ \E c : cache' = [cache EXCEPT ![ToolRelease(r)] = c]
    BY <1>1 DEF ToolFetch, FetchStep, FetchCheck, FetchRefused, FetchCreate, FetchDone,
       FetchFails, ToolUnpackEOF, EvictStep, Recache
  <2> QED
    BY <2>1, ArtifactType, ArtifactsDiffer DEF TypeOK
<1>2. CASE ~(ToolFetch(r) \/ ToolUnpackEOF(r))
  BY <1>2 DEF ToolNext, ToolLock, ToolSkip, ToolRefused, ToolNeeded, ToolClearPart,
     ToolCleared, ToolUnpackPart, ToolUnpacked, ToolUnpackFails, ToolRename,
     ToolRenameSkipped, ToolCopyPart, ToolCopied, ToolCopyFails, NpmScripts,
     LinkExisting, LinkNew, LinkFails
<1> QED
  BY <1>1, <1>2

LEMMA ToolKeepsBinary ==
    ASSUME TypeOK, NEW r \in Runs, BinaryInv(r), ToolNext(r),
           pc[r] \in BinaryDone
    PROVE  BinaryInv(r)'
BY ToolFrame DEF BinaryInv, Stuck, OnWindows, NodeArtifact, Bare, NpmProvided

\* Among the tool's steps nothing is said of the Node installer but that the
\* binary is in place.
LEMMA ToolStepRun ==
    ASSUME NEW r \in Runs, BinaryInv(r)', ClearInv(r)', PackageInv(r)',
           pc'[r] \in ToolSteps
    PROVE  RunInv(r)'
BY DEF RunInv, BareInv, CopyInv, ToolSteps

LEMMA ToolRun ==
    ASSUME "clear" \notin Faults, TypeInv, OwnName, NEW r \in Runs, RunInv(r),
           ArchiveRun(r), ToolNext(r)
    PROVE  RunInv(r)'
<1> USE DEF TypeInv
<1> DEFINE json == <<"json", Tool(r)>>
           code == <<"code", Tool(r)>>
<1>a. Tool(r) \in Tools /\ Tool(r) \in Dirs /\ "package" \in Dirs /\ Tool(r) # "package"
  BY ArtifactType DEF Tool, Dirs, Tools
<1>b. UNCHANGED <<Tool(r), ToolRelease(r)>>
  BY ToolFrame DEF Tool, ToolRelease
<1>c. pc[r] \in BinaryDone => BinaryInv(r)'
  BY ToolKeepsBinary DEF RunInv
<1>1. CASE \/ ToolRefused(r) \/ ToolUnpackEOF(r) \/ ToolUnpackFails(r)
           \/ ToolCopyFails(r) \/ NpmScripts(r) \/ LinkExisting(r) \/ LinkNew(r)
           \/ LinkFails(r)
  <2>1. pc'[r] \in Resting
    BY <1>1 DEF ToolRefused, ToolUnpackEOF, EvictStep, ToolUnpackFails, ToolCopyFails, NpmScripts,
       LinkExisting, LinkNew, LinkFails, Return, Step, Goto, TypeOK, Resting
  <2> QED
    BY <2>1, EarlyRun
<1>2. CASE ToolLock(r) \/ ToolNeeded(r)
  <2>1. pc[r] \in BinaryDone /\ pc'[r] \in {"tool.check", "tool.fetch"}
    BY <1>2 DEF ToolLock, ToolNeeded, Acquire, Step, Goto, TypeOK, BinaryDone, ToolSteps
  <2> QED
    BY <1>c, <2>1, ToolStepRun DEF ClearInv, PackageInv, ToolSteps
<1>3. CASE ToolSkip(r)
  <2>1. /\ pc[r] = "tool.check" /\ pc'[r] = "tool.link"
        /\ UNCHANGED <<dir, goal>>
        /\ KeepsProvided(r) \/ VersionMatches(r)
    BY <1>3 DEF ToolSkip, Step, Goto, TypeOK
  <2>2. ASSUME goal[r].version # Provided PROVE ToolDir(r).json = ToolRelease(r)
    <3>1. ToolDir(r).json \in Releases /\ ToolDir(r).json[2] = goal[r].version
      BY <2>1, <2>2 DEF KeepsProvided, VersionMatches
    <3>2. ToolDir(r).json[1] = goal[r].tool
      BY <1>a, <3>1 DEF OwnName, ToolDir, Tool
    <3> QED
      BY <3>1, <3>2 DEF ToolRelease, Releases
  <2>3. PackageInv(r)'
    BY <1>b, <2>1, <2>2 DEF PackageInv, ToolDir
  <2> QED
    BY <1>c, <2>1, <2>3, ToolStepRun DEF ClearInv, ToolSteps, BinaryDone
<1>4. CASE ToolFetch(r)
  <2>1. \/ Kept(r, ToolRelease(r), "tool.fetch", "tool.save", "tool.clear")
        \/ Saved(r, ToolRelease(r), "tool.save", "tool.clear")
    BY <1>4, ArtifactType, FetchAlone DEF ToolFetch, ArchiveRun
  <2>2. /\ pc[r] \in {"tool.fetch", "tool.save"}
        /\ \/ pc'[r] \in {"failed", "tool.save"}
           \/ pc'[r] = "tool.clear" /\ wrote'[r] = {}
    BY <2>1 DEF Kept, Saved
  <2>3. CASE pc'[r] = "failed"
    BY <2>3, EarlyRun DEF Resting
  <2>4. CASE pc'[r] = "tool.save" \/ (pc'[r] = "tool.clear" /\ wrote'[r] = {})
    BY <1>c, <2>2, <2>4, ToolStepRun DEF ClearInv, PackageInv, ToolSteps, BinaryDone
  <2> QED
    BY <2>2, <2>3, <2>4
<1>5. CASE ToolClearPart(r)
  <2>1. PICK part \in Left(r) \ wrote[r] :
          /\ wrote' = [wrote EXCEPT ![r] = @ \cup {part}]
          /\ dir' = IF part[1] = "json" THEN [dir EXCEPT ![Tool(r)].json = None]
                                       ELSE [dir EXCEPT ![Tool(r)].code = {}]
    BY <1>5 DEF ToolClearPart
  <2>2. pc[r] = "tool.clear" /\ pc' = pc
    BY <1>5 DEF ToolClearPart
  <2>3. part = json \/ part = code
    BY DEF Left
  <2>4. wrote'[r] = wrote[r] \cup {part}
    BY <2>1 DEF TypeOK
  <2>5. /\ part = json => dir'[Tool(r)].json = None /\ dir'[Tool(r)].code = dir[Tool(r)].code
        /\ part = code => dir'[Tool(r)].code = {} /\ dir'[Tool(r)].json = dir[Tool(r)].json
    BY <1>a, <2>1 DEF TypeOK, Content
  <2>6. /\ json \in wrote'[r] => dir'[Tool(r)].json = None
        /\ code \in wrote'[r] => dir'[Tool(r)].code = {}
    BY <2>2, <2>3, <2>4, <2>5 DEF RunInv, ClearInv, ToolDir
  <2>7. ClearInv(r)'
    BY <1>b, <2>2, <2>6 DEF ClearInv, ToolDir
  <2> QED
    BY <1>c, <2>2, <2>7, ToolStepRun DEF PackageInv, ToolSteps, BinaryDone
<1>6. CASE ToolCleared(r)
  <2>1. /\ pc[r] = "tool.clear" /\ pc'[r] = "tool.unpack" /\ wrote'[r] = {}
        /\ UNCHANGED <<dir, goal>> /\ Left(r) \subseteq wrote[r]
    BY <1>6 DEF ToolCleared, Fault, Step, Goto, TypeOK
  <2>2. ToolDir(r).json = None
    BY <2>1 DEF RunInv, ClearInv, Left
  <2>3. ToolDir(r).code = {}
    BY <2>1 DEF RunInv, ClearInv, Left
  <2>4. ToolDir(r) = EmptyDir
    BY <1>a, <2>2, <2>3 DEF ToolDir, EmptyDir, TypeOK, Content
  <2>5. ClearInv(r)'
    BY <1>b, <2>1, <2>4 DEF ClearInv, ToolDir
  <2> QED
    BY <1>c, <2>1, <2>5, ToolStepRun DEF PackageInv, ToolSteps, BinaryDone
<1>7. CASE ToolUnpackPart(r)
  <2>1. PICK part \in {"json", "code"} :
          /\ wrote' = [wrote EXCEPT ![r] = @ \cup {<<part, "package">>}]
          /\ dir' = IF part = "json" THEN PutJson("package", ToolRelease(r))
                                     ELSE PutCode("package", {ToolRelease(r)})
    BY <1>7 DEF ToolUnpackPart, WritePart, Exactly
  <2>2. pc[r] = "tool.unpack" /\ pc' = pc
    BY <1>7 DEF ToolUnpackPart
  <2>3. wrote'[r] = wrote[r] \cup {<<part, "package">>}
    BY <2>1 DEF TypeOK
  <2>4. /\ dir'[Tool(r)] = dir[Tool(r)]
        /\ dir'["package"].json = IF part = "json" THEN ToolRelease(r) ELSE dir["package"].json
    BY <1>a, <2>1 DEF PutJson, PutCode, TypeOK, Content
  <2>5. ClearInv(r)'
    BY <1>b, <2>2, <2>4 DEF RunInv, ClearInv, ToolDir
  <2>6. PackageInv(r)'
    BY <1>b, <2>2, <2>3, <2>4 DEF RunInv, PackageInv
  <2> QED
    BY <1>c, <2>2, <2>5, <2>6, ToolStepRun DEF ToolSteps, BinaryDone
<1>8. CASE ToolUnpacked(r)
  <2>1. /\ pc[r] = "tool.unpack" /\ pc'[r] = "tool.rename"
        /\ UNCHANGED <<dir, goal>> /\ Wrote(r, "package")
    BY <1>8 DEF ToolUnpacked, Step, Goto, TypeOK
  <2>2. dir["package"].json = ToolRelease(r)
    BY <2>1 DEF RunInv, PackageInv, Wrote
  <2>3. ClearInv(r)' /\ PackageInv(r)'
    BY <1>b, <2>1, <2>2 DEF RunInv, ClearInv, PackageInv, ToolDir
  <2> QED
    BY <1>c, <2>1, <2>3, ToolStepRun DEF ToolSteps, BinaryDone
<1>9. CASE ToolRename(r)
  <2>1. /\ pc[r] = "tool.rename" /\ UNCHANGED goal
        /\ \/ /\ pc'[r] = "tool.link"
              /\ dir' = [dir EXCEPT ![Tool(r)] = dir["package"], !["package"] = EmptyDir]
           \/ pc'[r] = "tool.copy" /\ dir' = dir /\ wrote'[r] = {}
    BY <1>9 DEF ToolRename, Step, Goto, TypeOK
  <2>2. dir["package"].json = ToolRelease(r)
    BY <2>1 DEF RunInv, PackageInv
  <2>3. pc'[r] = "tool.link" => dir'[Tool(r)] = dir["package"]
    BY <1>a, <2>1 DEF TypeOK
  <2>4. PackageInv(r)'
    BY <1>b, <2>1, <2>2, <2>3 DEF PackageInv, ToolDir
  <2> QED
    BY <1>c, <2>1, <2>4, ToolStepRun DEF ClearInv, ToolSteps, BinaryDone
<1>10. CASE ToolRenameSkipped(r)
  <2>1. pc[r] = "tool.rename" /\ ~RenameApplies(r)
    BY <1>10 DEF ToolRenameSkipped, Step, Goto
  <2>2. ToolDir(r) = EmptyDir /\ dir["package"].json = ToolRelease(r)
    BY <2>1 DEF RunInv, ClearInv, PackageInv
  <2>3. ToolRelease(r) \in Releases
    BY <2>1, ReleaseType DEF InstallsRelease, Unpacking
  <2>4. dir["package"] # EmptyDir
    BY <2>2, <2>3, AbsentAssumption DEF EmptyDir
  <2> QED
    BY <2>1, <2>2, <2>4 DEF RenameApplies
<1>11. CASE ToolCopyPart(r)
  <2>1. PICK part \in {"json", "code"} :
          /\ wrote' = [wrote EXCEPT ![r] = @ \cup {<<part, Tool(r)>>}]
          /\ dir' = IF part = "json" THEN PutJson(Tool(r), dir["package"].json)
                                     ELSE PutCode(Tool(r), dir["package"].code)
    BY <1>11 DEF ToolCopyPart, WritePart
  <2>2. pc[r] = "tool.copy" /\ pc' = pc
    BY <1>11 DEF ToolCopyPart
  <2>3. wrote'[r] = wrote[r] \cup {<<part, Tool(r)>>}
    BY <2>1 DEF TypeOK
  <2>4. /\ dir'["package"] = dir["package"]
        /\ dir'[Tool(r)].json = IF part = "json" THEN dir["package"].json
                                                 ELSE dir[Tool(r)].json
    BY <1>a, <2>1 DEF PutJson, PutCode, TypeOK, Content
  <2>5. PackageInv(r)'
    BY <1>b, <2>2, <2>3, <2>4 DEF RunInv, PackageInv, ToolDir
  <2> QED
    BY <1>c, <2>2, <2>5, ToolStepRun DEF ClearInv, ToolSteps, BinaryDone
<1>12. CASE ToolCopied(r)
  <2>1. /\ pc[r] = "tool.copy" /\ pc'[r] = "tool.link"
        /\ UNCHANGED <<dir, goal>> /\ Wrote(r, Tool(r))
    BY <1>12 DEF ToolCopied, Step, Goto, TypeOK
  <2>2. ToolDir(r).json = ToolRelease(r)
    BY <2>1 DEF RunInv, PackageInv, Wrote
  <2>3. PackageInv(r)'
    BY <1>b, <2>1, <2>2 DEF PackageInv, ToolDir
  <2> QED
    BY <1>c, <2>1, <2>3, ToolStepRun DEF ClearInv, ToolSteps, BinaryDone
<1> QED
  BY <1>1, <1>2, <1>3, <1>4, <1>5, <1>6, <1>7, <1>8, <1>9, <1>10, <1>11, <1>12
     DEF ToolNext

-----------------------------------------------------------------------------
(***************************************************************************)
(* A package.json is that of its directory's tool.                         *)
(***************************************************************************)

LEMMA OwnNameKept ==
    ASSUME TypeOK, OwnName, NEW u \in Tools, NEW content,
           content.json \in Releases => content.json[1] = u,
           dir' \in {PutJson(u, content.json), PutCode(u, content.code)}
    PROVE  OwnName'
<1> SUFFICES ASSUME NEW t \in Tools, dir'[t].json \in Releases
             PROVE  dir'[t].json[1] = t
  BY DEF OwnName
<1>1. t \in Dirs /\ u \in Dirs
  BY DEF Dirs
<1>2. CASE dir' = PutJson(u, content.json)
  BY <1>1, <1>2 DEF OwnName, PutJson, TypeOK, Content
<1>3. CASE dir' = PutCode(u, content.code)
  <2>1. dir'[t].json = dir[t].json
    BY <1>1, <1>3 DEF PutCode, TypeOK, Content
  <2> QED
    BY <2>1 DEF OwnName
<1> QED
  BY <1>2, <1>3

LEMMA NodeOwnName ==
    ASSUME TypeOK, OwnName, NEW r \in Runs, NodeNext(r)
    PROVE  OwnName'
<1>1. CASE NodeCopyPart(r)
  <2>1. PICK t \in BundledTools :
          dir' \in {PutJson(t, BundledDir(r, t).json), PutCode(t, BundledDir(r, t).code)}
    BY <1>1 DEF NodeCopyPart, WritePart
  <2>2. t \in Tools /\ BundledDir(r, t).json[1] = t
    BY DEF BundledTools, Tools, BundledDir, Exactly
  <2> QED
    BY <2>1, <2>2, OwnNameKept
<1>2. CASE ~NodeCopyPart(r)
  <2>1. dir' = dir
    BY <1>2 DEF NodeNext, NodeLock, NodeSkip, NodeRefused, NodeNeeded, NodeFetch,
       NodeUnpackPart, NodeUnpacked, NodeUnpackEOF, NodeUnpackFails, NodeRemoveOld,
       NodeRenameOver, NodeBinaryMissing, NodeMove, NodeReplaceFails, NodeWithoutNpm,
       NodeTooOld, NodeKeepsNpm, NodeCopied, NodeFinishFails, NodeScripts, NodeTidy,
       ExeOpened, ExeWritten, ExeFails
  <2> QED
    BY <2>1 DEF OwnName
<1> QED
  BY <1>1, <1>2

LEMMA ToolOwnName ==
    ASSUME TypeInv, OwnName, NEW r \in Runs, RunInv(r), ToolNext(r)
    PROVE  OwnName'
<1> USE DEF TypeInv
<1>a. Tool(r) \in Tools /\ Tool(r) \in Dirs /\ ToolRelease(r)[1] = Tool(r)
  BY ArtifactType DEF Tool, Dirs, ToolRelease
<1>b. \A t \in Tools : t \in Dirs /\ t # "package"
  BY DEF Tools, Dirs
<1>1. CASE ToolClearPart(r)
  <2>1. \/ dir' = [dir EXCEPT ![Tool(r)].json = None]
        \/ dir' = [dir EXCEPT ![Tool(r)].code = {}]
    BY <1>1 DEF ToolClearPart
  <2>2. \A t \in Tools : dir'[t].json \in {dir[t].json, None}
    BY <1>b, <2>1 DEF TypeOK, Content
  <2> QED
    BY <2>2, AbsentAssumption DEF OwnName
<1>2. CASE ToolUnpackPart(r) \/ ToolUnpackEOF(r)
  <2>1. \A t \in Tools : dir'[t] = dir[t]
    BY <1>2, <1>b DEF ToolUnpackPart, ToolUnpackEOF, WritePart, PutJson, PutCode, TypeOK
  <2> QED
    BY <2>1 DEF OwnName
<1>3. CASE ToolRename(r)
  <2>1. \/ dir' = dir
        \/ dir' = [dir EXCEPT ![Tool(r)] = dir["package"], !["package"] = EmptyDir]
    BY <1>3 DEF ToolRename
  <2>2. dir["package"].json = ToolRelease(r)
    BY <1>3 DEF ToolRename, Step, Goto, RunInv, PackageInv
  <2>3. ASSUME NEW t \in Tools
        PROVE  dir'[t] = dir[t] \/ (t = Tool(r) /\ dir'[t] = dir["package"])
    BY <1>a, <1>b, <2>1 DEF TypeOK
  <2> QED
    BY <1>a, <2>2, <2>3 DEF OwnName
<1>4. CASE ToolCopyPart(r)
  <2>1. dir' \in {PutJson(Tool(r), dir["package"].json), PutCode(Tool(r), dir["package"].code)}
    BY <1>4 DEF ToolCopyPart, WritePart
  <2>2. dir["package"].json = ToolRelease(r)
    BY <1>4 DEF ToolCopyPart, RunInv, PackageInv
  <2> QED
    BY <1>a, <2>1, <2>2, OwnNameKept
<1>5. CASE ~(ToolClearPart(r) \/ ToolUnpackPart(r) \/ ToolUnpackEOF(r) \/ ToolRename(r)
             \/ ToolCopyPart(r))
  <2>1. dir' = dir
    BY <1>5 DEF ToolNext, ToolLock, ToolSkip, ToolRefused, ToolNeeded, ToolFetch,
       ToolCleared, ToolUnpacked, ToolUnpackFails, ToolRenameSkipped, ToolCopied,
       ToolCopyFails, NpmScripts, LinkExisting, LinkNew, LinkFails
  <2> QED
    BY <2>1 DEF OwnName
<1> QED
  BY <1>1, <1>2, <1>3, <1>4, <1>5

-----------------------------------------------------------------------------
(***************************************************************************)
(* The invariant.                                                          *)
(***************************************************************************)

LEMMA SerialInit == Init => SerialInv
<1> SUFFICES ASSUME Init PROVE SerialInv
  OBVIOUS
<1>1. OwnName
  BY AbsentAssumption DEF Init, OwnName, EmptyDir, Dirs
<1>2. ASSUME NEW r \in Runs PROVE RunInv(r)
  BY DEF Init, RunInv, BinaryInv, BareInv, CopyInv, ClearInv, PackageInv, BinaryDone,
     ToolSteps
<1>3. ArchiveInv
  BY AbsentAssumption DEF Init, ArchiveInv, WriterInv, ArchiveRun, Reading
<1> QED
  BY <1>1, <1>2, <1>3, InitInv DEF SerialInv

LEMMA SerialStart ==
    ASSUME SerialInv, OneAtATime', NEW r \in Runs, StartGoal(r)
    PROVE  OwnName' /\ ArchiveInv' /\ \A s \in Runs : RunInv(s)'
<1>1. pc'[r] = "node.lock" /\ dir' = dir
  BY DEF StartGoal, SerialInv, LockInv, TypeInv, TypeOK
<1>2. OwnName'
  BY <1>1 DEF SerialInv, OwnName
<1>3. Active(r)'
  BY <1>1 DEF Active, Resting
<1>4. ASSUME NEW s \in Runs PROVE RunInv(s)'
  BY <1>1, <1>3, RestingRun, WaitingRun DEF OneAtATime
<1>5. ArchiveInv'
  <2>1. /\ pc[r] \in Resting /\ UNCHANGED <<cache, wrote>>
        /\ \A s \in Runs : s # r => pc'[s] = pc[s] /\ goal'[s] = goal[s]
    BY DEF StartGoal, SerialInv, LockInv, TypeInv, TypeOK
  <2>2. \A a \in Artifacts : cache[a] # r
    BY <2>1 DEF SerialInv, ArchiveInv, WriterInv, Resting
  <2>3. WriterInv'
    BY <2>1, <2>2 DEF SerialInv, ArchiveInv, WriterInv, NodeArtifact, Bare, OnWindows,
       NpmProvided, ToolRelease
  <2>4. ASSUME NEW s \in Runs PROVE ArchiveRun(s)'
    BY <1>1, <1>3 DEF OneAtATime, Active, Resting, ArchiveRun, Reading
  <2> QED
    BY <2>3, <2>4 DEF ArchiveInv
<1> QED
  BY <1>2, <1>4, <1>5

LEMMA SerialCrash ==
    ASSUME SerialInv, OneAtATime, NEW p \in Procs, Crash(p)
    PROVE  OwnName' /\ ArchiveInv' /\ \A s \in Runs : RunInv(s)'
<1> DEFINE mine == {r \in Runs : ProcOf(r) = p /\ pc[r] \notin Resting}
<1>1. /\ mine # {}
      /\ pc' = [r \in Runs |-> IF r \in mine THEN "failed" ELSE pc[r]]
      /\ \E torn \in SUBSET Tools :
           dir' = [d \in Dirs |->
                     IF d \in torn THEN [json |-> Torn, code |-> dir[d].code] ELSE dir[d]]
  BY DEF Crash
<1>2. ASSUME NEW t \in Tools PROVE dir'[t].json \in {dir[t].json, Torn}
  BY <1>1 DEF Dirs
<1>3. OwnName'
  BY <1>2, AbsentAssumption DEF SerialInv, OwnName
<1>4. ASSUME NEW s \in Runs PROVE ~Active(s)'
  BY <1>1 DEF OneAtATime, Active, Resting
<1>5. ArchiveInv'
  <2>1. cache' = [a \in Artifacts |-> IF cache[a] \in mine THEN "torn" ELSE cache[a]]
    BY DEF Crash
  <2>2. ASSUME NEW a \in Artifacts, NEW s \in Runs PROVE cache'[a] # s
    <3>1. cache[a] = s => Active(s)
      BY DEF SerialInv, ArchiveInv, WriterInv, Active, Resting
    <3>2. Active(s) => s \in mine
      BY <1>1 DEF OneAtATime, Active
    <3> QED
      BY <2>1, <3>1, <3>2, AbsentAssumption
  <2>3. ASSUME NEW s \in Runs PROVE ArchiveRun(s)'
    BY <1>4 DEF Active, Resting, ArchiveRun, Reading
  <2> QED
    BY <2>2, <2>3 DEF ArchiveInv, WriterInv
<1> QED
  BY <1>3, <1>4, <1>5, RestingRun

LEMMA SerialWork ==
    ASSUME "clear" \notin Faults, SerialInv, OneAtATime, NEW r \in Runs, Work(r)
    PROVE  OwnName' /\ ArchiveInv' /\ \A s \in Runs : RunInv(s)'
<1>1. /\ TypeInv /\ TypeOK /\ RunInv(r) /\ OwnName
      /\ ArchiveInv /\ ArchiveRun(r)
  BY DEF SerialInv, LockInv, TypeInv, ArchiveInv
<1>a. Undisturbed(r)
  BY <1>1, Quiet
<1>2. RunInv(r)'
  BY <1>1, <1>a, NodeRun, ToolRun DEF Work
<1>3. OwnName'
  BY <1>1, NodeOwnName, ToolOwnName DEF Work
<1>4. ASSUME NEW s \in Runs, s # r PROVE RunInv(s)'
  BY <1>1, <1>4, OthersRest, RestingRun
<1>5. ArchiveInv'
  BY <1>1, ArchiveWork
<1> QED
  BY <1>2, <1>3, <1>4, <1>5

LEMMA SerialNext ==
    ASSUME "clear" \notin Faults
    PROVE  SerialInv /\ OneAtATime /\ OneAtATime' /\ [Next]_vars => SerialInv'
<1> SUFFICES ASSUME SerialInv, OneAtATime, OneAtATime', [Next]_vars PROVE SerialInv'
  OBVIOUS
<1>1. LockInv'
  BY NextInv DEF SerialInv
<1>2. ASSUME UNCHANGED vars PROVE OwnName' /\ ArchiveInv' /\ \A s \in Runs : RunInv(s)'
  BY <1>2 DEF vars, SerialInv, OwnName, RunInv, BinaryInv, BareInv, CopyInv, ClearInv,
     PackageInv, Stuck, OnWindows, NodeArtifact, Bare, NpmProvided, CopiedJson,
     CopiedCode, BundledDir, ToolDir, ToolRelease, Tool, ArchiveInv, WriterInv, ArchiveRun
<1>3. ASSUME Next PROVE OwnName' /\ ArchiveInv' /\ \A s \in Runs : RunInv(s)'
  BY <1>3, SerialStart, SerialCrash, SerialWork DEF Next
<1> QED
  BY <1>1, <1>2, <1>3 DEF SerialInv

LEMMA Serial ==
    ASSUME "clear" \notin Faults
    PROVE  Spec /\ []OneAtATime => []SerialInv
<1>1. SerialInv /\ OneAtATime /\ OneAtATime' /\ [Next]_vars => SerialInv'
  BY SerialNext
<1> QED
  BY <1>1, SerialInit, PTL DEF Spec

\* A goal with npm "provided" that has put a Node.js distribution in place has
\* put the npm and corepack it bundles there, and npm's launchers, whatever was
\* installed, left over, torn or interrupted before: goals that do not overlap,
\* on disks that let directories be deleted.
THEOREM ProvidedNpmArrives ==
    ASSUME "clear" \notin Faults
    PROVE  Spec /\ []OneAtATime => []ProvidedArrives
<1>1. SerialInv => ProvidedArrives
  BY DEF SerialInv, RunInv, CopyInv, CopiedJson, CopiedCode, ProvidedArrives
<1> QED
  BY <1>1, Serial, PTL

\* A goal succeeds at its very last step, which only writes a launcher.
LEMMA SuccessIsLast ==
    ASSUME TypeOK, [Next]_vars, NEW r \in Runs, Reports(r)
    PROVE  /\ NpmScripts(r) \/ LinkExisting(r) \/ LinkNew(r)
           /\ pc[r] = "tool.link" /\ UNCHANGED <<node, dir, goal>>
<1>1. PICK s \in Runs : NpmScripts(s) \/ LinkExisting(s) \/ LinkNew(s)
  <2>1. CASE UNCHANGED vars
    BY <2>1 DEF vars, Reports
  <2>2. ASSUME NEW s \in Runs, StartGoal(s) PROVE FALSE
    BY <2>2 DEF StartGoal, Reports, TypeOK
  <2>3. ASSUME NEW p \in Procs, Crash(p) PROVE FALSE
    BY <2>3 DEF Crash, Reports
  <2>4. ASSUME NEW s \in Runs, NodeNext(s) PROVE FALSE
    BY <2>4 DEF NodeNext, NodeLock, NodeSkip, NodeRefused, NodeNeeded,
       NodeFetch, NodeUnpackPart, NodeUnpacked, NodeUnpackEOF, NodeUnpackFails,
       NodeRemoveOld, NodeRenameOver, NodeBinaryMissing, NodeMove, NodeReplaceFails,
       NodeWithoutNpm, NodeTooOld, NodeKeepsNpm, NodeCopyPart, NodeCopied,
       NodeFinishFails, NodeScripts, NodeTidy, ExeOpened, ExeWritten, ExeFails,
       Acquire, FetchStep, FetchCheck, FetchRefused,
       FetchCreate, FetchDone, FetchFails, EvictStep, Recache, Return, Step, Goto, Reports, TypeOK
  <2>5. ASSUME NEW s \in Runs, ToolNext(s)
        PROVE  NpmScripts(s) \/ LinkExisting(s) \/ LinkNew(s)
    BY <2>5 DEF ToolNext, ToolLock, ToolSkip, ToolRefused, ToolNeeded,
       ToolFetch, ToolClearPart, ToolCleared, ToolUnpackPart, ToolUnpacked,
       ToolUnpackEOF, ToolUnpackFails, ToolRename, ToolRenameSkipped, ToolCopyPart,
       ToolCopied, ToolCopyFails, LinkFails, Acquire, FetchStep, FetchCheck, FetchRefused,
       FetchCreate, FetchDone, FetchFails, EvictStep, Recache, Return, Step, Goto,
       Reports, TypeOK
  <2> QED
    BY <2>1, <2>2, <2>3, <2>4, <2>5 DEF Next, Work
<1>2. /\ pc[s] = "tool.link" /\ UNCHANGED <<node, dir, goal>>
      /\ pc' = [pc EXCEPT ![s] = "ok"]
  BY <1>1 DEF NpmScripts, LinkExisting, LinkNew, Return, Step, Goto
<1>3. s = r
  BY <1>2 DEF Reports, TypeOK
<1> QED
  BY <1>1, <1>2, <1>3

LEMMA ReportStep ==
    ASSUME SerialInv, [Next]_vars, NEW r \in Runs, Reports(r), goal[r].version # Provided
    PROVE  /\ ToolDir(r)'.json = ToolRelease(r)
           /\ node' = goal[r].node \/ Stuck(r)
<1>1. pc[r] = "tool.link" /\ UNCHANGED <<node, dir, goal>>
  BY SuccessIsLast DEF SerialInv, LockInv, TypeInv
<1>2. ToolDir(r).json = ToolRelease(r)
  BY <1>1 DEF SerialInv, RunInv, PackageInv
<1>3. node = goal[r].node \/ Stuck(r)
  BY <1>1 DEF SerialInv, RunInv, BinaryInv, BinaryDone, ToolSteps
<1> QED
  BY <1>1, <1>2, <1>3 DEF ToolDir, Tool

\* A goal that reports success has its tool at the version it asked for and the
\* Node.js release it asked for (unless Windows keeps a truncated one), through
\* upgrades, downgrades, crashes, full disks, torn and refused downloads and
\* renames that fail: goals that do not overlap, on disks that let directories
\* be deleted.
THEOREM SuccessLeavesVersion ==
    ASSUME "clear" \notin Faults
    PROVE  Spec /\ []OneAtATime => SuccessHasVersion
<1>1. SerialInv /\ [Next]_vars
        => [\A r \in Runs : Reports(r) /\ goal[r].version # Provided
              => /\ ToolDir(r)'.json = ToolRelease(r)
                 /\ node' = goal[r].node \/ Stuck(r)]_vars
  BY ReportStep
<1> QED
  BY <1>1, Serial, PTL DEF Spec, SuccessHasVersion

-----------------------------------------------------------------------------
(***************************************************************************)
(* Exact directories.  With nothing but downloads going wrong, and every   *)
(* goal asking for a version, a tool's directory is missing or is a whole  *)
(* release, but while the run at work clears it; and "package" is missing  *)
(* but while a release is on its way through it.                           *)
(***************************************************************************)

OnlyDownloadsFail == Faults \subseteq {"refuse", "torn"}
NothingProvided == \A g \in Goals : g.version # Provided

IsExact(t) == dir[t] = EmptyDir \/ \E v \in Versions : dir[t] = Exactly(<<t, v>>)

DirsInv ==
    /\ \A t \in Tools : IsExact(t) \/ \E r \in Runs : pc[r] = "tool.clear" /\ Tool(r) = t
    /\ dir["package"] = EmptyDir \/ \E r \in Runs : pc[r] \in {"tool.unpack", "tool.rename"}

\* What the run at work finds in place.
ExactRun(r) ==
    /\ pc[r] \notin {"node.copy", "node.scripts", "tool.copy"}
    /\ pc[r] \in {"tool.clear", "tool.unpack"} => cache[ToolRelease(r)] # "absent"
    /\ pc[r] = "tool.unpack" =>
         /\ dir["package"].code \subseteq {ToolRelease(r)}
         /\ <<"code", "package">> \in wrote[r] => dir["package"].code = {ToolRelease(r)}
    /\ pc[r] = "tool.rename" => dir["package"] = Exactly(ToolRelease(r))
    /\ pc[r] = "tool.link" => ToolDir(r) = Exactly(ToolRelease(r))

ExactInv == DirsInv /\ \A r \in Runs : ExactRun(r)

\* One launcher for each tool: pnpm's entry point does not change.
Entry(t) == CASE t = "npm" -> "script"
              [] t = "corepack" -> "js"
              [] t = "pnpm" -> IF EsmFrom = {} THEN "cjs" ELSE "mjs"

LauncherInv == \A t \in Tools : launcher[t] \in {None, Entry(t)}

LEMMA VersionAsked ==
    ASSUME TypeOK, NothingProvided, NEW r \in Runs
    PROVE  /\ goal[r].version # Provided /\ ~NpmProvided(r)
           /\ goal[r].version \in Versions
           /\ Tool(r) \in Tools /\ ToolRelease(r) = <<Tool(r), goal[r].version>>
           /\ ToolRelease(r) \in Releases
<1>1. goal[r].version # Provided
  BY DEF TypeOK, NothingProvided
<1> QED
  BY <1>1, ArtifactType DEF NpmProvided, Tool, ToolRelease, Releases

LEMMA ExactReleases ==
    /\ \A rel \in Releases : Exactly(rel) # EmptyDir
    /\ \A rel, other : Exactly(rel) = Exactly(other) => rel = other
BY DEF Exactly, EmptyDir

\* Nobody but the run at work is on the way to anything.
LEMMA DirsAlone ==
    ASSUME OneAtATime, NEW r \in Runs, Active(r), DirsInv
    PROVE  /\ \A t \in Tools : IsExact(t) \/ (pc[r] = "tool.clear" /\ Tool(r) = t)
           /\ dir["package"] = EmptyDir \/ pc[r] \in {"tool.unpack", "tool.rename"}
BY DEF OneAtATime, Active, Resting, DirsInv

LEMMA RestingExact ==
    ASSUME NEW r \in Runs, pc'[r] \in Resting \cup Waiting \cup Early \cup
                {"node.npm", "node.tidy", "node.exe", "node.write", "tool.check", "tool.fetch",
                 "tool.save"}
    PROVE  ExactRun(r)'
BY DEF ExactRun, Resting, Waiting, Early

LEMMA NodeExact ==
    ASSUME NothingProvided, TypeOK, NEW r \in Runs, ExactRun(r), NodeNext(r)
    PROVE  /\ UNCHANGED <<dir, goal>>
           /\ ExactRun(r)'
           /\ pc[r] \notin ToolSteps /\ pc'[r] \notin ToolSteps
           /\ pc'[r] \notin {"ok", "idle"}
<1>a. /\ pc[r] \notin {"node.copy", "node.scripts"}
      /\ ~NpmProvided(r)
  BY VersionAsked DEF ExactRun
<1>1. UNCHANGED <<dir, goal>>
  BY <1>a DEF NodeNext, NodeLock, NodeSkip, NodeRefused, NodeNeeded, NodeFetch,
     NodeUnpackPart, NodeUnpacked, NodeUnpackEOF, NodeUnpackFails, NodeRemoveOld,
     NodeRenameOver, NodeBinaryMissing, NodeMove, NodeReplaceFails, NodeWithoutNpm,
     NodeTooOld, NodeKeepsNpm, NodeCopyPart, NodeCopied, NodeFinishFails, NodeScripts,
     NodeTidy, ExeOpened, ExeWritten, ExeFails
<1>2. /\ pc[r] \notin ToolSteps
      /\ pc'[r] \in {"failed"} \cup Waiting \cup Early \cup
                    {"node.npm", "node.tidy", "node.exe", "node.write"}
  BY <1>a DEF NodeNext, NodeLock, NodeSkip, NodeRefused, NodeNeeded, NodeFetch,
     NodeUnpackPart, NodeUnpacked, NodeUnpackEOF, NodeUnpackFails, NodeRemoveOld,
     NodeRenameOver, NodeBinaryMissing, NodeMove, NodeReplaceFails, NodeWithoutNpm,
     NodeTooOld, NodeKeepsNpm, NodeCopyPart, NodeCopied, NodeFinishFails, NodeScripts,
     NodeTidy, ExeOpened, ExeWritten, ExeFails, Acquire, FetchStep, FetchCheck, FetchRefused,
     FetchCreate, FetchDone, FetchFails, EvictStep, Recache, Return, Step, Goto,
     TypeOK, Waiting, Early, ToolSteps
<1>3. ExactRun(r)'
  BY <1>2, RestingExact DEF Resting
<1> QED
  BY <1>1, <1>2, <1>3 DEF Waiting, Early, ToolSteps

\* One lemma per way a tool's step leaves the directories.
LEMMA DirsKept ==
    ASSUME OneAtATime, NEW r \in Runs, Active(r), DirsInv, UNCHANGED <<dir, goal>>,
           /\ pc[r] = "tool.clear" => pc'[r] = "tool.clear" \/ IsExact(Tool(r))
           /\ pc[r] \in {"tool.unpack", "tool.rename"}
                => pc'[r] \in {"tool.unpack", "tool.rename"} \/ dir["package"] = EmptyDir
    PROVE  DirsInv'
<1>1. ASSUME NEW t \in Tools
      PROVE  IsExact(t)' \/ \E s \in Runs : pc'[s] = "tool.clear" /\ Tool(s)' = t
  BY DirsAlone DEF IsExact, Tool
<1>2. dir'["package"] = EmptyDir \/ \E s \in Runs : pc'[s] \in {"tool.unpack", "tool.rename"}
  BY DirsAlone
<1> QED
  BY <1>1, <1>2 DEF DirsInv

LEMMA ToolExact ==
    ASSUME OnlyDownloadsFail, NothingProvided, TypeInv, OwnName, OneAtATime,
           NEW r \in Runs, RunInv(r), RunInv(r)', ArchiveRun(r), Undisturbed(r),
           ExactRun(r), DirsInv, ToolNext(r)
    PROVE  DirsInv' /\ ExactRun(r)'
<1> USE DEF TypeInv
<1>a. /\ Tool(r) \in Tools /\ Tool(r) \in Dirs /\ "package" \in Dirs /\ Tool(r) # "package"
      /\ \A t \in Tools : t \in Dirs /\ t # "package"
  BY ArtifactType DEF Tool, Dirs, Tools
<1>b. /\ UNCHANGED <<Tool(r), ToolRelease(r), goal>>
      /\ Active(r)
  BY ToolFrame, WorkIsActive DEF Tool, ToolRelease, Work
<1>c. ~Fault("disk") /\ ~Fault("rename") /\ ~Fault("clear")
  BY DEF Fault, OnlyDownloadsFail
<1>d. pc[r] # "tool.copy"
  BY DEF ExactRun
<1>1. CASE \/ ToolLock(r) \/ ToolNeeded(r) \/ ToolRefused(r)
           \/ NpmScripts(r) \/ LinkExisting(r) \/ LinkNew(r) \/ LinkFails(r)
  <2>1. /\ UNCHANGED dir /\ pc[r] \notin {"tool.clear", "tool.unpack", "tool.rename"}
        /\ pc'[r] \in Resting \cup {"tool.check", "tool.fetch"}
    BY <1>1 DEF ToolLock, ToolNeeded, ToolRefused, NpmScripts, LinkExisting, LinkNew,
       LinkFails, Acquire, Return, Step, Goto, TypeOK, Resting
  <2> QED
    BY <1>b, <2>1, DirsKept, RestingExact
<1>2. CASE ToolUnpackFails(r) \/ ToolCopyPart(r) \/ ToolCopied(r) \/ ToolCopyFails(r)
  BY <1>2, <1>c, <1>d DEF ToolUnpackFails, ToolCopyPart, ToolCopied, ToolCopyFails,
     Return, Step, Goto, ExactRun, Undisturbed, ReadsNothing
<1>3. CASE ToolSkip(r)
  <2>1. /\ pc[r] = "tool.check" /\ pc'[r] = "tool.link" /\ UNCHANGED dir
        /\ VersionMatches(r)
    BY <1>3, VersionAsked DEF ToolSkip, KeepsProvided, Step, Goto, TypeOK
  <2>2. DirsInv'
    BY <1>b, <2>1, DirsKept
  <2>3. PICK v \in Versions : ToolDir(r) = Exactly(<<Tool(r), v>>)
    BY <1>a, <1>b, <2>1, DirsAlone, AbsentAssumption
       DEF IsExact, ToolDir, VersionMatches, EmptyDir
  <2>4. v = goal[r].version
    BY <2>1, <2>3 DEF VersionMatches, Exactly
  <2>5. ToolDir(r) = Exactly(ToolRelease(r))
    BY <2>3, <2>4, VersionAsked
  <2>6. ExactRun(r)'
    BY <1>b, <2>1, <2>5 DEF ExactRun, ToolDir
  <2> QED
    BY <2>2, <2>6
<1>4. CASE ToolFetch(r)
  <2>a. \/ Kept(r, ToolRelease(r), "tool.fetch", "tool.save", "tool.clear")
        \/ Saved(r, ToolRelease(r), "tool.save", "tool.clear")
    BY <1>4, ArtifactType, FetchAlone DEF ToolFetch, ArchiveRun
  <2>1. /\ pc[r] \in {"tool.fetch", "tool.save"} /\ UNCHANGED dir
        /\ \/ pc'[r] \in {"failed", "tool.save"}
           \/ pc'[r] = "tool.clear" /\ cache'[ToolRelease(r)] # "absent"
    BY <1>4, <2>a, ArtifactType DEF ToolFetch, Kept, Saved, TypeOK
  <2>2. DirsInv'
    BY <1>b, <2>1, DirsKept
  <2>3. ExactRun(r)'
    BY <1>b, <2>1 DEF ExactRun
  <2> QED
    BY <2>2, <2>3
<1>5. CASE ToolClearPart(r)
  <2>1. /\ pc[r] = "tool.clear" /\ pc'[r] = "tool.clear" /\ UNCHANGED cache
        /\ \/ dir' = [dir EXCEPT ![Tool(r)].json = None]
           \/ dir' = [dir EXCEPT ![Tool(r)].code = {}]
    BY <1>5 DEF ToolClearPart
  <2>2. ASSUME NEW d \in Dirs, d # Tool(r) PROVE dir'[d] = dir[d]
    BY <1>a, <2>1, <2>2 DEF TypeOK
  <2>3. ASSUME NEW t \in Tools
        PROVE  IsExact(t)' \/ \E s \in Runs : pc'[s] = "tool.clear" /\ Tool(s)' = t
    BY <1>a, <1>b, <2>1, <2>2, DirsAlone DEF IsExact
  <2>4. dir'["package"] = EmptyDir
    BY <1>a, <1>b, <2>1, <2>2, DirsAlone
  <2>5. ExactRun(r)'
    BY <1>b, <2>1 DEF ExactRun
  <2> QED
    BY <2>3, <2>4, <2>5 DEF DirsInv
<1>6. CASE ToolCleared(r)
  <2>1. /\ pc[r] = "tool.clear" /\ pc'[r] = "tool.unpack" /\ wrote'[r] = {}
        /\ UNCHANGED <<dir, cache>>
    BY <1>6 DEF ToolCleared, Step, Goto, TypeOK
  <2>2. IsExact(Tool(r))
    BY <1>b, <2>1 DEF RunInv, ClearInv, ToolDir, IsExact
  <2>3. DirsInv'
    BY <1>b, <2>1, <2>2, DirsKept
  <2>4. dir["package"] = EmptyDir
    BY <1>b, <2>1, DirsAlone
  <2>5. ExactRun(r)'
    BY <1>b, <2>1, <2>4 DEF ExactRun, EmptyDir
  <2> QED
    BY <2>3, <2>5
<1>7. CASE ToolUnpackPart(r)
  <2>1. PICK part \in {"json", "code"} :
          /\ wrote' = [wrote EXCEPT ![r] = @ \cup {<<part, "package">>}]
          /\ dir' = IF part = "json" THEN PutJson("package", ToolRelease(r))
                                     ELSE PutCode("package", {ToolRelease(r)})
    BY <1>7 DEF ToolUnpackPart, WritePart, Exactly
  <2>2. pc[r] = "tool.unpack" /\ UNCHANGED <<pc, cache>>
    BY <1>7 DEF ToolUnpackPart
  <2>3. wrote'[r] = wrote[r] \cup {<<part, "package">>}
    BY <2>1 DEF TypeOK
  <2>4. /\ \A t \in Tools : dir'[t] = dir[t]
        /\ dir'["package"].code = IF part = "json" THEN dir["package"].code
                                  ELSE dir["package"].code \cup {ToolRelease(r)}
    BY <1>a, <2>1 DEF PutJson, PutCode, TypeOK, Content
  <2>5. DirsInv'
    BY <1>b, <2>2, <2>4, DirsAlone DEF DirsInv, IsExact
  <2>6. ExactRun(r)'
    BY <1>b, <2>2, <2>3, <2>4 DEF ExactRun
  <2> QED
    BY <2>5, <2>6
<1>8. CASE ToolUnpacked(r)
  <2>1. /\ pc[r] = "tool.unpack" /\ pc'[r] = "tool.rename" /\ UNCHANGED dir
        /\ Wrote(r, "package")
    BY <1>8 DEF ToolUnpacked, Step, Goto, TypeOK
  <2>2. DirsInv'
    BY <1>b, <2>1, DirsKept
  <2>3. /\ dir["package"].json = ToolRelease(r)
        /\ dir["package"].code = {ToolRelease(r)}
    BY <2>1 DEF RunInv, PackageInv, ExactRun, Wrote
  <2>4. dir["package"] = Exactly(ToolRelease(r))
    BY <1>a, <2>3 DEF Exactly, TypeOK, Content
  <2>5. ExactRun(r)'
    BY <1>b, <2>1, <2>4 DEF ExactRun
  <2> QED
    BY <2>2, <2>5
<1>9. CASE ToolUnpackEOF(r)
  <2>1. /\ pc[r] = "tool.unpack" /\ pc'[r] = "failed"
        /\ dir' = [dir EXCEPT !["package"] = EmptyDir]
    BY <1>9 DEF ToolUnpackEOF, EvictStep, Goto, TypeOK
  <2>2. dir'["package"] = EmptyDir /\ \A t \in Tools : dir'[t] = dir[t]
    BY <1>a, <2>1 DEF TypeOK
  <2>3. DirsInv'
    BY <1>b, <2>1, <2>2, DirsAlone DEF DirsInv, IsExact
  <2> QED
    BY <2>1, <2>3, RestingExact DEF Resting
<1>10. CASE ToolRename(r)
  <2>1. /\ pc[r] = "tool.rename" /\ pc'[r] = "tool.link"
        /\ dir' = [dir EXCEPT ![Tool(r)] = dir["package"], !["package"] = EmptyDir]
    BY <1>10, <1>c DEF ToolRename, Step, Goto, TypeOK
  <2>2. dir["package"] = Exactly(ToolRelease(r))
    BY <2>1 DEF ExactRun
  <2>3. /\ dir'[Tool(r)] = Exactly(ToolRelease(r)) /\ dir'["package"] = EmptyDir
        /\ \A t \in Tools \ {Tool(r)} : dir'[t] = dir[t]
    BY <1>a, <2>1, <2>2 DEF TypeOK
  <2>4. ASSUME NEW t \in Tools PROVE IsExact(t)'
    <3>1. CASE t = Tool(r)
      BY <2>3, <3>1, VersionAsked DEF IsExact
    <3>2. CASE t # Tool(r)
      BY <1>b, <2>1, <2>3, <3>2, DirsAlone DEF IsExact
    <3> QED
      BY <3>1, <3>2
  <2>5. ExactRun(r)'
    BY <1>b, <2>1, <2>3 DEF ExactRun, ToolDir
  <2> QED
    BY <2>3, <2>4, <2>5 DEF DirsInv
<1>11. CASE ToolRenameSkipped(r)
  <2>1. pc[r] = "tool.rename" /\ ~RenameApplies(r)
    BY <1>11 DEF ToolRenameSkipped, Step, Goto
  <2>2. ToolDir(r) = EmptyDir /\ dir["package"] # EmptyDir
    BY <2>1, VersionAsked, ExactReleases DEF RunInv, ClearInv, ExactRun
  <2> QED
    BY <2>1, <2>2 DEF RenameApplies
<1> QED
  BY <1>1, <1>2, <1>3, <1>4, <1>5, <1>6, <1>7, <1>8, <1>9, <1>10, <1>11 DEF ToolNext

LEMMA ExactInit == Init => ExactInv
<1> SUFFICES ASSUME Init PROVE ExactInv
  OBVIOUS
<1>1. DirsInv
  BY DEF Init, DirsInv, IsExact, Dirs
<1>2. ASSUME NEW r \in Runs PROVE ExactRun(r)
  BY DEF Init, ExactRun
<1> QED
  BY <1>1, <1>2 DEF ExactInv

LEMMA StartExact ==
    ASSUME TypeOK, OneAtATime', ExactInv, NEW r \in Runs, StartGoal(r)
    PROVE  ExactInv'
<1>1. /\ pc' = [pc EXCEPT ![r] = "node.lock"] /\ pc[r] \in Resting
      /\ \E g \in Goals : goal' = [goal EXCEPT ![r] = g]
      /\ UNCHANGED dir
  BY DEF StartGoal
<1>2. pc'[r] = "node.lock" /\ \A s \in Runs : s # r => pc'[s] = pc[s] /\ goal'[s] = goal[s]
  BY <1>1 DEF TypeOK
<1>3. ASSUME NEW s \in Runs PROVE pc'[s] \in Resting \cup Waiting
  BY <1>2 DEF OneAtATime, Active, Resting, Waiting
<1>4. ASSUME NEW s \in Runs PROVE pc[s] \in Resting
  BY <1>1, <1>2, <1>3 DEF OneAtATime, Active, Resting
<1>5. DirsInv'
  BY <1>1, <1>4 DEF ExactInv, DirsInv, IsExact, Resting
<1>6. ASSUME NEW s \in Runs PROVE ExactRun(s)'
  BY <1>3, RestingExact
<1> QED
  BY <1>5, <1>6 DEF ExactInv

LEMMA ExactNext ==
    ASSUME OnlyDownloadsFail, NothingProvided
    PROVE  SerialInv /\ SerialInv' /\ OneAtATime /\ OneAtATime' /\ ExactInv /\ [Next]_vars
             => ExactInv'
<1> SUFFICES ASSUME SerialInv, SerialInv', OneAtATime, OneAtATime', ExactInv, [Next]_vars
             PROVE  ExactInv'
  OBVIOUS
<1> USE DEF SerialInv, LockInv, TypeInv
<1>1. CASE UNCHANGED vars
  BY <1>1 DEF vars, ExactInv, DirsInv, IsExact, ExactRun, ToolRelease, ToolDir, Tool
<1>2. ASSUME NEW r \in Runs, StartGoal(r) PROVE ExactInv'
  BY <1>2, StartExact
<1>3. ASSUME NEW r \in Runs, Work(r) PROVE ExactInv'
  <2>1. Active(r) /\ \A s \in Runs : s # r => ~Active(s)'
    BY <1>3, WorkIsActive, OthersRest
  <2>2. DirsInv' /\ ExactRun(r)'
    <3>1. CASE NodeNext(r)
      <4>1. UNCHANGED <<dir, goal>> /\ ExactRun(r)' /\ pc[r] \notin ToolSteps
        BY <3>1, NodeExact DEF ExactInv
      <4>2. DirsInv'
        BY <2>1, <4>1, DirsKept DEF ExactInv, ToolSteps
      <4> QED
        BY <4>1, <4>2
    <3>2. CASE ToolNext(r)
      BY <3>2, Quiet, ToolExact DEF ExactInv, ArchiveInv
    <3> QED
      BY <1>3, <3>1, <3>2 DEF Work
  <2>3. ASSUME NEW s \in Runs, s # r PROVE ExactRun(s)'
    BY <2>1, <2>3, RestingExact DEF Active
  <2> QED
    BY <2>2, <2>3 DEF ExactInv
<1>4. ASSUME NEW p \in Procs, Crash(p) PROVE FALSE
  BY <1>4 DEF Crash, Fault, OnlyDownloadsFail
<1> QED
  BY <1>1, <1>2, <1>3, <1>4 DEF Next

LEMMA Exactness ==
    ASSUME OnlyDownloadsFail, NothingProvided
    PROVE  Spec /\ []OneAtATime => [](SerialInv /\ ExactInv)
<1>1. SerialInv /\ SerialInv' /\ OneAtATime /\ OneAtATime' /\ ExactInv /\ [Next]_vars
        => ExactInv'
  BY ExactNext
<1>2. Spec /\ []OneAtATime => []SerialInv
  BY Serial DEF OnlyDownloadsFail
<1> QED
  BY <1>1, <1>2, ExactInit, PTL DEF Spec

LEMMA ExactReport ==
    ASSUME SerialInv, ExactInv, [Next]_vars, NEW r \in Runs, Reports(r)
    PROVE  ToolDir(r)' = Exactly(ToolRelease(r))
<1>1. pc[r] = "tool.link" /\ UNCHANGED <<dir, goal>>
  BY SuccessIsLast DEF SerialInv, LockInv, TypeInv
<1> QED
  BY <1>1 DEF ExactInv, ExactRun, ToolDir, Tool

\* A goal that reports success leaves exactly the release it asked for, and no
\* file of another one, through all upgrades and downgrades and downloads torn
\* or refused: goals that do not overlap and ask for a version.  Each other kind
\* of fault can break it, and so can "provided", which merges directories.
THEOREM SuccessLeavesExactly ==
    ASSUME OnlyDownloadsFail, NothingProvided
    PROVE  Spec /\ []OneAtATime => SuccessIsExact
<1>1. SerialInv /\ ExactInv /\ [Next]_vars
        => [\A r \in Runs : Reports(r) /\ goal[r].version # Provided
              => ToolDir(r)' = Exactly(ToolRelease(r))]_vars
  BY ExactReport
<1> QED
  BY <1>1, Exactness, PTL DEF Spec, SuccessIsExact

-----------------------------------------------------------------------------
(***************************************************************************)
(* The launchers.                                                          *)
(***************************************************************************)

OneEntryPoint == EsmFrom = {} \/ EsmFrom = Versions

LEMMA EntryOf ==
    ASSUME OneEntryPoint, NEW t \in Tools
    PROVE  /\ EntryPoints(t) \subseteq {Entry(t)}
           /\ (\E v \in Versions : <<t, v>> \in dir[t].code) => Entry(t) \in EntryPoints(t)
<1>1. CASE t = "npm"
  BY <1>1 DEF EntryPoints, Entry
<1>2. CASE t = "corepack"
  BY <1>2 DEF EntryPoints, Entry
<1>3. CASE t = "pnpm"
  BY <1>3 DEF EntryPoints, Entry, OneEntryPoint
<1> QED
  BY <1>1, <1>2, <1>3 DEF Tools

LEMMA LauncherInit == Init => LauncherInv
BY DEF Init, LauncherInv

LEMMA LauncherNext ==
    ASSUME OnlyDownloadsFail, OneEntryPoint
    PROVE  SerialInv /\ ExactInv /\ LauncherInv /\ [Next]_vars => LauncherInv'
<1> SUFFICES ASSUME SerialInv, ExactInv, LauncherInv, [Next]_vars, launcher' # launcher
             PROVE  LauncherInv'
  BY DEF LauncherInv
<1> USE DEF SerialInv, LockInv, TypeInv
<1>1. PICK r \in Runs : NpmScripts(r) \/ LinkNew(r)
  <2>1. ASSUME NEW s \in Runs, NodeNext(s) PROVE FALSE
    <3>1. pc[s] # "node.scripts" /\ ~Fault("disk")
      BY DEF ExactInv, ExactRun, Fault, OnlyDownloadsFail
    <3> QED
      BY <2>1, <3>1 DEF NodeNext, NodeLock, NodeSkip, NodeRefused, NodeNeeded, NodeFetch,
         NodeUnpackPart, NodeUnpacked, NodeUnpackEOF, NodeUnpackFails, NodeRemoveOld,
         NodeRenameOver, NodeBinaryMissing, NodeMove, NodeReplaceFails, NodeWithoutNpm,
         NodeTooOld, NodeKeepsNpm, NodeCopyPart, NodeCopied, NodeFinishFails,
         NodeScripts, NodeTidy, ExeOpened, ExeWritten, ExeFails, Step, Goto
  <2>2. ASSUME NEW s \in Runs, ToolNext(s) PROVE NpmScripts(s) \/ LinkNew(s)
    <3>1. ~Fault("disk")
      BY DEF Fault, OnlyDownloadsFail
    <3> QED
      BY <2>2, <3>1 DEF ToolNext, ToolLock, ToolSkip, ToolRefused, ToolNeeded, ToolFetch,
         ToolClearPart, ToolCleared, ToolUnpackPart, ToolUnpacked, ToolUnpackEOF,
         ToolUnpackFails, ToolRename, ToolRenameSkipped, ToolCopyPart, ToolCopied,
         ToolCopyFails, LinkExisting, LinkFails
  <2>3. ASSUME NEW s \in Runs, StartGoal(s) PROVE FALSE
    BY <2>3 DEF StartGoal
  <2>4. ASSUME NEW p \in Procs, Crash(p) PROVE FALSE
    BY <2>4 DEF Crash, Fault, OnlyDownloadsFail
  <2> QED
    BY <2>1, <2>2, <2>3, <2>4 DEF Next, Work, vars
<1>2. CASE NpmScripts(r)
  <2>1. launcher' = [launcher EXCEPT !["npm"] = "script"]
    BY <1>2 DEF NpmScripts, CopiedNpmScripts
  <2> QED
    BY <2>1 DEF LauncherInv, Entry, TypeOK, Tools
<1>3. CASE LinkNew(r)
  <2>1. Tool(r) \in Tools
    BY ArtifactType DEF Tool
  <2>2. EntryPoints(Tool(r)) = {Entry(Tool(r))}
    BY <1>3, <2>1, EntryOf DEF LinkNew
  <2>3. Preferred(EntryPoints(Tool(r))) = Entry(Tool(r))
    BY <2>2 DEF Preferred
  <2>4. launcher' = [launcher EXCEPT ![Tool(r)] = Entry(Tool(r))]
    BY <1>3, <2>3 DEF LinkNew
  <2> QED
    BY <2>1, <2>4 DEF LauncherInv, TypeOK
<1> QED
  BY <1>1, <1>2, <1>3

LEMMA LauncherReport ==
    ASSUME OneEntryPoint, SerialInv, ExactInv, LauncherInv, NothingProvided, [Next]_vars,
           NEW r \in Runs, Reports(r)
    PROVE  launcher'[Tool(r)] \in EntryPoints(Tool(r))'
<1> USE DEF SerialInv, LockInv, TypeInv
<1>1. /\ NpmScripts(r) \/ LinkExisting(r) \/ LinkNew(r)
      /\ pc[r] = "tool.link" /\ UNCHANGED <<dir, goal>>
  BY SuccessIsLast
<1>2. ToolDir(r).code = {ToolRelease(r)}
  <2>1. ToolDir(r) = Exactly(ToolRelease(r))
    BY <1>1 DEF ExactInv, ExactRun
  <2> QED
    BY <2>1 DEF Exactly
<1>3. /\ Tool(r) \in Tools /\ goal[r].version \in Versions
      /\ <<Tool(r), goal[r].version>> \in dir[Tool(r)].code
  BY <1>2, VersionAsked DEF ToolDir
<1>4. EntryPoints(Tool(r)) = {Entry(Tool(r))}
  BY <1>3, EntryOf
<1>5. launcher'[Tool(r)] = Entry(Tool(r))
  <2>1. CASE NpmScripts(r)
    <3>1. Tool(r) = "npm"
      BY <2>1 DEF NpmScripts
    <3>2. launcher["npm"] = None => NpmScriptsDue
      BY <1>3, <3>1 DEF NpmScriptsDue
    <3>3. launcher["npm"] \in {None, "script"}
      BY <1>3, <3>1 DEF LauncherInv, Entry
    <3>4. launcher'["npm"] = "script"
      BY <1>3, <2>1, <3>1, <3>2, <3>3 DEF NpmScripts, CopiedNpmScripts, NpmScriptsDue, TypeOK
    <3> QED
      BY <3>1, <3>4 DEF Entry
  <2>2. CASE LinkExisting(r)
    BY <1>3, <2>2 DEF LinkExisting, LauncherInv
  <2>3. CASE LinkNew(r)
    <3>1. Preferred(EntryPoints(Tool(r))) = Entry(Tool(r))
      BY <1>4 DEF Preferred
    <3> QED
      BY <1>3, <2>3, <3>1 DEF LinkNew, TypeOK
  <2> QED
    BY <1>1, <2>1, <2>2, <2>3
<1>6. EntryPoints(Tool(r))' = EntryPoints(Tool(r))
  BY <1>1 DEF EntryPoints, Tool
<1> QED
  BY <1>4, <1>5, <1>6

\* The launcher of a goal that reports success points at a file that is there,
\* under the same conditions, when all pnpm versions have the same entry point:
\* an old launcher is never written anew (README, known divergences).
THEOREM SuccessLeavesLauncher ==
    ASSUME OnlyDownloadsFail, NothingProvided, OneEntryPoint
    PROVE  Spec /\ []OneAtATime => SuccessHasLauncher
<1>1. SerialInv /\ ExactInv /\ LauncherInv /\ [Next]_vars => LauncherInv'
  BY LauncherNext
<1>2. SerialInv /\ ExactInv /\ LauncherInv /\ [Next]_vars
        => [\A r \in Runs : Reports(r)
              => launcher'[Tool(r)] \in EntryPoints(Tool(r))']_vars
  BY LauncherReport
<1> QED
  BY <1>1, <1>2, LauncherInit, Exactness, PTL DEF Spec, SuccessHasLauncher

-----------------------------------------------------------------------------
(***************************************************************************)
(* Refinement: the install goals keep ToolPromise.                         *)
(***************************************************************************)

LEMMA PromiseInit == Init => Promise!Init
<1> SUFFICES ASSUME Init PROVE Promise!Init
  OBVIOUS
<1>1. PlaceOf = [t \in Tools |-> None]
  <2>1. ASSUME NEW t \in Tools, NEW v \in Versions PROVE dir[t] # Exactly(<<t, v>>)
    BY AbsentAssumption DEF Init, Dirs, EmptyDir, Exactly, Releases
  <2> QED
    BY <2>1 DEF PlaceOf
<1>2. ReportOf = [r \in Runs |-> "idle"]
  BY DEF Init, ReportOf, Resting
<1> QED
  BY <1>1, <1>2 DEF Init, Promise!Init

\* What a run reports follows where it is.
LEMMA ReportMoves ==
    ASSUME TypeOK, NEW r \in Runs, NEW to, pc' = [pc EXCEPT ![r] = to]
    PROVE  ReportOf' = [ReportOf EXCEPT ![r] = IF to \in Resting THEN to ELSE "working"]
BY DEF TypeOK, ReportOf

LEMMA PlaceKept ==
    ASSUME \A t \in Tools : dir'[t] = dir[t]
    PROVE  PlaceOf' = PlaceOf
BY DEF PlaceOf

LEMMA PlaceOfExact ==
    ASSUME NEW t \in Tools, NEW v \in Versions, dir[t] = Exactly(<<t, v>>)
    PROVE  PlaceOf[t] = v
<1>1. PlaceOf[t] = dir[t].json[2]
  BY DEF PlaceOf
<1>2. dir[t].json = <<t, v>>
  BY DEF Exactly
<1> QED
  BY <1>1, <1>2

LEMMA PlaceOfNone ==
    ASSUME NEW t \in Tools, dir[t].json = None \/ dir[t].code = {}
    PROVE  PlaceOf[t] = None
<1>1. ASSUME NEW v \in Versions PROVE dir[t] # Exactly(<<t, v>>)
  <2>1. <<t, v>> \in Releases
    BY DEF Releases
  <2> QED
    BY <2>1, AbsentAssumption DEF Exactly
<1> QED
  BY <1>1 DEF PlaceOf

\* A run at work that touches no tool and does not succeed keeps the promise.
LEMMA QuietStep ==
    ASSUME TypeOK, TypeOK', NEW r \in Runs, Active(r), UNCHANGED <<PlaceOf, goal>>,
           pc' = pc \/ \E to \in Labels \ {"ok", "idle"} : pc' = [pc EXCEPT ![r] = to]
    PROVE  [Promise!Next]_(Promise!vars)
<1>1. CASE pc' = pc
  BY <1>1 DEF Promise!vars, ReportOf
<1>2. CASE \E to \in Labels \ {"ok", "idle"} : pc' = [pc EXCEPT ![r] = to]
  <2>1. PICK to \in Labels \ {"ok", "idle"} : pc' = [pc EXCEPT ![r] = to]
    BY <1>2
  <2>2. ReportOf' = [ReportOf EXCEPT ![r] = IF to \in Resting THEN to ELSE "working"]
    BY <2>1, ReportMoves
  <2>3. ReportOf[r] = "working"
    BY DEF Active, ReportOf
  <2>4. ReportOf \in [Runs -> Promise!Outcome]
    BY DEF ReportOf, Promise!Outcome, Resting
  <2>5. ReportOf' \in [Runs -> Promise!Outcome]
    BY <2>2, <2>4 DEF Promise!Outcome, Resting
  <2>6. \A s \in Runs : ReportOf'[s] # ReportOf[s]
          => ReportOf[s] = "working" /\ ReportOf'[s] = "failed"
    BY <2>2, <2>3, <2>4 DEF Resting
  <2>7. Promise!GiveUp
    BY <2>5, <2>6 DEF Promise!GiveUp
  <2> QED
    BY <2>7 DEF Promise!Next
<1> QED
  BY <1>1, <1>2

LEMMA StartKeepsPromise ==
    ASSUME TypeOK, NEW r \in Runs, StartGoal(r)
    PROVE  Promise!Ask(r)
<1>1. PlaceOf' = PlaceOf
  BY PlaceKept DEF StartGoal
<1>2. ReportOf' = [ReportOf EXCEPT ![r] = "working"]
  BY ReportMoves DEF StartGoal, Resting
<1>3. ReportOf[r] # "working"
  BY DEF StartGoal, ReportOf, Resting
<1> QED
  BY <1>1, <1>2, <1>3 DEF Promise!Ask, StartGoal

LEMMA ToolKeepsPromise ==
    ASSUME OnlyDownloadsFail, NothingProvided, SerialInv, SerialInv', ExactInv, OneAtATime,
           NEW r \in Runs, ToolNext(r)
    PROVE  [Promise!Next]_(Promise!vars)
<1> USE DEF SerialInv, LockInv, TypeInv
<1>a. /\ Tool(r) \in Tools /\ Tool(r) \in Dirs /\ "package" \in Dirs /\ Tool(r) # "package"
      /\ \A t \in Tools : t \in Dirs /\ t # "package"
  BY ArtifactType DEF Tool, Dirs, Tools
<1>b. UNCHANGED goal /\ Active(r) /\ ReportOf[r] = "working"
  BY ToolFrame, WorkIsActive DEF Work, Active, ReportOf
<1>c. goal[r].tool = Tool(r) /\ goal[r].version \in Versions
      /\ ToolRelease(r) = <<Tool(r), goal[r].version>>
  BY VersionAsked DEF Tool
<1>1. CASE ToolClearPart(r)
  <2>1. /\ pc' = pc
        /\ \/ dir' = [dir EXCEPT ![Tool(r)].json = None]
           \/ dir' = [dir EXCEPT ![Tool(r)].code = {}]
    BY <1>1 DEF ToolClearPart
  <2>2. /\ dir'[Tool(r)].json = None \/ dir'[Tool(r)].code = {}
        /\ \A t \in Tools \ {Tool(r)} : dir'[t] = dir[t]
    BY <1>a, <2>1 DEF TypeOK, Content
  <2>3. PlaceOf'[Tool(r)] = None
    <3>1. ASSUME NEW v \in Versions PROVE dir'[Tool(r)] # Exactly(<<Tool(r), v>>)
      <4>1. <<Tool(r), v>> \in Releases
        BY <1>a DEF Releases
      <4> QED
        BY <2>2, <4>1, AbsentAssumption DEF Exactly
    <3> QED
      BY <1>a, <3>1 DEF PlaceOf
  <2>4. PlaceOf' = [PlaceOf EXCEPT ![goal[r].tool] = None]
    BY <1>a, <1>c, <2>2, <2>3 DEF PlaceOf
  <2>5. ReportOf' = ReportOf
    BY <2>1 DEF ReportOf
  <2>6. Promise!TakeAway(r)
    BY <1>b, <2>4, <2>5 DEF Promise!TakeAway
  <2> QED
    BY <2>6 DEF Promise!Next
<1>2. CASE ToolRename(r)
  <2>1. /\ pc[r] = "tool.rename" /\ pc' = [pc EXCEPT ![r] = "tool.link"]
        /\ dir' = [dir EXCEPT ![Tool(r)] = dir["package"], !["package"] = EmptyDir]
    BY <1>2 DEF ToolRename, Step, Goto, Fault, OnlyDownloadsFail
  <2>2. dir["package"] = Exactly(ToolRelease(r)) /\ ToolDir(r) = EmptyDir
    BY <2>1 DEF ExactInv, ExactRun, RunInv, ClearInv
  <2>3. /\ dir'[Tool(r)] = Exactly(<<Tool(r), goal[r].version>>)
        /\ \A t \in Tools \ {Tool(r)} : dir'[t] = dir[t]
    BY <1>a, <1>c, <2>1, <2>2 DEF TypeOK
  <2>4. PlaceOf[Tool(r)] = None
    BY <1>a, <2>2, PlaceOfNone DEF ToolDir, EmptyDir
  <2>5. PlaceOf'[Tool(r)] = goal[r].version
    <3>1. PlaceOf'[Tool(r)] = dir'[Tool(r)].json[2]
      BY <1>a, <1>c, <2>3 DEF PlaceOf
    <3>2. dir'[Tool(r)].json = <<Tool(r), goal[r].version>>
      BY <2>3 DEF Exactly
    <3> QED
      BY <3>1, <3>2
  <2>6. PlaceOf' = [PlaceOf EXCEPT ![goal[r].tool] = goal[r].version]
    BY <1>a, <1>c, <2>3, <2>5 DEF PlaceOf
  <2>7. ReportOf' = ReportOf
    BY <1>b, <2>1, ReportMoves DEF Resting, ReportOf
  <2>8. Promise!Put(r)
    BY <1>b, <1>c, <2>4, <2>6, <2>7 DEF Promise!Put
  <2> QED
    BY <2>8 DEF Promise!Next
<1>3. CASE NpmScripts(r) \/ LinkExisting(r) \/ LinkNew(r)
  <2>1. /\ pc[r] = "tool.link" /\ pc' = [pc EXCEPT ![r] = "ok"] /\ UNCHANGED dir
    BY <1>3 DEF NpmScripts, LinkExisting, LinkNew, Return, Step, Goto
  <2>2. dir[Tool(r)] = Exactly(<<Tool(r), goal[r].version>>)
    BY <1>c, <2>1 DEF ExactInv, ExactRun, ToolDir
  <2>3. PlaceOf[Tool(r)] = goal[r].version /\ PlaceOf' = PlaceOf
    BY <1>a, <1>c, <2>1, <2>2, PlaceOfExact, PlaceKept
  <2>4. ReportOf' = [ReportOf EXCEPT ![r] = "ok"]
    BY <2>1, ReportMoves DEF Resting
  <2>5. Promise!Succeed(r)
    BY <1>b, <1>c, <2>3, <2>4 DEF Promise!Succeed
  <2> QED
    BY <2>5 DEF Promise!Next
<1>4. CASE ToolUnpackPart(r) \/ ToolUnpackEOF(r)
  <2>1. \A t \in Tools : dir'[t] = dir[t]
    BY <1>4, <1>a DEF ToolUnpackPart, ToolUnpackEOF, WritePart, PutJson, PutCode, TypeOK
  <2>2. pc' = pc \/ pc' = [pc EXCEPT ![r] = "failed"]
    BY <1>4 DEF ToolUnpackPart, ToolUnpackEOF, EvictStep, Goto
  <2> QED
    BY <1>b, <2>1, <2>2, PlaceKept, QuietStep DEF Labels, Resting
<1>5. CASE ToolCopyPart(r)
  BY <1>5 DEF ToolCopyPart, ExactInv, ExactRun
<1>6. CASE \/ ToolLock(r) \/ ToolSkip(r) \/ ToolRefused(r) \/ ToolNeeded(r) \/ ToolFetch(r)
           \/ ToolCleared(r) \/ ToolUnpacked(r) \/ ToolUnpackFails(r)
           \/ ToolRenameSkipped(r) \/ ToolCopied(r) \/ ToolCopyFails(r) \/ LinkFails(r)
  <2>1. /\ UNCHANGED dir
        /\ pc' = pc \/ \E to \in ToolSteps \cup {"failed"} : pc' = [pc EXCEPT ![r] = to]
    BY <1>6 DEF ToolLock, ToolSkip, ToolRefused, ToolNeeded, ToolFetch, ToolCleared,
       ToolUnpacked, ToolUnpackFails, ToolRenameSkipped, ToolCopied, ToolCopyFails,
       LinkFails, Acquire, FetchStep, FetchCheck, FetchRefused,
       FetchCreate, FetchDone, FetchFails, EvictStep, Recache, Return, Step, Goto, ToolSteps
  <2>2. ToolSteps \cup {"failed"} \subseteq Labels \ {"ok", "idle"}
    BY DEF Labels, Resting, ToolSteps
  <2> QED
    BY <1>b, <2>1, <2>2, PlaceKept, QuietStep
<1> QED
  BY <1>1, <1>2, <1>3, <1>4, <1>5, <1>6 DEF ToolNext

LEMMA PromiseNext ==
    ASSUME OnlyDownloadsFail, NothingProvided
    PROVE  /\ SerialInv /\ SerialInv' /\ ExactInv /\ OneAtATime /\ OneAtATime' /\ [Next]_vars
           => [Promise!Next]_(Promise!vars)
<1> SUFFICES ASSUME SerialInv, SerialInv', ExactInv, OneAtATime, [Next]_vars
             PROVE  [Promise!Next]_(Promise!vars)
  OBVIOUS
<1> USE DEF SerialInv, LockInv, TypeInv
<1>1. CASE UNCHANGED vars
  BY <1>1 DEF vars, Promise!vars, PlaceOf, ReportOf
<1>2. ASSUME NEW r \in Runs, StartGoal(r) PROVE [Promise!Next]_(Promise!vars)
  BY <1>2, StartKeepsPromise DEF Promise!Next
<1>3. ASSUME NEW r \in Runs, ToolNext(r) PROVE [Promise!Next]_(Promise!vars)
  BY <1>3, ToolKeepsPromise
<1>4. ASSUME NEW r \in Runs, NodeNext(r) PROVE [Promise!Next]_(Promise!vars)
  <2>1. UNCHANGED <<dir, goal>> /\ pc'[r] \notin {"ok", "idle"}
    BY <1>4, NodeExact DEF ExactInv
  <2>2. Active(r)
    BY <1>4, WorkIsActive DEF Work
  <2>3. pc' = pc \/ \E to \in Labels : pc' = [pc EXCEPT ![r] = to]
    BY <1>4, NodeProceeds DEF Proceeds, Stays, Leaves, Enters, Labels
  <2>4. pc' = pc \/ \E to \in Labels \ {"ok", "idle"} : pc' = [pc EXCEPT ![r] = to]
    BY <2>1, <2>3 DEF TypeOK
  <2> QED
    BY <2>1, <2>2, <2>4, PlaceKept, QuietStep
<1>5. ASSUME NEW p \in Procs, Crash(p) PROVE FALSE
  BY <1>5 DEF Crash, Fault, OnlyDownloadsFail
<1> QED
  BY <1>1, <1>2, <1>3, <1>4, <1>5 DEF Next, Work

\* The install goals keep ToolPromise: a tool is missing or whole, only the goal
\* that asked for it touches it, and success is of the release in place, for all
\* sequences of goals that ask for versions and whatever downloads do.
THEOREM KeepsPromise ==
    ASSUME OnlyDownloadsFail, NothingProvided
    PROVE  Spec /\ []OneAtATime => PromiseSpec
<1>1. /\ SerialInv /\ SerialInv' /\ ExactInv /\ OneAtATime /\ OneAtATime' /\ [Next]_vars
      => [Promise!Next]_(Promise!vars)
  BY PromiseNext
<1> QED
  BY <1>1, PromiseInit, Exactness, PTL DEF Spec, PromiseSpec, Promise!Spec

=============================================================================
