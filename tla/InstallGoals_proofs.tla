------------------------- MODULE InstallGoals_proofs -------------------------
(***************************************************************************)
(* Proofs about the install goals, for any number of runs, processes,      *)
(* versions, goals and faults: type correctness, and the mutual exclusion  *)
(* the installers' mutexes buy within one process.                         *)
(***************************************************************************)
EXTENDS InstallGoals, TLAPS

Labels == Resting \cup Waiting \cup NodeSteps \cup ToolSteps

CacheState == {"absent", "torn", "whole"} \cup Runs

\* What is not published is never in the cache, so a run that got past the
\* download is installing a version of the registry's.
OnlyPublished == \A a \in Artifacts : cache[a] # "absent" => a \in Published

Unpacking == {"tool.save", "tool.clear", "tool.unpack", "tool.rename", "tool.copy"}

InstallsRelease ==
    \A r \in Runs :
        pc[r] \in Unpacking => ToolRelease(r) \in Published

TypeInv == TypeOK /\ OnlyPublished /\ InstallsRelease

USE NodeAssumption, VersionAssumption, BundledAssumption,
    GoalAssumption, AbsentAssumption, FaultAssumption

-----------------------------------------------------------------------------
(***************************************************************************)
(* Lemmas about the operators the actions are built from.                  *)
(***************************************************************************)

LEMMA ArtifactType ==
    ASSUME TypeOK, NEW r \in Runs
    PROVE  /\ goal[r].tool \in Tools
           /\ goal[r].version \in Versions \cup {Provided}
           /\ goal[r].node \in NodeVersions
           /\ goal[r].proc \in Procs
           /\ goal[r].system \in Systems
           /\ NodeArtifact(r) \in Artifacts
           /\ ToolRelease(r) \in Artifacts
BY DEF TypeOK, NodeArtifact, Bare, ToolRelease, Artifacts, NodeArtifacts, ToolArtifacts

LEMMA ReleaseType ==
    ASSUME TypeOK, NEW r \in Runs, ToolRelease(r) \in Published
    PROVE  ToolRelease(r) \in Releases
<1>1. goal[r].tool \in Tools
  BY ArtifactType
<1>2. ToolRelease(r) \notin NodeArtifacts
  BY <1>1 DEF ToolRelease, NodeArtifacts, Tools
<1> QED
  BY <1>2 DEF Published

LEMMA StepType ==
    ASSUME TypeOK, NEW r \in Runs, NEW from, NEW to \in Labels, Step(r, from, to)
    PROVE  /\ pc' \in [Runs -> Labels]
           /\ wrote' \in [Runs -> SUBSET Parts]
BY DEF TypeOK, Step, Goto, Labels

LEMMA ReleasedType ==
    ASSUME TypeOK, NEW r \in Runs
    PROVE  Released(r) \in [Locks -> Runs \cup {Free}]
BY DEF TypeOK, Released

LEMMA FaultType ==
    ASSUME TypeOK, NEW kind, Fault(kind) \/ Unfaulty
    PROVE  faults' \in 0 .. MaxFaults
BY DEF TypeOK, Fault, Unfaulty

LEMMA ExactlyType ==
    ASSUME NEW release \in Releases
    PROVE  Exactly(release) \in Content
BY DEF Exactly, Content

LEMMA EmptyType == EmptyDir \in Content
BY DEF EmptyDir, Content

LEMMA PutType ==
    ASSUME TypeOK, NEW d \in Dirs, NEW content \in Content
    PROVE  /\ PutJson(d, content.json) \in [Dirs -> Content]
           /\ PutCode(d, content.code) \in [Dirs -> Content]
BY DEF TypeOK, PutJson, PutCode, Content

LEMMA WritePartType ==
    ASSUME TypeOK, NEW r \in Runs, NEW d \in Dirs, NEW content \in Content,
           WritePart(r, d, content)
    PROVE  /\ dir' \in [Dirs -> Content]
           /\ wrote' \in [Runs -> SUBSET Parts]
<1>1. PICK part \in {"json", "code"} :
         /\ wrote' = [wrote EXCEPT ![r] = @ \cup {<<part, d>>}]
         /\ dir' = IF part = "json" THEN PutJson(d, content.json)
                                    ELSE PutCode(d, content.code)
  BY DEF WritePart
<1>2. dir' \in [Dirs -> Content]
  BY <1>1, PutType
<1>3. <<part, d>> \in Parts
  BY DEF Parts
<1>4. wrote' \in [Runs -> SUBSET Parts]
  BY <1>1, <1>3 DEF TypeOK
<1> QED
  BY <1>2, <1>4

LEMMA RecacheType ==
    ASSUME TypeOK, NEW r \in Runs, NEW a \in Artifacts, NEW state \in CacheState,
           NEW parts \in SUBSET Parts, Recache(r, a, state, parts)
    PROVE  /\ wrote' \in [Runs -> SUBSET Parts]
           /\ cache' \in [Artifacts -> CacheState]
<1>1. ASSUME NEW q \in Runs PROVE wrote[q] \cup {Changed} \in SUBSET Parts
  BY DEF TypeOK, Parts
<1>2. wrote' = [q \in Runs |->
                    CASE q = r -> parts
                      [] q # r /\ q \in Readers(a) -> wrote[q] \cup {Changed}
                      [] OTHER -> wrote[q]]
  BY DEF Recache
<1>3. ASSUME NEW q \in Runs
      PROVE  (CASE q = r -> parts
                [] q # r /\ q \in Readers(a) -> wrote[q] \cup {Changed}
                [] OTHER -> wrote[q]) \in SUBSET Parts
  <2>1. wrote[q] \in SUBSET Parts
    BY DEF TypeOK
  <2>2. CASE q = r
    BY <2>2
  <2>3. CASE q # r /\ q \in Readers(a)
    BY <1>1, <2>3
  <2>4. CASE q # r /\ q \notin Readers(a)
    BY <2>1, <2>4
  <2> QED
    BY <2>2, <2>3, <2>4
<1>4. wrote' \in [Runs -> SUBSET Parts]
  BY <1>2, <1>3
<1>5. cache' \in [Artifacts -> CacheState]
  BY DEF Recache, TypeOK, CacheState
<1> QED
  BY <1>4, <1>5

LEMMA FileLeftType ==
    ASSUME TypeOK, NEW r \in Runs, NEW a \in Artifacts, NEW state \in CacheState
    PROVE  FileLeft(r, a, state) \in CacheState
BY DEF FileLeft, TypeOK, CacheState

LEMMA FetchType ==
    ASSUME TypeOK, NEW r \in Runs, NEW a \in Artifacts,
           NEW from, NEW save \in Labels, NEW to \in Labels,
           FetchStep(r, a, from, save, to)
    PROVE  /\ pc' \in [Runs -> Labels]
           /\ wrote' \in [Runs -> SUBSET Parts]
           /\ lock' \in [Locks -> Runs \cup {Free}]
           /\ cache' \in [Artifacts -> CacheState]
           /\ faults' \in 0 .. MaxFaults
<1>1. "failed" \in Labels
  BY DEF Labels, Resting
<1>2. /\ {"file"} \in SUBSET Parts /\ {} \in SUBSET Parts
      /\ "torn" \in CacheState /\ "whole" \in CacheState /\ r \in CacheState
  BY DEF Parts, CacheState
<1>3. /\ pc \in [Runs -> Labels] /\ faults \in 0 .. MaxFaults
      /\ lock \in [Locks -> Runs \cup {Free}] /\ cache \in [Artifacts -> CacheState]
  BY DEF TypeOK, Labels, CacheState
<1>4. CASE FetchCheck(r, a, from, save, to)
  <2>1. UNCHANGED <<cache, lock, faults>> /\ (Step(r, from, to) \/ Step(r, from, save))
    BY <1>4 DEF FetchCheck
  <2>2. pc' \in [Runs -> Labels] /\ wrote' \in [Runs -> SUBSET Parts]
    BY <2>1, StepType
  <2> QED
    BY <1>3, <2>1, <2>2
<1>5. CASE FetchRefused(r, a, from)
  <2>1. Step(r, from, "failed") /\ lock' = Released(r) /\ UNCHANGED cache
    BY <1>5 DEF FetchRefused, Return
  <2>2. Unfaulty \/ Fault("refuse")
    BY <1>5 DEF FetchRefused
  <2>3. pc' \in [Runs -> Labels] /\ wrote' \in [Runs -> SUBSET Parts]
    BY <1>1, <2>1, StepType
  <2>4. lock' \in [Locks -> Runs \cup {Free}]
    BY <2>1, ReleasedType
  <2>5. faults' \in 0 .. MaxFaults
    BY <2>2, FaultType
  <2> QED
    BY <1>3, <2>1, <2>3, <2>4, <2>5
<1>6. CASE FetchCreate(r, a, save)
  <2>1. Recache(r, a, r, {"file"}) /\ UNCHANGED <<pc, lock, faults>>
    BY <1>6 DEF FetchCreate
  <2>2. wrote' \in [Runs -> SUBSET Parts] /\ cache' \in [Artifacts -> CacheState]
    BY <1>2, <2>1, RecacheType
  <2> QED
    BY <1>3, <2>1, <2>2
<1>7. ASSUME NEW state \in CacheState, NEW label \in Labels,
             pc' = [pc EXCEPT ![r] = label],
             Recache(r, a, FileLeft(r, a, state), {})
      PROVE  /\ pc' \in [Runs -> Labels]
             /\ wrote' \in [Runs -> SUBSET Parts]
             /\ cache' \in [Artifacts -> CacheState]
  <2>1. FileLeft(r, a, state) \in CacheState
    BY FileLeftType
  <2>2. wrote' \in [Runs -> SUBSET Parts] /\ cache' \in [Artifacts -> CacheState]
    BY <1>2, <1>7, <2>1, RecacheType
  <2> QED
    BY <1>3, <1>7, <2>2
<1>8. CASE FetchDone(r, a, save, to)
  <2>1. pc' = [pc EXCEPT ![r] = to] /\ UNCHANGED lock
    BY <1>8 DEF FetchDone, Goto
  <2>2. \/ Recache(r, a, FileLeft(r, a, "whole"), {}) /\ Unfaulty
        \/ Recache(r, a, FileLeft(r, a, "torn"), {}) /\ Fault("torn")
    BY <1>8 DEF FetchDone
  <2>3. faults' \in 0 .. MaxFaults
    BY <2>2, FaultType
  <2> QED
    BY <1>2, <1>3, <1>7, <2>1, <2>2, <2>3
<1>9. CASE FetchFails(r, a, save)
  <2>1. /\ pc' = [pc EXCEPT ![r] = "failed"] /\ lock' = Released(r)
        /\ Recache(r, a, FileLeft(r, a, "torn"), {}) /\ Fault("disk")
    BY <1>9 DEF FetchFails, Goto
  <2>2. lock' \in [Locks -> Runs \cup {Free}]
    BY <2>1, ReleasedType
  <2>3. faults' \in 0 .. MaxFaults
    BY <2>1, FaultType
  <2> QED
    BY <1>1, <1>2, <1>7, <2>1, <2>2, <2>3
<1> QED
  BY <1>4, <1>5, <1>6, <1>8, <1>9 DEF FetchStep

LEMMA EvictType ==
    ASSUME TypeOK, NEW r \in Runs, NEW a \in Artifacts, NEW from,
           EvictStep(r, a, from)
    PROVE  /\ pc' \in [Runs -> Labels]
           /\ wrote' \in [Runs -> SUBSET Parts]
           /\ lock' \in [Locks -> Runs \cup {Free}]
           /\ cache' \in [Artifacts -> CacheState]
<1>1. /\ pc' = [pc EXCEPT ![r] = "failed"] /\ lock' = Released(r)
      /\ Recache(r, a, "absent", {})
  BY DEF EvictStep, Goto
<1>2. pc' \in [Runs -> Labels]
  BY <1>1 DEF TypeOK, Labels, Resting
<1>3. lock' \in [Locks -> Runs \cup {Free}]
  BY <1>1, ReleasedType
<1>4. "absent" \in CacheState /\ {} \in SUBSET Parts
  BY DEF CacheState
<1>5. wrote' \in [Runs -> SUBSET Parts] /\ cache' \in [Artifacts -> CacheState]
  BY <1>1, <1>4, RecacheType
<1> QED
  BY <1>2, <1>3, <1>5

-----------------------------------------------------------------------------
(***************************************************************************)
(* Type correctness.                                                       *)
(***************************************************************************)

\* A step that keeps to its run, and returns or not, keeps pc, wrote and lock
\* typed.
LEMMA MoveType ==
    ASSUME TypeOK, NEW r \in Runs, NEW from, NEW to \in Labels,
           Step(r, from, to),
           \/ UNCHANGED lock
           \/ lock' = Released(r)
           \/ \E k \in Locks : lock' = [lock EXCEPT ![k] = r]
    PROVE  /\ pc' \in [Runs -> Labels]
           /\ wrote' \in [Runs -> SUBSET Parts]
           /\ lock' \in [Locks -> Runs \cup {Free}]
<1>1. ASSUME UNCHANGED lock PROVE lock' \in [Locks -> Runs \cup {Free}]
  BY <1>1 DEF TypeOK
<1>2. ASSUME lock' = Released(r) PROVE lock' \in [Locks -> Runs \cup {Free}]
  BY <1>2, ReleasedType
<1>3. ASSUME NEW k \in Locks, lock' = [lock EXCEPT ![k] = r]
      PROVE  lock' \in [Locks -> Runs \cup {Free}]
  BY <1>3 DEF TypeOK
<1>4. lock' \in [Locks -> Runs \cup {Free}]
  BY <1>1, <1>2, <1>3
<1> QED
  BY <1>4, StepType

LEMMA ScriptsType == TypeOK => CopiedNpmScripts \in [Tools -> Entries \cup {None, Torn}]
BY DEF TypeOK, CopiedNpmScripts, Entries, Tools

LEMMA HalfWrittenType ==
    ASSUME TypeOK, NEW t \in Tools, NEW writing, launcher' \in HalfWritten(t, writing)
    PROVE  launcher' \in [Tools -> Entries \cup {None, Torn}]
<1>1. launcher \in [Tools -> Entries \cup {None, Torn}]
  BY DEF TypeOK
<1>2. [launcher EXCEPT ![t] = Torn] \in [Tools -> Entries \cup {None, Torn}]
  BY <1>1
<1>3. launcher' = launcher \/ launcher' = [launcher EXCEPT ![t] = Torn]
  BY DEF HalfWritten
<1> QED
  BY <1>1, <1>2, <1>3

LEMMA AcquireType ==
    ASSUME TypeOK, NEW r \in Runs, NEW installer \in {"node"} \cup Tools,
           NEW from, NEW to \in Labels, Acquire(r, installer, from, to)
    PROVE  /\ pc' \in [Runs -> Labels]
           /\ wrote' \in [Runs -> SUBSET Parts]
           /\ lock' \in [Locks -> Runs \cup {Free}]
<1>1. <<ProcOf(r), installer>> \in Locks
  BY ArtifactType DEF Locks, ProcOf
<1>2. Step(r, from, to) /\ \E k \in Locks : lock' = [lock EXCEPT ![k] = r]
  BY <1>1 DEF Acquire
<1> QED
  BY <1>2, MoveType

LEMMA PreferredType ==
    ASSUME NEW t \in Tools, EntryPoints(t) # {}
    PROVE  Preferred(EntryPoints(t)) \in Entries
<1>1. EntryPoints(t) \subseteq Entries
  BY DEF EntryPoints, Entries, Tools
<1>2. Preferred(EntryPoints(t)) \in EntryPoints(t)
  BY DEF Preferred
<1> QED
  BY <1>1, <1>2

LEMMA NodeType ==
    ASSUME TypeInv, NEW r \in Runs, NodeNext(r)
    PROVE  TypeOK'
<1> USE DEF TypeInv
<1>1. CASE NodeLock(r)
  <2>1. Acquire(r, "node", "node.lock", "node.check")
    BY <1>1 DEF NodeLock
  <2>2. "node" \in {"node"} \cup Tools /\ "node.check" \in Labels
    BY ArtifactType DEF Tool, Labels, Resting, Waiting, NodeSteps, ToolSteps
  <2>3. /\ pc' \in [Runs -> Labels]
        /\ wrote' \in [Runs -> SUBSET Parts]
        /\ lock' \in [Locks -> Runs \cup {Free}]
    BY <2>1, <2>2, AcquireType
  <2> QED
    BY <1>1, <2>3 DEF NodeLock, TypeOK, Labels
<1>2. CASE NodeSkip(r)
  BY <1>2, MoveType DEF TypeOK, NodeSkip, Return, Labels, Waiting, NodeSteps
<1>3. CASE NodeNeeded(r)
  BY <1>3, MoveType DEF TypeOK, NodeNeeded, Labels, NodeSteps
<1>4. CASE NodeFetch(r)
  <2> DEFINE to == IF Bare(r) THEN "node.exe" ELSE "node.unpack"
  <2>1. FetchStep(r, NodeArtifact(r), "node.fetch", "node.save", to)
    BY <1>4 DEF NodeFetch
  <2>2. NodeArtifact(r) \in Artifacts /\ "node.save" \in Labels /\ to \in Labels
    BY ArtifactType DEF Labels, Resting, Waiting, NodeSteps, ToolSteps
  <2> HIDE DEF to
  <2>3. /\ pc' \in [Runs -> Labels]
        /\ wrote' \in [Runs -> SUBSET Parts]
        /\ lock' \in [Locks -> Runs \cup {Free}]
        /\ cache' \in [Artifacts -> CacheState]
        /\ faults' \in 0 .. MaxFaults
    BY <2>1, <2>2, FetchType
  <2> QED
    BY <1>4, <2>3 DEF NodeFetch, TypeOK, Labels, CacheState
<1>5. CASE NodeUnpackPart(r)
  <2>1. PICK part \in {"bin", "mods"} :
          /\ wrote' = [wrote EXCEPT ![r] = @ \cup {part}]
          /\ tmp' = [tmp EXCEPT ![goal[r].node] = @ \cup {part}]
    BY <1>5 DEF NodeUnpackPart
  <2>2. part \in Parts
    BY DEF Parts
  <2>3. wrote' \in [Runs -> SUBSET Parts]
    BY <2>1, <2>2 DEF TypeOK
  <2>4. tmp' \in [NodeVersions -> SUBSET {"bin", "mods"}]
    BY <2>1 DEF TypeOK
  <2> QED
    BY <1>5, <2>3, <2>4 DEF NodeUnpackPart, TypeOK
<1>6. CASE NodeUnpacked(r)
  BY <1>6, MoveType DEF TypeOK, NodeUnpacked, Labels, NodeSteps
<1>7. CASE NodeUnpackEOF(r)
  <2>1. EvictStep(r, NodeArtifact(r), "node.unpack")
    BY <1>7 DEF NodeUnpackEOF
  <2>2. /\ pc' \in [Runs -> Labels]
        /\ wrote' \in [Runs -> SUBSET Parts]
        /\ lock' \in [Locks -> Runs \cup {Free}]
        /\ cache' \in [Artifacts -> CacheState]
    BY <2>1, ArtifactType, EvictType
  <2> QED
    BY <1>7, <2>2 DEF NodeUnpackEOF, TypeOK, Labels, CacheState
<1>8. CASE NodeUnpackFails(r)
  BY <1>8, MoveType, FaultType DEF TypeOK, NodeUnpackFails, Return, Unfaulty,
     Labels, Resting, NodeSteps
<1>9. CASE NodeRemoveOld(r)
  <2>1. faults' \in 0 .. MaxFaults
    BY <1>9, FaultType DEF NodeRemoveOld
  <2> QED
    BY <1>9, <2>1, MoveType DEF TypeOK, NodeRemoveOld, Labels, NodeSteps
<1>10. CASE NodeBinaryMissing(r)
  BY <1>10, MoveType, ArtifactType DEF TypeOK, NodeBinaryMissing, Return,
     Labels, Resting, NodeSteps
<1>11. CASE NodeMove(r)
  BY <1>11, MoveType, ArtifactType DEF TypeOK, NodeMove, Labels, NodeSteps
<1>12. CASE NodeReplaceFails(r)
  BY <1>12, MoveType, FaultType, ArtifactType DEF TypeOK, NodeReplaceFails,
     Return, Unfaulty, Labels, Resting, NodeSteps
<1>13. CASE NodeWithoutNpm(r)
  BY <1>13, MoveType DEF TypeOK, NodeWithoutNpm, Labels, NodeSteps
<1>14. CASE NodeTooOld(r)
  BY <1>14, MoveType DEF TypeOK, NodeTooOld, Return, Labels, Resting, NodeSteps
<1>15. CASE NodeKeepsNpm(r)
  BY <1>15, MoveType, ArtifactType DEF TypeOK, NodeKeepsNpm, Return, Labels,
     Resting, NodeSteps
<1>16. CASE NodeCopyPart(r)
  <2>1. PICK t \in BundledTools : WritePart(r, t, BundledDir(r, t))
    BY <1>16 DEF NodeCopyPart
  <2>2. <<t, Bundled[goal[r].node][t]>> \in Releases
    BY ArtifactType DEF Releases, BundledTools, Tools
  <2>3. BundledDir(r, t) \in Content
    BY <2>2, ExactlyType DEF BundledDir
  <2>4. t \in Dirs
    BY DEF BundledTools, Dirs, Tools
  <2>5. dir' \in [Dirs -> Content] /\ wrote' \in [Runs -> SUBSET Parts]
    BY <2>1, <2>3, <2>4, WritePartType
  <2> QED
    BY <1>16, <2>5 DEF NodeCopyPart, TypeOK
<1>17. CASE NodeCopied(r)
  BY <1>17, MoveType DEF TypeOK, NodeCopied, Labels, NodeSteps
<1>18. CASE NodeFinishFails(r)
  <2>1. "npm" \in Tools
    BY DEF Tools
  <2>2. launcher' \in [Tools -> Entries \cup {None, Torn}]
    BY <1>18, <2>1, HalfWrittenType DEF NodeFinishFails
  <2>3. faults' \in 0 .. MaxFaults
    BY <1>18, FaultType DEF NodeFinishFails
  <2>4. "failed" \in Labels
    BY DEF Labels, Resting
  <2>5. /\ pc' \in [Runs -> Labels]
        /\ wrote' \in [Runs -> SUBSET Parts]
        /\ lock' \in [Locks -> Runs \cup {Free}]
    BY <1>18, <2>4, MoveType DEF NodeFinishFails, Return
  <2> QED
    BY <1>18, <2>2, <2>3, <2>5 DEF NodeFinishFails, TypeOK, Labels
<1>19. CASE NodeScripts(r)
  <2>1. "node.tidy" \in Labels
    BY DEF Labels, Resting, Waiting, NodeSteps, ToolSteps
  <2>2. launcher' \in [Tools -> Entries \cup {None, Torn}]
    BY <1>19, ScriptsType DEF NodeScripts
  <2>3. pc' \in [Runs -> Labels] /\ wrote' \in [Runs -> SUBSET Parts]
    BY <1>19, <2>1, StepType DEF NodeScripts
  <2> QED
    BY <1>19, <2>2, <2>3 DEF NodeScripts, TypeOK, Labels
<1>20. CASE NodeTidy(r)
  BY <1>20, MoveType DEF TypeOK, NodeTidy, Return, Labels, Waiting, NodeSteps
<1>21. CASE NodeRefused(r)
  BY <1>21, MoveType DEF TypeOK, NodeRefused, Return, Labels, Resting, NodeSteps
<1>22. CASE NodeRenameOver(r)
  BY <1>22, MoveType, ArtifactType DEF TypeOK, NodeRenameOver, Labels, NodeSteps
<1>23. CASE ExeOpened(r)
  BY <1>23 DEF TypeOK, ExeOpened, NodeSteps
<1>24. CASE ExeWritten(r)
  BY <1>24, MoveType, ArtifactType DEF TypeOK, ExeWritten, Return, Labels,
     Waiting, NodeSteps
<1>25. CASE ExeFails(r)
  BY <1>25, MoveType, FaultType DEF TypeOK, ExeFails, Return, Labels, Resting,
     NodeSteps
<1> QED
  BY <1>1, <1>2, <1>3, <1>4, <1>5, <1>6, <1>7, <1>8, <1>9, <1>10, <1>11, <1>12,
     <1>13, <1>14, <1>15, <1>16, <1>17, <1>18, <1>19, <1>20, <1>21, <1>22, <1>23,
     <1>24, <1>25 DEF NodeNext

LEMMA ToolType ==
    ASSUME TypeInv, NEW r \in Runs, ToolNext(r)
    PROVE  TypeOK'
<1> USE DEF TypeInv
<1>1. CASE ToolLock(r)
  <2>1. Acquire(r, Tool(r), "tool.lock", "tool.check")
    BY <1>1 DEF ToolLock
  <2>2. Tool(r) \in {"node"} \cup Tools /\ "tool.check" \in Labels
    BY ArtifactType DEF Tool, Labels, Resting, Waiting, NodeSteps, ToolSteps
  <2>3. /\ pc' \in [Runs -> Labels]
        /\ wrote' \in [Runs -> SUBSET Parts]
        /\ lock' \in [Locks -> Runs \cup {Free}]
    BY <2>1, <2>2, AcquireType
  <2> QED
    BY <1>1, <2>3 DEF ToolLock, TypeOK, Labels
<1>2. CASE ToolSkip(r)
  BY <1>2, MoveType DEF TypeOK, ToolSkip, Labels, ToolSteps
<1>3. CASE ToolRefused(r)
  BY <1>3, MoveType DEF TypeOK, ToolRefused, Return, Labels, Resting, ToolSteps
<1>4. CASE ToolNeeded(r)
  BY <1>4, MoveType DEF TypeOK, ToolNeeded, Labels, ToolSteps
<1>5. CASE ToolFetch(r)
  <2>1. FetchStep(r, ToolRelease(r), "tool.fetch", "tool.save", "tool.clear")
    BY <1>5 DEF ToolFetch
  <2>2. ToolRelease(r) \in Artifacts /\ "tool.save" \in Labels /\ "tool.clear" \in Labels
    BY ArtifactType DEF Labels, Resting, Waiting, NodeSteps, ToolSteps
  <2>3. /\ pc' \in [Runs -> Labels]
        /\ wrote' \in [Runs -> SUBSET Parts]
        /\ lock' \in [Locks -> Runs \cup {Free}]
        /\ cache' \in [Artifacts -> CacheState]
        /\ faults' \in 0 .. MaxFaults
    BY <2>1, <2>2, FetchType
  <2> QED
    BY <1>5, <2>3 DEF ToolFetch, TypeOK, Labels, CacheState
<1>6. CASE ToolClearPart(r)
  <2>1. Tool(r) \in Dirs /\ Left(r) \subseteq Parts
    BY ArtifactType DEF Tool, Dirs, Left, Parts
  <2>2. PICK part \in Left(r) :
          /\ wrote' = [wrote EXCEPT ![r] = @ \cup {part}]
          /\ dir' = IF part[1] = "json" THEN [dir EXCEPT ![Tool(r)].json = None]
                                       ELSE [dir EXCEPT ![Tool(r)].code = {}]
    BY <1>6 DEF ToolClearPart
  <2>3. wrote' \in [Runs -> SUBSET Parts]
    BY <2>1, <2>2 DEF TypeOK
  <2>4. dir' \in [Dirs -> Content]
    BY <2>1, <2>2 DEF TypeOK, Content
  <2> QED
    BY <1>6, <2>3, <2>4 DEF ToolClearPart, TypeOK
<1>7. CASE ToolCleared(r)
  BY <1>7, MoveType, FaultType DEF TypeOK, ToolCleared, Unfaulty, Labels,
     ToolSteps
<1>8. CASE ToolUnpackPart(r)
  <2>1. pc[r] = "tool.unpack" /\ WritePart(r, "package", Exactly(ToolRelease(r)))
    BY <1>8 DEF ToolUnpackPart
  <2>2. ToolRelease(r) \in Releases
    BY <2>1, ReleaseType DEF InstallsRelease, Unpacking
  <2>3. Exactly(ToolRelease(r)) \in Content
    BY <2>2, ExactlyType
  <2>4. "package" \in Dirs
    BY DEF Dirs
  <2>5. dir' \in [Dirs -> Content] /\ wrote' \in [Runs -> SUBSET Parts]
    BY <2>1, <2>3, <2>4, WritePartType
  <2> QED
    BY <1>8, <2>5 DEF ToolUnpackPart, TypeOK
<1>9. CASE ToolUnpacked(r)
  BY <1>9, MoveType DEF TypeOK, ToolUnpacked, Labels, ToolSteps
<1>10. CASE ToolUnpackEOF(r)
  <2>1. EvictStep(r, ToolRelease(r), "tool.unpack")
    BY <1>10 DEF ToolUnpackEOF
  <2>2. /\ pc' \in [Runs -> Labels]
        /\ wrote' \in [Runs -> SUBSET Parts]
        /\ lock' \in [Locks -> Runs \cup {Free}]
        /\ cache' \in [Artifacts -> CacheState]
    BY <2>1, ArtifactType, EvictType
  <2>3. dir' \in [Dirs -> Content]
    BY <1>10, EmptyType DEF ToolUnpackEOF, TypeOK, Dirs
  <2> QED
    BY <1>10, <2>2, <2>3 DEF ToolUnpackEOF, TypeOK, Labels, CacheState
<1>11. CASE ToolUnpackFails(r)
  BY <1>11, MoveType, FaultType DEF TypeOK, ToolUnpackFails, Return, Unfaulty,
     Labels, Resting, ToolSteps
<1>12. CASE ToolRename(r)
  <2>1. "tool.link" \in Labels /\ "tool.copy" \in Labels
    BY DEF Labels, ToolSteps
  <2>2. pc' \in [Runs -> Labels] /\ wrote' \in [Runs -> SUBSET Parts]
    BY <1>12, <2>1, StepType DEF ToolRename
  <2>3. dir' \in [Dirs -> Content]
    BY <1>12, ArtifactType, EmptyType DEF ToolRename, TypeOK, Dirs, Tool
  <2>4. faults' \in 0 .. MaxFaults
    BY <1>12, FaultType DEF ToolRename
  <2> QED
    BY <1>12, <2>2, <2>3, <2>4 DEF ToolRename, TypeOK, Labels
<1>13. CASE ToolRenameSkipped(r)
  BY <1>13, MoveType DEF TypeOK, ToolRenameSkipped, Labels, ToolSteps
<1>14. CASE ToolCopyPart(r)
  <2>1. WritePart(r, Tool(r), dir["package"])
    BY <1>14 DEF ToolCopyPart
  <2>2. Tool(r) \in Dirs
    BY ArtifactType DEF Tool, Dirs
  <2>3. dir["package"] \in Content
    BY DEF TypeOK, Dirs
  <2>5. dir' \in [Dirs -> Content] /\ wrote' \in [Runs -> SUBSET Parts]
    BY <2>1, <2>2, <2>3, WritePartType
  <2> QED
    BY <1>14, <2>5 DEF ToolCopyPart, TypeOK
<1>15. CASE ToolCopied(r)
  BY <1>15, MoveType DEF TypeOK, ToolCopied, Labels, ToolSteps
<1>16. CASE ToolCopyFails(r)
  BY <1>16, MoveType, FaultType DEF TypeOK, ToolCopyFails, Return, Labels,
     Resting, ToolSteps
<1>17. CASE NpmScripts(r)
  <2>1. "ok" \in Labels
    BY DEF Labels, Resting, Waiting, NodeSteps, ToolSteps
  <2>2. /\ pc' \in [Runs -> Labels]
        /\ wrote' \in [Runs -> SUBSET Parts]
        /\ lock' \in [Locks -> Runs \cup {Free}]
    BY <1>17, <2>1, MoveType DEF NpmScripts, Return
  <2>3. launcher' \in [Tools -> Entries \cup {None, Torn}]
    BY <1>17, ScriptsType DEF NpmScripts
  <2> QED
    BY <1>17, <2>2, <2>3 DEF NpmScripts, TypeOK, Labels
<1>18. CASE LinkExisting(r)
  BY <1>18, MoveType DEF TypeOK, LinkExisting, Return, Labels, Resting, ToolSteps
<1>19. CASE LinkNew(r)
  <2>1. "ok" \in Labels
    BY DEF Labels, Resting, Waiting, NodeSteps, ToolSteps
  <2>2. /\ pc' \in [Runs -> Labels]
        /\ wrote' \in [Runs -> SUBSET Parts]
        /\ lock' \in [Locks -> Runs \cup {Free}]
    BY <1>19, <2>1, MoveType DEF LinkNew, Return
  <2>3. launcher' \in [Tools -> Entries \cup {None, Torn}]
    BY <1>19, ArtifactType, PreferredType DEF LinkNew, TypeOK, Tool
  <2> QED
    BY <1>19, <2>2, <2>3 DEF LinkNew, TypeOK, Labels
<1>20. CASE LinkFails(r)
  <2>1. Tool(r) \in Tools
    BY ArtifactType DEF Tool
  <2>2. launcher' \in [Tools -> Entries \cup {None, Torn}]
    BY <1>20, <2>1, HalfWrittenType DEF LinkFails, TypeOK
  <2>3. faults' \in 0 .. MaxFaults
    BY <1>20, FaultType DEF LinkFails
  <2>4. "failed" \in Labels
    BY DEF Labels, Resting
  <2>5. /\ pc' \in [Runs -> Labels]
        /\ wrote' \in [Runs -> SUBSET Parts]
        /\ lock' \in [Locks -> Runs \cup {Free}]
    BY <1>20, <2>4, MoveType DEF LinkFails, Return
  <2> QED
    BY <1>20, <2>2, <2>3, <2>5 DEF LinkFails, TypeOK, Labels
<1> QED
  BY <1>1, <1>2, <1>3, <1>4, <1>5, <1>6, <1>7, <1>8, <1>9, <1>10, <1>11, <1>12,
     <1>13, <1>14, <1>15, <1>16, <1>17, <1>18, <1>19, <1>20 DEF ToolNext

-----------------------------------------------------------------------------
(***************************************************************************)
(* Mutual exclusion.  A step of an installer leaves the control of its run *)
(* inside one installer and the mutexes alone, or returns and releases, or *)
(* acquires; and it fetches only what is published.                        *)
(***************************************************************************)

Inside(from, to) == {from, to} \subseteq NodeSteps \/ {from, to} \subseteq ToolSteps

Stays(r) == lock' = lock /\ (pc' = pc \/ \E to \in Labels :
                pc' = [pc EXCEPT ![r] = to] /\ Inside(pc[r], to))

Leaves(r) == lock' = Released(r) /\ \E to \in Resting \cup Waiting :
                pc' = [pc EXCEPT ![r] = to]

Enters(r) == \E installer \in {"node"} \cup Tools, to \in Labels :
    /\ lock[<<ProcOf(r), installer>>] = Free
    /\ lock' = [lock EXCEPT ![<<ProcOf(r), installer>>] = r]
    /\ pc' = [pc EXCEPT ![r] = to]
    /\ \/ installer = "node" /\ to \in NodeSteps
       \/ installer = Tool(r) /\ to \in ToolSteps

Fetched(r) ==
    /\ \A a \in Artifacts : cache'[a] # "absent" => cache[a] # "absent" \/ a \in Published
    /\ pc'[r] \in Unpacking => pc[r] \in Unpacking \/ ToolRelease(r) \in Published

Proceeds(r) == goal' = goal /\ (Stays(r) \/ Leaves(r) \/ Enters(r)) /\ Fetched(r)

LEMMA RecachePublished ==
    ASSUME TypeOK, NEW r \in Runs, NEW a \in Artifacts, NEW state, NEW parts,
           Recache(r, a, state, parts), a \in Published \/ state = "absent"
    PROVE  \A b \in Artifacts : cache'[b] # "absent" => cache[b] # "absent" \/ b \in Published
BY DEF Recache, TypeOK

LEMMA FetchProceeds ==
    ASSUME TypeInv, NEW r \in Runs, NEW a \in Artifacts,
           NEW from, NEW save \in Labels, NEW to \in Labels,
           Inside(from, save), Inside(from, to), Inside(save, to),
           save \in Unpacking \/ to \in Unpacking => a = ToolRelease(r),
           pc[r] = save => a \in Published,
           FetchStep(r, a, from, save, to), goal' = goal
    PROVE  Proceeds(r)
<1> USE DEF TypeInv
<1>1. CASE FetchCheck(r, a, from, save, to)
  <2>1. UNCHANGED <<cache, lock>> /\ a \in Published /\ (Step(r, from, to) \/ Step(r, from, save))
    BY <1>1 DEF FetchCheck, OnlyPublished
  <2>2. PICK label \in {to, save} : pc[r] = from /\ pc' = [pc EXCEPT ![r] = label] /\ pc'[r] = label
    BY <2>1 DEF Step, Goto, TypeOK
  <2>3. Stays(r)
    BY <2>1, <2>2 DEF Stays
  <2>4. Fetched(r)
    BY <2>1, <2>2 DEF Fetched
  <2> QED
    BY <2>3, <2>4 DEF Proceeds
<1>2. CASE FetchRefused(r, a, from)
  <2>1. /\ pc' = [pc EXCEPT ![r] = "failed"] /\ pc'[r] = "failed" /\ lock' = Released(r)
        /\ UNCHANGED cache
    BY <1>2 DEF FetchRefused, Return, Step, Goto, TypeOK
  <2>2. Leaves(r) /\ Fetched(r)
    BY <2>1 DEF Leaves, Resting, Fetched, Unpacking
  <2> QED
    BY <2>2 DEF Proceeds
<1>3. CASE FetchCreate(r, a, save)
  <2>1. pc[r] = save /\ Recache(r, a, r, {"file"}) /\ UNCHANGED <<pc, lock>>
    BY <1>3 DEF FetchCreate
  <2>2. Stays(r) /\ Fetched(r)
    BY <2>1, RecachePublished DEF Stays, Fetched
  <2> QED
    BY <2>2 DEF Proceeds
<1>4. CASE FetchDone(r, a, save, to)
  <2>1. /\ pc[r] = save /\ pc' = [pc EXCEPT ![r] = to] /\ pc'[r] = to /\ UNCHANGED lock
        /\ \E state : Recache(r, a, state, {})
    BY <1>4 DEF FetchDone, Goto, TypeOK
  <2>2. Stays(r)
    BY <2>1 DEF Stays
  <2>3. Fetched(r)
    BY <2>1, RecachePublished DEF Fetched
  <2> QED
    BY <2>2, <2>3 DEF Proceeds
<1>5. CASE FetchFails(r, a, save)
  <2>1. /\ pc[r] = save /\ pc' = [pc EXCEPT ![r] = "failed"] /\ pc'[r] = "failed"
        /\ lock' = Released(r) /\ \E state : Recache(r, a, state, {})
    BY <1>5 DEF FetchFails, Goto, TypeOK
  <2>2. Leaves(r)
    BY <2>1 DEF Leaves, Resting
  <2>3. Fetched(r)
    BY <2>1, RecachePublished DEF Fetched, Unpacking
  <2> QED
    BY <2>2, <2>3 DEF Proceeds
<1> QED
  BY <1>1, <1>2, <1>3, <1>4, <1>5 DEF FetchStep

LEMMA EvictProceeds ==
    ASSUME TypeInv, NEW r \in Runs, NEW a \in Artifacts, NEW from,
           EvictStep(r, a, from), goal' = goal
    PROVE  Proceeds(r)
<1> USE DEF TypeInv
<1>1. /\ pc' = [pc EXCEPT ![r] = "failed"] /\ pc'[r] = "failed"
      /\ lock' = Released(r) /\ Recache(r, a, "absent", {})
  BY DEF EvictStep, Goto, TypeOK
<1>2. Leaves(r)
  BY <1>1 DEF Leaves, Resting
<1>3. Fetched(r)
  BY <1>1, RecachePublished DEF Fetched, Unpacking
<1> QED
  BY <1>2, <1>3 DEF Proceeds

LEMMA NodeProceeds ==
    ASSUME TypeInv, NEW r \in Runs, NodeNext(r)
    PROVE  Proceeds(r)
<1> USE DEF TypeInv, Proceeds, Fetched
<1>1. CASE NodeLock(r)
  <2>1. Acquire(r, "node", "node.lock", "node.check") /\ UNCHANGED <<cache, goal>>
    BY <1>1 DEF NodeLock
  <2>2. "node" \in {"node"} \cup Tools /\ "node.check" \in Labels /\ "node.check" \in NodeSteps
    BY ArtifactType DEF Tool, Labels, NodeSteps, ToolSteps
  <2>3. Enters(r)
    BY <2>1, <2>2 DEF Enters, Acquire, Step, Goto
  <2>4. pc'[r] \notin Unpacking
    BY <2>1 DEF Acquire, Step, Goto, TypeOK, Unpacking
  <2> QED
    BY <2>1, <2>3, <2>4
<1>2. CASE NodeSkip(r)
  BY <1>2 DEF TypeOK, NodeSkip, Step, Goto, Return, Leaves, Unpacking, Waiting
<1>3. CASE NodeNeeded(r)
  BY <1>3 DEF TypeOK, NodeNeeded, Step, Goto, Stays, Inside, Unpacking, Labels,
     NodeSteps
<1>4. CASE NodeFetch(r)
  <2> DEFINE to == IF Bare(r) THEN "node.exe" ELSE "node.unpack"
  <2>1. FetchStep(r, NodeArtifact(r), "node.fetch", "node.save", to) /\ goal' = goal
    BY <1>4 DEF NodeFetch
  <2>2. /\ "node.save" \in Labels /\ to \in Labels /\ Inside("node.fetch", "node.save")
        /\ Inside("node.fetch", to) /\ Inside("node.save", to)
    BY DEF Labels, Inside, NodeSteps, ToolSteps
  <2>3. "node.save" \notin Unpacking /\ to \notin Unpacking
    BY DEF Unpacking
  <2>4. NodeArtifact(r) \in Artifacts /\ NodeArtifact(r) \in Published
    BY ArtifactType DEF NodeArtifact, NodeArtifacts, Published, Bare
  <2> HIDE DEF to
  <2> QED
    BY <2>1, <2>2, <2>3, <2>4, FetchProceeds
<1>5. CASE NodeUnpackPart(r)
  BY <1>5 DEF TypeOK, NodeUnpackPart, Stays
<1>6. CASE NodeUnpacked(r)
  BY <1>6 DEF TypeOK, NodeUnpacked, Step, Goto, Stays, Inside, Unpacking, Labels,
     NodeSteps
<1>7. CASE NodeUnpackEOF(r)
  BY <1>7, ArtifactType, EvictProceeds DEF NodeUnpackEOF
<1>8. CASE NodeUnpackFails(r)
  BY <1>8 DEF TypeOK, NodeUnpackFails, Step, Goto, Return, Leaves, Unpacking, Resting
<1>9. CASE NodeRemoveOld(r)
  BY <1>9 DEF TypeOK, NodeRemoveOld, Step, Goto, Stays, Inside, Unpacking, Labels,
     NodeSteps
<1>10. CASE NodeBinaryMissing(r)
  BY <1>10 DEF TypeOK, NodeBinaryMissing, Step, Goto, Return, Leaves, Unpacking, Resting
<1>11. CASE NodeMove(r)
  BY <1>11 DEF TypeOK, NodeMove, Step, Goto, Stays, Inside, Unpacking, Labels, NodeSteps
<1>12. CASE NodeReplaceFails(r)
  BY <1>12 DEF TypeOK, NodeReplaceFails, Step, Goto, Return, Leaves, Unpacking, Resting
<1>13. CASE NodeWithoutNpm(r)
  BY <1>13 DEF TypeOK, NodeWithoutNpm, Step, Goto, Stays, Inside, Unpacking, Labels,
     NodeSteps
<1>14. CASE NodeTooOld(r)
  BY <1>14 DEF TypeOK, NodeTooOld, Step, Goto, Return, Leaves, Unpacking, Resting
<1>15. CASE NodeKeepsNpm(r)
  <2>1. \/ Step(r, "node.npm", "node.copy") /\ lock' = lock
        \/ Step(r, "node.npm", "failed") /\ lock' = Released(r)
    BY <1>15 DEF NodeKeepsNpm, Return
  <2>2. Stays(r) \/ Leaves(r)
    BY <2>1 DEF Step, Goto, Stays, Leaves, Inside, Labels, NodeSteps, Resting
  <2>3. pc'[r] \notin Unpacking
    BY <2>1 DEF Step, Goto, TypeOK, Unpacking
  <2> QED
    BY <1>15, <2>2, <2>3 DEF NodeKeepsNpm
<1>16. CASE NodeCopyPart(r)
  BY <1>16 DEF TypeOK, NodeCopyPart, Stays
<1>17. CASE NodeCopied(r)
  BY <1>17 DEF TypeOK, NodeCopied, Step, Goto, Stays, Inside, Unpacking, Labels,
     NodeSteps
<1>18. CASE NodeFinishFails(r)
  BY <1>18 DEF TypeOK, NodeFinishFails, Step, Goto, Return, Leaves, Unpacking, Resting
<1>19. CASE NodeScripts(r)
  BY <1>19 DEF TypeOK, NodeScripts, Step, Goto, Stays, Inside, Unpacking, Labels,
     NodeSteps
<1>20. CASE NodeTidy(r)
  BY <1>20 DEF TypeOK, NodeTidy, Step, Goto, Return, Leaves, Unpacking, Waiting
<1>21. CASE NodeRefused(r)
  BY <1>21 DEF TypeOK, NodeRefused, Step, Goto, Return, Leaves, Unpacking, Resting
<1>22. CASE NodeRenameOver(r)
  BY <1>22 DEF TypeOK, NodeRenameOver, Step, Goto, Stays, Inside, Unpacking, Labels,
     NodeSteps
<1>23. CASE ExeOpened(r)
  BY <1>23 DEF TypeOK, ExeOpened, Stays, Inside, Unpacking, Labels, NodeSteps
<1>24. CASE ExeWritten(r)
  BY <1>24 DEF TypeOK, ExeWritten, Step, Goto, Return, Leaves, Unpacking, Waiting
<1>25. CASE ExeFails(r)
  BY <1>25 DEF TypeOK, ExeFails, Step, Goto, Return, Leaves, Unpacking, Resting
<1> QED
  BY <1>1, <1>2, <1>3, <1>4, <1>5, <1>6, <1>7, <1>8, <1>9, <1>10, <1>11, <1>12,
     <1>13, <1>14, <1>15, <1>16, <1>17, <1>18, <1>19, <1>20, <1>21, <1>22, <1>23,
     <1>24, <1>25 DEF NodeNext

LEMMA ToolProceeds ==
    ASSUME TypeInv, NEW r \in Runs, ToolNext(r)
    PROVE  Proceeds(r)
<1> USE DEF TypeInv, Proceeds, Fetched
<1>1. CASE ToolLock(r)
  <2>1. Acquire(r, Tool(r), "tool.lock", "tool.check") /\ UNCHANGED <<cache, goal>>
    BY <1>1 DEF ToolLock
  <2>2. Tool(r) \in {"node"} \cup Tools /\ "tool.check" \in Labels /\ "tool.check" \in ToolSteps
    BY ArtifactType DEF Tool, Labels, NodeSteps, ToolSteps
  <2>3. Enters(r)
    BY <2>1, <2>2 DEF Enters, Acquire, Step, Goto
  <2>4. pc'[r] \notin Unpacking
    BY <2>1 DEF Acquire, Step, Goto, TypeOK, Unpacking
  <2> QED
    BY <2>1, <2>3, <2>4
<1>2. CASE ToolSkip(r)
  BY <1>2 DEF TypeOK, ToolSkip, Step, Goto, Stays, Inside, Unpacking, Labels, ToolSteps
<1>3. CASE ToolRefused(r)
  BY <1>3 DEF TypeOK, ToolRefused, Step, Goto, Return, Leaves, Unpacking, Resting
<1>4. CASE ToolNeeded(r)
  BY <1>4 DEF TypeOK, ToolNeeded, Step, Goto, Stays, Inside, Unpacking, Labels,
     ToolSteps
<1>5. CASE ToolFetch(r)
  <2>1. FetchStep(r, ToolRelease(r), "tool.fetch", "tool.save", "tool.clear") /\ goal' = goal
    BY <1>5 DEF ToolFetch
  <2>2. /\ "tool.save" \in Labels /\ "tool.clear" \in Labels
        /\ Inside("tool.fetch", "tool.save") /\ Inside("tool.fetch", "tool.clear")
        /\ Inside("tool.save", "tool.clear")
    BY DEF Labels, Inside, NodeSteps, ToolSteps
  <2>3. pc[r] = "tool.save" => ToolRelease(r) \in Published
    BY DEF InstallsRelease, Unpacking
  <2> QED
    BY <2>1, <2>2, <2>3, ArtifactType, FetchProceeds
<1>6. CASE ToolClearPart(r)
  BY <1>6 DEF TypeOK, ToolClearPart, Stays
<1>7. CASE ToolCleared(r)
  BY <1>7 DEF TypeOK, ToolCleared, Step, Goto, Stays, Inside, Unpacking, Labels,
     ToolSteps
<1>8. CASE ToolUnpackPart(r)
  BY <1>8 DEF TypeOK, ToolUnpackPart, Stays
<1>9. CASE ToolUnpacked(r)
  BY <1>9 DEF TypeOK, ToolUnpacked, Step, Goto, Stays, Inside, Unpacking, Labels,
     ToolSteps
<1>10. CASE ToolUnpackEOF(r)
  BY <1>10, ArtifactType, EvictProceeds DEF ToolUnpackEOF
<1>11. CASE ToolUnpackFails(r)
  BY <1>11 DEF TypeOK, ToolUnpackFails, Step, Goto, Return, Leaves, Unpacking, Resting
<1>12. CASE ToolRename(r)
  BY <1>12 DEF TypeOK, ToolRename, Step, Goto, Stays, Inside, Unpacking, Labels,
     ToolSteps
<1>13. CASE ToolRenameSkipped(r)
  BY <1>13 DEF TypeOK, ToolRenameSkipped, Step, Goto, Stays, Inside, Unpacking,
     Labels, ToolSteps
<1>14. CASE ToolCopyPart(r)
  BY <1>14 DEF TypeOK, ToolCopyPart, Stays
<1>15. CASE ToolCopied(r)
  BY <1>15 DEF TypeOK, ToolCopied, Step, Goto, Stays, Inside, Unpacking, Labels,
     ToolSteps
<1>16. CASE ToolCopyFails(r)
  BY <1>16 DEF TypeOK, ToolCopyFails, Step, Goto, Return, Leaves, Unpacking, Resting
<1>17. CASE NpmScripts(r)
  BY <1>17 DEF TypeOK, NpmScripts, Step, Goto, Return, Leaves, Unpacking, Resting
<1>18. CASE LinkExisting(r)
  BY <1>18 DEF TypeOK, LinkExisting, Step, Goto, Return, Leaves, Unpacking, Resting
<1>19. CASE LinkNew(r)
  BY <1>19 DEF TypeOK, LinkNew, Step, Goto, Return, Leaves, Unpacking, Resting
<1>20. CASE LinkFails(r)
  BY <1>20 DEF TypeOK, LinkFails, Step, Goto, Return, Leaves, Unpacking, Resting
<1> QED
  BY <1>1, <1>2, <1>3, <1>4, <1>5, <1>6, <1>7, <1>8, <1>9, <1>10, <1>11, <1>12,
     <1>13, <1>14, <1>15, <1>16, <1>17, <1>18, <1>19, <1>20 DEF ToolNext

LEMMA WorkProceeds ==
    ASSUME TypeInv, NEW r \in Runs, Work(r)
    PROVE  TypeOK' /\ Proceeds(r)
BY NodeType, ToolType, NodeProceeds, ToolProceeds DEF Work

NodeHeld ==
    \A r \in Runs : pc[r] \in NodeSteps => lock[<<ProcOf(r), "node">>] = r

ToolHeld ==
    \A r \in Runs : pc[r] \in ToolSteps => lock[<<ProcOf(r), Tool(r)>>] = r

\* The inductive invariant.
LockInv == TypeInv /\ NodeHeld /\ ToolHeld

LEMMA LabelsDisjoint ==
    /\ NodeSteps \cap ToolSteps = {}
    /\ (Resting \cup Waiting) \cap (NodeSteps \cup ToolSteps) = {}
    /\ Unpacking \subseteq ToolSteps
BY DEF NodeSteps, ToolSteps, Resting, Waiting, Unpacking

LEMMA LocksOf ==
    ASSUME NEW r \in Runs, TypeOK
    PROVE  <<ProcOf(r), "node">> \in Locks /\ <<ProcOf(r), Tool(r)>> \in Locks
BY ArtifactType DEF Locks, Tool, ProcOf

LEMMA InitInv == Init => LockInv
<1> SUFFICES ASSUME Init PROVE LockInv
  OBVIOUS
<1>1. TypeOK
  BY EmptyType DEF Init, TypeOK, Resting
<1>2. OnlyPublished
  BY DEF Init, OnlyPublished
<1>3. \A r \in Runs : pc[r] = "idle"
  BY DEF Init
<1> QED
  BY <1>1, <1>2, <1>3
     DEF LockInv, TypeInv, InstallsRelease, NodeHeld, ToolHeld, NodeSteps, ToolSteps, Unpacking

LEMMA PublishedStep ==
    ASSUME TypeInv, NEW r \in Runs, Proceeds(r)
    PROVE  OnlyPublished' /\ InstallsRelease'
<1> USE DEF TypeInv
<1>1. OnlyPublished'
  BY DEF OnlyPublished, Proceeds, Fetched
<1>2. ASSUME NEW s \in Runs, pc'[s] \in Unpacking PROVE ToolRelease(s)' \in Published
  <2>1. ToolRelease(s)' = ToolRelease(s)
    BY DEF ToolRelease, Proceeds
  <2>2. s # r => pc'[s] = pc[s]
    BY DEF Proceeds, Stays, Leaves, Enters, TypeOK
  <2>3. pc[s] \in Unpacking \/ ToolRelease(s) \in Published
    BY <1>2, <2>2 DEF Proceeds, Fetched
  <2> QED
    BY <2>1, <2>3 DEF InstallsRelease
<1> QED
  BY <1>1, <1>2 DEF InstallsRelease

\* Whoever holds a mutex another run needs keeps it while that run moves.
LEMMA HeldStep ==
    ASSUME LockInv, NEW r \in Runs, Proceeds(r)
    PROVE  NodeHeld' /\ ToolHeld'
<1> USE DEF LockInv, TypeInv
<1>1. ASSUME NEW s \in Runs PROVE Tool(s)' = Tool(s) /\ ProcOf(s)' = ProcOf(s)
  BY DEF Tool, ProcOf, Proceeds
<1>2. CASE Stays(r)
  <2>1. ASSUME NEW s \in Runs
        PROVE  /\ pc'[s] \in NodeSteps => pc[s] \in NodeSteps
               /\ pc'[s] \in ToolSteps => pc[s] \in ToolSteps
    BY <1>2, LabelsDisjoint DEF Stays, Inside, TypeOK
  <2> QED
    BY <1>1, <1>2, <2>1 DEF Stays, NodeHeld, ToolHeld
<1>3. CASE Leaves(r)
  <2>1. pc'[r] \in Resting \cup Waiting
    BY <1>3 DEF Leaves, TypeOK
  <2>2. ASSUME NEW s \in Runs, s # r PROVE pc'[s] = pc[s]
    BY <1>3, <2>2 DEF Leaves, TypeOK
  <2>3. ASSUME NEW k \in Locks, lock[k] # r PROVE lock'[k] = lock[k]
    BY <1>3, <2>3 DEF Leaves, Released
  <2> QED
    BY <1>1, <2>1, <2>2, <2>3, LabelsDisjoint, LocksOf DEF NodeHeld, ToolHeld
<1>4. CASE Enters(r)
  <2>1. PICK installer \in {"node"} \cup Tools, to \in Labels :
          /\ lock[<<ProcOf(r), installer>>] = Free
          /\ lock' = [lock EXCEPT ![<<ProcOf(r), installer>>] = r]
          /\ pc' = [pc EXCEPT ![r] = to]
          /\ \/ installer = "node" /\ to \in NodeSteps
             \/ installer = Tool(r) /\ to \in ToolSteps
    BY <1>4 DEF Enters
  <2>2. <<ProcOf(r), installer>> \in Locks
    BY ArtifactType DEF Locks, ProcOf
  <2>3. lock'[<<ProcOf(r), installer>>] = r
    BY <2>1, <2>2 DEF TypeOK
  <2>4. ASSUME NEW k \in Locks, NEW s \in Runs, lock[k] = s PROVE lock'[k] = s
    BY <2>1, <2>4 DEF TypeOK
  <2>5. pc'[r] = to
    BY <2>1 DEF TypeOK
  <2>6. ASSUME NEW s \in Runs, s # r PROVE pc'[s] = pc[s]
    BY <2>1, <2>6 DEF TypeOK
  <2>7. NodeHeld'
    <3> SUFFICES ASSUME NEW s \in Runs, pc'[s] \in NodeSteps
                 PROVE  lock'[<<ProcOf(s), "node">>] = s
      BY <1>1 DEF NodeHeld
    <3>1. CASE s = r
      BY <3>1, <2>1, <2>3, <2>5, LabelsDisjoint
    <3>2. CASE s # r
      BY <3>2, <2>4, <2>6, LocksOf DEF NodeHeld
    <3> QED
      BY <3>1, <3>2
  <2>8. ToolHeld'
    <3> SUFFICES ASSUME NEW s \in Runs, pc'[s] \in ToolSteps
                 PROVE  lock'[<<ProcOf(s), Tool(s)>>] = s
      BY <1>1 DEF ToolHeld
    <3>1. CASE s = r
      BY <3>1, <2>1, <2>3, <2>5, LabelsDisjoint
    <3>2. CASE s # r
      BY <3>2, <2>4, <2>6, LocksOf DEF ToolHeld
    <3> QED
      BY <3>1, <3>2
  <2> QED
    BY <2>7, <2>8
<1> QED
  BY <1>2, <1>3, <1>4 DEF Proceeds

LEMMA StartStep ==
    ASSUME LockInv, NEW r \in Runs, StartGoal(r)
    PROVE  LockInv'
<1> USE DEF LockInv, TypeInv
<1>1. /\ pc' = [pc EXCEPT ![r] = "node.lock"]
      /\ \E g \in Goals : goal' = [goal EXCEPT ![r] = g]
      /\ UNCHANGED <<node, tmp, dir, launcher, cache, lock, wrote, faults>>
  BY DEF StartGoal
<1>2. TypeOK'
  BY <1>1 DEF TypeOK, Waiting
<1>3. pc'[r] = "node.lock"
  BY <1>1 DEF TypeOK
<1>4. "node.lock" \notin NodeSteps \cup ToolSteps
  BY DEF NodeSteps, ToolSteps
<1>5. ASSUME NEW s \in Runs, s # r PROVE pc'[s] = pc[s] /\ goal'[s] = goal[s]
  BY <1>1, <1>5 DEF TypeOK
<1>6. OnlyPublished'
  BY <1>1 DEF OnlyPublished
<1>7. InstallsRelease'
  BY <1>3, <1>4, <1>5, LabelsDisjoint DEF InstallsRelease, ToolRelease
<1>8. NodeHeld' /\ ToolHeld'
  BY <1>1, <1>3, <1>4, <1>5 DEF NodeHeld, ToolHeld, Tool, ProcOf
<1> QED
  BY <1>2, <1>6, <1>7, <1>8

LEMMA CrashStep ==
    ASSUME LockInv, NEW p \in Procs, Crash(p)
    PROVE  LockInv'
<1> USE DEF LockInv, TypeInv
<1> DEFINE mine == {r \in Runs : ProcOf(r) = p /\ pc[r] \notin Resting}
<1>1. /\ pc' = [r \in Runs |-> IF r \in mine THEN "failed" ELSE pc[r]]
      /\ wrote' = [r \in Runs |-> IF r \in mine THEN {} ELSE wrote[r]]
      /\ lock' = [k \in Locks |-> IF k[1] = p THEN Free ELSE lock[k]]
      /\ UNCHANGED <<node, tmp, goal>>
      /\ Fault("crash")
  BY DEF Crash
<1>2. cache' = [a \in Artifacts |-> IF cache[a] \in mine THEN "torn" ELSE cache[a]]
  BY DEF Crash
<1>3. PICK halved \in SUBSET {d \in Tools : \E r \in mine : Copying(r, d)} :
        dir' = [d \in Dirs |-> IF d \in halved THEN [json |-> Torn, code |-> dir[d].code] ELSE dir[d]]
  BY DEF Crash
<1>4. PICK cut \in SUBSET {t \in Tools : \E r \in mine : Linking(r, t)} :
        launcher' = [t \in Tools |-> IF t \in cut THEN Torn ELSE launcher[t]]
  BY DEF Crash
<1>5. TypeOK'
  <2>1. pc' \in [Runs -> Resting \cup Waiting \cup NodeSteps \cup ToolSteps]
    BY <1>1 DEF TypeOK, Resting
  <2>2. wrote' \in [Runs -> SUBSET Parts] /\ lock' \in [Locks -> Runs \cup {Free}]
    BY <1>1 DEF TypeOK
  <2>3. cache' \in [Artifacts -> {"absent", "torn", "whole"} \cup Runs]
    BY <1>2 DEF TypeOK
  <2>4. dir' \in [Dirs -> Content]
    <3>1. ASSUME NEW d \in Dirs
          PROVE  dir[d] \in Content /\ [json |-> Torn, code |-> dir[d].code] \in Content
      BY DEF TypeOK, Content
    <3> QED
      BY <1>3, <3>1
  <2>5. faults' \in 0 .. MaxFaults
    BY <1>1, FaultType
  <2>6. launcher' \in [Tools -> Entries \cup {None, Torn}]
    BY <1>4 DEF TypeOK
  <2> QED
    BY <1>1, <2>1, <2>2, <2>3, <2>4, <2>5, <2>6 DEF TypeOK
<1>6. OnlyPublished'
  BY <1>2 DEF OnlyPublished
<1>7. ASSUME NEW s \in Runs, pc'[s] \in NodeSteps \cup ToolSteps
      PROVE  pc'[s] = pc[s] /\ ProcOf(s) # p
  BY <1>1, <1>7, LabelsDisjoint DEF Resting
<1>8. InstallsRelease'
  BY <1>1, <1>7, LabelsDisjoint DEF InstallsRelease, ToolRelease
<1>9. ASSUME NEW s \in Runs, NEW i, <<ProcOf(s), i>> \in Locks, ProcOf(s) # p
      PROVE  lock'[<<ProcOf(s), i>>] = lock[<<ProcOf(s), i>>]
  BY <1>1, <1>9
<1>10. ASSUME NEW s \in Runs PROVE Tool(s)' = Tool(s) /\ ProcOf(s)' = ProcOf(s)
  BY <1>1 DEF Tool, ProcOf
<1>11. NodeHeld' /\ ToolHeld'
  <2>1. ASSUME NEW s \in Runs, pc'[s] \in NodeSteps
        PROVE  lock'[<<ProcOf(s), "node">>] = s
    BY <1>7, <1>9, <2>1, LocksOf DEF NodeHeld
  <2>2. ASSUME NEW s \in Runs, pc'[s] \in ToolSteps
        PROVE  lock'[<<ProcOf(s), Tool(s)>>] = s
    BY <1>7, <1>9, <2>2, LocksOf DEF ToolHeld
  <2> QED
    BY <1>10, <2>1, <2>2 DEF NodeHeld, ToolHeld
<1> QED
  BY <1>5, <1>6, <1>8, <1>11

LEMMA NextInv == LockInv /\ [Next]_vars => LockInv'
<1> SUFFICES ASSUME LockInv, [Next]_vars PROVE LockInv'
  OBVIOUS
<1>1. ASSUME NEW r \in Runs, StartGoal(r) PROVE LockInv'
  BY <1>1, StartStep
<1>2. ASSUME NEW r \in Runs, Work(r) PROVE LockInv'
  BY <1>2, WorkProceeds, PublishedStep, HeldStep DEF LockInv, TypeInv
<1>3. ASSUME NEW p \in Procs, Crash(p) PROVE LockInv'
  BY <1>3, CrashStep
<1>4. CASE UNCHANGED vars
  BY <1>4 DEF vars, LockInv, TypeInv, TypeOK, OnlyPublished, InstallsRelease,
              NodeHeld, ToolHeld, ToolRelease, Tool, ProcOf
<1> QED
  BY <1>1, <1>2, <1>3, <1>4 DEF Next

LEMMA Invariance == Spec => []LockInv
<1>1. Init => LockInv
  BY InitInv
<1>2. LockInv /\ [Next]_vars => LockInv'
  BY NextInv
<1> QED
  BY <1>1, <1>2, PTL DEF Spec

\* The state of InstallTree keeps its type, whatever the goals, versions and
\* faults; in particular package.json names a release the registry has.
THEOREM TypeCorrect == Spec => []TypeOK
<1>1. LockInv => TypeOK
  BY DEF LockInv, TypeInv
<1> QED
  BY <1>1, Invariance, PTL

\* nodeInstallLock keeps two goals of one process from unpacking into node/tmp
\* at once, for any number of goals, processes and crashes.
THEOREM NodeUnpackExclusion == Spec => []NodeUnpackIsExclusive
<1>1. LockInv => NodeUnpackIsExclusive
  BY DEF LockInv, NodeHeld, NodeUnpackIsExclusive, SameProcess
<1> QED
  BY <1>1, Invariance, PTL

\* The mutex of each tool's installer keeps two goals of one process from
\* clearing, unpacking and renaming that tool's directory at once.
THEOREM ToolInstallExclusion == Spec => []ToolInstallIsExclusive
<1>1. LockInv => ToolInstallIsExclusive
  BY DEF LockInv, ToolHeld, ToolInstallIsExclusive, SameProcess
<1> QED
  BY <1>1, Invariance, PTL

=============================================================================
