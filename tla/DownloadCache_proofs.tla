------------------------ MODULE DownloadCache_proofs ------------------------
(***************************************************************************)
(* Proofs about DownloadCache, for any set of builds and files, any number *)
(* of chunks and any number of faults.  Type correctness and what          *)
(* overlapping builds leave hold of every instance; the rest is about      *)
(* builds that do not overlap.                                             *)
(***************************************************************************)
EXTENDS DownloadCache, TLAPS

(***************************************************************************)
(* TypeOK alone is not inductive: writing and reading go through fd, which *)
(* must then be a file.                                                    *)
(***************************************************************************)
HandleInv == \A b \in Builds : pc[b] \in {"write", "read"} => fd[b] \in Inodes

TypeInv == TypeOK /\ HandleInv

LEMMA TypeInit == Init => TypeInv
  BY NAssumption, MaxFaultsAssumption
  DEF Init, TypeInv, TypeOK, HandleInv, Resting, Steps, Chunks

LEMMA TypeNext == TypeInv /\ [Next]_vars => TypeInv'
  <1> SUFFICES ASSUME TypeInv, [Next]_vars PROVE TypeInv'
    OBVIOUS
  <1> USE NAssumption, MaxFaultsAssumption, NoFileAssumption
  <1> USE DEF TypeInv, TypeOK, HandleInv, Resting, Steps, Chunks,
              Goto, Seek, Fault, Fail, Succeed
  <1>1. CASE UNCHANGED vars
    BY <1>1 DEF vars
  <1>2. ASSUME NEW b \in Builds,
               \/ StartBuild(b) \/ CheckCache(b) \/ CloseFile(b) \/ OpenArchive(b)
               \/ UnpackEOF(b) \/ ReadComplete(b) \/ CopyEnds(b)
        PROVE  TypeInv'
    BY <1>2 DEF StartBuild, CheckCache, CloseFile, OpenArchive, UnpackEOF,
                ReadComplete, CopyEnds
  <1>3. ASSUME NEW b \in Builds,
               \/ FetchRefused(b) \/ WriteFails(b) \/ Crash(b)
               \/ OpenMissing(b) \/ UnpackMalformed(b) \/ EvictArchive(b)
        PROVE  TypeInv'
    BY <1>3 DEF FetchRefused, WriteFails, Crash, OpenMissing, UnpackMalformed,
                EvictArchive
  <1>4. ASSUME NEW b \in Builds, FetchBody(b) \/ FetchShortBody(b)
        PROVE  TypeInv'
    BY <1>4 DEF FetchBody, FetchShortBody
  <1>5. ASSUME NEW b \in Builds, CreateFile(b)
        PROVE  TypeInv'
    BY <1>5 DEF CreateFile
  <1>6. ASSUME NEW b \in Builds, WriteChunk(b)
        PROVE  TypeInv'
    <2>1. off[b] + 1 \in 1 .. N
      BY <1>6 DEF WriteChunk
    <2>2. data' \in [Inodes -> SUBSET (1 .. N)]
      BY <1>6, <2>1 DEF WriteChunk
    <2>3. off' \in [Builds -> 0 .. N]
      BY <1>6, <2>1 DEF WriteChunk
    <2> QED
      BY <1>6, <2>2, <2>3 DEF WriteChunk
  <1>7. ASSUME NEW b \in Builds, ReadChunk(b)
        PROVE  TypeInv'
    <2>1. off[b] + 1 \in 1 .. N
      BY <1>7 DEF ReadChunk
    <2> QED
      BY <1>7, <2>1 DEF ReadChunk
  <1>8. ASSUME NEW b \in Builds, CopyHole(b)
        PROVE  TypeInv'
    <2>1. off[b] + 1 \in 1 .. N
      BY <1>8 DEF CopyHole, AtHole, AtEnd
    <2> QED
      BY <1>8, <2>1 DEF CopyHole
  <1> QED
    BY <1>1, <1>2, <1>3, <1>4, <1>5, <1>6, <1>7, <1>8 DEF Next, Work, Misfortune

(* Every variable keeps its type, whatever the format and the interleaving. *)
THEOREM TypeCorrect == Spec => []TypeOK
  <1>1. TypeInv => TypeOK
    BY DEF TypeInv
  <1> QED
    BY <1>1, TypeInit, TypeNext, PTL DEF Spec

-----------------------------------------------------------------------------
(***************************************************************************)
(* Builds that follow one another.  What ties the builder's position to    *)
(* the file: a download starts only from an absent file, the file being    *)
(* written is exactly what was written so far, and the file being read     *)
(* holds what was read so far.                                             *)
(***************************************************************************)
OneActive == \A b, c \in Builds : pc[b] \in Steps /\ pc[c] \in Steps => b = c

CursorInv ==
    \A b \in Builds :
        /\ pc[b] \in {"request", "create"} => link = NoFile
        /\ pc[b] = "open" => link # NoFile
        /\ pc[b] \in {"write", "read"} => fd[b] = link
        /\ pc[b] = "write" => data[fd[b]] = 1 .. off[b]
        /\ pc[b] = "read" => 1 .. off[b] \subseteq data[fd[b]]

SerialInv == TypeInv /\ OneActive /\ CursorInv /\ CachedIsPrefix /\ EvictsOnlyTorn

LEMMA SerialInit == Init => SerialInv
  <1> SUFFICES ASSUME Init PROVE SerialInv
    OBVIOUS
  <1>1. TypeInv
    BY TypeInit
  <1>2. OneActive /\ CursorInv /\ CachedIsPrefix /\ EvictsOnlyTorn
    BY DEF Init, OneActive, CursorInv, CachedIsPrefix, EvictsOnlyTorn, Steps
  <1> QED
    BY <1>1, <1>2 DEF SerialInv

LEMMA OneActiveNext ==
  ASSUME ~Overlap, TypeInv, OneActive, [Next]_vars PROVE OneActive'
  <1> USE DEF TypeInv, TypeOK, OneActive, Resting, Steps, Goto, Fail, Succeed
  <1>1. CASE UNCHANGED vars
    BY <1>1 DEF vars
  <1>2. ASSUME NEW b \in Builds, StartBuild(b) PROVE OneActive'
    BY <1>2 DEF StartBuild
  <1>3. ASSUME NEW b \in Builds, Work(b) \/ Misfortune(b)
        PROVE  pc[b] \in Steps /\ \A c \in Builds : c # b => pc'[c] = pc[c]
    BY <1>3 DEF Work, Misfortune, CheckCache, FetchBody, FetchShortBody, FetchRefused,
                CreateFile, WriteChunk, CloseFile, WriteFails, OpenArchive, OpenMissing,
                ReadChunk, ReadComplete, UnpackEOF, UnpackMalformed, CopyHole, CopyEnds,
                EvictArchive, Crash
  <1>4. ASSUME NEW b \in Builds, Work(b) \/ Misfortune(b) PROVE OneActive'
    BY <1>3, <1>4
  <1> QED
    BY <1>1, <1>2, <1>4 DEF Next

(* The file steps of a build, each keeping the cursor and the prefix.       *)
LEMMA CursorNext ==
  ASSUME ~Overlap, SerialInv, [Next]_vars
  PROVE  CursorInv' /\ CachedIsPrefix' /\ EvictsOnlyTorn'
  <1> USE NAssumption, NoFileAssumption
  <1> USE DEF SerialInv, TypeInv, TypeOK, HandleInv, CursorInv, CachedIsPrefix,
              EvictsOnlyTorn, Whole, Chunks, Goto, Seek, Fail, Succeed
  <1>1. CASE UNCHANGED vars
    BY <1>1 DEF vars
  <1>2. ASSUME NEW b \in Builds, StartBuild(b) \/ CheckCache(b)
        PROVE  CursorInv' /\ CachedIsPrefix' /\ EvictsOnlyTorn'
    BY <1>2 DEF StartBuild, CheckCache, Resting, Steps
  <1>o. ASSUME NEW b \in Builds, pc[b] \in Steps
        PROVE  \A c \in Builds : c # b => pc[c] \in Resting
    BY <1>o DEF OneActive, Resting, Steps
  <1>3. ASSUME NEW b \in Builds,
               \/ FetchBody(b) \/ FetchShortBody(b) \/ FetchRefused(b)
               \/ WriteFails(b) \/ Crash(b) \/ OpenMissing(b)
               \/ UnpackMalformed(b) \/ ReadComplete(b) \/ CopyEnds(b)
        PROVE  CursorInv' /\ CachedIsPrefix' /\ EvictsOnlyTorn'
    <2>1. CASE FetchBody(b) \/ FetchShortBody(b)
      BY <2>1 DEF FetchBody, FetchShortBody
    <2>2. CASE FetchRefused(b) \/ WriteFails(b) \/ Crash(b) \/ OpenMissing(b)
      BY <2>2 DEF FetchRefused, WriteFails, Crash, OpenMissing
    <2>3. CASE UnpackMalformed(b) \/ ReadComplete(b) \/ CopyEnds(b)
      BY <2>3 DEF UnpackMalformed, ReadComplete, CopyEnds
    <2> QED
      BY <1>3, <2>1, <2>2, <2>3
  <1>4. ASSUME NEW b \in Builds, CreateFile(b)
        PROVE  CursorInv' /\ CachedIsPrefix' /\ EvictsOnlyTorn'
    <2>1. PICK i \in Inodes : link' = i /\ data' = [data EXCEPT ![i] = {}] /\ Seek(b, i, 0)
      BY <1>4 DEF CreateFile
    <2>2. data'[i] = {} /\ fd'[b] = i /\ off'[b] = 0 /\ pc'[b] = "write"
      BY <1>4, <2>1 DEF CreateFile
    <2>3. \A c \in Builds : c # b => pc'[c] \in Resting
      BY <1>4, <1>o DEF CreateFile, Resting, Steps
    <2>4. data'[fd'[b]] = 1 .. off'[b]
      BY <2>2
    <2> QED
      BY <2>1, <2>2, <2>3, <2>4 DEF Resting
  <1>5. ASSUME NEW b \in Builds, WriteChunk(b)
        PROVE  CursorInv' /\ CachedIsPrefix' /\ EvictsOnlyTorn'
    <2>1. /\ data[link] = 1 .. off[b] /\ link \in Inodes /\ fd[b] = link
          /\ off[b] \in 0 .. N - 1 /\ off'[b] = off[b] + 1
      BY <1>5 DEF WriteChunk
    <2>2. data'[link] = 1 .. (off[b] + 1)
      BY <1>5, <2>1 DEF WriteChunk
    <2>3. \A c \in Builds : c # b => pc[c] \in Resting
      BY <1>5, <1>o DEF WriteChunk, Steps
    <2>4. CachedIsPrefix'
      BY <1>5, <2>1, <2>2 DEF WriteChunk
    <2>5. CursorInv' /\ EvictsOnlyTorn'
      BY <1>5, <2>1, <2>2, <2>3 DEF WriteChunk, Resting
    <2> QED
      BY <2>4, <2>5
  <1>6. ASSUME NEW b \in Builds, CloseFile(b)
        PROVE  CursorInv' /\ CachedIsPrefix' /\ EvictsOnlyTorn'
    BY <1>6 DEF CloseFile
  <1>7. ASSUME NEW b \in Builds, OpenArchive(b)
        PROVE  CursorInv' /\ CachedIsPrefix' /\ EvictsOnlyTorn'
    BY <1>7 DEF OpenArchive
  <1>8. ASSUME NEW b \in Builds, ReadChunk(b)
        PROVE  CursorInv' /\ CachedIsPrefix' /\ EvictsOnlyTorn'
    BY <1>8 DEF ReadChunk
  <1>9. ASSUME NEW b \in Builds, UnpackEOF(b)
        PROVE  CursorInv' /\ CachedIsPrefix' /\ EvictsOnlyTorn'
    <2>1. link \in Inodes /\ fd[b] = link
      BY <1>9 DEF UnpackEOF
    <2>2. N \notin data[link]
      BY <1>9, <2>1 DEF UnpackEOF, HitsEOF, AtEnd
    <2> QED
      BY <1>9, <2>1, <2>2 DEF UnpackEOF
  <1>10. ASSUME NEW b \in Builds, EvictArchive(b)
         PROVE  CursorInv' /\ CachedIsPrefix' /\ EvictsOnlyTorn'
    BY <1>10, <1>o DEF EvictArchive, Resting, Steps
  <1>11. ASSUME NEW b \in Builds, CopyHole(b) PROVE FALSE
    BY <1>11 DEF CopyHole, AtHole, AtEnd
  <1> QED
    BY <1>1, <1>2, <1>3, <1>4, <1>5, <1>6, <1>7, <1>8, <1>9, <1>10, <1>11
    DEF Next, Work, Misfortune

LEMMA SerialNext == ~Overlap => (SerialInv /\ [Next]_vars => SerialInv')
  <1> SUFFICES ASSUME ~Overlap, SerialInv, [Next]_vars PROVE SerialInv'
    OBVIOUS
  <1>1. TypeInv'
    BY TypeNext DEF SerialInv
  <1>2. OneActive'
    BY OneActiveNext DEF SerialInv
  <1>3. CursorInv' /\ CachedIsPrefix' /\ EvictsOnlyTorn'
    BY CursorNext
  <1> QED
    BY <1>1, <1>2, <1>3 DEF SerialInv

LEMMA Serial == ~Overlap => (Spec => []SerialInv)
  <1> SUFFICES ASSUME ~Overlap PROVE Spec => []SerialInv
    OBVIOUS
  <1>1. SerialInv /\ [Next]_vars => SerialInv'
    BY SerialNext
  <1> QED
    BY <1>1, SerialInit, PTL DEF Spec

(* Without overlap, only an incomplete archive is ever deleted.             *)
THEOREM EvictionIsSafe == ~Overlap => (Spec => []EvictsOnlyTorn)
  <1>1. SerialInv => EvictsOnlyTorn
    BY DEF SerialInv
  <1> QED
    BY <1>1, Serial, PTL

(* Without overlap, the cached file is always a prefix of the artifact.     *)
THEOREM CacheHasNoHole == ~Overlap => (Spec => []CachedIsPrefix)
  <1>1. SerialInv => CachedIsPrefix
    BY DEF SerialInv
  <1> QED
    BY <1>1, Serial, PTL

LEMMA WholeStep ==
  ASSUME SerialInv, SerialInv', [Next]_vars, link # NoFile, Whole(link)
  PROVE  link' = link /\ Whole(link)'
  <1> USE NAssumption, NoFileAssumption
  <1> USE DEF SerialInv, TypeInv, TypeOK, HandleInv, CursorInv, EvictsOnlyTorn,
              Whole, Chunks, Goto, Seek, Fail, Succeed
  <1>1. CASE UNCHANGED vars
    BY <1>1 DEF vars
  <1>2. ASSUME NEW b \in Builds, CreateFile(b) \/ EvictArchive(b) PROVE FALSE
    BY <1>2 DEF CreateFile, EvictArchive
  <1>3. ASSUME NEW b \in Builds, WriteChunk(b) PROVE link' = link /\ Whole(link)'
    BY <1>3 DEF WriteChunk
  <1>4. ASSUME NEW b \in Builds,
               \/ StartBuild(b) \/ CheckCache(b) \/ FetchBody(b) \/ FetchShortBody(b)
               \/ FetchRefused(b) \/ CloseFile(b) \/ WriteFails(b) \/ OpenArchive(b)
               \/ OpenMissing(b) \/ ReadChunk(b) \/ ReadComplete(b) \/ UnpackEOF(b)
               \/ UnpackMalformed(b) \/ CopyHole(b) \/ CopyEnds(b) \/ Crash(b)
        PROVE  UNCHANGED <<link, data>>
    BY <1>4 DEF StartBuild, CheckCache, FetchBody, FetchShortBody, FetchRefused,
                CloseFile, WriteFails, OpenArchive, OpenMissing, ReadChunk,
                ReadComplete, UnpackEOF, UnpackMalformed, CopyHole, CopyEnds, Crash
  <1>5. UNCHANGED <<link, data>> => link' = link /\ Whole(link)'
    OBVIOUS
  <1> QED
    BY <1>1, <1>2, <1>3, <1>4, <1>5 DEF Next, Work, Misfortune

(* Without overlap, a complete archive is never lost or damaged.            *)
THEOREM WholeIsKept == ~Overlap => (Spec => WholeStaysWhole)
  <1> SUFFICES ASSUME ~Overlap PROVE Spec => WholeStaysWhole
    OBVIOUS
  <1>1. SerialInv /\ SerialInv' /\ [Next]_vars
          => [link # NoFile /\ Whole(link) => link' = link /\ Whole(link)']_vars
    BY WholeStep
  <1> QED
    BY <1>1, Serial, PTL DEF Spec, WholeStaysWhole

-----------------------------------------------------------------------------
(***************************************************************************)
(* Without overlap, the cache of an archive implements ArchiveStore.       *)
(***************************************************************************)
LEMMA StoreInit == Init => Store!Init
  BY DEF Init, Store!Init, StoreOf, OutcomeOf, Resting

LEMMA StoreNext ==
  ASSUME ~Overlap, "exe" \notin Formats, SerialInv, SerialInv', [Next]_vars
  PROVE  [Store!Next]_(Store!vars)
  <1> USE NAssumption, NoFileAssumption
  <1> USE DEF SerialInv, TypeInv, TypeOK, StoreOf, OutcomeOf, Resting, Steps,
              Goto, Seek, Fail, Succeed, Store!vars
  <1>1. CASE UNCHANGED vars
    BY <1>1 DEF vars, Whole
  <1>2. ASSUME NEW b \in Builds, StartBuild(b) PROVE Store!Start(b)
    BY <1>2 DEF StartBuild, Store!Start, Whole
  <1>3. ASSUME NEW b \in Builds,
               \/ CheckCache(b) \/ FetchBody(b) \/ FetchShortBody(b) \/ CloseFile(b)
               \/ OpenArchive(b) \/ ReadChunk(b) \/ UnpackEOF(b)
        PROVE  UNCHANGED Store!vars
    BY <1>3 DEF CheckCache, FetchBody, FetchShortBody, CloseFile, OpenArchive,
                ReadChunk, UnpackEOF, Whole
  <1>4. ASSUME NEW b \in Builds,
               \/ FetchRefused(b) \/ WriteFails(b) \/ OpenMissing(b)
               \/ UnpackMalformed(b) \/ Crash(b)
        PROVE  Store!Fail(b)
    BY <1>4 DEF FetchRefused, WriteFails, OpenMissing, UnpackMalformed, Crash,
                Store!Fail, Whole
  <1>5. ASSUME NEW b \in Builds, EvictArchive(b) PROVE Store!Fail(b)
    BY <1>5 DEF EvictArchive, Store!Fail, EvictsOnlyTorn
  <1>6. ASSUME NEW b \in Builds, CreateFile(b) PROVE Store!Open(b)
    <2>1. PICK i \in Inodes : link' = i /\ data' = [data EXCEPT ![i] = {}]
      BY <1>6 DEF CreateFile
    <2>2. link = NoFile /\ link' # NoFile
      BY <1>6, <2>1 DEF CreateFile, CursorInv
    <2>3. data'[link'] = {} /\ 1 \in 1 .. N
      BY <2>1
    <2>4. ~Whole(link)'
      BY <2>3 DEF Whole, Chunks
    <2>5. OutcomeOf[b] = "running" /\ OutcomeOf' = OutcomeOf
      BY <1>6 DEF CreateFile
    <2> QED
      BY <2>2, <2>4, <2>5 DEF Store!Open
  <1>7. ASSUME NEW b \in Builds, ReadComplete(b) PROVE Store!Succeed(b)
    <2>1. fd[b] \in Inodes /\ fd[b] = link /\ 1 .. N \subseteq data[fd[b]]
      BY <1>7 DEF ReadComplete, CursorInv, HandleInv
    <2>2. link # NoFile /\ Whole(link)
      BY <2>1 DEF Whole, Chunks
    <2>3. OutcomeOf[b] = "running" /\ OutcomeOf' = [OutcomeOf EXCEPT ![b] = "ok"]
      BY <1>7 DEF ReadComplete
    <2>4. UNCHANGED <<link, data>>
      BY <1>7 DEF ReadComplete
    <2> QED
      BY <2>2, <2>3, <2>4 DEF Store!Succeed, Whole
  <1>8. ASSUME NEW b \in Builds, WriteChunk(b)
        PROVE  Store!Complete(b) \/ UNCHANGED Store!vars
    <2>1. link' = link /\ link # NoFile /\ OutcomeOf' = OutcomeOf /\ pc[b] \notin Resting
      BY <1>8 DEF WriteChunk, CursorInv, HandleInv
    <2>2. Whole(link) => Whole(link)'
      BY <1>8, <2>1 DEF WriteChunk, Whole, Chunks, CursorInv
    <2> QED
      BY <2>1, <2>2 DEF Store!Complete, Whole
  <1>9. ASSUME NEW b \in Builds, CopyHole(b) \/ CopyEnds(b) PROVE FALSE
    BY <1>9 DEF CopyHole, CopyEnds
  <1> QED
    BY <1>1, <1>2, <1>3, <1>4, <1>5, <1>6, <1>7, <1>8, <1>9
    DEF Next, Work, Misfortune, Store!Next

(* Without overlap, a tar.gz or zip archive's cache is an ArchiveStore.     *)
THEOREM ImplementsStore == ~Overlap /\ "exe" \notin Formats => (Spec => StoreSpec)
  <1> SUFFICES ASSUME ~Overlap, "exe" \notin Formats PROVE Spec => StoreSpec
    OBVIOUS
  <1>1. SerialInv /\ SerialInv' /\ [Next]_vars => [Store!Next]_(Store!vars)
    BY StoreNext
  <1> QED
    BY <1>1, StoreInit, Serial, PTL DEF Spec, StoreSpec, Store!Spec

-----------------------------------------------------------------------------
(***************************************************************************)
(* Builds that overlap.  The cached file may have holes at any moment, a   *)
(* download that goes on writing after another emptied the file leaves     *)
(* one; but while nothing has failed, every chunk that is missing is still *)
(* ahead of somebody who is writing that file.                             *)
(***************************************************************************)
BodiesWhole == \A b \in Builds : pc[b] \in {"create", "write"} => body[b] = N

Writing(b, i) == pc[b] = "write" /\ fd[b] = i

MissingIsAhead ==
    link # NoFile =>
        \A k \in Chunks \ data[link] : \E b \in Builds : Writing(b, link) /\ off[b] < k

Undisturbed == BodiesWhole /\ MissingIsAhead

OverlapInv == TypeInv /\ (faults = 0 => Undisturbed)

LEMMA OverlapInit == Init => OverlapInv
  <1> SUFFICES ASSUME Init PROVE OverlapInv
    OBVIOUS
  <1>1. Undisturbed
    BY DEF Init, Undisturbed, BodiesWhole, MissingIsAhead
  <1> QED
    BY <1>1, TypeInit DEF OverlapInv

\* A step of a build that is no writer, before or after it, and leaves the
\* file at the path as it is.
LEMMA BystanderNext ==
  ASSUME TypeInv, Undisturbed, NEW b \in Builds, NEW l, l # "write", pc[b] # "write",
         pc' = [pc EXCEPT ![b] = l], link' = link, data' = data,
         \A c \in Builds \ {b} : fd'[c] = fd[c] /\ off'[c] = off[c] /\ body'[c] = body[c],
         l = "create" => body'[b] = N
  PROVE  Undisturbed'
  <1>1. /\ pc'[b] = l
        /\ \A c \in Builds \ {b} : pc'[c] = pc[c]
    BY DEF TypeInv, TypeOK
  <1>2. BodiesWhole'
    BY <1>1 DEF Undisturbed, BodiesWhole
  <1>3. ASSUME link' # NoFile, NEW k \in Chunks \ data'[link']
        PROVE  \E c \in Builds : pc'[c] = "write" /\ fd'[c] = link' /\ off'[c] < k
    <2>1. PICK c \in Builds : pc[c] = "write" /\ fd[c] = link /\ off[c] < k
      BY <1>3 DEF Undisturbed, MissingIsAhead, Writing
    <2> QED
      BY <1>1, <2>1
  <1> QED
    BY <1>2, <1>3 DEF Undisturbed, MissingIsAhead, Writing

LEMMA UndisturbedNext ==
  ASSUME TypeInv, Undisturbed, [Next]_vars, faults' = 0 PROVE Undisturbed'
  <1> USE NAssumption, NoFileAssumption
  <1> USE DEF TypeInv, TypeOK, Goto, Seek
  <1>1. CASE UNCHANGED vars
    BY <1>1 DEF vars, Undisturbed, BodiesWhole, MissingIsAhead, Writing
  <1>2. ASSUME NEW b \in Builds,
               \/ StartBuild(b) \/ CheckCache(b) \/ OpenArchive(b) \/ UnpackEOF(b)
               \/ ReadChunk(b) \/ CopyHole(b)
        PROVE  Undisturbed'
    <2>1. PICK l : /\ l \notin {"write", "create"} /\ pc[b] # "write"
                   /\ pc' = [pc EXCEPT ![b] = l]
      BY <1>2 DEF StartBuild, CheckCache, OpenArchive, UnpackEOF, ReadChunk, CopyHole, Resting
    <2>2. /\ link' = link /\ data' = data
          /\ \A c \in Builds \ {b} : fd'[c] = fd[c] /\ off'[c] = off[c] /\ body'[c] = body[c]
      BY <1>2 DEF StartBuild, CheckCache, OpenArchive, UnpackEOF, ReadChunk, CopyHole
    <2> QED
      BY <2>1, <2>2, BystanderNext
  <1>3. ASSUME NEW b \in Builds,
               ReadComplete(b) \/ CopyEnds(b) \/ OpenMissing(b) \/ UnpackMalformed(b)
        PROVE  Undisturbed'
    <2>1. PICK l : /\ l \notin {"write", "create"} /\ pc[b] # "write"
                   /\ pc' = [pc EXCEPT ![b] = l]
      BY <1>3 DEF ReadComplete, CopyEnds, OpenMissing, UnpackMalformed, Succeed, Fail
    <2>2. /\ link' = link /\ data' = data
          /\ \A c \in Builds \ {b} : fd'[c] = fd[c] /\ off'[c] = off[c] /\ body'[c] = body[c]
      BY <1>3 DEF ReadComplete, CopyEnds, OpenMissing, UnpackMalformed, Succeed, Fail
    <2> QED
      BY <2>1, <2>2, BystanderNext
  <1>4. ASSUME NEW b \in Builds, FetchBody(b)
        PROVE  Undisturbed'
    <2>1. /\ pc[b] # "write" /\ pc' = [pc EXCEPT ![b] = "create"] /\ body'[b] = N
          /\ link' = link /\ data' = data
          /\ \A c \in Builds \ {b} : fd'[c] = fd[c] /\ off'[c] = off[c] /\ body'[c] = body[c]
      BY <1>4 DEF FetchBody
    <2> QED
      BY <2>1, BystanderNext
  <1>5. ASSUME NEW b \in Builds, CreateFile(b)
        PROVE  Undisturbed'
    <2>1. /\ link' \in Inodes /\ data'[link'] = {}
          /\ pc'[b] = "write" /\ fd'[b] = link' /\ off'[b] = 0 /\ body' = body
          /\ \A c \in Builds \ {b} : pc'[c] = pc[c]
      BY <1>5 DEF CreateFile
    <2>2. BodiesWhole'
      BY <1>5, <2>1 DEF CreateFile, Undisturbed, BodiesWhole
    <2>3. \A k \in Chunks : off'[b] < k
      BY <2>1 DEF Chunks
    <2> QED
      BY <2>1, <2>2, <2>3 DEF Undisturbed, MissingIsAhead, Writing
  <1>6. ASSUME NEW b \in Builds, WriteChunk(b)
        PROVE  Undisturbed'
    <2>1. /\ pc' = pc /\ fd' = fd /\ link' = link /\ body' = body
          /\ pc[b] = "write" /\ fd[b] \in Inodes
          /\ off'[b] = off[b] + 1 /\ \A c \in Builds \ {b} : off'[c] = off[c]
          /\ data' = [data EXCEPT ![fd[b]] = @ \cup {off[b] + 1}]
      BY <1>6 DEF WriteChunk, HandleInv
    <2>2. BodiesWhole'
      BY <2>1 DEF Undisturbed, BodiesWhole
    <2>3. ASSUME link' # NoFile, NEW k \in Chunks \ data'[link']
          PROVE  \E c \in Builds : pc'[c] = "write" /\ fd'[c] = link' /\ off'[c] < k
      <3>1. link \in Inodes /\ data[link] \subseteq data'[link] /\ k \in Nat
        BY <2>1, <2>3 DEF Chunks
      <3>2. PICK c \in Builds : pc[c] = "write" /\ fd[c] = link /\ off[c] < k
        BY <2>1, <2>3, <3>1 DEF Undisturbed, MissingIsAhead, Writing
      <3>3. c = b => k # off[b] + 1
        BY <2>1, <2>3, <3>1, <3>2
      <3>4. off[c] \in 0 .. N
        OBVIOUS
      <3>5. off'[c] < k
        BY <2>1, <3>1, <3>2, <3>3, <3>4
      <3> QED
        BY <2>1, <3>2, <3>5
    <2> QED
      BY <2>2, <2>3 DEF Undisturbed, MissingIsAhead, Writing
  <1>7. ASSUME NEW b \in Builds, CloseFile(b)
        PROVE  Undisturbed'
    <2>1. /\ pc'[b] = "open" /\ link' = link /\ data' = data /\ body' = body
          /\ \A c \in Builds \ {b} : pc'[c] = pc[c] /\ fd'[c] = fd[c] /\ off'[c] = off[c]
      BY <1>7 DEF CloseFile
    <2>2. off[b] = N
      BY <1>7 DEF CloseFile, Undisturbed, BodiesWhole
    <2>3. BodiesWhole'
      BY <2>1 DEF Undisturbed, BodiesWhole
    <2>4. ASSUME link' # NoFile, NEW k \in Chunks \ data'[link']
          PROVE  \E c \in Builds : pc'[c] = "write" /\ fd'[c] = link' /\ off'[c] < k
      <3>1. PICK c \in Builds : pc[c] = "write" /\ fd[c] = link /\ off[c] < k
        BY <2>1, <2>4 DEF Undisturbed, MissingIsAhead, Writing
      <3>2. c # b
        BY <2>2, <2>4, <3>1 DEF Chunks
      <3> QED
        BY <2>1, <3>1, <3>2
    <2> QED
      BY <2>3, <2>4 DEF Undisturbed, MissingIsAhead, Writing
  <1>8. ASSUME NEW b \in Builds, EvictArchive(b)
        PROVE  Undisturbed'
    <2>1. link' = NoFile /\ pc'[b] = "failed"
          /\ \A c \in Builds \ {b} : pc'[c] = pc[c] /\ body'[c] = body[c]
      BY <1>8 DEF EvictArchive, Fail
    <2> QED
      BY <2>1 DEF Undisturbed, BodiesWhole, MissingIsAhead
  <1>9. ASSUME NEW b \in Builds, Misfortune(b)
        PROVE  FALSE
    <2>1. faults' = faults + 1 /\ faults \in Nat
      BY <1>9, MaxFaultsAssumption
      DEF Misfortune, FetchShortBody, FetchRefused, WriteFails, Crash, Fault
    <2> QED
      BY <2>1
  <1> QED
    BY <1>1, <1>2, <1>3, <1>4, <1>5, <1>6, <1>7, <1>8, <1>9 DEF Next, Work

LEMMA OverlapNext == OverlapInv /\ [Next]_vars => OverlapInv'
  <1> SUFFICES ASSUME OverlapInv, [Next]_vars PROVE OverlapInv'
    OBVIOUS
  <1>1. TypeInv'
    BY TypeNext DEF OverlapInv
  <1>2. ASSUME faults' = 0 PROVE faults = 0
    <2>1. faults' = faults \/ faults' = faults + 1
      BY DEF vars, Next, Work, Misfortune, StartBuild, CheckCache, FetchBody, FetchShortBody,
             FetchRefused, CreateFile, WriteChunk, CloseFile, WriteFails, OpenArchive,
             OpenMissing, ReadChunk, ReadComplete, UnpackEOF, UnpackMalformed, CopyHole,
             CopyEnds, EvictArchive, Crash, Fault
    <2> QED
      BY <1>2, <2>1, MaxFaultsAssumption DEF OverlapInv, TypeInv, TypeOK
  <1>3. faults' = 0 => Undisturbed'
    BY <1>2, UndisturbedNext DEF OverlapInv
  <1> QED
    BY <1>1, <1>3 DEF OverlapInv

(* However builds overlap: once nobody is building, and if nothing has      *)
(* failed, the cache holds the whole artifact or none.                      *)
THEOREM OverlapLeavesWhole == Spec => []QuiescentWhole
  <1>1. OverlapInv => QuiescentWhole
    <2> SUFFICES ASSUME OverlapInv, faults = 0, \A b \in Builds : pc[b] \in Resting,
                        link # NoFile
                 PROVE  Whole(link)
      BY DEF QuiescentWhole
    <2>1. \A b \in Builds : pc[b] # "write"
      BY DEF Resting
    <2>2. Chunks \ data[link] = {}
      BY <2>1 DEF OverlapInv, Undisturbed, MissingIsAhead, Writing
    <2>3. data[link] \subseteq Chunks
      BY DEF OverlapInv, TypeInv, TypeOK
    <2> QED
      BY <2>2, <2>3 DEF Whole
  <1> QED
    BY <1>1, OverlapInit, OverlapNext, PTL DEF Spec

=============================================================================
