--------------------------- MODULE DownloadCache ---------------------------
(***************************************************************************)
(* One artifact of the download cache (~/.m2/repository by default) and    *)
(* the builds that fetch it, keep it and unpack it.                        *)
(*                                                                         *)
(* Every installer goes through the same steps: skip the download when the *)
(* cache path exists, otherwise request the artifact, hold the body in     *)
(* memory and write it straight onto the cache path; then open that path   *)
(* and unpack it; and, when unpacking ran off the end of the file, remove  *)
(* the cache path and fail.  The cache directory is shared by every build  *)
(* on the machine, and nothing locks it: the installers' mutexes live in   *)
(* one process.                                                            *)
(*                                                                         *)
(* A file is an inode, so that a path removed or truncated under an open   *)
(* handle behaves as it does on a real filesystem.                         *)
(***************************************************************************)
EXTENDS Integers, FiniteSets

CONSTANTS
    Builds,     \* the processes that may build
    Inodes,     \* the files the cache path may name over time
    NoFile,     \* the cache path names nothing
    N,          \* an artifact is the chunks 1..N, written in that order
    Formats,    \* the ways the artifact may be consumed
    Overlap,    \* may two builds on the machine run at the same time?
    MaxFaults   \* bound on crashes, refused or cut-short downloads, full disks

ASSUME NAssumption == N \in Nat \ {0}
ASSUME NoFileAssumption == NoFile \notin Inodes
ASSUME FormatAssumption == Formats \subseteq {"tar.gz", "zip", "exe"}
ASSUME OverlapAssumption == Overlap \in BOOLEAN
ASSUME MaxFaultsAssumption == MaxFaults \in Nat

VARIABLES
    format,  \* the artifact's: it depends on the platform and the goal alone
    link,    \* the inode the cache path names, or NoFile
    data,    \* the chunks each inode holds; a missing lower chunk is a hole
    pc,      \* where each build is
    fd,      \* the inode each build has open, or NoFile
    off,     \* its offset in that inode: chunks written or read so far
    body,    \* how many chunks the body it holds in memory has
    faults   \* faults used up so far

vars == <<format, link, data, pc, fd, off, body, faults>>

Chunks == 1 .. N

Resting == {"idle", "ok", "failed"}
Steps == {"check", "request", "create", "write", "open", "read", "evict"}

TypeOK ==
    /\ format \in Formats
    /\ link \in Inodes \cup {NoFile}
    /\ data \in [Inodes -> SUBSET Chunks]
    /\ pc \in [Builds -> Resting \cup Steps]
    /\ fd \in [Builds -> Inodes \cup {NoFile}]
    /\ off \in [Builds -> 0 .. N]
    /\ body \in [Builds -> 0 .. N]
    /\ faults \in 0 .. MaxFaults

Init ==
    /\ format \in Formats
    /\ link = NoFile
    /\ data = [i \in Inodes |-> {}]
    /\ pc = [b \in Builds |-> "idle"]
    /\ fd = [b \in Builds |-> NoFile]
    /\ off = [b \in Builds |-> 0]
    /\ body = [b \in Builds |-> 0]
    /\ faults = 0

-----------------------------------------------------------------------------

Whole(i) == data[i] = Chunks

Goto(b, label) == pc' = [pc EXCEPT ![b] = label]

Seek(b, i, k) == fd' = [fd EXCEPT ![b] = i] /\ off' = [off EXCEPT ![b] = k]

Fault == faults < MaxFaults /\ faults' = faults + 1

\* A build ends: its handle is closed and its buffer is gone.
Fail(b) ==
    /\ Goto(b, "failed")
    /\ Seek(b, NoFile, 0)
    /\ body' = [body EXCEPT ![b] = 0]

\* On success off[b] keeps how much of the artifact was unpacked.
Succeed(b) ==
    /\ Goto(b, "ok")
    /\ Seek(b, NoFile, off[b])
    /\ body' = [body EXCEPT ![b] = 0]

-----------------------------------------------------------------------------
(***************************************************************************)
(* The download: downloadFileIfMissing and DefaultFileDownloader.Download. *)
(***************************************************************************)

\* The user starts a build, again if the last one failed.  Without Overlap
\* the machine runs one build at a time, whichever process it is.
StartBuild(b) ==
    /\ pc[b] \in Resting
    /\ Overlap \/ \A c \in Builds : pc[c] \in Resting
    /\ Goto(b, "check")
    /\ UNCHANGED <<format, link, data, fd, off, body, faults>>

\* Faulty variant: no cached file is trusted.
CheckCacheAlwaysFetch(b) ==
    /\ pc[b] = "check"
    /\ Goto(b, "request")
    /\ UNCHANGED <<format, link, data, fd, off, body, faults>>

\* An artifact that is in the cache is not fetched again.
CheckCache(b) ==
    /\ pc[b] = "check"
    /\ Goto(b, IF link = NoFile THEN "request" ELSE "open")
    /\ UNCHANGED <<format, link, data, fd, off, body, faults>>

\* The body is read to its end before the file is opened.
FetchBody(b) ==
    /\ pc[b] = "request"
    /\ Goto(b, "create")
    /\ body' = [body EXCEPT ![b] = N]
    /\ UNCHANGED <<format, link, data, fd, off, faults>>

\* A body delimited by the end of the connection may stop early unnoticed.
FetchShortBody(b) ==
    /\ pc[b] = "request"
    /\ Fault
    /\ Goto(b, "create")
    /\ \E k \in 0 .. N - 1 : body' = [body EXCEPT ![b] = k]
    /\ UNCHANGED <<format, link, data, fd, off>>

\* A status other than 200, a transport error, a body known to be short, or a
\* cache directory that takes no file.
FetchRefused(b) ==
    /\ pc[b] \in {"request", "create"}
    /\ Fault
    /\ Fail(b)
    /\ UNCHANGED <<format, link, data>>

Unused(i) == i # link /\ \A c \in Builds : fd[c] # i

\* os.WriteFile opens with O_CREATE|O_TRUNC: a file at the path is emptied in
\* place, under whoever has it open.
CreateFile(b) ==
    /\ pc[b] = "create"
    /\ \E i \in Inodes :
         /\ IF link = NoFile THEN Unused(i) ELSE i = link
         /\ link' = i
         /\ data' = [data EXCEPT ![i] = {}]
         /\ Seek(b, i, 0)
    /\ Goto(b, "write")
    /\ UNCHANGED <<format, body, faults>>

\* Faulty variants: one chunk too many; segments written as they arrive.
WriteChunkPastEnd(b) ==
    /\ pc[b] = "write"
    /\ off[b] <= body[b]
    /\ data' = [data EXCEPT ![fd[b]] = @ \cup {off[b] + 1}]
    /\ off' = [off EXCEPT ![b] = @ + 1]
    /\ UNCHANGED <<format, link, pc, fd, body, faults>>

WriteChunkAnyOrder(b) ==
    /\ pc[b] = "write"
    /\ off[b] < body[b]
    /\ \E k \in 1 .. body[b] \ data[fd[b]] : data' = [data EXCEPT ![fd[b]] = @ \cup {k}]
    /\ off' = [off EXCEPT ![b] = @ + 1]
    /\ UNCHANGED <<format, link, pc, fd, body, faults>>

WriteChunk(b) ==
    /\ pc[b] = "write"
    /\ off[b] < body[b]
    /\ data' = [data EXCEPT ![fd[b]] = @ \cup {off[b] + 1}]
    /\ off' = [off EXCEPT ![b] = @ + 1]
    /\ UNCHANGED <<format, link, pc, fd, body, faults>>

\* Faulty variant: the last chunk may still sit in a buffer.
CloseFileUnflushed(b) ==
    /\ pc[b] = "write"
    /\ off[b] >= body[b] - 1
    /\ Goto(b, "open")
    /\ Seek(b, NoFile, 0)
    /\ UNCHANGED <<format, link, data, body, faults>>

CloseFile(b) ==
    /\ pc[b] = "write"
    /\ off[b] = body[b]
    /\ Goto(b, "open")
    /\ Seek(b, NoFile, 0)
    /\ UNCHANGED <<format, link, data, body, faults>>

\* The disk is full: the download fails, and what was written stays.
WriteFails(b) ==
    /\ pc[b] = "write"
    /\ Fault
    /\ Fail(b)
    /\ UNCHANGED <<format, link, data>>

-----------------------------------------------------------------------------
(***************************************************************************)
(* The unpacking: DefaultArchiveExtractor.Extract, and the installers'     *)
(* answer to its failures.                                                 *)
(***************************************************************************)

OpenArchive(b) ==
    /\ pc[b] = "open"
    /\ link # NoFile
    /\ Goto(b, "read")
    /\ Seek(b, link, 0)
    /\ UNCHANGED <<format, link, data, body, faults>>

\* Another build removed the file: the error is not an end of file.
OpenMissing(b) ==
    /\ pc[b] = "open"
    /\ link = NoFile
    /\ Fail(b)
    /\ UNCHANGED <<format, link, data, faults>>

AtEnd(b) == \A k \in data[fd[b]] : k <= off[b]
AtHole(b) == ~AtEnd(b) /\ off[b] + 1 \notin data[fd[b]]

\* A zip reader looks for the central directory at the end of the file first:
\* a file cut short is "not a valid zip file" before any entry is read.
NotAZip(b) == format = "zip" /\ off[b] = 0 /\ N \notin data[fd[b]]

ReadChunk(b) ==
    /\ pc[b] = "read"
    /\ ~NotAZip(b)
    /\ off[b] + 1 \in data[fd[b]]
    /\ off' = [off EXCEPT ![b] = @ + 1]
    /\ UNCHANGED <<format, link, data, pc, fd, body, faults>>

\* Everything published was read and unpacked.
ReadComplete(b) ==
    /\ pc[b] = "read"
    /\ off[b] = N
    /\ Succeed(b)
    /\ UNCHANGED <<format, link, data, faults>>

\* Faulty variant: the end of a complete archive counts as an unexpected one.
HitsEOFAlways(b) == format = "tar.gz" /\ AtEnd(b)

\* io.ErrUnexpectedEOF, or io.EOF from an empty file: isEOFCause holds.
HitsEOF(b) == format = "tar.gz" /\ off[b] < N /\ AtEnd(b)

\* Faulty variant: a truncated archive fails the build like any other error.
UnpackEOFKeeps(b) ==
    /\ pc[b] = "read"
    /\ HitsEOF(b)
    /\ Fail(b)
    /\ UNCHANGED <<format, link, data, faults>>

UnpackEOF(b) ==
    /\ pc[b] = "read"
    /\ HitsEOF(b)
    /\ Goto(b, "evict")
    /\ Seek(b, NoFile, 0)
    /\ UNCHANGED <<format, link, data, body, faults>>

\* Any other failure: zip.ErrFormat, a checksum or flate error on a hole.  The
\* archive is left where it is.
Malformed(b) ==
    \/ NotAZip(b)
    \/ format = "tar.gz" /\ AtHole(b)
    \/ format = "zip" /\ off[b] < N /\ off[b] + 1 \notin data[fd[b]]

UnpackMalformed(b) ==
    /\ pc[b] = "read"
    /\ Malformed(b)
    /\ Fail(b)
    /\ UNCHANGED <<format, link, data, faults>>

\* installNodeForWindows copies node.exe out of the cache byte by byte: a hole
\* is copied like anything else, and the end of the file, wherever it is, is the
\* end of the copy.
CopyHole(b) ==
    /\ pc[b] = "read"
    /\ format = "exe"
    /\ AtHole(b)
    /\ off' = [off EXCEPT ![b] = @ + 1]
    /\ UNCHANGED <<format, link, data, pc, fd, body, faults>>

CopyEnds(b) ==
    /\ pc[b] = "read"
    /\ format = "exe"
    /\ off[b] < N
    /\ AtEnd(b)
    /\ Succeed(b)
    /\ UNCHANGED <<format, link, data, faults>>

\* The installer removes whatever the cache path names by now, and fails.
EvictArchive(b) ==
    /\ pc[b] = "evict"
    /\ link' = NoFile
    /\ Fail(b)
    /\ UNCHANGED <<format, data, faults>>

\* The process dies: its handles close, the files stay as they are.
Crash(b) ==
    /\ pc[b] \in Steps
    /\ Fault
    /\ Fail(b)
    /\ UNCHANGED <<format, link, data>>

-----------------------------------------------------------------------------

Work(b) ==
    \/ CheckCache(b) \/ FetchBody(b)
    \/ CreateFile(b) \/ WriteChunk(b) \/ CloseFile(b)
    \/ OpenArchive(b) \/ OpenMissing(b)
    \/ ReadChunk(b) \/ ReadComplete(b)
    \/ UnpackEOF(b) \/ UnpackMalformed(b)
    \/ CopyHole(b) \/ CopyEnds(b)
    \/ EvictArchive(b)

Misfortune(b) ==
    FetchShortBody(b) \/ FetchRefused(b) \/ WriteFails(b) \/ Crash(b)

Next == \E b \in Builds : StartBuild(b) \/ Work(b) \/ Misfortune(b)

Spec == Init /\ [][Next]_vars

\* A build that runs is scheduled, and the user "tries the build again", as
\* the installers' message asks.
Fairness == \A b \in Builds : WF_vars(Work(b)) /\ WF_vars(StartBuild(b))

FairSpec == Spec /\ Fairness

-----------------------------------------------------------------------------
(***************************************************************************)
(* Properties of builds that follow one another.                           *)
(***************************************************************************)

\* Once a complete archive is at the cache path it stays there, complete: no
\* later build, crash or truncated download removes or damages it
\* (downloadFileIfMissing never rewrites, only a truncated archive is evicted).
WholeStaysWhole ==
    [][link # NoFile /\ Whole(link) => link' = link /\ Whole(link)']_vars

\* Only an incomplete archive is ever deleted: "The download was probably
\* interrupted and the archive is incomplete: delete it"
\* (node_installer.go:167-168).
EvictsOnlyTorn ==
    \A b \in Builds : pc[b] = "evict" => link # NoFile /\ ~Whole(link)

\* The cached file has no hole: it is a prefix of the artifact, so damage
\* always shows as an end of file, the one failure the installers act on.
CachedIsPrefix ==
    link # NoFile => \A k \in data[link] : 1 .. k \subseteq data[link]

StoreOf ==
    IF link = NoFile THEN "absent" ELSE IF Whole(link) THEN "whole" ELSE "torn"

OutcomeOf == [b \in Builds |-> IF pc[b] \in Resting THEN pc[b] ELSE "running"]

\* Interrupted, retried and overtaken builds and all, the cache of an archive is
\* an ArchiveStore: success only from a whole archive, which is never lost
\* (downloadFileIfMissing, Extract and the eviction taken together).
Store == INSTANCE ArchiveStore WITH store <- StoreOf, outcome <- OutcomeOf

StoreSpec == Store!Spec

Repaired == \E b \in Builds : pc[b] = "ok" /\ off[b] = N

\* However the faults fell, once they are over retried builds succeed with the
\* whole tarball, again and again ("delete it so the next build starts from
\* scratch", node_installer.go:168).
TarballSelfRepairs == []<>(format = "tar.gz" => Repaired)

\* The same whatever the platform: "Plugin will self-repair if previous
\* node/npm/yarn archive download was interrupted" (CHANGELOG.md:102).
SelfRepairs == []<>Repaired

(***************************************************************************)
(* Properties of builds that overlap.                                      *)
(***************************************************************************)

\* However overlapping downloads truncate, overwrite and delete each other's
\* file, if nothing failed and nobody is building then what they left in the
\* cache is the whole artifact or nothing (os.WriteFile on one shared path).
QuiescentWhole ==
    (faults = 0 /\ \A b \in Builds : pc[b] \in Resting)
        => link = NoFile \/ Whole(link)

=============================================================================
