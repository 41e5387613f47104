--------------------------- MODULE PlatformInstall ---------------------------
(***************************************************************************)
(* Builds on different machines that share one download cache, as a        *)
(* repository on a network drive or one restored by a build server is      *)
(* shared.  Each machine has an install directory of its own; each build   *)
(* there installs one version of Node.js or of Bun.                        *)
(*                                                                         *)
(* The module follows what the files are, and of which machine and         *)
(* version: a download is as good as its name, and what may go wrong with  *)
(* the bytes of one, or between the steps of an installer, is left to      *)
(* DownloadCache, InstallGoals and DistInstaller.                          *)
(***************************************************************************)
EXTENDS Platform, FiniteSets

CONSTANTS
    Machines,   \* the machines of the builds
    Requests,   \* what the builds ask for
    Published,  \* what there is to download
    NoFile,     \* no binary in place
    NoRequest,  \* no build going on
    MaxBuilds   \* bound on the number of builds

Products == {"node", "bun"}

\* "exe" is the bare node.exe, which Windows is given unless the npm of the
\* distribution is wanted too.
Extensions == {"exe", "zip", "tar.gz"}

Versions == [v : BOOLEAN, major : Nat]
Builds == [os : {"", "linux", "darwin", "win", "windows", "sunos", "aix"},
           arch : {"", "x86", "x64", "arm64", "aarch64", "armv7l", "ppc", "ppc64", "ppc64le",
                   "s390x"},
           libc : {"", "musl"}]
Files == [name : Products, root : {"official", "unofficial", "github"},
          version : Versions, extension : Extensions, build : Builds]
Keys == [name : Products, version : Versions, classifier : Builds, extension : Extensions]

\* The machines the code knows of: those that have a JVM spelling.  An ARM of
\* 32 bits is one with Linux, and a v7 kernel there names itself.
KnownMachine(m) ==
    /\ m.goos \in {"linux", "windows", "darwin", "solaris", "illumos", "aix"}
    /\ m.goarch \in {"amd64", "386", "arm64", "arm", "ppc64", "ppc64le", "s390x"}
    /\ m.goarch = "arm" => m.goos = "linux"
    /\ m.goos = "windows" => m.goarch \in {"amd64", "386", "arm64"}
    /\ m.alpine => m.goos = "linux"

ASSUME MachineAssumption ==
    /\ Machines \subseteq [host : Nat, goos : STRING, goarch : STRING, v7 : BOOLEAN,
                           alpine : BOOLEAN]
    /\ \A m \in Machines : KnownMachine(m)
ASSUME RequestAssumption ==
    Requests \subseteq [machine : Machines, product : Products, version : Versions,
                        provided : BOOLEAN]
\* No release is for a machine without a name.
ASSUME PublishedAssumption ==
    /\ Published \subseteq Files
    /\ \A f \in Published : f.build.os # "" /\ f.build.arch # ""
\* What the download sites hold, whose names the code counts on.  Releases of
\* Node.js have a v and come from the official site, those for an Alpine from
\* the unofficial one; the older architecture of two is never alone; and the
\* builds for an Apple silicon Mac began with Node.js 16.  Bun has archives for
\* three systems on two architectures, and none for an Alpine.
ASSUME SitesAssumption ==
    LET Has(f, arch) == [f EXCEPT !.build.arch = arch] \in Published IN
    \A f \in Published :
        /\ f.name = "node" =>
               /\ f.version.v
               /\ f.root = IF f.build.libc = "musl" THEN "unofficial" ELSE "official"
               /\ f.build.os # "windows" /\ f.build.arch # "aarch64"
               /\ f.build.arch = "x86" => Has(f, "x64")
               /\ f.build.arch = "armv7l" => Has(f, "arm64")
               /\ f.build.os = "darwin" => (Has(f, "arm64") <=> f.version.major >= 16)
        /\ f.name = "bun" =>
               /\ f.root = "github" /\ f.extension = "zip"
               /\ f.build.os \in {"linux", "darwin", "windows"}
               /\ f.build.arch \in {"x64", "aarch64"} /\ f.build.libc = ""
               /\ f.build.os = "darwin" => Has(f, "aarch64")
ASSUME AbsentAssumption == NoFile \notin Files /\ NoRequest \notin Requests
ASSUME BoundAssumption == MaxBuilds \in Nat

VARIABLES
    resolver,  \* how the cache names its files
    cache,     \* the files of the cache, each with its name there
    unpacked,  \* the directories unpacked on each machine, by what they hold
    binary,    \* each machine's binary of each product, or NoFile
    request,   \* the build going on, or NoRequest
    pc,        \* where it is; once it has ended, its outcome
    builds     \* how many there have been

vars == <<resolver, cache, unpacked, binary, request, pc, builds>>

Entries == [key : Keys, file : Files]

TypeOK ==
    /\ resolver \in {"repository", "directory"}
    /\ cache \subseteq Entries
    /\ unpacked \in [Machines -> SUBSET Files]
    /\ binary \in [Machines -> [Products -> Files \cup {NoFile}]]
    /\ request \in Requests \cup {NoRequest}
    /\ pc \in {"check", "fetch", "place", "ok", "failed"}
    /\ request = NoRequest => pc = "ok"
    /\ builds \in 0 .. MaxBuilds

Init ==
    /\ resolver \in {"repository", "directory"}
    /\ cache = {}
    /\ unpacked = [m \in Machines |-> {}]
    /\ binary = [m \in Machines |-> [p \in Products |-> NoFile]]
    /\ request = NoRequest
    /\ pc = "ok"
    /\ builds = 0

-----------------------------------------------------------------------------
(***************************************************************************)
(* What a build asks for.                                                  *)
(***************************************************************************)

PlatformOf(q) == GuessPlatform(q.machine)

\* Node.js comes as an archive but on Windows without its npm.
NodeExtension(q) ==
    IF IsWindows(PlatformOf(q)) /\ ~q.provided THEN "exe" ELSE ArchiveExtension(PlatformOf(q))

Download(q) ==
    IF q.product = "node"
    THEN NodeDownload(PlatformOf(q), q.version, NodeExtension(q))
    ELSE BunDownload(q.machine, q.version)

\* Variants: the bare binary goes under the name of the archive; the classifier
\* is the machine's, not the build's.
NodeDescriptorOfArchive(q) ==
    CacheDescriptor("node", q.version, NodeClassifier(PlatformOf(q), q.version),
                    ArchiveExtension(PlatformOf(q)))
NodeDescriptorOfMachine(q) ==
    CacheDescriptor("node", q.version,
                    [NodeClassifier(PlatformOf(q), q.version)
                         EXCEPT !.arch = PlatformOf(q).architecture],
                    NodeExtension(q))

NodeDescriptor(q) ==
    CacheDescriptor("node", q.version, NodeClassifier(PlatformOf(q), q.version), NodeExtension(q))
BunDescriptor(q) == CacheDescriptor("bun", q.version, Unclassified, "zip")

Key(q) == Resolve(resolver, IF q.product = "node" THEN NodeDescriptor(q) ELSE BunDescriptor(q))

Cached(key) == {e \in cache : e.key = key}

\* The directory an archive unpacks into: Node.js names the version and the
\* build, Bun the build.
Unversioned == [v |-> FALSE, major |-> 0]
Directory(f) ==
    [name |-> f.name, build |-> f.build,
     version |-> IF f.name = "node" THEN f.version ELSE Unversioned]

-----------------------------------------------------------------------------
(***************************************************************************)
(* What runs where: a build is for the machines of its system, libc and    *)
(* architecture.  An Apple silicon Mac runs x64 binaries under Rosetta,    *)
(* and an ARM of 64 bits those of 32.  What runs is a bare binary.         *)
(***************************************************************************)

SystemNames(m) ==
    CASE m.goos = "windows" -> {"win", "windows"}
      [] m.goos \in {"solaris", "illumos"} -> {"sunos"}
      [] OTHER -> {m.goos}

ArchitectureNames(m) ==
    CASE m.goarch = "amd64" -> {"x64", "x86"}
      [] m.goarch = "386" -> {"x86"}
      [] m.goarch = "arm64" ->
           {"arm64", "aarch64"} \cup (IF m.goos = "darwin" THEN {"x64"} ELSE {})
      [] m.goarch = "arm" -> {"armv7l"} \cup (IF m.v7 THEN {} ELSE {"arm64", "aarch64"})
      [] OTHER -> {m.goarch}

BuildFor(f, m) ==
    /\ f.build.os \in SystemNames(m)
    /\ f.build.arch \in ArchitectureNames(m)
    /\ f.build.libc = (IF m.alpine THEN "musl" ELSE "")

BinaryOf(f) == [f EXCEPT !.extension = "exe"]

RunsOn(f, m) == f.extension = "exe" /\ BuildFor(f, m)

-----------------------------------------------------------------------------
(***************************************************************************)
(* The actions of a build.                                                 *)
(***************************************************************************)

Begin(q) ==
    /\ pc \in {"ok", "failed"} /\ builds < MaxBuilds
    /\ request' = q /\ pc' = "check" /\ builds' = builds + 1
    /\ UNCHANGED <<resolver, cache, unpacked, binary>>

\* node --version answers with a v, which the version configured is compared
\* with as it is; bun --version answers without one, and the version
\* configured is compared without its own.
AlreadyInstalled(q) ==
    LET f == binary[q.machine][q.product] IN
    /\ f # NoFile /\ RunsOn(f, q.machine)
    /\ f.version.major = q.version.major
    /\ q.product = "node" => q.version.v

Check ==
    /\ pc = "check"
    /\ pc' = IF AlreadyInstalled(request) THEN "ok" ELSE "fetch"
    /\ UNCHANGED <<resolver, cache, unpacked, binary, request, builds>>

\* downloadFileIfMissing
Fetch ==
    /\ pc = "fetch"
    /\ IF Cached(Key(request)) # {} THEN pc' = "place" /\ UNCHANGED cache
       ELSE IF Download(request) \in Published
       THEN /\ pc' = "place"
            /\ cache' = cache \cup {[key |-> Key(request), file |-> Download(request)]}
       ELSE pc' = "failed" /\ UNCHANGED cache
    /\ UNCHANGED <<resolver, unpacked, binary, request, builds>>

Put(m, product, f) == binary' = [binary EXCEPT ![m][product] = f]

\* The bare node.exe is copied as it is.
PlaceExecutable ==
    /\ pc = "place" /\ request.product = "node" /\ NodeExtension(request) = "exe"
    /\ \E e \in Cached(Key(request)) : Put(request.machine, "node", e.file)
    /\ pc' = "ok"
    /\ UNCHANGED <<resolver, cache, unpacked, request, builds>>

\* Unpack an archive over what is there, and move the binary out of the
\* directory the release should have unpacked into.  A directory of another
\* name is no use, and stays, and what is no archive does not unpack.
Unpacked(kept, f) ==
    IF f.extension = "exe" THEN kept
    ELSE {g \in kept : Directory(g) # Directory(f)} \cup {f}

PlaceFrom(kept, f, wanted, swept) ==
    LET m == request.machine
        held == Unpacked(kept, f)
        found == {g \in held : Directory(g) = wanted}
    IN  IF found = {}
        THEN /\ pc' = "failed" /\ UNCHANGED binary
             /\ unpacked' = [unpacked EXCEPT ![m] = held]
        ELSE /\ pc' = "ok"
             /\ \E g \in found : Put(m, request.product, BinaryOf(g))
             /\ unpacked' = [unpacked EXCEPT ![m] = held \ (swept \cup {f})]

\* Node.js unpacks into tmp, which it deletes once it is done.
PlaceNode ==
    /\ pc = "place" /\ request.product = "node" /\ NodeExtension(request) # "exe"
    /\ LET there == unpacked[request.machine] IN
       \E e \in Cached(Key(request)) :
           PlaceFrom(there, e.file, Directory(Download(request)),
                     {g \in there : g.name = "node"})
    /\ UNCHANGED <<resolver, cache, request, builds>>

\* Bun unpacks next to its binary, and deletes the directory it wants before
\* and after.
PlaceBun ==
    /\ pc = "place" /\ request.product = "bun"
    /\ LET wanted == Directory(Download(request))
           there == unpacked[request.machine]
           stale == {g \in there : Directory(g) = wanted}
       IN  \E e \in Cached(Key(request)) : PlaceFrom(there \ stale, e.file, wanted, stale)
    /\ UNCHANGED <<resolver, cache, request, builds>>

Next ==
    \/ \E q \in Requests : Begin(q)
    \/ Check \/ Fetch \/ PlaceExecutable \/ PlaceNode \/ PlaceBun

Spec == Init /\ [][Next]_vars

-----------------------------------------------------------------------------
(***************************************************************************)
(* Properties.                                                             *)
(***************************************************************************)

\* Whichever machine filled the cache and whatever an earlier build left
\* unpacked, the binary a machine ends up with runs there, and a build that
\* succeeded leaves the version it was configured with
\* (node_installer.go:149-219, 268-290; platform.go:313-330).  Bun has no build
\* for the libc of an Alpine, and is left out there.
BinaryRuns ==
    /\ \A m \in Machines, p \in Products :
           binary[m][p] # NoFile /\ ~(p = "bun" /\ m.alpine) => RunsOn(binary[m][p], m)
    /\ request # NoRequest /\ pc = "ok" =>
           LET f == binary[request.machine][request.product] IN
           f # NoFile /\ f.version.major = request.version.major

\* A release of the version configured that is published for the machine.
Available(q) ==
    \E f \in Published :
        /\ f.name = q.product /\ f.version = q.version
        /\ q.product = "node" => f.extension = NodeExtension(q)
        /\ BuildFor(f, q.machine)

\* A build fails only when there is no release for its machine: the name asked
\* for is the one published, and what other machines and other spellings of
\* the version have cached under it serves as well (node_installer.go:157, 276).
\* Only Bun's key, which carries no platform, may have been taken by the zip of
\* another machine, and then it stays taken (bun_installer.go:115).
Installs ==
    pc = "failed" =>
        \/ ~Available(request)
        \/ /\ request.product = "bun"
           /\ \E e \in Cached(Key(request)) : e.file # Download(request)

\* No download is kept twice: builds that want the same file of Node.js ask
\* the cache for it by the same name (node_installer.go:157, 276).
CachedOnce ==
    \A e, f \in cache : e.file = f.file => e = f

=============================================================================
