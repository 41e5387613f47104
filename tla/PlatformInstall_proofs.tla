----------------------- MODULE PlatformInstall_proofs -----------------------
(***************************************************************************)
(* The builds of PlatformInstall, proved for any set of known machines,    *)
(* any requests and any number of builds: a machine ends up with a binary  *)
(* that runs on it, of the version asked for.  The argument is that a name *)
(* in the cache says what the file is (EntriesNamed), and so does the name *)
(* of an unpacked directory; so what a build finds by the name it wants is *)
(* what it would have downloaded itself, whoever did.                      *)
(***************************************************************************)
EXTENDS PlatformInstall, TLAPS

\* The name a download has in the cache.
NameOf(f) ==
    Resolve(resolver,
            CacheDescriptor(f.name, f.version, IF f.name = "node" THEN f.build ELSE Unclassified,
                            f.extension))

EntriesNamed == \A e \in cache : e.file \in Published /\ e.key = NameOf(e.file)

UnpackedPublished == \A m \in Machines : unpacked[m] \subseteq Published

IInv == TypeOK /\ EntriesNamed /\ UnpackedPublished /\ BinaryRuns

-----------------------------------------------------------------------------

\* The architecture a known machine is guessed to have, one that it runs.
LEMMA GuessedArchitecture ==
    ASSUME NEW m \in Machines
    PROVE  /\ m.goarch = "amd64" => GuessArchitecture(m) = "x64"
           /\ m.goarch = "386" => GuessArchitecture(m) = "x86"
           /\ m.goarch = "arm64" => GuessArchitecture(m) = "arm64"
           /\ m.goarch = "arm" => GuessArchitecture(m) = IF m.v7 THEN "armv7l" ELSE "arm64"
           /\ m.goarch \in {"ppc64", "ppc64le", "s390x"} => GuessArchitecture(m) = m.goarch
           /\ GuessArchitecture(m) \in ArchitectureNames(m)
           /\ GuessArchitecture(m) = "arm64" => "aarch64" \in ArchitectureNames(m)
  <1> DEFINE java == javaOSArch(m.goarch)
             linux7 == m.goos = "linux" /\ m.v7
  <1>1. KnownMachine(m) /\ m.goarch \in STRING /\ m.v7 \in BOOLEAN
    BY MachineAssumption
  <1>2. GuessArchitecture(m) = guessArchitecture(java, linux7)
    BY DEF GuessArchitecture
  <1> HIDE DEF java, linux7
  <1>3. CASE m.goarch = "amd64"
    <2>1. java = "amd64"
      BY <1>3 DEF java, javaOSArch
    <2>2. guessArchitecture(java, linux7) = "x64"
      BY <1>1, <1>3, <2>1 DEF guessArchitecture, Spelled64, linux7, KnownMachine
    <2>3. ArchitectureNames(m) = {"x64", "x86"}
      BY <1>1, <1>3 DEF ArchitectureNames
    <2>4. GuessArchitecture(m) \in ArchitectureNames(m)
      BY <1>1, <1>2, <2>2, <2>3
    <2>5. GuessArchitecture(m) = "arm64" => "aarch64" \in ArchitectureNames(m)
      BY <1>1, <1>2, <1>3, <2>2, <2>3
    <2> QED
      BY <1>1, <1>2, <1>3, <2>2, <2>4, <2>5
  <1>4. CASE m.goarch = "386"
    <2>1. java = "x86"
      BY <1>4 DEF java, javaOSArch
    <2>2. guessArchitecture(java, linux7) = "x86"
      BY <1>1, <1>4, <2>1 DEF guessArchitecture, Spelled64, linux7, KnownMachine
    <2>3. ArchitectureNames(m) = {"x86"}
      BY <1>1, <1>4 DEF ArchitectureNames
    <2>4. GuessArchitecture(m) \in ArchitectureNames(m)
      BY <1>1, <1>2, <2>2, <2>3
    <2>5. GuessArchitecture(m) = "arm64" => "aarch64" \in ArchitectureNames(m)
      BY <1>1, <1>2, <1>4, <2>2, <2>3
    <2> QED
      BY <1>1, <1>2, <1>4, <2>2, <2>4, <2>5
  <1>5. CASE m.goarch = "arm64"
    <2>1. java = "aarch64"
      BY <1>5 DEF java, javaOSArch
    <2>2. guessArchitecture(java, linux7) = "arm64"
      BY <1>1, <1>5, <2>1 DEF guessArchitecture, Spelled64, linux7, KnownMachine
    <2>3. ArchitectureNames(m) = {"arm64", "aarch64"} \cup (IF m.goos = "darwin" THEN {"x64"} ELSE {})
      BY <1>1, <1>5 DEF ArchitectureNames
    <2>4. GuessArchitecture(m) \in ArchitectureNames(m)
      BY <1>1, <1>2, <2>2, <2>3
    <2>5. GuessArchitecture(m) = "arm64" => "aarch64" \in ArchitectureNames(m)
      BY <1>1, <1>2, <1>5, <2>2, <2>3
    <2> QED
      BY <1>1, <1>2, <1>5, <2>2, <2>4, <2>5
  <1>6. CASE m.goarch = "arm" /\ m.v7
    <2>1. java = "arm"
      BY <1>6 DEF java, javaOSArch
    <2>2. guessArchitecture(java, linux7) = "armv7l"
      BY <1>1, <1>6, <2>1 DEF guessArchitecture, Spelled64, linux7, KnownMachine
    <2>3. ArchitectureNames(m) = {"armv7l"}
      BY <1>1, <1>6 DEF ArchitectureNames
    <2>4. GuessArchitecture(m) \in ArchitectureNames(m)
      BY <1>1, <1>2, <2>2, <2>3
    <2>5. GuessArchitecture(m) = "arm64" => "aarch64" \in ArchitectureNames(m)
      BY <1>1, <1>2, <1>6, <2>2, <2>3
    <2> QED
      BY <1>1, <1>2, <1>6, <2>2, <2>4, <2>5
  <1>7. CASE m.goarch = "arm" /\ ~m.v7
    <2>1. java = "arm"
      BY <1>7 DEF java, javaOSArch
    <2>2. guessArchitecture(java, linux7) = "arm64"
      BY <1>1, <1>7, <2>1 DEF guessArchitecture, Spelled64, linux7, KnownMachine
    <2>3. ArchitectureNames(m) = {"armv7l", "arm64", "aarch64"}
      BY <1>1, <1>7 DEF ArchitectureNames
    <2>4. GuessArchitecture(m) \in ArchitectureNames(m)
      BY <1>1, <1>2, <2>2, <2>3
    <2>5. GuessArchitecture(m) = "arm64" => "aarch64" \in ArchitectureNames(m)
      BY <1>1, <1>2, <1>7, <2>2, <2>3
    <2> QED
      BY <1>1, <1>2, <1>7, <2>2, <2>4, <2>5
  <1>8. CASE m.goarch \in {"ppc64", "ppc64le", "s390x"}
    <2>1. java = m.goarch
      BY <1>8 DEF java, javaOSArch
    <2>2. guessArchitecture(java, linux7) = m.goarch
      BY <1>1, <1>8, <2>1 DEF guessArchitecture, Spelled64, linux7, KnownMachine
    <2>3. ArchitectureNames(m) = {m.goarch}
      BY <1>1, <1>8 DEF ArchitectureNames
    <2>4. GuessArchitecture(m) \in ArchitectureNames(m)
      BY <1>1, <1>2, <2>2, <2>3
    <2>5. GuessArchitecture(m) = "arm64" => "aarch64" \in ArchitectureNames(m)
      BY <1>1, <1>2, <1>8, <2>2, <2>3
    <2> QED
      BY <1>1, <1>2, <1>8, <2>2, <2>4, <2>5
  <1> QED
    BY <1>1, <1>3, <1>4, <1>5, <1>6, <1>7, <1>8 DEF KnownMachine

\* What is known of a machine's platform.
LEMMA GuessedPlatform ==
    ASSUME NEW m \in Machines
    PROVE  LET p == GuessPlatform(m) IN
           /\ p.architecture = GuessArchitecture(m)
           /\ p.classifier = (IF m.alpine THEN "musl" ELSE "")
           /\ IsWindows(p) <=> m.goos = "windows"
           /\ p.os = "Mac" <=> m.goos = "darwin"
           /\ Codename(p.os) \in SystemNames(m)
           /\ IsWindows(p) => Codename(p.os) = "win"
           /\ p.root = (IF m.alpine THEN "unofficial" ELSE "official")
  <1> DEFINE p == GuessPlatform(m)
  <1>1. KnownMachine(m) /\ m.alpine \in BOOLEAN
    BY MachineAssumption
  <1>2. /\ p.os = GuessOS(m.goos)
        /\ p.architecture = GuessArchitecture(m)
        /\ p.classifier = IF GuessOS(m.goos) = "Linux" /\ m.alpine THEN "musl" ELSE ""
        /\ p.root = IF GuessOS(m.goos) = "Linux" /\ m.alpine THEN "unofficial" ELSE "official"
    BY DEF GuessPlatform
  <1>3. CASE m.goos = "linux"
    <2>1. GuessOS(m.goos) = "Linux"
      BY <1>3 DEF GuessOS
    <2>2. Codename("Linux") = "linux" /\ SystemNames(m) = {"linux"}
      BY <1>3 DEF Codename, SystemNames
    <2> QED
      BY <1>1, <1>2, <1>3, <2>1, <2>2 DEF IsWindows
  <1>4. CASE m.goos = "windows"
    <2>1. GuessOS(m.goos) = "Windows"
      BY <1>4 DEF GuessOS
    <2>2. Codename("Windows") = "win" /\ SystemNames(m) = {"win", "windows"}
      BY <1>4 DEF Codename, SystemNames
    <2> QED
      BY <1>1, <1>2, <1>4, <2>1, <2>2 DEF IsWindows, KnownMachine
  <1>5. CASE m.goos = "darwin"
    <2>1. GuessOS(m.goos) = "Mac"
      BY <1>5 DEF GuessOS
    <2>2. Codename("Mac") = "darwin" /\ SystemNames(m) = {"darwin"}
      BY <1>5 DEF Codename, SystemNames
    <2> QED
      BY <1>1, <1>2, <1>5, <2>1, <2>2 DEF IsWindows, KnownMachine
  <1>6. CASE m.goos \in {"solaris", "illumos"}
    <2>1. GuessOS(m.goos) = "SunOS"
      BY <1>6 DEF GuessOS
    <2>2. Codename("SunOS") = "sunos" /\ SystemNames(m) = {"sunos"}
      BY <1>6 DEF Codename, SystemNames
    <2> QED
      BY <1>1, <1>2, <1>6, <2>1, <2>2 DEF IsWindows, KnownMachine
  <1>7. CASE m.goos = "aix"
    <2>1. GuessOS(m.goos) = "AIX"
      BY <1>7 DEF GuessOS
    <2>2. Codename("AIX") = "aix" /\ SystemNames(m) = {"aix"}
      BY <1>7 DEF Codename, SystemNames
    <2> QED
      BY <1>1, <1>2, <1>7, <2>1, <2>2 DEF IsWindows, KnownMachine
  <1> QED
    BY <1>1, <1>3, <1>4, <1>5, <1>6, <1>7 DEF KnownMachine

\* The build of Node.js chosen for a machine runs on it.
LEMMA ClassifierRuns ==
    ASSUME NEW m \in Machines, NEW version \in Versions
    PROVE  LET b == NodeClassifier(GuessPlatform(m), version) IN
           /\ b.os \in SystemNames(m)
           /\ b.arch \in ArchitectureNames(m)
           /\ b.libc = (IF m.alpine THEN "musl" ELSE "")
  <1> DEFINE p == GuessPlatform(m)
  <1>1. /\ NodeClassifier(p, version).os = Codename(p.os)
        /\ NodeClassifier(p, version).arch = resolveArchitecture(p, version)
        /\ NodeClassifier(p, version).libc = p.classifier
    BY DEF NodeClassifier
  <1>2. resolveArchitecture(p, version) \in ArchitectureNames(m)
    <2>1. CASE p.os = "Mac" /\ p.architecture = "arm64"
      <3>1. m.goos = "darwin" /\ GuessArchitecture(m) = "arm64"
        BY <2>1, GuessedPlatform
      <3>2. m.goarch = "arm64"
        BY <3>1, GuessedArchitecture, MachineAssumption DEF KnownMachine
      <3>3. ArchitectureNames(m) = {"arm64", "aarch64", "x64"}
        BY <3>1, <3>2 DEF ArchitectureNames
      <3>4. resolveArchitecture(p, version) \in {"x64", "arm64"}
        BY <2>1 DEF resolveArchitecture
      <3> QED
        BY <3>3, <3>4
    <2>2. CASE ~(p.os = "Mac" /\ p.architecture = "arm64")
      <3>1. resolveArchitecture(p, version) = GuessArchitecture(m)
        BY <2>2, GuessedPlatform DEF resolveArchitecture
      <3> QED
        BY <3>1, GuessedArchitecture
    <2> QED
      BY <2>1, <2>2
  <1>3. Codename(p.os) \in SystemNames(m) /\ p.classifier = (IF m.alpine THEN "musl" ELSE "")
    BY GuessedPlatform
  <1> HIDE DEF p
  <1> QED
    BY <1>1, <1>2, <1>3 DEF p

\* What is downloaded of Node.js is named by its classifier, the bare binary of
\* Windows too.
LEMMA NodeBuild ==
    ASSUME NEW q \in Requests, q.product = "node"
    PROVE  Download(q) = [name |-> "node", root |-> PlatformOf(q).root, version |-> q.version,
                          extension |-> NodeExtension(q),
                          build |-> NodeClassifier(PlatformOf(q), q.version)]
  <1> DEFINE p == PlatformOf(q)
  <1>1. q.machine \in Machines /\ q.version \in Versions
    BY RequestAssumption
  <1>2. KnownMachine(q.machine)
    BY <1>1, MachineAssumption
  <1>3. ASSUME NodeExtension(q) = "exe"
        PROVE  [os |-> "win", libc |-> "",
                arch |-> IF p.architecture \in {"x64", "arm64"} THEN p.architecture ELSE "x86"]
                 = NodeClassifier(p, q.version)
    <2>1. IsWindows(p)
      BY <1>3 DEF NodeExtension, ArchiveExtension
    <2>2. q.machine.goos = "windows" /\ ~q.machine.alpine /\ Codename(p.os) = "win" /\ p.os # "Mac"
      BY <1>1, <1>2, <2>1, GuessedPlatform, MachineAssumption DEF PlatformOf, KnownMachine, IsWindows
    <2>3. p.architecture \in {"x64", "x86", "arm64"}
      BY <1>1, <1>2, <2>2, GuessedPlatform, GuessedArchitecture DEF PlatformOf, KnownMachine
    <2>4. p.classifier = ""
      BY <1>1, <2>2, GuessedPlatform DEF PlatformOf
    <2>5. resolveArchitecture(p, q.version) = p.architecture
      BY <2>2 DEF resolveArchitecture
    <2> QED
      BY <2>2, <2>3, <2>4, <2>5 DEF NodeClassifier
  <1>4. Download(q) = NodeDownload(p, q.version, NodeExtension(q))
    BY DEF Download
  <1> HIDE DEF p
  <1>5. CASE NodeExtension(q) = "exe"
    <2>1. NodeDownload(p, q.version, "exe").build
            = [os |-> "win", libc |-> "",
               arch |-> IF p.architecture \in {"x64", "arm64"} THEN p.architecture ELSE "x86"]
      BY DEF NodeDownload
    <2>2. NodeDownload(p, q.version, "exe")
            = [name |-> "node", root |-> p.root, version |-> q.version, extension |-> "exe",
               build |-> NodeDownload(p, q.version, "exe").build]
      BY DEF NodeDownload
    <2>3. NodeDownload(p, q.version, "exe").build = NodeClassifier(p, q.version)
      BY <1>3, <1>5, <2>1 DEF p
    <2> QED
      BY <1>4, <1>5, <2>2, <2>3 DEF p
  <1>6. CASE NodeExtension(q) # "exe"
    BY <1>4, <1>6 DEF NodeDownload, p
  <1> QED
    BY <1>5, <1>6

\* A release of Bun that has a name runs on the machine it is named for, but
\* for an Alpine.
LEMMA BunRuns ==
    ASSUME NEW m \in Machines, BunTarget(m).os # "", BunTarget(m).arch # ""
    PROVE  /\ BunTarget(m).os \in SystemNames(m)
           /\ BunTarget(m).arch \in ArchitectureNames(m)
           /\ BunTarget(m).libc = ""
  <1> DEFINE os == GuessOS(m.goos)
             a == GuessArchitecture(m)
  <1>1. /\ BunTarget(m).os = CASE os = "Linux" -> "linux" [] os = "Mac" -> "darwin"
                               [] os = "Windows" -> "windows" [] OTHER -> ""
        /\ BunTarget(m).arch = CASE a = "x64" -> "x64" [] a = "arm64" -> "aarch64"
                                 [] OTHER -> ""
        /\ BunTarget(m).libc = ""
    BY DEF BunTarget
  <1>2. BunTarget(m).arch \in ArchitectureNames(m)
    <2> HIDE DEF a
    <2>1. a = "x64" \/ a = "arm64"
      BY <1>1
    <2>2. CASE a = "x64"
      BY <1>1, <2>2, GuessedArchitecture DEF a
    <2>3. CASE a = "arm64"
      BY <1>1, <2>3, GuessedArchitecture DEF a
    <2> QED
      BY <2>1, <2>2, <2>3
  <1>3. BunTarget(m).os \in SystemNames(m)
    <2>1. KnownMachine(m)
      BY MachineAssumption
    <2>2. CASE m.goos = "linux"
      BY <1>1, <2>2 DEF GuessOS, SystemNames
    <2>3. CASE m.goos = "windows"
      BY <1>1, <2>3 DEF GuessOS, SystemNames
    <2>4. CASE m.goos = "darwin"
      BY <1>1, <2>4 DEF GuessOS, SystemNames
    <2>5. CASE m.goos \in {"solaris", "illumos"}
      <3>1. os = "SunOS"
        BY <2>5 DEF GuessOS
      <3> QED
        BY <1>1, <3>1
    <2>6. CASE m.goos = "aix"
      <3>1. os = "AIX"
        BY <2>6 DEF GuessOS
      <3> QED
        BY <1>1, <3>1
    <2> QED
      BY <2>1, <2>2, <2>3, <2>4, <2>5, <2>6 DEF KnownMachine
  <1> QED
    BY <1>1, <1>2, <1>3

\* A request is looked up under the name of what it would download.
LEMMA KeyNamesDownload ==
    ASSUME NEW q \in Requests
    PROVE  /\ Key(q) = NameOf(Download(q))
           /\ Download(q).name = q.product
           /\ Download(q).version = q.version
  <1>1. q.product \in {"node", "bun"}
    BY RequestAssumption DEF Products
  <1>2. CASE q.product = "node"
    <2>1. /\ Download(q).name = "node" /\ Download(q).version = q.version
          /\ Download(q).extension = NodeExtension(q)
          /\ Download(q).build = NodeClassifier(PlatformOf(q), q.version)
      BY <1>2, NodeBuild
    <2> QED
      BY <1>2, <2>1 DEF Key, NameOf, NodeDescriptor
  <1>3. CASE q.product = "bun"
    <2>1. /\ Download(q).name = "bun" /\ Download(q).version = q.version
          /\ Download(q).extension = "zip"
      BY <1>3 DEF Download, BunDownload
    <2> QED
      BY <1>3, <2>1 DEF Key, NameOf, BunDescriptor
  <1> QED
    BY <1>1, <1>2, <1>3

\* What has the name of a download is of its product, major version and
\* extension and, if it is Node.js, of its build.
LEMMA SameName ==
    ASSUME NEW f, NEW g, f.version \in Versions, g.version \in Versions, NameOf(f) = NameOf(g)
    PROVE  /\ f.name = g.name /\ f.extension = g.extension
           /\ f.version.major = g.version.major
           /\ f.name = "node" => f.build = g.build
  <1>1. ASSUME NEW h, h.version \in Versions
        PROVE  /\ NameOf(h).name = h.name
               /\ NameOf(h).extension = h.extension
               /\ NameOf(h).version.major = h.version.major
               /\ h.name = "node" => NameOf(h).classifier = h.build
    <2>1. CASE resolver = "repository"
      BY <1>1, <2>1 DEF NameOf, Resolve, CacheDescriptor, trimLeadingV, Versions
    <2>2. CASE resolver # "repository"
      BY <1>1, <2>2 DEF NameOf, Resolve, CacheDescriptor, Versions
    <2> QED
      BY <2>1, <2>2
  <1> QED
    BY <1>1

-----------------------------------------------------------------------------

\* The system a release of Node.js for a machine is named for is the one the
\* machine asks for.
LEMMA NodeSystem ==
    ASSUME NEW m \in Machines, NEW os \in SystemNames(m), os # "windows"
    PROVE  os = Codename(GuessPlatform(m).os)
  <1>1. KnownMachine(m) /\ Codename(GuessPlatform(m).os) \in SystemNames(m)
    BY MachineAssumption, GuessedPlatform
  <1>2. CASE m.goos = "windows"
    <2>1. SystemNames(m) = {"win", "windows"}
      BY <1>2 DEF SystemNames
    <2>2. Codename(GuessPlatform(m).os) = "win"
      BY <1>2, GuessedPlatform
    <2> QED
      BY <2>1, <2>2
  <1>3. CASE m.goos \in {"solaris", "illumos"}
    <2>1. SystemNames(m) = {"sunos"}
      BY <1>3 DEF SystemNames
    <2> QED
      BY <1>1, <2>1
  <1>4. CASE m.goos \in {"linux", "darwin", "aix"}
    <2>1. SystemNames(m) = {m.goos}
      BY <1>4 DEF SystemNames
    <2> QED
      BY <1>1, <2>1
  <1> QED
    BY <1>1, <1>2, <1>3, <1>4 DEF KnownMachine

\* A release of another architecture differs in nothing else.
LEMMA Renamed ==
    ASSUME NEW f \in Files, NEW arch
    PROVE  [f EXCEPT !.build.arch = arch]
             = [name |-> f.name, root |-> f.root, version |-> f.version,
                extension |-> f.extension,
                build |-> [os |-> f.build.os, arch |-> arch, libc |-> f.build.libc]]
  <1>1. f.build \in Builds
    BY DEF Files
  <1>2. ASSUME NEW os, NEW archs, NEW libcs, NEW b \in [os : os, arch : archs, libc : libcs]
        PROVE  [b EXCEPT !.arch = arch] = [os |-> b.os, arch |-> arch, libc |-> b.libc]
    OBVIOUS
  <1>3. [f EXCEPT !.build = [f.build EXCEPT !.arch = arch]]
          = [name |-> f.name, root |-> f.root, version |-> f.version,
             extension |-> f.extension, build |-> [f.build EXCEPT !.arch = arch]]
    BY DEF Files
  <1> DEFINE b == f.build
  <1>4. [b EXCEPT !.arch = arch] = [os |-> b.os, arch |-> arch, libc |-> b.libc]
    <2>1. \E os, archs, libcs : b \in [os : os, arch : archs, libc : libcs]
      BY <1>1, Zenon DEF Builds
    <2> HIDE DEF b
    <2> QED
      BY <1>2, <2>1
  <1> QED
    BY <1>3, <1>4

\* Where there is a release of Node.js for a machine, there is one under the
\* name the machine asks for.
LEMMA NodeSibling ==
    ASSUME NEW q \in Requests, q.product = "node", NEW f \in Published, f.name = "node",
           f.version = q.version, BuildFor(f, q.machine)
    PROVE  [f EXCEPT !.build.arch = resolveArchitecture(PlatformOf(q), q.version)] \in Published
  <1> DEFINE m == q.machine
             p == PlatformOf(q)
             a == resolveArchitecture(p, q.version)
             Named(arch) == [f EXCEPT !.build.arch = arch]
  <1>1. m \in Machines /\ KnownMachine(m) /\ f \in Files /\ f.version.major \in Nat
    BY RequestAssumption, MachineAssumption, PublishedAssumption DEF Files, Versions
  <1>2. /\ f.version.v
        /\ f.build.arch # "aarch64"
        /\ f.build.arch = "x86" => Named("x64") \in Published
        /\ f.build.arch = "armv7l" => Named("arm64") \in Published
        /\ f.build.os = "darwin" => (Named("arm64") \in Published <=> f.version.major >= 16)
    BY SitesAssumption
  <1>3. Named(f.build.arch) = f
    BY <1>1 DEF Files, Builds
  <1>4. f.build.arch \in ArchitectureNames(m) /\ f.build.os \in SystemNames(m)
    BY DEF BuildFor
  <1>5. (p.os = "Mac" <=> m.goos = "darwin") /\ p.architecture = GuessArchitecture(m)
    BY <1>1, GuessedPlatform DEF PlatformOf
  <1> HIDE DEF Named, p
  <1>6. a = IF p.os = "Mac" /\ p.architecture = "arm64" /\ f.version.major < 16
            THEN "x64" ELSE p.architecture
    BY <1>2 DEF resolveArchitecture, nodeVersionThresholdMacARM64
  <1>7. CASE m.goarch = "amd64"
    <2>1. a = "x64" /\ f.build.arch \in {"x64", "x86"}
      BY <1>1, <1>4, <1>5, <1>6, <1>7, GuessedArchitecture DEF ArchitectureNames
    <2> QED
      BY <1>2, <1>3, <2>1 DEF p, Named
  <1>8. CASE m.goarch = "386"
    <2>1. a = "x86" /\ f.build.arch = "x86"
      BY <1>1, <1>4, <1>5, <1>6, <1>8, GuessedArchitecture DEF ArchitectureNames
    <2> QED
      BY <1>3, <2>1 DEF p, Named
  <1>9. CASE m.goarch = "arm64" /\ m.goos = "darwin"
    <2>1. p.architecture = "arm64" /\ p.os = "Mac"
      BY <1>1, <1>5, <1>9, GuessedArchitecture
    <2>2. f.build.arch \in {"arm64", "x64"} /\ f.build.os = "darwin"
      BY <1>2, <1>4, <1>9 DEF ArchitectureNames, SystemNames
    <2>3. CASE f.version.major < 16
      <3>1. a = "x64" /\ f.build.arch # "arm64"
        BY <1>1, <1>2, <1>3, <1>6, <2>1, <2>2, <2>3
      <3> QED
        BY <1>3, <2>2, <3>1 DEF p, Named
    <2>4. CASE f.version.major >= 16
      <3>1. a = "arm64"
        BY <1>1, <1>6, <2>1, <2>4
      <3> QED
        BY <1>2, <2>2, <2>4, <3>1 DEF p, Named
    <2> QED
      BY <1>1, <2>3, <2>4
  <1>10. CASE m.goarch = "arm64" /\ m.goos # "darwin"
    <2>1. a = "arm64" /\ f.build.arch \in {"arm64", "aarch64"}
      BY <1>1, <1>4, <1>5, <1>6, <1>10, GuessedArchitecture DEF ArchitectureNames
    <2> QED
      BY <1>2, <1>3, <2>1 DEF p, Named
  <1>11. CASE m.goarch = "arm"
    <2>1. m.goos = "linux"
      BY <1>1, <1>11 DEF KnownMachine
    <2>2. a = GuessArchitecture(m)
      BY <1>5, <1>6, <2>1
    <2>3. GuessArchitecture(m) = IF m.v7 THEN "armv7l" ELSE "arm64"
      BY <1>1, <1>11, GuessedArchitecture
    <2>4. f.build.arch \in {"armv7l"} \cup (IF m.v7 THEN {} ELSE {"arm64", "aarch64"})
      BY <1>4, <1>11 DEF ArchitectureNames
    <2> QED
      BY <1>2, <1>3, <2>2, <2>3, <2>4 DEF p, Named
  <1>12. CASE m.goarch \in {"ppc64", "ppc64le", "s390x"}
    <2>1. a = m.goarch
      BY <1>1, <1>5, <1>6, <1>12, GuessedArchitecture
    <2>2. f.build.arch = m.goarch
      BY <1>4, <1>12 DEF ArchitectureNames
    <2> QED
      BY <1>3, <2>1, <2>2 DEF p, Named
  <1> QED
    BY <1>1, <1>7, <1>8, <1>9, <1>10, <1>11, <1>12 DEF KnownMachine

\* What there is for a machine is there under the name it asks for.
LEMMA AvailableIsNamed ==
    ASSUME NEW q \in Requests, Available(q)
    PROVE  /\ Download(q) \in Published
           /\ q.product = "node" => q.version.v
  <1> DEFINE m == q.machine
             p == PlatformOf(q)
             a == resolveArchitecture(p, q.version)
  <1>1. m \in Machines /\ KnownMachine(m) /\ m.alpine \in BOOLEAN /\ q.product \in {"node", "bun"}
    BY RequestAssumption, MachineAssumption DEF Products
  <1>2. PICK f \in Published :
            /\ f.name = q.product /\ f.version = q.version
            /\ q.product = "node" => f.extension = NodeExtension(q)
            /\ BuildFor(f, m)
    BY DEF Available
  <1>3. f \in Files
    BY PublishedAssumption
  <1>4. /\ f.build.os \in SystemNames(m)
        /\ f.build.arch \in ArchitectureNames(m)
        /\ f.build.libc = (IF m.alpine THEN "musl" ELSE "")
    BY <1>2 DEF BuildFor
  <1>5. CASE q.product = "node"
    <2>1. /\ f.version.v /\ f.build.os # "windows"
          /\ f.root = IF f.build.libc = "musl" THEN "unofficial" ELSE "official"
      BY <1>2, <1>5, SitesAssumption
    <2>2. f.build.os = Codename(p.os)
      BY <1>1, <1>4, <2>1, NodeSystem DEF PlatformOf
    <2>3. f.root = p.root /\ f.build.libc = p.classifier
      BY <1>1, <1>4, <2>1, GuessedPlatform DEF PlatformOf
    <2>4. [f EXCEPT !.build.arch = a] \in Published
      BY <1>2, <1>5, NodeSibling
    <2>5. Download(q) = [name |-> "node", root |-> p.root, version |-> q.version,
                         extension |-> NodeExtension(q), build |-> NodeClassifier(p, q.version)]
      BY <1>5, NodeBuild
    <2> HIDE DEF p, a
    <2>6. NodeClassifier(p, q.version) = [os |-> Codename(p.os), arch |-> a, libc |-> p.classifier]
      BY DEF NodeClassifier, a
    <2>7. [f EXCEPT !.build.arch = a] = Download(q)
      BY <1>2, <1>3, <1>5, <2>2, <2>3, <2>5, <2>6, Renamed
    <2> QED
      BY <1>2, <2>1, <2>4, <2>7
  <1>6. CASE q.product = "bun"
    <2> DEFINE Named(arch) == [f EXCEPT !.build.arch = arch]
    <2>1. /\ f.root = "github" /\ f.extension = "zip"
          /\ f.build.os \in {"linux", "darwin", "windows"}
          /\ f.build.arch \in {"x64", "aarch64"} /\ f.build.libc = ""
          /\ f.build.os = "darwin" => Named("aarch64") \in Published
      BY <1>2, <1>6, SitesAssumption
    <2>2. Named(f.build.arch) \in Published
      BY <1>3 DEF Files, Builds
    <2>3. BunTarget(m).os = f.build.os /\ BunTarget(m).libc = ""
      <3>1. BunTarget(m).os = (CASE GuessOS(m.goos) = "Linux" -> "linux"
                                 [] GuessOS(m.goos) = "Mac" -> "darwin"
                                 [] GuessOS(m.goos) = "Windows" -> "windows" [] OTHER -> "")
            /\ BunTarget(m).libc = ""
        BY DEF BunTarget
      <3>2. CASE m.goos = "windows"
        BY <1>4, <2>1, <3>1, <3>2 DEF GuessOS, SystemNames
      <3>3. CASE m.goos = "linux"
        BY <1>4, <2>1, <3>1, <3>3 DEF GuessOS, SystemNames
      <3>4. CASE m.goos = "darwin"
        BY <1>4, <2>1, <3>1, <3>4 DEF GuessOS, SystemNames
      <3>5. CASE m.goos \in {"solaris", "illumos", "aix"}
        BY <1>4, <2>1, <3>5 DEF SystemNames
      <3> QED
        BY <1>1, <3>2, <3>3, <3>4, <3>5 DEF KnownMachine
    <2>4. Named(BunTarget(m).arch) \in Published
      <3>1. BunTarget(m).arch = (CASE GuessArchitecture(m) = "x64" -> "x64"
                                   [] GuessArchitecture(m) = "arm64" -> "aarch64" [] OTHER -> "")
        BY DEF BunTarget
      <3> HIDE DEF Named
      <3>2. CASE m.goarch = "amd64"
        <4>1. f.build.arch = "x64"
          BY <1>4, <2>1, <3>2 DEF ArchitectureNames
        <4> QED
          BY <1>1, <2>2, <3>1, <3>2, <4>1, GuessedArchitecture
      <3>3. CASE m.goarch = "arm64"
        <4>1. BunTarget(m).arch = "aarch64"
          BY <1>1, <3>1, <3>3, GuessedArchitecture
        <4>2. f.build.arch = "x64" => m.goos = "darwin"
          BY <1>4, <3>3 DEF ArchitectureNames
        <4>3. m.goos = "darwin" => f.build.os = "darwin"
          BY <1>4 DEF SystemNames
        <4> QED
          BY <2>1, <2>2, <4>1, <4>2, <4>3
      <3>4. CASE m.goarch = "arm"
        <4>1. f.build.arch = "aarch64" /\ ~m.v7
          BY <1>4, <2>1, <3>4 DEF ArchitectureNames
        <4> QED
          BY <1>1, <2>2, <3>1, <3>4, <4>1, GuessedArchitecture
      <3>5. CASE m.goarch \in {"386", "ppc64", "ppc64le", "s390x"}
        BY <1>4, <2>1, <3>5 DEF ArchitectureNames
      <3> QED
        BY <1>1, <3>2, <3>3, <3>4, <3>5 DEF KnownMachine
    <2>5. Named(BunTarget(m).arch) = Download(q)
      <3> DEFINE t == BunTarget(m)
      <3>1. Download(q) = [name |-> "bun", root |-> "github", version |-> q.version,
                           extension |-> "zip", build |-> t]
        BY <1>6 DEF Download, BunDownload
      <3>2. t = [os |-> t.os, arch |-> t.arch, libc |-> t.libc]
        BY DEF BunTarget
      <3>3. Named(t.arch) = [name |-> f.name, root |-> f.root, version |-> f.version,
                             extension |-> f.extension,
                             build |-> [os |-> f.build.os, arch |-> t.arch,
                                        libc |-> f.build.libc]]
        BY <1>3, Renamed
      <3>4. t.os = f.build.os /\ t.libc = f.build.libc
        BY <2>1, <2>3
      <3> HIDE DEF t, Named
      <3> QED
        BY <1>2, <1>6, <2>1, <3>1, <3>2, <3>3, <3>4 DEF t
    <2> QED
      BY <1>6, <2>4, <2>5
  <1> QED
    BY <1>1, <1>5, <1>6

-----------------------------------------------------------------------------

\* What a build finds in the cache is what it would have downloaded.
LEMMA CachedIsWanted ==
    ASSUME IInv, NEW q \in Requests, NEW e \in Cached(Key(q))
    PROVE  /\ e.file \in Published /\ e.file \in Files
           /\ e.file.name = q.product
           /\ e.file.version.major = q.version.major
           /\ e.file.extension = Download(q).extension
           /\ q.product = "node" => e.file.build = Download(q).build
  <1>1. e \in cache /\ e.key = Key(q)
    BY DEF Cached
  <1>2. e.file \in Published /\ e.key = NameOf(e.file)
    BY <1>1 DEF IInv, EntriesNamed
  <1>3. e.file \in Files /\ e.file.version \in Versions
    BY <1>2, PublishedAssumption DEF Files
  <1>4. /\ Key(q) = NameOf(Download(q))
        /\ Download(q).name = q.product /\ Download(q).version = q.version
        /\ q.version \in Versions
    BY KeyNamesDownload, RequestAssumption
  <1>5. NameOf(e.file) = NameOf(Download(q)) /\ Download(q).version \in Versions
    BY <1>1, <1>2, <1>4
  <1>6. /\ e.file.name = Download(q).name
        /\ e.file.version.major = Download(q).version.major
        /\ e.file.extension = Download(q).extension
        /\ e.file.name = "node" => e.file.build = Download(q).build
    BY <1>3, <1>5, SameName
  <1> QED
    BY <1>2, <1>3, <1>4, <1>6

\* A release that is of the build a machine would download is for it.
LEMMA WantedRuns ==
    ASSUME NEW q \in Requests, NEW f \in Published, f.build = Download(q).build
    PROVE  ~(q.product = "bun" /\ q.machine.alpine) => BuildFor(f, q.machine)
  <1>1. q.machine \in Machines /\ q.version \in Versions /\ q.product \in {"node", "bun"}
    BY RequestAssumption DEF Products
  <1>2. CASE q.product = "node"
    <2>1. f.build = NodeClassifier(GuessPlatform(q.machine), q.version)
      BY <1>2, NodeBuild DEF PlatformOf
    <2> DEFINE b == NodeClassifier(GuessPlatform(q.machine), q.version)
    <2>2. /\ b.os \in SystemNames(q.machine)
          /\ b.arch \in ArchitectureNames(q.machine)
          /\ b.libc = (IF q.machine.alpine THEN "musl" ELSE "")
      BY <1>1, ClassifierRuns
    <2> HIDE DEF b
    <2> QED
      BY <2>1, <2>2 DEF BuildFor, b
  <1>3. CASE q.product = "bun"
    <2>1. Download(q).build = BunTarget(q.machine)
      BY <1>3 DEF Download, BunDownload
    <2>2. BunTarget(q.machine).os # "" /\ BunTarget(q.machine).arch # ""
      BY <2>1, PublishedAssumption
    <2>3. q.machine.alpine \in BOOLEAN
      BY <1>1, MachineAssumption
    <2> QED
      BY <1>1, <1>3, <2>1, <2>2, <2>3, BunRuns DEF BuildFor
  <1> QED
    BY <1>1, <1>2, <1>3

\* Putting a binary that runs, of the version asked for, in place is right.
LEMMA PutRuns ==
    ASSUME IInv, NEW q \in Requests, request = q, request' = q,
           NEW f \in Files, f.version.major = q.version.major,
           ~(q.product = "bun" /\ q.machine.alpine) => RunsOn(f, q.machine),
           Put(q.machine, q.product, f)
    PROVE  BinaryRuns' /\ binary' \in [Machines -> [Products -> Files \cup {NoFile}]]
  <1>1. q.machine \in Machines /\ q.product \in Products
    BY RequestAssumption
  <1>2. f # NoFile
    BY AbsentAssumption
  <1>3. binary \in [Machines -> [Products -> Files \cup {NoFile}]]
    BY DEF IInv, TypeOK
  <1>4. /\ binary' \in [Machines -> [Products -> Files \cup {NoFile}]]
        /\ binary'[q.machine][q.product] = f
        /\ \A m \in Machines, p \in Products :
               ~(m = q.machine /\ p = q.product) => binary'[m][p] = binary[m][p]
    BY <1>1, <1>2, <1>3 DEF Put
  <1>5. ASSUME NEW m \in Machines, NEW p \in Products,
               binary'[m][p] # NoFile, ~(p = "bun" /\ m.alpine)
        PROVE  RunsOn(binary'[m][p], m)
    <2>1. CASE m = q.machine /\ p = q.product
      BY <1>4, <1>5, <2>1
    <2>2. CASE ~(m = q.machine /\ p = q.product)
      BY <1>4, <1>5, <2>2 DEF IInv, BinaryRuns
    <2> QED
      BY <2>1, <2>2
  <1>6. BinaryRuns'
    BY <1>2, <1>4, <1>5 DEF BinaryRuns
  <1> QED
    BY <1>4, <1>6

\* Unpacking what is cached and taking what has the name wanted keeps the
\* invariant, provided nothing of that name is kept of Bun, whose directories
\* do not name the version.
LEMMA PlacedKeeps ==
    ASSUME IInv, NEW q \in Requests, request = q, NEW e \in Cached(Key(q)), NEW kept, NEW swept,
           kept \subseteq unpacked[q.machine],
           q.product = "bun" => \A g \in kept : Directory(g) # Directory(Download(q)),
           PlaceFrom(kept, e.file, Directory(Download(q)), swept),
           UNCHANGED <<resolver, cache, request, builds>>
    PROVE  IInv'
  <1> DEFINE wanted == Directory(Download(q))
             held == Unpacked(kept, e.file)
             found == {g \in held : Directory(g) = wanted}
  <1>1. /\ q.machine \in Machines /\ q.product \in {"node", "bun"} /\ q.version \in Versions
        /\ q # NoRequest
    BY RequestAssumption, AbsentAssumption DEF Products
  <1>2. kept \subseteq Published
    BY <1>1 DEF IInv, UnpackedPublished
  <1>3. held \subseteq kept \cup {e.file} /\ held \subseteq Published
    BY <1>2, CachedIsWanted DEF Unpacked
  <1>4. Published \subseteq Files
    BY PublishedAssumption
  <1>5. unpacked \in [Machines -> SUBSET Files]
    BY DEF IInv, TypeOK
  <1>6. \/ /\ pc' = "failed" /\ UNCHANGED binary
           /\ unpacked' = [unpacked EXCEPT ![q.machine] = held]
        \/ /\ pc' = "ok"
           /\ \E g \in found : Put(q.machine, q.product, BinaryOf(g))
           /\ unpacked' = [unpacked EXCEPT ![q.machine] = held \ (swept \cup {e.file})]
    BY DEF PlaceFrom
  <1>7. /\ unpacked' \in [Machines -> SUBSET Files]
        /\ UnpackedPublished'
    <2>1. \E new \in SUBSET Published : unpacked' = [unpacked EXCEPT ![q.machine] = new]
      BY <1>3, <1>6
    <2>2. PICK new \in SUBSET Published : unpacked' = [unpacked EXCEPT ![q.machine] = new]
      BY <2>1
    <2>3. new \in SUBSET Files
      BY <1>4
    <2> HIDE DEF held
    <2> QED
      BY <1>1, <1>5, <2>2, <2>3 DEF IInv, UnpackedPublished
  <1>8. EntriesNamed'
    BY DEF IInv, EntriesNamed, NameOf
  <1>9. BinaryRuns' /\ binary' \in [Machines -> [Products -> Files \cup {NoFile}]]
    <2>1. CASE pc' = "failed" /\ UNCHANGED binary
      BY <2>1 DEF IInv, TypeOK, BinaryRuns
    <2>2. CASE \E g \in found : Put(q.machine, q.product, BinaryOf(g))
      <3>1. PICK g \in found : Put(q.machine, q.product, BinaryOf(g))
        BY <2>2
      <3>2. /\ g \in held /\ g \in Published /\ g \in Files
            /\ Directory(g) = Directory(Download(q))
        BY <1>3, <1>4, <3>1
      <3>3. /\ Directory(g).name = g.name /\ Directory(g).build = g.build
            /\ g.name = "node" => Directory(g).version = g.version
            /\ Directory(Download(q)).name = Download(q).name
            /\ Directory(Download(q)).build = Download(q).build
            /\ Download(q).name = "node"
                 => Directory(Download(q)).version = Download(q).version
        BY DEF Directory
      <3>4. /\ g.name = q.product /\ g.build = Download(q).build
            /\ q.product = "node" => g.version = q.version
        BY <3>2, <3>3, KeyNamesDownload
      <3>5. g.version.major = q.version.major
        <4>1. CASE q.product = "node"
          BY <3>4, <4>1
        <4>2. CASE q.product = "bun"
          <5>1. g = e.file
            BY <1>3, <3>2, <4>2
          <5> QED
            BY <5>1, CachedIsWanted
        <4> QED
          BY <1>1, <4>1, <4>2
      <3>6. /\ BinaryOf(g) \in Files /\ BinaryOf(g).extension = "exe"
            /\ BinaryOf(g).build = g.build /\ BinaryOf(g).version = g.version
        BY <3>2 DEF BinaryOf, Files, Extensions
      <3>7. ~(q.product = "bun" /\ q.machine.alpine) => RunsOn(BinaryOf(g), q.machine)
        BY <3>2, <3>4, <3>6, WantedRuns DEF RunsOn, BuildFor
      <3> HIDE DEF found
      <3> QED
        BY <3>1, <3>5, <3>6, <3>7, PutRuns
    <2> QED
      BY <1>6, <2>1, <2>2
  <1> HIDE DEF found
  <1>10. TypeOK'
    BY <1>1, <1>6, <1>7, <1>9 DEF IInv, TypeOK, Entries
  <1> QED
    BY <1>7, <1>8, <1>9, <1>10 DEF IInv

LEMMA Initially == Init => IInv
  <1> SUFFICES ASSUME Init PROVE IInv
    OBVIOUS
  <1>1. TypeOK
    BY BoundAssumption DEF Init, TypeOK
  <1>2. EntriesNamed /\ UnpackedPublished
    BY DEF Init, EntriesNamed, UnpackedPublished
  <1>3. BinaryRuns
    BY DEF Init, BinaryRuns
  <1> QED
    BY <1>1, <1>2, <1>3 DEF IInv

LEMMA StepKeeps == IInv /\ [Next]_vars => IInv'
  <1> SUFFICES ASSUME IInv, [Next]_vars PROVE IInv'
    OBVIOUS
  <1> USE DEF IInv
  <1>1. ASSUME NEW q \in Requests, Begin(q)
        PROVE  IInv'
    <2>1. TypeOK'
      BY <1>1, BoundAssumption, AbsentAssumption DEF Begin, TypeOK
    <2>2. EntriesNamed' /\ UnpackedPublished'
      BY <1>1 DEF Begin, EntriesNamed, NameOf, UnpackedPublished
    <2>3. BinaryRuns'
      BY <1>1 DEF Begin, BinaryRuns
    <2> QED
      BY <2>1, <2>2, <2>3
  <1>2. CASE Check
    <2>1. request \in Requests /\ pc' \in {"ok", "fetch"}
      BY <1>2 DEF Check, TypeOK
    <2>2. TypeOK'
      BY <1>2, <2>1, AbsentAssumption DEF Check, TypeOK
    <2>3. EntriesNamed' /\ UnpackedPublished'
      BY <1>2 DEF Check, EntriesNamed, NameOf, UnpackedPublished
    <2>4. pc' = "ok" => AlreadyInstalled(request)
      BY <1>2 DEF Check
    <2>5. BinaryRuns'
      BY <1>2, <2>4 DEF Check, BinaryRuns, AlreadyInstalled
    <2> QED
      BY <2>2, <2>3, <2>5
  <1>3. CASE Fetch
    <2> DEFINE d == Download(request)
    <2>1. request \in Requests /\ request # NoRequest
      BY <1>3, AbsentAssumption DEF Fetch, TypeOK
    <2>2. /\ pc' \in {"place", "failed"}
          /\ \/ cache' = cache
             \/ d \in Published /\ cache' = cache \cup {[key |-> Key(request), file |-> d]}
          /\ UNCHANGED <<resolver, unpacked, binary, request, builds>>
      BY <1>3 DEF Fetch
    <2>3. Key(request) = NameOf(d)
      BY <2>1, KeyNamesDownload
    <2>4. ASSUME d \in Published
          PROVE  [key |-> Key(request), file |-> d] \in Entries
      <3>1. d \in Files
        BY <2>4, PublishedAssumption
      <3>2. /\ d.name \in Products /\ d.extension \in Extensions /\ d.build \in Builds
            /\ d.version \in [v : BOOLEAN, major : Nat]
        BY <3>1 DEF Files, Versions
      <3>3. Unclassified \in Builds
        BY DEF Unclassified, Builds
      <3>4. [d.version EXCEPT !.v = FALSE] \in [v : BOOLEAN, major : Nat]
        BY <3>2
      <3>5. NameOf(d) \in Keys
        BY <3>2, <3>3, <3>4
           DEF NameOf, Resolve, CacheDescriptor, trimLeadingV, Keys, Versions
      <3> QED
        BY <2>3, <3>1, <3>5 DEF Entries
    <2>5. TypeOK'
      BY <2>1, <2>2, <2>4 DEF TypeOK
    <2>6. EntriesNamed'
      BY <2>2, <2>3 DEF EntriesNamed, NameOf
    <2>7. UnpackedPublished' /\ BinaryRuns'
      BY <2>2 DEF UnpackedPublished, BinaryRuns
    <2> QED
      BY <2>5, <2>6, <2>7
  <1>4. CASE PlaceExecutable
    <2>1. request \in Requests /\ request # NoRequest /\ request.product = "node"
      BY <1>4, AbsentAssumption DEF PlaceExecutable, TypeOK
    <2>2. PICK e \in Cached(Key(request)) : Put(request.machine, "node", e.file)
      BY <1>4 DEF PlaceExecutable
    <2>3. /\ e.file \in Published /\ e.file \in Files
          /\ e.file.version.major = request.version.major
          /\ e.file.build = Download(request).build
          /\ e.file.extension = Download(request).extension
      BY <2>1, CachedIsWanted
    <2>4. Download(request).extension = "exe"
      BY <1>4, <2>1, NodeBuild DEF PlaceExecutable
    <2>5. RunsOn(e.file, request.machine)
      BY <2>1, <2>3, <2>4, WantedRuns DEF RunsOn
    <2>6. BinaryRuns' /\ binary' \in [Machines -> [Products -> Files \cup {NoFile}]]
      BY <1>4, <2>1, <2>2, <2>3, <2>5, PutRuns DEF PlaceExecutable
    <2>7. TypeOK'
      BY <1>4, <2>1, <2>6 DEF PlaceExecutable, TypeOK
    <2>8. EntriesNamed' /\ UnpackedPublished'
      BY <1>4 DEF PlaceExecutable, EntriesNamed, NameOf, UnpackedPublished
    <2> QED
      BY <2>6, <2>7, <2>8
  <1>5. CASE PlaceNode
    <2> DEFINE there == unpacked[request.machine]
               swept == {g \in there : g.name = "node"}
    <2>1. request \in Requests /\ request.product = "node"
      BY <1>5, AbsentAssumption DEF PlaceNode, TypeOK
    <2>2. PICK e \in Cached(Key(request)) :
              PlaceFrom(there, e.file, Directory(Download(request)), swept)
      BY <1>5 DEF PlaceNode
    <2>3. UNCHANGED <<resolver, cache, request, builds>>
      BY <1>5 DEF PlaceNode
    <2> HIDE DEF swept
    <2> QED
      BY <2>1, <2>2, <2>3, PlacedKeeps
  <1>6. CASE PlaceBun
    <2> DEFINE there == unpacked[request.machine]
               wanted == Directory(Download(request))
               stale == {g \in there : Directory(g) = wanted}
    <2>1. request \in Requests /\ request.product = "bun"
      BY <1>6, AbsentAssumption DEF PlaceBun, TypeOK
    <2>2. PICK e \in Cached(Key(request)) : PlaceFrom(there \ stale, e.file, wanted, stale)
      BY <1>6 DEF PlaceBun
    <2>3. UNCHANGED <<resolver, cache, request, builds>>
      BY <1>6 DEF PlaceBun
    <2>4. there \ stale \subseteq there /\ \A g \in there \ stale : Directory(g) # wanted
      OBVIOUS
    <2> HIDE DEF stale
    <2> QED
      BY <2>1, <2>2, <2>3, <2>4, PlacedKeeps
  <1>7. CASE UNCHANGED vars
    BY <1>7 DEF vars, TypeOK, EntriesNamed, NameOf, UnpackedPublished, BinaryRuns
  <1> QED
    BY <1>1, <1>2, <1>3, <1>4, <1>5, <1>6, <1>7 DEF Next

-----------------------------------------------------------------------------

\* An unpacking that does not find the directory wanted is of a version spelled
\* otherwise than the release, or of a Bun that is not the one wanted.
LEMMA PlacedFails ==
    ASSUME IInv, NEW q \in Requests, NEW e \in Cached(Key(q)), NEW kept,
           Download(q).extension # "exe",
           \A g \in Unpacked(kept, e.file) : Directory(g) # Directory(Download(q))
    PROVE  \/ ~Available(q)
           \/ q.product = "bun" /\ e.file # Download(q)
  <1>1. /\ e.file \in Published /\ e.file \in Files /\ e.file.name = q.product
        /\ e.file.version.major = q.version.major
        /\ e.file.extension = Download(q).extension
        /\ q.product = "node" => e.file.build = Download(q).build
    BY CachedIsWanted
  <1>2. e.file \in Unpacked(kept, e.file)
    BY <1>1 DEF Unpacked
  <1>3. q.product \in {"node", "bun"} /\ q.version \in Versions
    BY RequestAssumption DEF Products
  <1>4. Directory(e.file) # Directory(Download(q))
    BY <1>2
  <1>5. CASE q.product = "bun"
    BY <1>4, <1>5
  <1>6. CASE q.product = "node"
    <2> SUFFICES ASSUME Available(q) PROVE FALSE
      BY <1>6
    <2>1. q.version.v /\ e.file.version.v
      BY <1>1, <1>6, AvailableIsNamed, SitesAssumption
    <2>2. e.file.version = q.version
      BY <1>1, <1>3, <2>1 DEF Files, Versions
    <2>3. Directory(e.file) = Directory(Download(q))
      BY <1>1, <1>6, <2>2, KeyNamesDownload DEF Directory
    <2> QED
      BY <1>4, <2>3
  <1> QED
    BY <1>3, <1>5, <1>6

\* Every step keeps it that a build fails for want of a release only.
LEMMA StepInstalls == IInv /\ Installs /\ [Next]_vars => Installs'
  <1> SUFFICES ASSUME IInv, Installs, [Next]_vars, pc' = "failed" PROVE Installs'
    BY DEF Installs
  <1> DEFINE d == Download(request)
  <1>1. ASSUME NEW q \in Requests, Begin(q) PROVE FALSE
    BY <1>1 DEF Begin
  <1>2. CASE Check
    BY <1>2 DEF Check
  <1>3. CASE Fetch
    <2>1. request \in Requests
      BY <1>3 DEF Fetch, IInv, TypeOK
    <2>2. d \notin Published /\ request' = request
      BY <1>3 DEF Fetch
    <2>3. ~Available(request)
      BY <2>1, <2>2, AvailableIsNamed
    <2> QED
      BY <2>2, <2>3 DEF Installs
  <1>4. CASE PlaceExecutable
    BY <1>4 DEF PlaceExecutable
  <1>5. ASSUME request \in Requests, d.extension # "exe", NEW kept, NEW swept,
               NEW e \in Cached(Key(request)), PlaceFrom(kept, e.file, Directory(d), swept),
               UNCHANGED <<resolver, cache, request, builds>>
        PROVE  Installs'
    <2>1. {g \in Unpacked(kept, e.file) : Directory(g) = Directory(d)} = {}
      BY <1>5 DEF PlaceFrom
    <2> HIDE DEF d
    <2>5. \A g \in Unpacked(kept, e.file) : Directory(g) # Directory(d)
      BY <2>1
    <2> USE DEF d
    <2>2. ~Available(request) \/ (request.product = "bun" /\ e.file # d)
      BY <1>5, <2>5, PlacedFails
    <2>3. e \in Cached(Key(request))' /\ request' = request
      BY <1>5 DEF Cached, Key
    <2>4. ~Available(request') \/ (request'.product = "bun" /\ e.file # Download(request'))
      BY <2>2, <2>3
    <2> QED
      BY <2>3, <2>4 DEF Installs
  <1>6. CASE PlaceNode
    <2>1. request \in Requests /\ request.product = "node"
      BY <1>6 DEF PlaceNode, IInv, TypeOK
    <2>2. d.extension # "exe"
      BY <1>6, <2>1, NodeBuild DEF PlaceNode
    <2> QED
      BY <1>5, <1>6, <2>1, <2>2 DEF PlaceNode
  <1>7. CASE PlaceBun
    <2>1. request \in Requests /\ d.extension # "exe"
      BY <1>7 DEF PlaceBun, IInv, TypeOK, Download, BunDownload
    <2> QED
      BY <1>5, <1>7, <2>1 DEF PlaceBun
  <1>8. CASE UNCHANGED vars
    BY <1>8 DEF vars, Installs, Cached, Key
  <1> QED
    BY <1>1, <1>2, <1>3, <1>4, <1>6, <1>7, <1>8 DEF Next

\* The inductive invariant holds.
THEOREM Invariance == Spec => []IInv
  BY Initially, StepKeeps, PTL DEF Spec

\* Every variable keeps its type (platform.go, cache.go, session.go:95-135).
THEOREM TypeCorrect == Spec => []TypeOK
  <1>1. IInv => TypeOK
    BY DEF IInv
  <1> QED
    BY <1>1, Invariance, PTL

\* A machine ends up with a binary that runs on it, of the version asked for,
\* whichever machine filled the cache (node_installer.go:149-219, 268-290).
THEOREM BinaryAlwaysRuns == Spec => []BinaryRuns
  <1>1. IInv => BinaryRuns
    BY DEF IInv
  <1> QED
    BY <1>1, Invariance, PTL

\* A build fails only for want of a release for its machine, or for a Bun whose
\* name in the cache another machine has taken (node_installer.go:157, 276,
\* bun_installer.go:115).
THEOREM FailuresAreUnavailable == Spec => []Installs
  <1>1. Init => Installs
    BY DEF Init, Installs
  <1> QED
    BY <1>1, Invariance, StepInstalls, PTL DEF Spec

\* No download is kept under two names (node_installer.go:157, 276).
THEOREM AlwaysCachedOnce == Spec => []CachedOnce
  <1>1. IInv => CachedOnce
    <2> SUFFICES ASSUME IInv, NEW e \in cache, NEW f \in cache, e.file = f.file
                 PROVE  e = f
      BY DEF CachedOnce
    <2>1. e.key = f.key
      BY DEF IInv, EntriesNamed
    <2>2. e \in Entries /\ f \in Entries
      BY DEF IInv, TypeOK
    <2> QED
      BY <2>1, <2>2 DEF Entries
  <1> QED
    BY <1>1, Invariance, PTL

=============================================================================
