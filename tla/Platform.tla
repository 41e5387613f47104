------------------------------ MODULE Platform ------------------------------
(***************************************************************************)
(* Which build of Node.js or Bun a machine is given, where it is           *)
(* downloaded from and what its file in the cache is called.               *)
(*                                                                         *)
(* A machine is what Go reports of it, GOOS and GOARCH, whether its kernel *)
(* release names ARMv7, and whether it is an Alpine.  A version is its     *)
(* major number and whether it is spelled with a leading v.  A name put    *)
(* together from parts is the record of its parts.                         *)
(***************************************************************************)
EXTENDS Naturals

\* The architecture, by way of the JVM's spelling of it.  Any other spelling
\* with a 64 in it is taken for x64, and the rest for x86.
javaOSArch(goarch) ==
    CASE goarch = "386" -> "x86"
      [] goarch = "arm64" -> "aarch64"
      [] OTHER -> goarch

Spelled64 == {"amd64", "riscv64", "loong64", "mips64", "mips64le"}

guessArchitecture(arch, namesV7) ==
    CASE arch \in {"ppc64le", "s390x", "ppc64", "ppc"} -> arch
      [] arch = "aarch64" -> "arm64"
      [] arch = "arm" -> IF namesV7 THEN "armv7l" ELSE "arm64"
      [] OTHER -> IF arch \in Spelled64 THEN "x64" ELSE "x86"

\* Only Linux publishes its kernel release where it is looked for.
GuessArchitecture(machine) ==
    guessArchitecture(javaOSArch(machine.goarch), machine.goos = "linux" /\ machine.v7)

\* Whatever is not listed is a Unix treated as Linux.
GuessOS(goos) ==
    CASE goos = "windows" -> "Windows"
      [] goos = "darwin" -> "Mac"
      [] goos \in {"solaris", "illumos"} -> "SunOS"
      [] goos = "aix" -> "AIX"
      [] OTHER -> "Linux"

GuessPlatform(machine) ==
    LET os == GuessOS(machine.goos)
        musl == os = "Linux" /\ machine.alpine
    IN  [os |-> os, architecture |-> GuessArchitecture(machine),
         classifier |-> IF musl THEN "musl" ELSE "",
         root |-> IF musl THEN "unofficial" ELSE "official"]

-----------------------------------------------------------------------------
(***************************************************************************)
(* The names of a Node.js distribution.                                    *)
(***************************************************************************)

IsWindows(p) == p.os = "Windows"

Codename(os) ==
    CASE os = "Mac" -> "darwin"
      [] os = "Windows" -> "win"
      [] os = "SunOS" -> "sunos"
      [] os = "AIX" -> "aix"
      [] OTHER -> "linux"

ArchiveExtension(p) == IF IsWindows(p) THEN "zip" ELSE "tar.gz"

nodeVersionThresholdMacARM64 == 16

\* A version without its v has no major version, so that on an Apple silicon
\* Mac it is taken for one that has no build of its own.
resolveArchitecture(p, version) ==
    IF /\ p.os = "Mac" /\ p.architecture = "arm64"
       /\ ~version.v \/ version.major < nodeVersionThresholdMacARM64
    THEN "x64"
    ELSE p.architecture

NodeClassifier(p, version) ==
    [os |-> Codename(p.os), arch |-> resolveArchitecture(p, version), libc |-> p.classifier]

\* The bare binary of Windows has a directory of its own for each of three
\* architectures.
NodeDownload(p, version, extension) ==
    [name |-> "node", root |-> p.root, version |-> version, extension |-> extension,
     build |-> IF extension = "exe"
               THEN [os |-> "win", libc |-> "",
                     arch |-> IF p.architecture \in {"x64", "arm64"}
                              THEN p.architecture ELSE "x86"]
               ELSE NodeClassifier(p, version)]

-----------------------------------------------------------------------------
(***************************************************************************)
(* The names of a Bun release, which know nothing of libc.                 *)
(***************************************************************************)

BunTarget(machine) ==
    LET os == GuessOS(machine.goos)
        architecture == GuessArchitecture(machine)
    IN  [os |-> CASE os = "Linux" -> "linux" [] os = "Mac" -> "darwin"
                  [] os = "Windows" -> "windows" [] OTHER -> "",
         arch |-> CASE architecture = "x64" -> "x64" [] architecture = "arm64" -> "aarch64"
                    [] OTHER -> "",
         libc |-> ""]

BunDownload(machine, version) ==
    [name |-> "bun", root |-> "github", version |-> version, extension |-> "zip",
     build |-> BunTarget(machine)]

-----------------------------------------------------------------------------
(***************************************************************************)
(* The name of a download in the cache.                                    *)
(***************************************************************************)

Unclassified == [os |-> "", arch |-> "", libc |-> ""]

CacheDescriptor(name, version, classifier, extension) ==
    [name |-> name, version |-> version, classifier |-> classifier, extension |-> extension]

trimLeadingV(version) == [version EXCEPT !.v = FALSE]

\* Variant: the name leaves out the platform.
ResolveUnclassified(resolver, d) ==
    [d EXCEPT !.classifier = Unclassified,
              !.version = IF resolver = "repository" THEN trimLeadingV(@) ELSE @]

\* The local repository files downloads under a version without its v; the
\* cache directory of an install directory keeps the version as configured.
Resolve(resolver, d) ==
    IF resolver = "repository" THEN [d EXCEPT !.version = trimLeadingV(@)] ELSE d

=============================================================================
