-------------------------- MODULE MCPlatformInstall --------------------------
\* Machines of every kind that differs in the names it is given, and what the
\* download sites hold of two releases of Node.js, on either side of the first
\* one for Apple silicon, and of one of Bun.
EXTENDS PlatformInstall

MCMachine(goos, goarch) ==
    [host |-> 1, goos |-> goos, goarch |-> goarch, v7 |-> FALSE, alpine |-> FALSE]

MCLinux == MCMachine("linux", "amd64")
MCAlpine == [MCLinux EXCEPT !.alpine = TRUE]
MCARMv7 == [MCMachine("linux", "arm") EXCEPT !.v7 = TRUE]
MCMacs == {MCMachine("darwin", "amd64"), MCMachine("darwin", "arm64")}
MCWindows ==
    {MCMachine("windows", "386")}
    \cup {[MCMachine("windows", "amd64") EXCEPT !.host = h] : h \in 1 .. 2}

MCMachines ==
    {MCLinux, MCAlpine, MCARMv7, MCMachine("linux", "arm")} \cup MCMacs \cup MCWindows

MCVersion(major) == [v |-> TRUE, major |-> major]
MCPlain(major) == [v |-> FALSE, major |-> major]

MCAsk(machines, product, versions, provided) ==
    [machine : machines, product : {product}, version : versions, provided : provided]

MCRequests ==
    MCAsk(MCMachines \ MCWindows, "node", {MCVersion(14), MCVersion(16), MCPlain(16)}, {TRUE})
    \cup MCAsk(MCWindows, "node", {MCVersion(16), MCPlain(16)}, BOOLEAN)
    \cup MCAsk({MCLinux} \cup MCMacs, "bun", {MCVersion(1), MCPlain(1)}, {FALSE})

MCFile(name, root, major, extension, os, arch, libc) ==
    [name |-> name, root |-> root, version |-> MCVersion(major), extension |-> extension,
     build |-> [os |-> os, arch |-> arch, libc |-> libc]]

MCPublished ==
    {MCFile("node", "official", v, "tar.gz", "linux", a, "") :
         v \in {14, 16}, a \in {"x64", "arm64", "armv7l"}}
    \cup {MCFile("node", "official", v, "tar.gz", "darwin", "x64", "") : v \in {14, 16}}
    \cup {MCFile("node", "official", 16, "tar.gz", "darwin", "arm64", "")}
    \cup {MCFile("node", "unofficial", v, "tar.gz", "linux", "x64", "musl") : v \in {14, 16}}
    \cup {MCFile("node", "official", v, e, "win", a, "") :
              v \in {14, 16}, e \in {"zip", "exe"}, a \in {"x64", "x86"}}
    \cup {MCFile("bun", "github", 1, "zip", os, a, "") :
              os \in {"linux", "darwin"}, a \in {"x64", "aarch64"}}

=============================================================================
