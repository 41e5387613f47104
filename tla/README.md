# Verification of frontend-maven-plugin

The repository installs Node.js, npm, pnpm, corepack, Yarn and Bun into a
project directory and runs them. This directory holds TLA+ specifications of
the parts where order, failure and sharing matter, TLC configurations that check
them on small instances, and TLAPS proofs of what holds for every instance.

Paths of Go files are relative to `src/`.

## 1. The system

| Component | Code | State | Operations | Hard parts |
|---|---|---|---|---|
| Command line | `cli/cli.go`, `cmd/frontend`, `goal/registry.go` | none | take out -D properties, parse options, run **one** goal, exit code | two passes over the words, values that look like options, overrides; one goal per process: mutexes matter only to callers of the packages |
| Goals and their lifecycle | `goal/base.go`, `goal/build_context.go`, `goal/install_goals.go`, `goal/package_manager_goals.go`, `goal/task_goals.go` | parameters; the build context | skip checks, install Node then a tool, run a task, swallow test failures, refresh the host | a change made during a build, an incremental run after a failed one, a goal that stands down |
| Download cache | `frontend/cache.go`, `goal/session.go`, `frontend/file_downloader.go` | files under one directory, shared by every build on the machine | exists?, fetch, write, evict | written in place, no lock across processes, interrupted writes |
| Unpacking | `frontend/archive_extractor.go` | the destination tree | tar.gz, zip, msi | torn archives, errors that are and are not an early end of file |
| Node installer | `frontend/node_installer.go`, `frontend/fileutils.go` | `node/node`, `node/tmp`, `node/node_modules`, scripts; a process-wide mutex | check, fetch, unpack, replace binary, copy npm, tidy | a step that fails half way, early returns, the old release |
| npm, pnpm, corepack installers | `frontend/npm_installer.go`, `pnpm_installer.go`, `corepack_installer.go`, `node_module_installer.go` | `node_modules/<tool>`, `node_modules/package`, launchers; a mutex each | check package.json, fetch, clear, unpack, rename or copy, link | a shared scratch directory, warnings instead of failures, stale launchers |
| Yarn and Bun installers | `frontend/yarn_installer.go`, `bun_installer.go` | `node/yarn/dist`, `bun/bun`, the directories their archives unpack to; a mutex each | ask the version, fetch, clear, unpack, rename or move, mark executable | Yarn unpacks into the directory it cleared; a step that fails half way; two spellings of a version |
| Process executor | `frontend/process_executor.go` | one child process, two pipes, two line buffers, a timer | start, drain, split into lines, time out, judge | goroutines, a full pipe, grandchildren that hold pipes, timer against exit |
| Task runners | `frontend/*_runner.go`, `*_task_executor.go` | none | build a command line, run it, wrap errors | none |
| Arguments, proxies | `frontend/arguments_parser.go`, `proxy_config.go` | none (pure) | split, append, pick a proxy | quotes inside quotes, arguments given twice, flags behind a separator, a proxy that may be nil |
| Platform, cache keys | `frontend/platform.go`, `goal/session.go`, `frontend/cache.go` | none (pure) | guess the machine, name the file, name it in the cache | machines that share a cache, two spellings of a version, two kinds of download of one release |
| Settings, factory | `goal/settings.go`, `frontend/factory.go` | configuration | parse, construct | none |
| Logging, errors, Java I/O | `internal/logging`, `frontend/errors.go`, `javaio.go` | none | format | none |

How they interact: a goal calls the Node installer and then a tool's installer.
Each takes its mutex, asks the executor or a `package.json` which version is in
place, and otherwise goes to the cache, the downloader and the extractor, and
then moves files. The cache directory and the install directory are the shared
state; mutexes are package-level variables and end with the process.

### What makes each component correct

* Cache: only incomplete archives are deleted; a complete one is never lost or
  damaged; a success was made from a complete archive; a retry repairs.
* Installers: success means that exactly the requested release is in place,
  with a working launcher; a retry succeeds, whatever was interrupted; goals of
  one process keep out of each other's unpacking.
* Executor: no output lost, lines neither cut nor merged, the verdict true, no
  deadlock on the pipes, no tool outlives its timeout.
* Lifecycle: no failure is reported as success except a task's in the test
  phases; a goal stands down only when its inputs have not changed since its
  tool last used them.
* Arguments: a text is split as documented; what a runner adds comes once, after
  the user's arguments; the proxy chosen exists and fits the registry.
* Command line: what the user wrote is what the goal is told, or it is refused.
* Platform and keys: the file asked for exists and runs on the machine, whoever
  put it into the cache, and is not kept twice.

The hazards behind these, line by line, are listed in `PROJECT.json`.

## 2. Modules

| Module | Models | Extends or instantiates |
|---|---|---|
| `ArchiveStore` | *abstract*: what the cache promises for one artifact | |
| `DownloadCache` | the cache, byte chunk by byte chunk | implements `ArchiveStore` |
| `DownloadCache_proofs` | theorems about it | `DownloadCache`, TLAPS |
| `ToolPromise` | *abstract*: what the install goals promise about a tool | |
| `InstallTree` | the state the installers share, and the steps they share | |
| `NodeInstaller` | `NodeInstaller.Install` | `InstallTree` |
| `NodeModuleInstaller` | the npm, pnpm and corepack installers | `InstallTree` |
| `InstallGoals` | the goals that compose them, crashes, the properties | both; implements `ToolPromise` |
| `InstallGoals_proofs` | theorems about them, however they overlap | `InstallGoals`, TLAPS |
| `SerialGoals_proofs` | theorems about goals that follow one another | `InstallGoals_proofs` |
| `DistInstaller` | the Yarn and Bun installers and their goals | |
| `DistInstaller_proofs` | theorems about them | `DistInstaller`, TLAPS |
| `ProcessExecutor` | one call of the executor | |
| `ProcessExecutor_proofs` | theorems about it | `ProcessExecutor`, TLAPS |
| `Platform` | *pure*: which build a machine is given and the names it goes by | |
| `PlatformInstall` | builds on different machines that share a cache | `Platform` |
| `PlatformInstall_proofs` | theorems about them | `PlatformInstall`, TLAPS |
| `Invocation` | the goals, their options, and what one command line tells a goal | |
| `CommandLine` | the argument parser, the runners' arguments, the choice of a proxy | `Invocation` |
| `CommandLine_proofs` | folds, and theorems about it | `CommandLine`, TLAPS |
| `GoalLifecycle` | `goal.Execute` and the incremental builds around it | |
| `GoalLifecycle_proofs` | theorems about it | `GoalLifecycle`, TLAPS |
| `MCDownloadCache`, `MCInstallGoals`, `MCDistInstaller`, `MCProcessExecutor`, `MCPlatformInstall`, `MCCommandLine`, `MCGoalLifecycle` | instances for TLC | the modules named |

Operators named "variant" in a comment are the code with one plausible bug.
They are part of no specification; a property is listed with the variant
that breaks it in `PROJECT.json`.

### DownloadCache

One artifact at one cache path. `link` is the inode the path names, so that
removing or truncating it under an open handle does what a filesystem does;
`data` says which of the chunks `1..N` an inode holds. `pc`, `fd`, `off`, `body`
are a build's program counter, handle, offset and downloaded body.

* `CheckCache` is `downloadFileIfMissing`; `FetchBody`, `FetchShortBody` and
  `FetchRefused` are `Download` with its error returns (a response without a
  length that ends early is saved as if complete); `CreateFile`, `WriteChunk`,
  `CloseFile` and `WriteFails` are `os.WriteFile`: open with truncation, write,
  close, in place.
* `OpenArchive` .. `UnpackMalformed` are `Extract`; a tarball is read from the
  front, a zip needs its end first, `node.exe` is only copied (`CopyHole`,
  `CopyEnds`). `HitsEOF` is `isEOFCause`: true for tarballs cut short, never for
  zips. `EvictArchive` is the `os.Remove(archive)` that follows.
* "Whole" means all the content the reader needs: the reader of a tarball stops
  at the end-of-archive blocks, and what is cut off behind them does not matter.
* `Crash` may happen between any two steps and leaves the files.

`StoreOf` and `OutcomeOf` are the refinement mapping to `ArchiveStore`, whose
three states (absent, torn, whole) are what the cache of the installers' modules
holds while nobody is writing to it.

### InstallTree, NodeInstaller, NodeModuleInstaller, InstallGoals

`node` is the release the binary answers for; `tmp` what has been unpacked of
each distribution; `dir` the directories under `node_modules`, among them
`package`, where every tool's tarball is unpacked; `launcher` what each launcher
points at. A directory is a `package.json` and its *code*, the set of releases
its other files come from, so that merging and leftovers show; files are
written, copied and deleted one of the two at a time.

A *run* is one execution of a goal: it repeats the Node part and then the
tool's part, from step to step (`Goto`, `Step`), and every error return is `Return(r, _, "failed")`,
which releases the mutex as the deferred `Unlock` does. Runs belong to a process;
mutexes are indexed by process, because they do not cross it. `Crash(p)` ends all
runs of a process; of the files being written any may be torn. Faults
(`Faults`, at most `MaxFaults`): a refused download, one cut short, a full
disk, a directory that cannot be cleared, a rename that fails, a crash.

Fetching is not atomic, because processes share the cache: the check
(`FetchCheck`), the request (`FetchRefused`), the opening of the path, which empties
what another process may have put there since (`FetchCreate`), and the end of the
writing (`FetchDone`, `FetchFails`) are steps of their own. In between `cache[a]` is
the run that is writing the file, and everybody sees the file. Whoever unpacks an
archive that is being written, or that was emptied, completed or removed under it
(`Changed`, `Recache`), may come to its end, to an end too early or to no archive at
all (`Disturbed`): the module leaves open which, and `DownloadCache` looks at the
chunks. `EvictStep` removes the archive by its path, whatever is there by then. One thing
is coarser than in `DownloadCache`: of two writers of one file one of which meets a
fault, the file may be left with a hole, and is taken for torn here. So the run with
two processes has neither cut-short downloads nor full disks nor crashes.

Subtleties kept from the code: a release already in place returns before npm is
copied (`NodeSkip`); the check for releases without npm comes after the binary
was replaced (`NodeTooOld`); `copyDirectory` merges (`NodeCopyPart`); a failed
clearing is only warned about (`ToolCleared`), and then the rename is skipped
and success reported (`ToolRenameSkipped`); a launcher that exists stays
(`LinkExisting`); an unreadable `package.json` refuses every attempt (`ToolRefused`).

Windows is the `system` of a goal; one directory sees one system. There a release
is installed in two ways (`NodeArtifact`): the zip is unpacked when its npm is
wanted, and else the bare `node.exe` is copied straight from the cache (`ExeOpened`,
`ExeWritten`). npm's absence is found out before anything is fetched
(`NodeRefused`); the binary replaces the old one by a rename, and only where that
fails is the old one written over (`NodeRenameOver`, `NodeRemoveOld`); npm's
scripts are not copied; a torn zip stays in the cache and nothing is unpacked
of it; the tools' launchers are scripts, written in place, so that a crash or a
full disk may leave half of one (`Torn`), as it may of npm's scripts elsewhere.
`Stuck` names the state `cache_windows_stuck` is about, and the properties excuse it.

### DistInstaller

`tool` and `berry` are chosen at the start: one project, one tool. `dir` gives,
for every directory, which version each of its parts is of: the installed one
(`node/yarn/dist`, or the directory of Bun's binary), Yarn's `yarn-<version>`,
and Bun's `bun-<platform>`. `Works` is what `--version` finds out; Bun's binary
must also be `runnable`, a bit that a file from a zip has only once it is set.

* `Lock` to `Return` is `Install` with its deferred `Unlock`; a run that crashed
  leaves no mutex. `Skip`, `Refuse` and `Needed` are the version check, which a
  fault may make fail (`probe`): a tool that cannot be asked is installed again.
* `Fetched` and `FetchFails` are `downloadFileIfMissing`. The cache knows a
  version without its "v", the URL uses it as configured; that is why an
  unprefixed version of Bun may be found in the cache and not on the server.
* `ClearPart`, `ClearEnds`: `deleteDirectory`, part by part, and the warning that
  takes the place of a failure. `UnpackPart` .. `UnpackFails`: `extractFile`;
  `UnpackTorn` deletes a torn tarball and everything of Yarn, and leaves a zip.
* Yarn: `RootFound`, `RootRenamed`, `RootFails` are
  `ensureCorrectYarnRootDirectory`. Bun: `RemoveOld`, `Move`, `SetExecutable`,
  `ReplaceFails`, `Tidy` are the lines from the search for the binary on.

Fetching is one step here (`Fetched`): all runs are of one process, the mutex covers the
fetch as well as the unpacking, and a crash ends every run, so nobody sees a
file half written but the next one, as torn.

The Node.js half of install-node-and-yarn is `NodeInstaller`'s; it writes none of
the files of this module, and runs before it.

### Platform, PlatformInstall

`Platform` is `platform.go` as operators of the same names, with the names of Bun's
releases and the two layouts of the cache. A name put together from parts is the
record of its parts; a version is its major number and whether it has its v.
`PlatformInstall` gives each machine an install directory and all of them one
cache. A file knows its build and its version; `cache` holds what is kept under
which name, `unpacked` the directories the extractor left, `binary` what is in place.
`Check`, `Fetch`, `PlaceExecutable`, `PlaceNode` and `PlaceBun` are one step each for
what other modules take apart: this one follows *which* file it is, and its builds follow one another. What it assumes
of the world: which builds a machine runs (`BuildFor`, with Rosetta on a Mac and
32-bit binaries on 64-bit processors); that a machine is one that has a JVM
spelling (`KnownMachine`); that a kernel of an ARMv7 machine names itself, as
`platform.go:50` reads it. Bun is left out on Alpine, for which its names know
nothing. The download root that a user configures is not in it, as no
name depends on it (section 5), nor is the refusal of npm "provided" (`NodeInstaller`).

### Invocation, CommandLine

`Invocation` is `cli.Run` up to `goal.Execute`. The goals and their options are the
tables of `goal.Definitions`. The user writes options (`line`) in one of four
styles: `--name`, `--name=value`, `--name value`, `-Dname=value`; `CommandWords` is what the
shell makes of them. The two passes of the code go over those words, each a fold:
`Extract` is the loop of `extractSystemProperties`, which puts a property into its map
(`Put`) or the word among the remaining ones; `ParseWord` is one turn of Go's flag parser,
whose state is the options' values, the option whose value it awaits, and how it ended.
It gives an option the next word whatever it looks like. `Verdict` is how `Run` ends
before a goal runs: help, a usage error, unreadable settings, skipped, or it runs. The
assumptions on names say what the tables of `registry.go` must not do: name one option
twice, or give one a name that is a dash or `help` (`NameAssumption`).

`CommandLine` adds the settings file (its proxies, or `None` when it cannot be read), the
presence of a `.yarnrc.yml`, and the argument string of the goal's tool, a sequence of
pieces (space, quotes, words), typed one by one. `registry`, `inherits`, `runner` and
`ArgumentString` are what the goals make of their options. The operators have the names of
the functions they model: `Parse` with `Scan` and `AppendMissing`, `ProxyForURL`,
`SelectProxy`, and the `Build*Arguments` functions behind `AdditionalArguments`. Two
reference definitions stand beside them: `Documented`, the comment on `Parse` as sets
of positions and without a scan; and `Said`, the last writing of an option, without
words or parser. Patterns of hosts are exact hosts; a proxy stands for its URL; of a
word that is swallowed as a value only its beginning is kept; a switch is given no
other values than true and false.

### GoalLifecycle

A build executes `Plan`, goal by goal, under parameters chosen when it begins
(`Session`). `delta` is what `BuildContext` answers from: the changes since the
last build, and after a failed build also those that one began with; changes made
while a build runs are `pending` for the next. The host is not in the repository:
this is the contract its interface asks for. `due` records, for the properties,
what a goal's tool has not used since it changed; `reading` what the running tool
was started for; `excused` what a skip flag or an ignored failure passed over.

`Skip`, `StandDown`, `StartTool`, `ToolSucceeds`, `ToolFails` and `FailureIgnored`
are the paths through `Execute`, `packageJSONUnchanged` and `runWatched`. The
installers and the executor, whose success or failure is a choice here, are the
other modules. `unseen` are the goals whose output directory is still to be
refreshed.

### ProcessExecutor

A stream is described by positions: written, taken from the pipe, logged. The
tool may write, exit, and leave a helper behind that holds the pipes. `os/exec`
is modelled as Go implements it: `Run` waits for the process (`Reap`), then for
the watchdog's answer (`Ask`), then for both copying goroutines (`Drained`),
which end only when nobody can write to the pipe (`Eof`). `LogLine` and
`EndWrite` are the loop of `loggerWriter.Write`, `Flushed` is `Close`, `Judged`
is the end of `execute`. `mode` is which of the two callers it is. No caller in
the repository sets a timeout, only the tests and users of the package do; with
`Timed = FALSE` the behaviours are those in which `Expire` never happens, except
that `Ask` is not passed through.

## 3. Runs

| Run | Question | Bounds |
|---|---|---|
| `cache_seq` | Tarballs and zips, builds one after another | 2 builds, 3 inodes, 2 chunks, 3 faults |
| `cache_overlap` | All formats, builds that overlap | 2 builds, 3 inodes, 2 chunks, 1 fault |
| `install_upgrade` | npm, pnpm, corepack up and down, two Node.js releases | 1 run repeated, 2 faults (refuse, torn) |
| `install_faults` | npm and "provided" with every fault but `clear` | 1 run repeated, 2 faults |
| `install_shared` | Two goals on one directory, in one process or two | 2 runs of one goal for pnpm, 1 fault (clear) |
| `process` | One call of the executor with a timeout | 2 pieces a stream, pipes of 2 |
| `dist_tools` | Yarn, classic and Berry, and Bun up and down | 2 runs of one process, 2 versions, 2 faults of any kind |
| `command_line` | Every goal with its options in every style, texts, settings | 2 options written; 4 in all with pieces of text and proxies, at most 2 proxies; 4 pieces where there are quotes |
| `platform` | Node.js and Bun on nine machines, one cache of either layout | 4 builds; two releases of Node.js, on either side of v16, one of Bun |
| `lifecycle` | Build after build of three goals | no bound: the state is finite |

Why the bounds are enough. Two chunks make an empty, a half and a whole file and
a hole; a third inode gives the path a fresh file while two are open. Three
faults allow a torn download, a failure of its repair and one more. An installer
distinguishes only the version wanted and other versions, so two versions give
up, down and again; two Node.js releases and one without npm take every branch.
Runs and builds start again without limit, so two of them are two concurrent
actors and not two attempts. Two pieces of output give a line in two chunks, two
lines in one, a fragment behind a line and a full pipe. One of the two versions
of Yarn has `dist` in its archive and one has not, so that an upgrade takes both
branches in both directions. Four pieces hold a phrase with the other quote in
it, or one that a space and a word follow; two writings are two overrides, an override
and an option, or an option whose value the other one becomes; two proxies make a first that does not fit and a second that
does. Four builds on the machines are one that fills
the cache, two that use it under other names or elsewhere, and one that meets what
they left; the nine machines are one for each way of naming a build, and two alike.
The plan of `lifecycle` has one goal of each kind, so that a failure and a
stand-down happen before, at and after each of them.

Runs that show a disagreement (the property is violated by what the code does):

| Run | What it shows |
|---|---|
| `cache_windows_stuck` | One interrupted download of a zip or `node.exe` makes every later build fail, or install it truncated; the changelog promises self-repair. |
| `provided_missing` | npm "provided" after another goal installed the same Node.js: success without npm. |

### Fairness

* Builds and runs: a step that stays possible is taken (the scheduler), and a
  goal that failed is started again (the user, told to "try the build again").
  Faults have none, and are bounded, so liveness is about what follows the last.
* `dist_tools`: the same, and strong fairness of `Lock`: Go hands its mutex to a
  waiter that has waited for long (starvation mode), so that goals started again
  and again cannot keep one out for ever. Without it `RetriesSucceed` fails.
* `install_shared`: the scheduler alone (`WorkSpec`). Nobody has to start a goal again;
  `AloneRetriesSucceed` speaks of a user who does.
* `cache_overlap`, `command_line`, `platform` and `lifecycle` state safety only: nobody has to
  type or build.
* Executor: its goroutines and timers run; the tool and its helper owe nothing.
  That is why `CallReturns` begins once nobody holds the pipes: with a helper
  that lives on, the call does *not* return, timeout or not.

`CHECK_DEADLOCK FALSE` is set for the executor, whose call ends, for
`command_line`, whose texts do, and for `platform`, whose builds are counted.

### What the passing properties say

* `WholeStaysWhole`, `EvictsOnlyTorn`, `CachedIsPrefix`, `StoreSpec`: no sequence
  of builds, crashes and cut-short downloads loses a complete archive, or makes a
  success out of an incomplete one. `TarballSelfRepairs`: retries repair tarballs.
* `QuiescentWhole`: overlapping builds that meet no fault leave a whole artifact or
  none.
* `SuccessHasVersion`, `SuccessIsExact`, `SuccessHasLauncher`: what a reported
  success has established, on Unix and on Windows. `PromiseSpec`: in between, a tool is replaced only by
  being taken away and put back whole. `ProvidedArrives`: a fresh Node.js comes
  with its npm. `RetriesSucceed` is unconditional but for three hopeless cases it
  names: npm "provided" by a release without one, a torn `package.json`, and the torn
  download that Windows keeps.
* `NodeUnpackIsExclusive`, `ToolInstallIsExclusive`: what the mutexes buy.
  `AloneRetriesSucceed`: what is left of progress without them. Two processes may
  read archives half written, remove whole ones, clear and rename each other's
  directories; once one of them goes on alone its retries succeed, but for the hopeless
  cases and a `package.json` left without its code (`Gutted`). That two that both go on
  get anywhere is *not* so (section 5).
* `LinesAreLines`, `OutputComplete`, `AnswerIsWhole`, `VerdictIsTrue`,
  `TimeoutKills`, `CallReturns`, `PipesDrain`: the executor, as in section 1.
* `SuccessAnswers`, `OneRelease`, `GivenUpForAnother` and `RetriesSucceed` of
  `DistInstaller`: success means a tool that answers as asked; no mixture of
  releases; a working tool is given up only for an archive that is there; retries
  succeed, but for Bun's torn zip (`Hopeless`) and versions without their "v".
  The first two are conditional on no clearing having failed (`warned`), see 5.
* `ParsesAsDocumented`: the scanner against the comment on `Parse`. `AddedOnce`:
  what is added to a text that is neither empty nor "null" comes last, once, and not
  again when the user has it; nothing is added to the others, against the comment
  (section 5).
  `NpxFlagsAreNpms`: the flags stand behind a "--", also when the user typed one
  and the parser dropped the runner's. `ProxyFits`: `selectProxy` is never nil where
  it is dereferenced, and does not take a proxy that exempts the registry's host
  when there is one that does not.
* `ReadOrRefused`: a command line in which every option that wants a value has one,
  and no value standing alone begins with -D, is refused if it has a mistake or lacks a
  version, and is otherwise read as written: the last writing of an option, and
  the last `-DnpmRegistryURL` before any `--npmRegistryURL`, wherever it stands.
* `BinaryRuns`: no binary of another machine is ever put in place, by any order of
  builds over one cache, and a success is of the version asked for. `Installs`: a
  build fails only when its machine has no release (or Bun's key is taken, section
  5). `CachedOnce`: all machines and both Windows installers agree on a file's name.
* `NothingOverlooked`: what changed since a goal's tool last used it is still a
  change at the goal's next turn. `GreenIsHonest`: what a green build may hide.

## 4. Proofs

`DownloadCache_proofs` (any builds, inodes, chunks, faults):

* `TypeCorrect`. `TypeOK` is not inductive, as reads and writes go through `fd`;
  `TypeInv` adds that it is a file then.
* `EvictionIsSafe`, `CacheHasNoHole`, `WholeIsKept`, for builds that do not
  overlap. The inductive invariant is `SerialInv`: type correctness, `OneActive`
  (one build is between start and end), `CursorInv` (where the active build's
  offset stands against the file the path names), and the two properties
  themselves. Without the cursor nothing ties what is being read to the cached
  file, and an early end of file would not imply an incomplete archive.
* `ImplementsStore`: such builds of tarballs and zips implement `ArchiveStore`,
  each action mapping to one abstract step or a stutter. It is false for
  `node.exe`, which is copied whether complete or not, and for overlapping builds.
* `OverlapLeavesWhole`, for builds that overlap. The file under the path may have
  holes at any moment: a download that goes on after another emptied the file
  writes behind one. `MissingIsAhead` says what makes that harmless: while nothing
  has failed, a missing chunk is still ahead of somebody who is writing that file.
  When nobody is left, nothing is missing.

`InstallGoals_proofs` (any runs, processes, releases, versions, faults):

* `TypeCorrect`, which needs that an installer past its download works on a
  published version (`OnlyPublished`, `InstallsRelease`): "provided" is no version
  to unpack.
* `NodeUnpackExclusion`, `ToolInstallExclusion`: by `LockInv`, a run inside an
  installer, the fetch of its archive included, holds its process's mutex of that
  installer. `HeldStep` and
  `WorkProceeds` say that every step of an installer goes on inside it or
  releases; a crash frees the process's mutexes and ends its runs. All three cover
  both systems.

Fetches, evictions and crashes of any runs interleave freely in these.

`SerialGoals_proofs` (the same, of goals that do not overlap): the theorems have the
form `Spec /\ []OneAtATime => ...`, where `OneAtATime` lets any number of runs, in one
process or in several, be anywhere but never two of them at work. It is needed: all
tools are unpacked into `node_modules/package`, which installers with different
mutexes share, and processes share no mutex at all (section 5).

* `ProvidedNpmArrives` and `SuccessLeavesVersion`, under all faults but one. The
  inductive invariant `SerialInv` says of the run at work what it has got right so
  far (`BinaryInv`, `CopyInv`, `ClearInv`, `PackageInv`), and of every other that
  it is nowhere; `OwnName` says that a `package.json` in a tool's directory is
  of that tool. Nothing is assumed of what earlier runs left: a crash or a full
  disk may have torn anything. A directory that cannot be cleared is excluded
  (`"clear" \notin Faults`), because the code only warns about it and then reports
  success over the old files (section 5).
* That goals which do not overlap have the archives to themselves is not assumed but
  part of that invariant (`ArchiveInv`): a file that is being written is written by
  a run in its save step (`WriterInv`); that run still has the file it has begun, and
  no archive has changed under the run that reads it (`ArchiveRun`). `ArchiveFetch` shows it of the
  fetch, `ArchiveKept` and `ArchiveWork` of the other steps; so what a run reads is
  what is cached (`Undisturbed`).
* `SuccessLeavesExactly`, `KeepsPromise` and `SuccessLeavesLauncher`, when only
  downloads fail (`OnlyDownloadsFail`) and every goal asks for a version
  (`NothingProvided`). `ExactInv` adds what is in each directory while nobody is at
  it: a whole release or nothing. A full disk, a crash or a failed rename leaves part
  of a release in `package`, which the next one is unpacked over; "provided" merges
  the new bundled npm into the old. Both are how the code is, and TLC's runs with
  those faults check the weaker properties. `KeepsPromise` maps each step to one of
  `ToolPromise` or a stutter. `SuccessLeavesLauncher` further needs that the versions
  of pnpm share an entry point (`OneEntryPoint`), since a launcher that is there is
  never written anew.

`DistInstaller_proofs` (any runs, versions, kinds and number of faults):

* `TypeCorrect`, and `InstallExclusion`: two runs are never inside the installer.
* `ReleasesNeverMix`, `SuccessesAnswer`. `RunInv` says of the run that has the lock
  what it has cleared, what it has unpacked and that nothing else lies there;
  `ReleaseInv` says of each directory that its parts are of one release. Only a
  clearing that failed (`warned`) breaks it. The second is an action property: it
  speaks of the step that reports success.
* `GivenUpLate`: the step that removes a tool that works is taken by a run that has
  the archive of what replaces it.

`ProcessExecutor_proofs` (streams and pipes of any size, with a timeout or without):

* `TypeCorrect`, and `VerdictsAreTrue` by `CallInv`, which ties where the caller is to
  what has become of the tool and of the watchdog.
* `LinesAreWhole`, `AnswersAreWhole`. `StreamInv` adds that what is logged ends where
  what is kept begins (`PlaceInv`, `LineInv`) and that the kept fragment holds no line
  break (`BufferInv`), whatever the chunks in which a pipe delivers.
* `OutputIsComplete`, by `LoggedInv`, for output that is shorter than the token limit
  of `bufio.Scanner` (`MaxOut < MaxToken`). The hypothesis is not a convenience: a
  fragment as long as the limit is dropped when the stream is closed, and the model
  does that.

`PlatformInstall_proofs` (any known machines, requests, releases, builds):

* `BinaryAlwaysRuns`, `AlwaysCachedOnce`, `TypeCorrect`. The inductive invariant adds
  `EntriesNamed`: a name in the cache is the name of the file under it, and
  `UnpackedPublished`: what lies unpacked is a release. `KeyNamesDownload` and
  `CachedIsWanted` turn them into: what a build finds is for the machines of its own
  download. `ClassifierRuns` and `BunRuns` say, for every known machine, that this
  download runs there, by cases on GOOS and GOARCH.
* `FailuresAreUnavailable` is `Installs`. `AvailableIsNamed` says that what there is for a
  machine is there under the name it asks for: the code picks one of the names that
  would run, and the assumption on the sites, `SitesAssumption`, says that this is
  never the one missing (no x86 without x64, no armv7l without arm64, Apple silicon
  from Node.js 16 on; what Node.js and Bun publish, and TLC's instance satisfies it).
  `PlacedFails` covers the other way to fail, a directory that is not the one wanted.

`GoalLifecycle_proofs` (any plan, of any goals of the four kinds):

* `TypeCorrect`, with `TurnInv`: a goal at work has its turn in a running build,
  without which the position it goes on to is not bounded.
* `ChangesAreSeen`. `NothingOverlooked` says nothing of the goal at work, whose
  `due` was cleared when its tool started; `AtWorkInv` says where its changes are
  until it ends: those since are pending, and those it was started for are in the
  build's delta, so that they are reported again if it fails. `DueInv` is what
  makes standing down safe: a goal owes nothing but its own inputs.
* `GreenBuilds`, by `HonestInv`: the same at any moment of a build.

The type invariants of `InstallTree`, `PlatformInstall`, `ProcessExecutor` and
`DistInstaller` are proved and in no run: what they say is plain, and the other
invariants need it.

`CommandLine_proofs` (any words, texts, hosts, proxies and command lines):

* The code's loops are folds over sequences, and a fold is a recursive function. The first
  part shows what one is by the least-number principle (`Least`, `Induction`): a chain of
  accumulators, each made from the one before and the next element (`FoldExists`,
  `FoldChain`), once for a function and then for each of the three loops.
* `EachAddedOnce`, for texts that are neither empty nor "null". `AppendedTo` is the invariant of Parse's last loop: after k additional
  arguments the user's stand untouched, what is behind them is among those k, new and
  there once, and none of the k is missing. It also says where the first of them goes,
  which is what `FlagsAreNpms` needs of "--".
* `ProxiesFit`: an active proxy is secure or it is not, so one of the two is found
  (`SelectProxyIs`).
* `TextsSplit` is `ParsesAsDocumented`, for texts of any length. `ValidIsUnique`: a text has
  at most one set of phrases as documented, as two of them agree on a quote when they
  agree on those before it; `OpenedIsValid`: the scanner's openings are one. So a space
  separates exactly where the scanner has no quote (`SeparatorsAre`). `SplitsAsDocumented`
  carries along the text that the arguments so far are those ended by a separator
  (`Ended`) and that the builder holds the one that goes on (`Building`).
* `LinesRead` is `ReadOrRefused`, for every goal and lines of any length, in any order and
  style. Three folds stand between what was written and what the goal is told: the words of
  the writings, the properties taken out of them, the rest parsed. `ExtractMore` and
  `ParseWordMore` make one more word one more step, `WordRead` puts the two together: a
  word moves the map or the parser and never both, which is why it does not matter where
  a property stands. `WritingRead` does the same for a writing of one or two words.
  `AcceptedRead` and `RefusedRead` say what a clear writing does to a parser that waits for
  nothing: it gives its option its value and leaves the parser waiting for nothing again, or
  ends it; nothing brings an ended one back (`UsageStays`). `LineRead` is the invariant
  along the line: after k writings, all accepted, every option reads as the k say; and with
  one that is not, the parser has ended in a usage error; and the map holds the last property
  of each name either way (`LineStart`, `LineStep`, `WholeLine`).
* `TypeCorrect` types the settings, the text and the line. The four theorems before
  `LinesRead` use nothing of how a line is read: they hold of whatever argument string,
  registry and switch come out of it.

### What only TLC checks

* Liveness (`TarballSelfRepairs`, `RetriesSucceed`, `AloneRetriesSucceed`, `TimeoutKills`,
  `CallReturns`, `PipesDrain`): leads-to under fairness needs ENABLED, which the prover
  does not handle.
* What `ReadOrRefused` does not speak of: lines that are not clear, where a value on its own
  begins with -D or an option at the end lacks its value. For those TLC's runs show only that
  the other invariants hold (section 5 says what the code does).
* Nothing is claimed by theorem of what `SerialGoals_proofs` excludes by hypothesis, and the
  runs check those properties under the same restrictions; section 5 lists what happens
  beyond them.

The proofs assume the named ASSUMEs of the modules. They say what a configuration
means (sets are disjoint, bounds are numbers), but for two that are about the world,
`MachineAssumption` and `SitesAssumption`; TLC evaluates all of them in every run.

## 5. Known divergences without a run of their own

Each was seen as a counterexample of the models under a suitable configuration:

* A crash while npm's tarball is unpacked leaves `node_modules/package`, which is never
  cleared: the next version is unpacked over it and renamed into place with the
  leftovers (`npm_installer.go:165`; line 156 says stale files are cleared). Hence no
  fault `crash` where `SuccessIsExact` is checked.
* npm's script, or the launcher a Windows goal writes in place, cut short by a full
  disk or a crash, is kept for ever: every later goal finds it there and succeeds
  (`node_installer.go:341`, `node_module_installer.go:185`). Hence no fault `disk` where
  `SuccessHasLauncher` is checked.
* Bun's zip has no platform in its cached name (`bun_installer.go:115`): of the machines
  that share a cache the first to download fails the builds of the others, which
  find no binary of their own in it.
* No cached name contains the download root: a changed `--nodeDownloadRoot` has no effect
  on a version already cached (`cache.go:62`, `session.go:110`).
* `--downloadRoot` is, by README.md:85, "used only when neither root above is given"; the
  code decides for each root alone (`install_goals.go:71-83`): with `--nodeDownloadRoot`
  given, npm still comes from the deprecated root.
* Every word that begins with -D is taken for a property, also where it is the value
  of an option (`--frontend.npm.arguments -Dx`): the option then swallows the next
  one, or the goal is refused (`cli.go:126`). A property other than `npmRegistryURL` is
  accepted and has no effect.
* npm "provided" over an older release merges two npms (`node_installer.go:204`).
* corepack "provided" with Node.js already in place asks for
  `corepack-provided.tgz` (`node_module_installer.go:78`, `corepack_installer.go:32`).
* A `package.json` that survives an interrupted deletion counts as an install
  without code (`npm_installer.go:134`). An npm goal then succeeds with nothing behind
  it; a pnpm goal finds nothing to link and fails, now and on every retry.
* A directory that resists deletion ends in success with the old version
  (`npm_installer.go:160` and `:182`), hence no fault `clear` where
  `SuccessHasVersion` is checked.
* Installers of different tools share `node_modules/package` and no mutex
  (`npm_installer.go:164`).
* A trailing fragment of 64K without newline is dropped by `Close`
  (`process_executor.go:228`: the Scanner's limit).
* Two processes that install into one directory can keep each other from ever
  succeeding, without a fault: each removes or empties the archive the other is
  about to unpack, or clears and renames its `package`. And what they leave in
  `node_modules/package` when they unpack and rename side by side may be a
  `package.json` without code (`Gutted`), which for pnpm is beyond any retry.
* The timeout kills the tool and nothing it has started: with a helper that holds
  the pipes the call returns when the helper ends (`process_executor.go:96`).
* Two builds that overlap without any fault: one reads to the early end of a file
  the other is still writing and then deletes, by path, the finished archive
  (`node_installer.go:170`). `EvictsOnlyTorn` is checked and proved for builds that
  do not overlap.
* Upgrading pnpm over the change of its entry point (`pnpm.cjs` to `pnpm.mjs`)
  keeps the old launcher, whose target is gone (`node_module_installer.go:160`).
  `SuccessHasLauncher` is checked with versions that share their entry points.
* A tool that failed by itself is reported as "killed after timeout" when the
  timeout passes before its output is drained (`process_executor.go:114`).
* `arguments_parser.go:15-16` promises additional arguments in "every parse result";
  an empty or `null` argument string gets none (`:37`), so the yarn and bun goals,
  whose arguments are empty by default, run without registry and proxy.
* After a clearing that failed, Yarn's old `dist` passes for the new one
  (`yarn_installer.go:192`), and success is reported with the old version.
* Bun's torn zip stays in the cache (`bun_installer.go:134`: not an end of file), so
  that no retry succeeds; `cache_windows_stuck` shows it for every zip.
* A full build in which a tool fails although none of its inputs had changed leaves
  no change behind, and the incremental build that follows skips the goal
  (`package_manager_goals.go:22`). `NothingOverlooked` is about changes only.

## 6. Not modelled

* Server answers that are not (a prefix of) the artifact; checksums (the code has
  none); symbolic links and permissions inside archives.
* Logging, errors and the Java I/O shims (`internal/logging`, `errors.go`, `javaio.go`):
  formatting and wrapped system calls without a state of their own.
* The XML of the settings, servers' credentials and headers, the wiring of the factory,
  the environment of a child process, the masking of passwords: data that goes from
  one place to another.
* What usage and help print, and the log level.

## 7. Plan

Done: every component with a state of its own, on Unix and on Windows, the platform and
its names, the command line; and a proof of every safety property the runs check, under the
hypotheses section 4 gives. What is left is outside the prover's reach (liveness), or is in
section 6.
