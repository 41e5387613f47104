------------------------------ MODULE Invocation ------------------------------
(***************************************************************************)
(* One command line, `frontend <goal> [options]`: what the goal is told.   *)
(* cli.Run takes the -D properties out, wherever they stand, and gives the *)
(* rest to the flag parser of Go, which knows the options of the goal from *)
(* goal.Definitions.                                                       *)
(*                                                                         *)
(* The user writes options one at a time, each in one of the four styles   *)
(*     --name   --name=value   --name value   -Dname=value                 *)
(* and the program sees the words the shell makes of them.  A value is a   *)
(* string, but for the argument string of the goal's tool, the text, which *)
(* is typed piece by piece.                                                *)
(***************************************************************************)
EXTENDS Integers, SequencesExt

CONSTANTS
    None,          \* no host, no proxy, no quote, no value
    Typed,         \* the value that stands for the text
    OptionLike,    \* the values and pieces that begin with a dash
    PropertyLike,  \* those of them that begin with -D and go on
    Pairs          \* those with a = in them

ASSUME LikeAssumption == PropertyLike \subseteq OptionLike /\ "help" \notin OptionLike
ASSUME NoValueAssumption == None \notin {"true", "false", "help", "usage", "stopped"}

VARIABLES
    goal,  \* the goal named
    line,  \* the options written behind it
    text   \* the argument string typed so far, a sequence of pieces

-----------------------------------------------------------------------------
(***************************************************************************)
(* Definitions: the goals and their options.                               *)
(***************************************************************************)

VersionsOf(g) ==
    CASE g = "install-node-and-npm" -> {"nodeVersion", "npmVersion"}
      [] g = "install-node-and-yarn" -> {"nodeVersion", "yarnVersion"}
      [] g = "install-node-and-pnpm" -> {"nodeVersion", "pnpmVersion"}
      [] g = "install-node-and-corepack" -> {"nodeVersion", "corepackVersion"}
      [] g = "install-bun" -> {"bunVersion"}

RootsOf(g) ==
    CASE g = "install-node-and-npm" -> {"nodeDownloadRoot", "npmDownloadRoot", "downloadRoot"}
      [] g = "install-node-and-yarn" -> {"nodeDownloadRoot", "yarnDownloadRoot"}
      [] g = "install-node-and-pnpm" -> {"nodeDownloadRoot", "pnpmDownloadRoot", "downloadRoot"}
      [] g = "install-node-and-corepack" -> {"nodeDownloadRoot", "corepackDownloadRoot"}
      [] g = "install-bun" -> {"bunDownloadRoot"}

Installing == {"install-node-and-npm", "install-node-and-yarn", "install-node-and-pnpm",
               "install-node-and-corepack", "install-bun"}
PackageManagers == {"npm", "npx", "pnpm", "yarn", "bun"}
Watched == {"grunt", "gulp", "ember", "webpack"}
Goals == Installing \cup PackageManagers \cup Watched \cup {"corepack", "bower", "jspm", "karma"}

ArgumentsOf(g) == "frontend." \o (IF g = "jspm" THEN "bower" ELSE g) \o ".arguments"

InheritsOf(g) ==
    "frontend." \o g \o "." \o (IF g = "npx" THEN "npm" ELSE g) \o "InheritsProxyConfigFromMaven"

SkipOf(g) ==
    CASE g = "install-node-and-npm" -> "skip.installnodenpm"
      [] g = "install-node-and-yarn" -> "skip.installyarn"
      [] g = "install-node-and-pnpm" -> "skip.installnodepnpm"
      [] g = "install-node-and-corepack" -> "skip.installnodecorepack"
      [] g = "install-bun" -> "skip.installbun"
      [] OTHER -> "skip." \o g

Switches(g) ==
    {"skipTests", "maven.test.failure.ignore", SkipOf(g)}
    \cup (IF g \in PackageManagers \cup {"bower"} THEN {InheritsOf(g)} ELSE {})

\* The options with a value; those of every goal are bindBase's and Run's own.
Texts(g) ==
    {"workingDirectory", "installDirectory", "settings", "localRepository", "lifecyclePhase",
     "logLevel"}
    \cup CASE g \in Installing -> VersionsOf(g) \cup RootsOf(g) \cup {"serverId"}
           [] g \in PackageManagers -> {ArgumentsOf(g), "npmRegistryURL"}
           [] g \in Watched -> {ArgumentsOf(g), "srcdir", "outputdir"}
           [] g = "karma" -> {"karmaConfPath"}
           [] OTHER -> {ArgumentsOf(g)}

\* Those that collect what they are given.
Repeatable(g) ==
    {"environmentVariables"} \cup (IF g \in Watched THEN {"triggerfiles"} ELSE {})

\* The options that take a value.
Taking(g) == Texts(g) \cup Repeatable(g)

Options(g) == Switches(g) \cup Taking(g)

\* No option is of two kinds, and none could be mistaken for another word.
ASSUME NameAssumption ==
    \A g \in Goals :
        /\ Switches(g) \cap Taking(g) = {}
        /\ Texts(g) \cap Repeatable(g) = {}
        /\ Options(g) \cap ({None, "help", "--"} \cup OptionLike) = {}

DefaultOf(g, option) ==
    IF option \in Repeatable(g) THEN <<>>
    ELSE CASE option \in Switches(g) -> IF option = InheritsOf(g) THEN "true" ELSE "false"
           [] option \in {"npmVersion", "corepackVersion"} -> "provided"
           [] option \in {"npmDownloadRoot", "yarnDownloadRoot", "pnpmDownloadRoot",
                          "corepackDownloadRoot"} -> "default"
           [] option = "karmaConfPath" -> "karma.conf.js"
           [] option = "lifecyclePhase" -> IF g = "karma" THEN "test" ELSE "generate-resources"
           [] option = ArgumentsOf(g) /\ g \in {"npm", "npx", "pnpm", "bower", "jspm"} -> "install"
           [] option = ArgumentsOf(g) /\ g = "corepack" -> "enable"
           [] OTHER -> ""

requiredOf(g) ==
    IF g \in Installing THEN VersionsOf(g) \ {"npmVersion", "corepackVersion"} ELSE {}

-----------------------------------------------------------------------------
(***************************************************************************)
(* The words of a command line.  What is an option's value may look like   *)
(* an option itself.                                                       *)
(***************************************************************************)

Beginning(value) ==
    IF value # Typed THEN value ELSE IF text = <<>> THEN "" ELSE text[1]

OptionWord(name, value) ==
    [is |-> "option", name |-> name, value |-> value,
     spelling |-> "--" \o name \o (IF value = None THEN "" ELSE "=")]

PropertyWord(name, value) ==
    [is |-> "property", name |-> name, value |-> value, spelling |-> "-D" \o name]

ValueWord(value) ==
    [is |-> CASE Beginning(value) \in PropertyLike -> "property"
              [] Beginning(value) \in OptionLike \ PropertyLike -> "option"
              [] OTHER -> "word",
     name |-> Beginning(value), value |-> None, spelling |-> value]

WordsOf(w) ==
    CASE w.style = "property" -> <<PropertyWord(w.option, w.value)>>
      [] w.style = "alone" -> <<OptionWord(w.option, None)>>
      [] w.style = "joined" -> <<OptionWord(w.option, w.value)>>
      [] w.style = "separate" -> <<OptionWord(w.option, None), ValueWord(w.value)>>

AddWords(words, w) == words \o WordsOf(w)

CommandWords == FoldLeft(AddWords, <<>>, line)

-----------------------------------------------------------------------------
(***************************************************************************)
(* extractSystemProperties                                                 *)
(***************************************************************************)

\* Variant: the first of several counts.
PutFirst(properties, name, value) ==
    [n \in DOMAIN properties \cup {name} |->
        IF n \in DOMAIN properties THEN properties[n] ELSE value]

Put(properties, name, value) ==
    [n \in DOMAIN properties \cup {name} |-> IF n = name THEN value ELSE properties[n]]

Extract(parts, word) ==
    IF word.is = "property"
    THEN [parts EXCEPT !.properties = Put(@, word.name, word.value)]
    ELSE [parts EXCEPT !.remaining = Append(@, word)]

Extracted == FoldLeft(Extract, [properties |-> <<>>, remaining |-> <<>>], CommandWords)

SystemProperty(name, fallback) ==
    IF name \in DOMAIN Extracted.properties THEN Extracted.properties[name] ELSE fallback

-----------------------------------------------------------------------------
(***************************************************************************)
(* The flag parser, which is Go's: an option with a value takes the next   *)
(* word for it, whatever that is; a switch never does.                     *)
(***************************************************************************)

Give(parse, option, value) ==
    [parse EXCEPT !.awaits = None,
                  !.options[option] = IF option \in Repeatable(goal) THEN Append(@, value) ELSE value,
                  !.ended = IF option = "environmentVariables" /\ value \notin Pairs
                            THEN "usage" ELSE None]

End(parse, how) == [parse EXCEPT !.ended = how]

Await(parse, option) == [parse EXCEPT !.awaits = option]

ParseOne(parse, word) ==
    CASE word.is = "word" -> End(parse, "usage")
      [] word.is = "option" /\ word.name = "--" -> End(parse, "stopped")
      [] word.is = "option" /\ word.name = "help" -> End(parse, "help")
      [] word.is = "option" /\ word.name \in Switches(goal) ->
           IF word.value \in {None, "true", "false"}
           THEN Give(parse, word.name, IF word.value = None THEN "true" ELSE word.value)
           ELSE End(parse, "usage")
      [] word.is = "option" /\ word.name \in Taking(goal) ->
           IF word.value = None THEN Await(parse, word.name)
           ELSE Give(parse, word.name, word.value)
      [] OTHER -> End(parse, "usage")

ParseWord(parse, word) ==
    CASE parse.ended = "stopped" -> End(parse, "usage")
      [] parse.ended \in {"usage", "help"} -> parse
      [] parse.ended = None /\ parse.awaits # None -> Give(parse, parse.awaits, word.spelling)
      [] OTHER -> ParseOne(parse, word)

Unparsed ==
    [options |-> [o \in Options(goal) |-> DefaultOf(goal, o)], awaits |-> None, ended |-> None]

Parsed == FoldLeft(ParseWord, Unparsed, Extracted.remaining)

Option(name) == Parsed.options[name]

-----------------------------------------------------------------------------
(***************************************************************************)
(* Run.                                                                    *)
(***************************************************************************)

Missing == {o \in requiredOf(goal) : Option(o) = ""}

SkipExecution ==
    \/ Option("skipTests") = "true" /\ Option("lifecyclePhase") \in {"test", "integration-test"}
    \/ Option(SkipOf(goal)) = "true"

\* "usage" is exit code 2, "unreadable" 1; "help" and "skipped" are 0, and what
\* runs exits with 0 or 1.
Verdict(readable) ==
    CASE goal \in {"help", "version"} -> "help"
      [] goal \notin Goals \cup {"help", "version"} -> "usage"
      [] OTHER ->
           CASE Parsed.ended = "help" -> "help"
             [] Parsed.ended = "usage" \/ Parsed.awaits # None \/ Missing # {} -> "usage"
             [] OTHER ->
                  CASE ~readable -> "unreadable"
                    [] readable /\ SkipExecution -> "skipped"
                    [] OTHER -> "runs"

=============================================================================
