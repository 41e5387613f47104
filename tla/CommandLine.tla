----------------------------- MODULE CommandLine -----------------------------
(***************************************************************************)
(* From the command line to the argument vector of a goal's tool: what the *)
(* goal is told (Invocation), ArgumentsParser.Parse, the Build*Arguments   *)
(* functions of the runners and the choice of a proxy.  All of it is pure; *)
(* the behaviours are a user writing options, in any order and style, and  *)
(* typing the argument string piece by piece, under every settings file.   *)
(*                                                                         *)
(* A text is a sequence of pieces: the space, the two quotes and words.  An *)
(* argument is the sequence of the pieces it is made of.  The URL of a      *)
(* registry is its host, or anything else when it carries none.            *)
(***************************************************************************)
EXTENDS Invocation

CONSTANTS
    Words,        \* what can be typed besides spaces and quotes
    Hosts,        \* the hosts of registries
    HostLists,    \* the lists of hosts a proxy is not to be used for
    Writings(_),  \* what can be written behind a goal
    Behind(_),    \* those of them tried when there are settings
    Quoting,      \* the goals in whose text there are quotes
    MaxProxies,   \* bound on the proxies of the settings
    MaxQuoted,    \* bound on the text of a goal of Quoting
    MaxSize,      \* bound on line, text and settings together
    MaxLine       \* bound on the options written

Space == " "
Quotes == {"\"", "'"}

MavenProxy == [active : BOOLEAN, secure : BOOLEAN, nonProxyHosts : HostLists]

ASSUME PieceAssumption == Words \cap (Quotes \cup {Space}) = {}
ASSUME HostAssumption == None \notin Hosts /\ HostLists \subseteq Seq(STRING)
ASSUME WritingAssumption ==
    \A g \in Goals : \A w \in Writings(g) \cup Behind(g) :
        /\ w.style \in {"property", "alone", "joined", "separate"}
        /\ w.option # "--"
        /\ w.style = "joined" => w.value # None
ASSUME NoneAssumption == None \notin MavenProxy \cup Quotes
ASSUME BoundAssumption == {MaxProxies, MaxQuoted, MaxSize, MaxLine} \subseteq Nat

VARIABLES
    settings, \* the proxies of the settings file, or None when it cannot be read
    berry     \* is there a .yarnrc.yml?

vars == <<goal, line, text, settings, berry>>

-----------------------------------------------------------------------------
(***************************************************************************)
(* What the goals make of their options.                                   *)
(***************************************************************************)

runner ==
    CASE goal = "yarn" /\ berry -> "yarn berry"
      [] goal \in (PackageManagers \cup {"bower"}) /\ ~(goal = "yarn" /\ berry) -> goal
      [] OTHER -> "plain"

registry == SystemProperty("npmRegistryURL", Option("npmRegistryURL"))

inherits == Option(InheritsOf(goal)) = "true"

ArgumentString ==
    LET own == Option(IF goal = "karma" THEN "karmaConfPath" ELSE ArgumentsOf(goal))
        pieces == CASE own = Typed -> text [] own = "" -> <<>> [] OTHER -> <<own>> IN
    IF goal = "karma" THEN <<"start", Space>> \o pieces ELSE pieces

-----------------------------------------------------------------------------
(***************************************************************************)
(* ArgumentsParser.                                                        *)
(***************************************************************************)

AddArgument(scan) ==
    IF scan.builder = <<>> THEN scan
    ELSE [scan EXCEPT !.arguments = Append(@, scan.builder), !.builder = <<>>]

\* Variant: any quote closes a phrase.
ScanPieceAnyQuote(scan, c) ==
    IF c = Space /\ scan.quote = None THEN AddArgument(scan)
    ELSE [scan EXCEPT !.builder = Append(@, c),
                      !.quote = CASE c \in Quotes /\ @ = None -> c
                                  [] c \in Quotes /\ @ # None -> None
                                  [] OTHER -> @]

ScanPiece(scan, c) ==
    IF c = Space /\ scan.quote = None THEN AddArgument(scan)
    ELSE [scan EXCEPT !.builder = Append(@, c),
                      !.quote = CASE c \in Quotes /\ @ = None -> c
                                  [] c \in Quotes /\ @ = c -> None
                                  [] OTHER -> @]

Scan(s) ==
    FoldLeft(ScanPiece, [arguments |-> <<>>, builder |-> <<>>, quote |-> None], s)

\* Variant: every additional argument is appended, wanted or not.
AppendMissingAlways(arguments, argument) == Append(arguments, argument)

AppendMissing(arguments, argument) ==
    IF Contains(arguments, argument) THEN arguments ELSE Append(arguments, argument)

IsUnset(s) == s \in {<<>>, <<"null">>}

Parse(s, additional) ==
    IF IsUnset(s) THEN <<>>
    ELSE FoldLeft(AppendMissing, AddArgument(Scan(s)).arguments, additional)

-----------------------------------------------------------------------------
(***************************************************************************)
(* ProxyConfig.                                                            *)
(***************************************************************************)

AddActive(proxies, proxy) == IF proxy.active THEN Append(proxies, proxy) ELSE proxies

\* The active proxies of the settings, or none when they are not inherited.
ProxyConfig == IF inherits THEN FoldLeft(AddActive, <<>>, settings) ELSE <<>>

Host(url) == IF url \in Hosts THEN url ELSE None

IsNonProxyHost(proxy, host) ==
    host # None /\ \E i \in DOMAIN proxy.nonProxyHosts : proxy.nonProxyHosts[i] = host

FirstOf(proxies, Fits(_)) ==
    LET fitting == {i \in DOMAIN proxies : Fits(proxies[i])} IN
    IF fitting = {} THEN None ELSE proxies[Min(fitting)]

\* Variant: the first proxy that has the host on its list.
ProxyForURLSwapped(proxies, url) ==
    FirstOf(proxies, LAMBDA p : IsNonProxyHost(p, Host(url)))

ProxyForURL(proxies, url) ==
    FirstOf(proxies, LAMBDA p : ~IsNonProxyHost(p, Host(url)))

SecureProxy(proxies) == FirstOf(proxies, LAMBDA p : p.secure)

InsecureProxy(proxies) == FirstOf(proxies, LAMBDA p : ~p.secure)

\* The proxy for the registry, else a secure one, else an insecure one.
SelectProxy(proxies, url) ==
    LET forRegistry == IF url = "" THEN None ELSE ProxyForURL(proxies, url) IN
    CASE forRegistry # None -> forRegistry
      [] forRegistry = None /\ SecureProxy(proxies) # None -> SecureProxy(proxies)
      [] OTHER -> InsecureProxy(proxies)

-----------------------------------------------------------------------------
(***************************************************************************)
(* The arguments a runner adds on the caller's behalf.                     *)
(***************************************************************************)

Flag(name, value) == <<<<name, value>>>>

RegistryArguments == IF registry = "" THEN <<>> ELSE <<<<"--registry=" \o registry>>>>

ProxyArguments ==
    IF ProxyConfig = <<>> THEN <<>>
    ELSE LET proxy == SelectProxy(ProxyConfig, registry) IN
         Flag("--https-proxy=", proxy) \o Flag("--proxy=", proxy)

\* npm has a flag for every host the chosen proxy is not for, pnpm one for all.
NoProxyArguments ==
    IF ProxyConfig = <<>> THEN <<>>
    ELSE LET hosts == SelectProxy(ProxyConfig, registry).nonProxyHosts IN
         CASE hosts = <<>> -> <<>>
           [] hosts # <<>> /\ runner = "npm" ->
                [i \in DOMAIN hosts |-> <<"--noproxy=", hosts[i]>>]
           [] OTHER -> Flag("--noproxy=", hosts)

\* Variant: the separator comes only when there is a registry.
NpxArgumentsBehindRegistry ==
    IF registry = "" THEN ProxyArguments ELSE <<<<"--">>>> \o RegistryArguments \o ProxyArguments

\* What follows "--" is npm's.
NpxArguments ==
    LET arguments == RegistryArguments \o ProxyArguments IN
    IF arguments = <<>> THEN <<>> ELSE <<<<"--">>>> \o arguments

BowerArguments ==
    LET secure == SecureProxy(ProxyConfig)
        insecure == InsecureProxy(ProxyConfig) IN
    (IF secure = None THEN <<>> ELSE Flag("--config.https-proxy=", secure))
      \o (IF insecure = None THEN <<>> ELSE Flag("--config.proxy=", insecure))

AdditionalArguments ==
    CASE runner \in {"npm", "pnpm"} -> RegistryArguments \o ProxyArguments \o NoProxyArguments
      [] runner = "npx" -> NpxArguments
      [] runner \in {"yarn", "bun"} -> RegistryArguments \o ProxyArguments
      [] runner = "bower" -> BowerArguments
      [] runner \in {"yarn berry", "plain"} -> <<>>

-----------------------------------------------------------------------------

Init ==
    /\ goal \in Goals \cup {"help", "version", "nosuch"}
    /\ line = <<>>
    /\ text = <<>>
    /\ settings \in {None} \cup SeqOf(MavenProxy, MaxProxies)
    /\ settings \notin {None, <<>>} => goal \in PackageManagers \cup {"bower"}
    /\ berry \in (IF goal = "yarn" THEN BOOLEAN ELSE {FALSE})

Size == Len(line) + Len(text) + (IF settings = None THEN 1 ELSE Len(settings))

Write(writing) ==
    /\ Len(line) < MaxLine /\ Size < MaxSize
    /\ line' = Append(line, writing)
    /\ UNCHANGED <<goal, text, settings, berry>>

Pieces == Words \cup {Space} \cup (IF goal \in Quoting THEN Quotes ELSE {})

Type(piece) ==
    /\ \E i \in DOMAIN line : line[i].value = Typed
    /\ \/ Size < MaxSize
       \/ goal \in Quoting /\ Len(line) = 1 /\ Len(text) < MaxQuoted
    /\ text' = Append(text, piece)
    /\ UNCHANGED <<goal, line, settings, berry>>

Next ==
    \/ \E writing \in (IF settings = <<>> THEN Writings(goal) ELSE Behind(goal)) : Write(writing)
    \/ \E piece \in Pieces : Type(piece)

Spec == Init /\ [][Next]_vars

-----------------------------------------------------------------------------
(***************************************************************************)
(* What the comment on Parse says, without a scanner: the phrases of a     *)
(* text are disjoint, each runs from a quote to the next one of its kind   *)
(* or to the end, and there is no quote outside them; the arguments are    *)
(* what lies between the spaces outside phrases.                           *)
(***************************************************************************)

QuotesOf(s) == {i \in DOMAIN s : s[i] \in Quotes}

PhraseAt(s, i) ==
    LET matching == {j \in i + 1 .. Len(s) : s[j] = s[i]} IN
    i .. (IF matching = {} THEN Len(s) ELSE Min(matching))

Phrases(s) ==
    CHOOSE phrases \in SUBSET {PhraseAt(s, i) : i \in QuotesOf(s)} :
        /\ \A p, q \in phrases : p # q => p \cap q = {}
        /\ QuotesOf(s) \subseteq UNION phrases

Separators(s) == {i \in DOMAIN s : s[i] = Space} \ UNION Phrases(s)

ArgumentStarts(s) ==
    {i \in DOMAIN s \ Separators(s) : i = 1 \/ i - 1 \in Separators(s)}

ArgumentFrom(s, i) ==
    SubSeq(s, i, Max({j \in i .. Len(s) : i .. j \cap Separators(s) = {}}))

\* The arguments lie in the order in which they start, and none is left out.
Documented(s, arguments) ==
    \E starts \in [DOMAIN arguments -> ArgumentStarts(s)] :
        /\ \A m, n \in DOMAIN arguments : m < n => starts[m] < starts[n]
        /\ \A i \in ArgumentStarts(s) : \E n \in DOMAIN arguments : starts[n] = i
        /\ \A n \in DOMAIN arguments : arguments[n] = ArgumentFrom(s, starts[n])

\* The scanner splits every text as the comment on Parse documents.
ParsesAsDocumented ==
    IF IsUnset(text) THEN Parse(text, <<>>) = <<>>
    ELSE Documented(text, Parse(text, <<>>))

-----------------------------------------------------------------------------
(***************************************************************************)
(* What a user may rely on, without the words of a command line.           *)
(***************************************************************************)

\* No option lacks its value, no value standing alone begins with -D or ends
\* the options, and no help is asked for: what the writings say is then clear.
Clear(w) ==
    /\ w.option # "help"
    /\ w.style = "alone" => w.option \notin Taking(goal)
    /\ w.style = "separate" => Beginning(w.value) \notin PropertyLike \cup {"--"}

Accepted(w) ==
    \/ w.style = "property"
    \/ /\ w.option \in Switches(goal)
       /\ w.style = "alone" \/ (w.style = "joined" /\ w.value \in {"true", "false"})
    \/ /\ w.option \in Taking(goal)
       /\ w.style \in {"joined", "separate"}
       /\ w.option = "environmentVariables" => w.value \in Pairs

Written(option) == {i \in DOMAIN line : line[i].option = option /\ line[i].style # "property"}

Overriding(option) == {i \in DOMAIN line : line[i].option = option /\ line[i].style = "property"}

\* An option with one value has the last one written.
Said(option) ==
    IF Written(option) = {} THEN DefaultOf(goal, option)
    ELSE LET last == line[Max(Written(option))] IN
         IF last.style = "alone" THEN "true" ELSE last.value

\* One that collects has them all, in the order of the line.
Collected(option, values) ==
    \E at \in [DOMAIN values -> Written(option)] :
        /\ \A m, n \in DOMAIN values : m < n => at[m] < at[n]
        /\ \A i \in Written(option) : \E n \in DOMAIN values : at[n] = i
        /\ \A n \in DOMAIN values : values[n] = line[at[n]].value

ReadsAsWritten(option, value) ==
    IF option \in Repeatable(goal) THEN Collected(option, value) ELSE value = Said(option)

\* A clear command line with a mistake in it, or without a version the goal
\* must have, is refused; any other is read as written, wherever its -D
\* properties stand: the last writing of an option counts, and the last
\* -DnpmRegistryURL comes before every --npmRegistryURL, even an empty one
\* (Run's two passes over the words, and requiredOf).
ReadOrRefused ==
    goal \in Goals /\ (\A i \in DOMAIN line : Clear(line[i])) =>
        LET options == Parsed.options
            complete == \A o \in requiredOf(goal) : Said(o) # "" IN
        IF complete /\ \A i \in DOMAIN line : Accepted(line[i])
        THEN /\ Verdict(TRUE) \in {"runs", "skipped"}
             /\ \A o \in DOMAIN options : ReadsAsWritten(o, options[o])
             /\ goal \in PackageManagers =>
                  registry = LET overriding == Overriding("npmRegistryURL") IN
                             IF overriding = {} THEN Said("npmRegistryURL")
                             ELSE line[Max(overriding)].value
        ELSE Verdict(TRUE) = "usage"

-----------------------------------------------------------------------------
(***************************************************************************)
(* The arguments of the tools.                                             *)
(***************************************************************************)

RunsTool == goal \notin Installing /\ Verdict(settings # None) = "runs"

Own == Parse(ArgumentString, <<>>)
Arguments == Parse(ArgumentString, AdditionalArguments)

\* The user's arguments come first and untouched, and what the runner adds
\* follows, each argument once and none the user already gave (the loop of
\* Parse over additionalArguments): of any text but an empty or "null" one,
\* where the comment "appends additionalArguments to every parse result"
\* (arguments_parser.go:15-16) does not hold.
AddedOnce ==
    RunsTool /\ ~IsUnset(ArgumentString) =>
        LET own == Own
            arguments == Arguments
            added == SubSeq(arguments, Len(own) + 1, Len(arguments)) IN
        /\ IsPrefix(own, arguments)
        /\ IsInjective(added)
        /\ ToSet(added) = ToSet(AdditionalArguments) \ ToSet(own)

\* npx hands everything before "--" to the program it runs: whatever the user
\* typed, what the runner adds is behind a "--" (BuildNpxNpmArguments against
\* the skipping of arguments already there).
NpxFlagsAreNpms ==
    goal = "npx" /\ RunsTool =>
        \A i \in Len(Own) + 1 .. Len(Arguments) :
            \E j \in 1 .. i : Arguments[j] = <<"--">>

\* A runner that needs a proxy finds one as soon as one is active, and never
\* one that excludes the registry's host while another does not: selectProxy
\* is dereferenced unchecked.
ProxyFits ==
    goal \in PackageManagers /\ RunsTool /\ ProxyConfig # <<>> =>
        LET proxy == SelectProxy(ProxyConfig, registry) IN
        /\ proxy # None
        /\ registry # "" /\ IsNonProxyHost(proxy, Host(registry)) =>
             \A i \in DOMAIN ProxyConfig : IsNonProxyHost(ProxyConfig[i], Host(registry))

=============================================================================
