---------------------------- MODULE MCCommandLine ----------------------------
(***************************************************************************)
(* An instance of CommandLine: one registry host, an ordinary word, the    *)
(* words that mean something to the parser or to a runner, and the options *)
(* in the styles people write them in, the wrong ones included.            *)
(***************************************************************************)
EXTENDS CommandLine

MCWords == {"x", "--", "--registry=h", "null", "-Dp"}
MCOptionLike == {"--", "--registry=h", "-Dp"}
MCPropertyLike == {"-Dp"}
MCHostLists == {<<>>, <<"i", "h">>, <<"i", "i">>}
Writing(option, styles, values) == [option : {option}, style : styles, value : values]

OfEveryGoal(g) ==
    Writing(SkipOf(g), {"alone"}, {None})
      \cup Writing("skipTests", {"alone"}, {None})
      \cup Writing("skipTests", {"joined"}, {"maybe"})
      \cup Writing("skipTests", {"separate"}, {"false", "--"})
      \cup Writing("lifecyclePhase", {"joined"}, {"test"})
      \cup Writing("environmentVariables", {"joined", "separate"}, {"a", "a=b"})
      \cup Writing("nosuch", {"joined"}, {"x"})
      \cup Writing("help", {"alone"}, {None})

OfInstalling(g) ==
    UNION {Writing(v, {"joined", "separate", "property"}, {"v", ""})
             \cup Writing(v, {"alone"}, {None})
             \cup Writing(v, {"separate"}, {"-Dp"}) : v \in VersionsOf(g)}

OfTools(g) ==
    (IF g = "karma" THEN Writing("karmaConfPath", {"joined"}, {"x", ""})
     ELSE Writing(ArgumentsOf(g), {"joined", "separate"}, {Typed}))
      \cup (IF g \in PackageManagers
            THEN Writing("npmRegistryURL", {"joined", "property"}, {"h", "registry", ""})
                   \cup Writing("npmRegistryURL", {"separate"}, {"h", "-Dp"})
                   \cup Writing("npmRegistryURL", {"alone"}, {None})
            ELSE {})
      \cup (IF g \in PackageManagers \cup {"bower"}
            THEN Writing(InheritsOf(g), {"joined"}, {"true", "false"}) ELSE {})

MCWritings(g) ==
    CASE g \in Installing -> OfEveryGoal(g) \cup OfInstalling(g)
      [] g \in Goals \ Installing -> OfEveryGoal(g) \cup OfTools(g)
      [] OTHER -> {}

MCBehind(g) ==
    (CASE g \in Installing -> OfInstalling(g)
       [] g \in Goals \ (Installing \cup {"karma"}) -> Writing(ArgumentsOf(g), {"joined"}, {Typed})
       [] OTHER -> {})
      \cup (IF g \in PackageManagers THEN Writing("npmRegistryURL", {"joined"}, {"h"})
                                          \cup Writing("npmRegistryURL", {"property"}, {"registry"})
            ELSE {})
      \cup (IF g \in PackageManagers \cup {"bower"}
            THEN Writing(InheritsOf(g), {"joined"}, {"false"}) ELSE {})

=============================================================================
