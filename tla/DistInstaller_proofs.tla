------------------------ MODULE DistInstaller_proofs ------------------------
(***************************************************************************)
(* Proofs about DistInstaller, for any runs and versions and whatever the  *)
(* kinds and the number of faults.                                         *)
(***************************************************************************)
EXTENDS DistInstaller, FiniteSetTheorems, TLAPS

(***************************************************************************)
(* TypeOK in two parts: what counts the faults and all the rest.           *)
(***************************************************************************)
Shape ==
    /\ tool \in {"yarn", "bun"}
    /\ berry \in BOOLEAN
    /\ dir \in [Dirs -> [Parts -> Versions \cup {None}]]
    /\ runnable \in BOOLEAN
    /\ cache \in [Versions -> {"absent", "torn", "whole"}]
    /\ lock \in Runs \cup {Free}
    /\ pc \in [Runs -> Resting \cup Steps \cup {"lock"}]
    /\ goal \in [Runs -> [version : Versions, prefixed : BOOLEAN]]
    /\ wrote \in [Runs -> SUBSET (Parts \X Dirs)]
    /\ warned \in BOOLEAN

LEMMA TypeParts == TypeOK <=> Shape /\ faults \in 0 .. MaxFaults
  BY Zenon DEF TypeOK, Shape

LEMMA TypeInit == Init => TypeOK
  <1> SUFFICES ASSUME Init PROVE Shape /\ faults \in 0 .. MaxFaults
    BY TypeParts
  <1>1. Shape
    BY DEF Init, Shape, Empty, Resting, Dirs
  <1>2. faults \in 0 .. MaxFaults
    BY FaultAssumption DEF Init
  <1> QED
    BY <1>1, <1>2

LEMMA FaultsNext == faults \in 0 .. MaxFaults /\ [Next]_vars => faults' \in 0 .. MaxFaults
  BY FaultAssumption
  DEF Next, Install, vars, Crash, Start, Lock, Skip, Refuse, Needed, Fetched, FetchFails,
      ClearPart, ClearEnds, UnpackPart, Unpacked, UnpackTorn, UnpackFails, RootFound,
      RootRenamed, RootFails, RemoveOld, Move, SetExecutable, ReplaceFails, Tidy,
      Fault, Unfaulty

LEMMA ShapeNext == Shape /\ [Next]_vars => Shape'
  <1> SUFFICES ASSUME Shape, [Next]_vars PROVE Shape'
    OBVIOUS
  <1> USE DEF Shape, Resting, Steps
  <1>1. CASE UNCHANGED vars
    BY <1>1 DEF vars
  <1>2. CASE Crash
    BY <1>2 DEF Crash, Version
  <1>3. ASSUME NEW r \in Runs, Start(r) PROVE Shape'
    BY <1>3 DEF Start
  <1>4. ASSUME NEW r \in Runs, Lock(r) \/ Skip(r) \/ Refuse(r) \/ Needed(r) PROVE Shape'
    BY <1>4 DEF Lock, Skip, Refuse, Needed, Step, Return
  <1>5. ASSUME NEW r \in Runs, Fetched(r) \/ FetchFails(r) PROVE Shape'
    BY <1>5 DEF Fetched, FetchFails, Step, Return, Version
  <1>6. ASSUME NEW r \in Runs, ClearPart(r) PROVE Shape'
    BY <1>6 DEF ClearPart, Left, Cleared, Dirs
  <1>7. ASSUME NEW r \in Runs, ClearEnds(r) \/ Unpacked(r) \/ UnpackFails(r) PROVE Shape'
    BY <1>7 DEF ClearEnds, Unpacked, UnpackFails, Step, Return
  <1>8. ASSUME NEW r \in Runs, UnpackPart(r) PROVE Shape'
    <2>1. Root(r) \in Dirs /\ Version(r) \in Versions /\ PartsOf \subseteq Parts
      BY DEF Root, Dirs, Version, PartsOf, Parts
    <2> QED
      BY <1>8, <2>1 DEF UnpackPart
  <1>9. ASSUME NEW r \in Runs, UnpackTorn(r) PROVE Shape'
    BY <1>9 DEF UnpackTorn, Step, Return, Version, Empty
  <1>10. ASSUME NEW r \in Runs, RootFound(r) \/ RootFails(r) PROVE Shape'
    BY <1>10 DEF RootFound, RootFails, Step, Return
  <1>11. ASSUME NEW r \in Runs, RootRenamed(r) \/ RemoveOld(r) \/ Move(r) PROVE Shape'
    <2>1. /\ Root(r) \in Dirs /\ "installed" \in Dirs /\ "platform" \in Dirs
          /\ Empty \in [Parts -> Versions \cup {None}]
      BY DEF Root, Dirs, Version, Empty
    <2>2. dir' \in [Dirs -> [Parts -> Versions \cup {None}]]
      BY <1>11, <2>1 DEF RootRenamed, RemoveOld, Move
    <2>3. /\ pc' \in [Runs -> Resting \cup Steps \cup {"lock"}]
          /\ wrote' \in [Runs -> SUBSET (Parts \X Dirs)]
      BY <1>11 DEF RootRenamed, RemoveOld, Move, Step, Return
    <2>4. lock' \in Runs \cup {Free} /\ UNCHANGED <<tool, berry, cache, goal, warned>>
      BY <1>11 DEF RootRenamed, RemoveOld, Move, Return
    <2>5. runnable' \in BOOLEAN
      BY <1>11 DEF RootRenamed, RemoveOld, Move
    <2> QED
      BY <2>2, <2>3, <2>4, <2>5
  <1>12. ASSUME NEW r \in Runs, SetExecutable(r) \/ ReplaceFails(r) \/ Tidy(r) PROVE Shape'
    BY <1>12 DEF SetExecutable, ReplaceFails, Tidy, Step, Return
  <1> QED
    BY <1>1, <1>2, <1>3, <1>4, <1>5, <1>6, <1>7, <1>8, <1>9, <1>10, <1>11, <1>12
    DEF Next, Install

LEMMA TypeNext == TypeOK /\ [Next]_vars => TypeOK'
  <1>1. TypeOK' <=> Shape' /\ faults' \in 0 .. MaxFaults
    BY Zenon DEF TypeOK, Shape
  <1> QED
    BY TypeParts, FaultsNext, ShapeNext, <1>1

(***************************************************************************)
(* The type of every variable, for any runs and versions.                  *)
(***************************************************************************)
THEOREM TypeCorrect == Spec => []TypeOK
  BY TypeInit, TypeNext, PTL DEF Spec

-----------------------------------------------------------------------------
(***************************************************************************)
(* A run between Lock and Return holds the mutex, hence is alone there.    *)
(***************************************************************************)
LockInv == \A r \in Runs : pc[r] \in Steps => lock = r

Exclusion == \A r, s \in Runs : pc[r] \in Steps /\ pc[s] \in Steps => r = s

LEMMA LockInit == Init => LockInv
  BY DEF Init, LockInv, Steps

LEMMA LockNext == Shape /\ LockInv /\ [Next]_vars => LockInv'
  <1> SUFFICES ASSUME Shape, LockInv, [Next]_vars PROVE LockInv'
    OBVIOUS
  <1> USE FreeAssumption DEF Shape, LockInv, Steps, Resting
  <1>1. ASSUME UNCHANGED <<pc, lock>> PROVE LockInv'
    BY <1>1
  <1>2. CASE Crash
    BY <1>2 DEF Crash
  <1>3. ASSUME NEW r \in Runs, Start(r) \/ Lock(r) PROVE LockInv'
    BY <1>3 DEF Start, Lock, Step
  <1>4. ASSUME NEW r \in Runs, NEW from \in Steps, NEW to \in Steps, Step(r, from, to),
               UNCHANGED lock
        PROVE  LockInv'
    BY <1>4 DEF Step
  <1>5. ASSUME NEW r \in Runs, NEW from \in Steps, NEW outcome \in Resting,
               Return(r, from, outcome)
        PROVE  LockInv'
    BY <1>5 DEF Return, Step
  <1>6. ASSUME NEW r \in Runs,
               \/ Needed(r) \/ Fetched(r) \/ ClearEnds(r) \/ Unpacked(r)
               \/ RemoveOld(r) \/ Move(r) \/ SetExecutable(r)
        PROVE  LockInv'
    BY <1>4, <1>6
    DEF Needed, Fetched, ClearEnds, Unpacked, RemoveOld, Move, SetExecutable
  <1>7. ASSUME NEW r \in Runs,
               \/ Skip(r) \/ Refuse(r) \/ FetchFails(r) \/ UnpackTorn(r) \/ UnpackFails(r)
               \/ RootFound(r) \/ RootRenamed(r) \/ RootFails(r) \/ ReplaceFails(r) \/ Tidy(r)
        PROVE  LockInv'
    BY <1>5, <1>7
    DEF Skip, Refuse, FetchFails, UnpackTorn, UnpackFails, RootFound, RootRenamed, RootFails,
        ReplaceFails, Tidy
  <1> QED
    BY <1>1, <1>2, <1>3, <1>6, <1>7 DEF Next, Install, vars, ClearPart, UnpackPart

(***************************************************************************)
(* Two goals of one process never install the tool at the same time.       *)
(***************************************************************************)
THEOREM InstallExclusion == Spec => []Exclusion
  <1>1. LockInv => Exclusion
    BY DEF LockInv, Exclusion
  <1>2. TypeOK => Shape
    BY TypeParts
  <1> QED
    BY TypeInit, TypeNext, LockInit, LockNext, <1>1, <1>2, PTL DEF Spec

-----------------------------------------------------------------------------
(***************************************************************************)
(* What a run at work knows: which parts it has cleared or unpacked, and   *)
(* that what it goes on with is of the version it wants.  After a complete *)
(* clearing nothing else is there to be mistaken for it.                   *)
(***************************************************************************)
Obtained == {"clear", "unpack", "root", "replace", "move", "mark", "tidy"}

StageInv(r) ==
    /\ pc[r] = "root" => tool = "yarn"
    /\ pc[r] \in {"replace", "move", "mark", "tidy"} => tool = "bun"
    /\ pc[r] \in Obtained => cache[Version(r)] # "absent"

ClearedInv(r) ==
    pc[r] = "clear" =>
        \A p \in Parts, d \in Dirs : <<p, d>> \in wrote[r] => dir[d][p] = None

UnpackedInv(r) ==
    /\ pc[r] = "unpack" =>
         \A p \in Parts, d \in Dirs : <<p, d>> \in wrote[r] => dir[d][p] = Version(r)
    /\ pc[r] = "root" => \A p \in Parts : dir[Root(r)][p] = Version(r)
    /\ pc[r] \in {"replace", "move"} => dir["platform"]["launcher"] = Version(r)
    /\ pc[r] \in {"mark", "tidy"} => dir["installed"]["launcher"] = Version(r)
    /\ pc[r] = "tidy" => runnable

NothingElse(r) ==
    pc[r] \in {"unpack", "root"} /\ tool = "yarn" /\ ~warned =>
        \A p \in Parts, d \in Cleared :
            dir[d][p] # None => d = Root(r) /\ dir[d][p] = Version(r)

RunInv(r) == StageInv(r) /\ ClearedInv(r) /\ UnpackedInv(r) /\ NothingElse(r)

WorkInv == \A r \in Runs : RunInv(r)

ReleaseInv ==
    /\ tool = "bun" => \A d \in Dirs : dir[d]["library"] = None
    /\ ~warned => \A p, q \in Parts :
         \/ dir["installed"][p] = None \/ dir["installed"][q] = None
         \/ dir["installed"][p] = dir["installed"][q]


LEMMA AtRest ==
    ASSUME NEW r \in Runs, pc'[r] \notin Obtained
    PROVE  RunInv(r)'
  BY DEF RunInv, StageInv, ClearedInv, UnpackedInv, NothingElse, Obtained

LEMMA NotConcerned ==
    ASSUME NEW r \in Runs, RunInv(r), UNCHANGED <<tool, dir, runnable, cache, warned>>,
           pc'[r] = pc[r], goal'[r] = goal[r], wrote'[r] = wrote[r]
    PROVE  RunInv(r)'
  BY DEF RunInv, StageInv, ClearedInv, UnpackedInv, NothingElse, Version, Root, Cleared

\* While one run is at work, only what it does to itself matters.
LEMMA OnlyOwnStep ==
    ASSUME Shape, LockInv, NEW r \in Runs, pc[r] \in Steps,
           \A s \in Runs \ {r} : pc'[s] = pc[s],
           RunInv(r)'
    PROVE  WorkInv'
  <1> SUFFICES ASSUME NEW s \in Runs \ {r} PROVE RunInv(s)'
    BY DEF WorkInv
  <1>1. pc'[s] \notin Obtained
    BY DEF LockInv, Steps, Obtained
  <1> QED
    BY <1>1, AtRest

LEMMA WorkInit == Init => WorkInv /\ ReleaseInv
  <1> SUFFICES ASSUME Init PROVE WorkInv /\ ReleaseInv
    OBVIOUS
  <1>1. \A r \in Runs : pc[r] \notin Obtained
    BY DEF Init, Obtained
  <1>2. WorkInv
    BY <1>1 DEF WorkInv, RunInv, StageInv, ClearedInv, UnpackedInv, NothingElse, Obtained
  <1>3. ReleaseInv
    BY DEF Init, ReleaseInv, Empty, Parts, Dirs
  <1> QED
    BY <1>2, <1>3

LEMMA WorkNext == Shape /\ LockInv /\ WorkInv /\ [Next]_vars => WorkInv'
  <1> SUFFICES ASSUME Shape, LockInv, WorkInv, [Next]_vars PROVE WorkInv'
    OBVIOUS
  <1>1. CASE UNCHANGED vars
    BY <1>1, NotConcerned DEF vars, WorkInv
  <1>2. CASE Crash
    <2>1. \A r \in Runs : pc'[r] \notin Obtained
      BY <1>2 DEF Crash, Shape, Resting, Obtained
    <2> QED
      BY <2>1, AtRest DEF WorkInv
  <1>3. ASSUME NEW r \in Runs, Start(r) \/ Lock(r) PROVE WorkInv'
    <2>1. pc'[r] \notin Obtained
      BY <1>3 DEF Start, Lock, Step, Shape, Obtained
    <2>2. ASSUME NEW s \in Runs \ {r} PROVE RunInv(s)'
      <3>1. /\ UNCHANGED <<tool, dir, runnable, cache, warned>>
            /\ pc'[s] = pc[s] /\ goal'[s] = goal[s] /\ wrote'[s] = wrote[s]
        BY <1>3 DEF Start, Lock, Step, Shape
      <3> QED
        BY <3>1, NotConcerned DEF WorkInv
    <2> QED
      BY <2>1, <2>2, AtRest DEF WorkInv
  <1>4. ASSUME NEW r \in Runs, NEW from \in Steps, NEW to, Step(r, from, to),
               to \notin Obtained
        PROVE  WorkInv'
    <2>1. pc[r] \in Steps /\ pc'[r] = to /\ \A s \in Runs \ {r} : pc'[s] = pc[s]
      BY <1>4 DEF Step, Shape
    <2> QED
      BY <1>4, <2>1, AtRest, OnlyOwnStep
  <1>5. ASSUME NEW r \in Runs,
               \/ Skip(r) \/ Refuse(r) \/ Needed(r) \/ FetchFails(r) \/ UnpackTorn(r)
               \/ UnpackFails(r) \/ RootFound(r) \/ RootRenamed(r) \/ RootFails(r)
               \/ ReplaceFails(r) \/ Tidy(r)
        PROVE  WorkInv'
    BY <1>4, <1>5
    DEF Skip, Refuse, Needed, FetchFails, UnpackTorn, UnpackFails, RootFound, RootRenamed,
        RootFails, ReplaceFails, Tidy, Return, Steps, Obtained
  <1>6. ASSUME NEW r \in Runs, Fetched(r) PROVE WorkInv'
    <2>1. /\ pc[r] = "fetch" /\ pc'[r] = "clear" /\ wrote'[r] = {}
          /\ \A s \in Runs \ {r} : pc'[s] = pc[s]
      BY <1>6 DEF Fetched, Step, Shape
    <2>2. cache'[Version(r)] # "absent" /\ goal' = goal
      BY <1>6 DEF Fetched, Shape, Version
    <2>3. RunInv(r)'
      BY <2>1, <2>2
      DEF RunInv, StageInv, ClearedInv, UnpackedInv, NothingElse, Version
    <2> QED
      BY <2>1, <2>3, OnlyOwnStep DEF Steps
  <1>7. ASSUME NEW r \in Runs, ClearPart(r) PROVE WorkInv'
    <2>1. PICK pd \in Left :
                 /\ dir' = [dir EXCEPT ![pd[2]][pd[1]] = None]
                 /\ wrote' = [wrote EXCEPT ![r] = @ \cup {pd}]
      BY <1>7 DEF ClearPart
    <2>2. pc[r] = "clear" /\ UNCHANGED <<tool, runnable, cache, pc, goal, warned>>
      BY <1>7 DEF ClearPart
    <2>3. ClearedInv(r)'
      <3> SUFFICES ASSUME NEW p \in Parts, NEW d \in Dirs, <<p, d>> \in wrote'[r]
                   PROVE  dir'[d][p] = None
        BY DEF ClearedInv
      <3>1. pd[1] \in Parts /\ pd[2] \in Dirs
        BY DEF Left, Cleared, Dirs
      <3>2. CASE <<p, d>> \in wrote[r]
        <4>1. dir[d][p] = None
          BY <2>2, <3>2 DEF WorkInv, RunInv, ClearedInv
        <4> QED
          BY <2>1, <3>1, <4>1 DEF Shape
      <3>3. CASE pd = <<p, d>>
        BY <2>1, <3>3 DEF Shape
      <3> QED
        BY <2>1, <3>2, <3>3 DEF Shape
    <2>4. RunInv(r)'
      BY <2>2, <2>3
      DEF WorkInv, RunInv, StageInv, UnpackedInv, NothingElse, Version
    <2> QED
      BY <2>2, <2>4, OnlyOwnStep DEF Steps
  <1>8. ASSUME NEW r \in Runs, ClearEnds(r) PROVE WorkInv'
    <2>1. /\ pc[r] = "clear" /\ pc'[r] = "unpack" /\ wrote'[r] = {}
          /\ \A s \in Runs \ {r} : pc'[s] = pc[s]
      BY <1>8 DEF ClearEnds, Step, Shape
    <2>2. UNCHANGED <<tool, dir, runnable, cache, goal>>
      BY <1>8 DEF ClearEnds
    <2>3. NothingElse(r)'
      <3> SUFFICES ASSUME ~warned', NEW p \in Parts, NEW d \in Cleared PROVE dir[d][p] = None
        BY <2>2 DEF NothingElse, Cleared
      <3>1. Left \subseteq wrote[r]
        BY <1>8 DEF ClearEnds
      <3>2. dir[d][p] # None => <<p, d>> \in Left
        BY DEF Left
      <3>3. <<p, d>> \in wrote[r] => dir[d][p] = None
        BY <2>1 DEF WorkInv, RunInv, ClearedInv, Cleared, Dirs
      <3> QED
        BY <3>1, <3>2, <3>3
    <2>4. RunInv(r)'
      BY <2>1, <2>2, <2>3
      DEF WorkInv, RunInv, StageInv, ClearedInv, UnpackedInv, Obtained, Version
    <2> QED
      BY <2>1, <2>4, OnlyOwnStep DEF Steps
  <1>9. ASSUME NEW r \in Runs, UnpackPart(r) PROVE WorkInv'
    <2>1. PICK p \in PartsOf :
                 /\ dir' = [dir EXCEPT ![Root(r)][p] = Version(r)]
                 /\ wrote' = [wrote EXCEPT ![r] = @ \cup {<<p, Root(r)>>}]
      BY <1>9 DEF UnpackPart
    <2>2. pc[r] = "unpack" /\ UNCHANGED <<tool, runnable, cache, pc, goal, warned>>
      BY <1>9 DEF UnpackPart
    <2>3. p \in Parts /\ Root(r) \in Dirs /\ Version(r) \in Versions
      BY DEF PartsOf, Parts, Root, Dirs, Version, Shape
    <2>4. ASSUME NEW q \in Parts, NEW d \in Dirs
          PROVE  dir'[d][q] = IF d = Root(r) /\ q = p THEN Version(r) ELSE dir[d][q]
      BY <2>1, <2>3 DEF Shape
    <2>5. UnpackedInv(r)'
      <3> SUFFICES ASSUME NEW q \in Parts, NEW d \in Dirs, <<q, d>> \in wrote'[r]
                   PROVE  dir'[d][q] = Version(r)
        BY <2>2 DEF UnpackedInv, Version
      <3>1. <<q, d>> \in wrote[r] \/ (q = p /\ d = Root(r))
        BY <2>1 DEF Shape
      <3>2. <<q, d>> \in wrote[r] => dir[d][q] = Version(r)
        BY <2>2 DEF WorkInv, RunInv, UnpackedInv
      <3> QED
        BY <2>4, <3>1, <3>2
    <2>6. NothingElse(r)'
      <3> SUFFICES ASSUME tool = "yarn", ~warned, NEW q \in Parts, NEW d \in Cleared,
                          dir'[d][q] # None
                   PROVE  d = Root(r) /\ dir'[d][q] = Version(r)
        BY <2>2 DEF NothingElse, Cleared, Root, Version
      <3>1. d \in Dirs
        BY DEF Cleared, Dirs
      <3> QED
        BY <2>2, <2>4, <3>1 DEF WorkInv, RunInv, NothingElse
    <2>7. RunInv(r)'
      BY <2>2, <2>5, <2>6 DEF WorkInv, RunInv, StageInv, ClearedInv, Version
    <2> QED
      BY <2>2, <2>7, OnlyOwnStep DEF Steps
  <1>10. ASSUME NEW r \in Runs, Unpacked(r) PROVE WorkInv'
    <2>1. /\ pc[r] = "unpack" /\ pc'[r] = IF tool = "yarn" THEN "root" ELSE "replace"
          /\ \A s \in Runs \ {r} : pc'[s] = pc[s]
      BY <1>10 DEF Unpacked, Step, Shape
    <2>2. UNCHANGED <<tool, dir, runnable, cache, goal, warned>>
      BY <1>10 DEF Unpacked
    <2>3. \A p \in PartsOf : dir[Root(r)][p] = Version(r)
      <3> SUFFICES ASSUME NEW p \in PartsOf PROVE dir[Root(r)][p] = Version(r)
        OBVIOUS
      <3>1. p \in Parts /\ Root(r) \in Dirs
        BY DEF PartsOf, Parts, Root, Dirs, Version, Shape
      <3>2. <<p, Root(r)>> \in wrote[r]
        BY <1>10 DEF Unpacked
      <3> QED
        BY <2>1, <3>1, <3>2 DEF WorkInv, RunInv, UnpackedInv
    <2>4. UnpackedInv(r)'
      BY <2>1, <2>2, <2>3 DEF UnpackedInv, PartsOf, Root, Version, Shape
    <2>5. NothingElse(r)'
      BY <2>1, <2>2 DEF WorkInv, RunInv, NothingElse, Cleared, Root, Version
    <2>6. RunInv(r)'
      BY <2>1, <2>2, <2>4, <2>5
      DEF WorkInv, RunInv, StageInv, ClearedInv, Obtained, Version, Shape
    <2> QED
      BY <2>1, <2>6, OnlyOwnStep DEF Steps
  <1>11. ASSUME NEW r \in Runs, RemoveOld(r) \/ Move(r) \/ SetExecutable(r) PROVE WorkInv'
    <2>1. /\ \/ RemoveOld(r) /\ pc[r] = "replace" /\ pc'[r] = "move"
             \/ Move(r) /\ pc[r] = "move" /\ pc'[r] = "mark"
             \/ SetExecutable(r) /\ pc[r] = "mark" /\ pc'[r] = "tidy"
          /\ \A s \in Runs \ {r} : pc'[s] = pc[s]
      BY <1>11 DEF RemoveOld, Move, SetExecutable, Step, Shape
    <2>2. UNCHANGED <<tool, cache, goal>>
      BY <1>11 DEF RemoveOld, Move, SetExecutable
    <2>3. UnpackedInv(r)'
      BY <2>1, <2>2
      DEF RemoveOld, Move, SetExecutable, WorkInv, RunInv, UnpackedInv, Version, Shape, Dirs
    <2>4. RunInv(r)'
      BY <2>1, <2>2, <2>3
      DEF WorkInv, RunInv, StageInv, ClearedInv, NothingElse, Obtained, Version
    <2> QED
      BY <2>1, <2>4, OnlyOwnStep DEF Steps
  <1> QED
    BY <1>1, <1>2, <1>3, <1>5, <1>6, <1>7, <1>8, <1>9, <1>10, <1>11 DEF Next, Install


LEMMA ReleaseNext == Shape /\ LockInv /\ WorkInv /\ ReleaseInv /\ [Next]_vars => ReleaseInv'
  <1> SUFFICES ASSUME Shape, LockInv, WorkInv, ReleaseInv, [Next]_vars PROVE ReleaseInv'
    OBVIOUS
  <1>1. ASSUME UNCHANGED <<tool, dir>>, warned' \in {warned, TRUE} PROVE ReleaseInv'
    BY <1>1 DEF ReleaseInv
  <1>2. ASSUME NEW r \in Runs, ClearPart(r) PROVE ReleaseInv'
    <2>1. PICK pd \in Left : dir' = [dir EXCEPT ![pd[2]][pd[1]] = None]
      BY <1>2 DEF ClearPart
    <2>2. pd[1] \in Parts /\ pd[2] \in Dirs
      BY DEF Left, Cleared, Dirs
    <2>3. ASSUME NEW p \in Parts, NEW d \in Dirs PROVE dir'[d][p] \in {dir[d][p], None}
      BY <2>1, <2>2 DEF Shape
    <2>4. UNCHANGED <<tool, warned>> /\ "library" \in Parts /\ "installed" \in Dirs
      BY <1>2 DEF ClearPart, Parts, Dirs
    <2> QED
      BY <2>3, <2>4 DEF ReleaseInv
  <1>3. ASSUME NEW r \in Runs, UnpackPart(r) PROVE ReleaseInv'
    <2>1. PICK p \in PartsOf : dir' = [dir EXCEPT ![Root(r)][p] = Version(r)]
      BY <1>3 DEF UnpackPart
    <2>2. pc[r] = "unpack" /\ UNCHANGED <<tool, warned>>
      BY <1>3 DEF UnpackPart
    <2>3. p \in Parts /\ Root(r) \in Dirs /\ (tool = "bun" => p = "launcher")
      BY DEF PartsOf, Parts, Root, Dirs, Version, Shape
    <2>4. ASSUME NEW q \in Parts, NEW d \in Dirs
          PROVE  dir'[d][q] = IF d = Root(r) /\ q = p THEN Version(r) ELSE dir[d][q]
      BY <2>1, <2>3 DEF Shape
    <2>5. CASE tool = "bun"
      <3>1. Root(r) # "installed" /\ "installed" \in Dirs
        BY <2>5 DEF Root, Dirs
      <3>2. \A d \in Dirs : dir'[d]["library"] = dir[d]["library"]
        BY <2>3, <2>4, <2>5 DEF Parts
      <3>3. \A q \in Parts : dir'["installed"][q] = dir["installed"][q]
        BY <2>4, <3>1
      <3> QED
        BY <2>2, <3>2, <3>3 DEF ReleaseInv
    <2>6. CASE tool = "yarn"
      <3>1. "installed" \in Cleared /\ "installed" \in Dirs
        BY <2>6 DEF Cleared, Dirs
      <3>2. ~warned => \A q \in Parts :
                         dir["installed"][q] # None =>
                            Root(r) = "installed" /\ dir["installed"][q] = Version(r)
        BY <2>2, <2>6, <3>1 DEF WorkInv, RunInv, NothingElse
      <3>3. ~warned => \A q \in Parts :
                         dir'["installed"][q] # None =>
                            Root(r) = "installed" /\ dir'["installed"][q] = Version(r)
        BY <2>4, <3>1, <3>2
      <3> QED
        BY <2>2, <2>6, <3>3 DEF ReleaseInv
    <2> QED
      BY <2>5, <2>6 DEF Shape
  <1>4. ASSUME NEW r \in Runs, UnpackTorn(r) PROVE ReleaseInv'
    BY <1>4 DEF UnpackTorn, ReleaseInv, Empty, Cleared, Dirs, Parts
  <1>5. ASSUME NEW r \in Runs, RootRenamed(r) PROVE ReleaseInv'
    <2>1. pc[r] = "root" /\ UNCHANGED <<tool, warned>>
      BY <1>5 DEF RootRenamed, Return, Step
    <2>2. tool = "yarn" /\ \A p \in Parts : dir[Root(r)][p] = Version(r)
      BY <2>1 DEF WorkInv, RunInv, StageInv, UnpackedInv
    <2>3. dir' = [dir EXCEPT !["installed"] = dir[Root(r)], ![Root(r)] = Empty]
      BY <1>5 DEF RootRenamed
    <2>4. dir'["installed"] \in {dir[Root(r)], Empty}
      BY <2>3 DEF Shape, Dirs
    <2> QED
      BY <2>1, <2>2, <2>4 DEF ReleaseInv, Empty
  <1>6. ASSUME NEW r \in Runs, RemoveOld(r) \/ Move(r) PROVE ReleaseInv'
    <2>1. tool = "bun" /\ UNCHANGED <<tool, warned>>
      BY <1>6 DEF RemoveOld, Move, Step, WorkInv, RunInv, StageInv
    <2>2. \A d \in Dirs : dir'[d]["library"] = None
      BY <1>6, <2>1 DEF RemoveOld, Move, ReleaseInv, Empty, Parts, Dirs, Shape
    <2> QED
      BY <2>1, <2>2 DEF ReleaseInv, Parts, Dirs
  <1> QED
    BY <1>1, <1>2, <1>3, <1>4, <1>5, <1>6
    DEF Next, Install, vars, Crash, Start, Lock, Skip, Refuse, Needed, Fetched, FetchFails,
        ClearEnds, Unpacked, UnpackFails, RootFound, RootFails, SetExecutable, ReplaceFails, Tidy

InstallInv == Shape /\ LockInv /\ WorkInv /\ ReleaseInv

LEMMA InstallInit == Init => InstallInv
  BY TypeInit, TypeParts, LockInit, WorkInit DEF InstallInv

LEMMA InstallNext == InstallInv /\ [Next]_vars => InstallInv'
  BY ShapeNext, LockNext, WorkNext, ReleaseNext DEF InstallInv

LEMMA AtMostOne ==
    ASSUME NEW S, IsFiniteSet(S), \A x, y \in S : x = y
    PROVE  Cardinality(S) <= 1
  <1>1. CASE S = {}
    BY <1>1, FS_EmptySet
  <1>2. CASE S # {}
    <2>1. PICK x \in S : S = {x}
      BY <1>2
    <2> QED
      BY <2>1, FS_Singleton
  <1> QED
    BY <1>1, <1>2

(***************************************************************************)
(* Whoever installs what, the installed directory never mixes two          *)
(* releases, unless a directory resisted deletion.                         *)
(***************************************************************************)
THEOREM ReleasesNeverMix == Spec => []OneRelease
  <1>1. InstallInv => OneRelease
    <2> SUFFICES ASSUME InstallInv, ~warned
                 PROVE  Cardinality({dir["installed"][p] : p \in Parts} \ {None}) <= 1
      BY DEF OneRelease
    <2> DEFINE S == {dir["installed"][p] : p \in Parts} \ {None}
    <2>1. \A x, y \in S : x = y
      BY DEF InstallInv, ReleaseInv
    <2>2. IsFiniteSet(S)
      <3>1. IsFiniteSet({dir["installed"]["launcher"], dir["installed"]["library"]})
        <4>1. IsFiniteSet({dir["installed"]["launcher"]})
          BY FS_Singleton
        <4>2. {dir["installed"]["launcher"], dir["installed"]["library"]}
                = {dir["installed"]["launcher"]} \cup {dir["installed"]["library"]}
          OBVIOUS
        <4> QED
          BY <4>1, <4>2, FS_AddElement
      <3>2. S \subseteq {dir["installed"]["launcher"], dir["installed"]["library"]}
        BY DEF Parts
      <3> QED
        BY <3>1, <3>2, FS_Subset
    <2> QED
      BY <2>1, <2>2, AtMostOne
  <1> QED
    BY InstallInit, InstallNext, <1>1, PTL DEF Spec

-----------------------------------------------------------------------------
\* The four ways to succeed: the tool was there, or is in place now.
Answers(r) == Works' /\ (Answer' = Version(r) \/ berry)

LEMMA SuccessStep ==
    ASSUME InstallInv, [Next]_vars, NEW r \in Runs, Reports(r), tool = "yarn" => ~warned
    PROVE  Answers(r)
  <1>1. pc[r] # "ok" /\ pc'[r] = "ok"
    BY DEF Reports
  <1>2. Skip(r) \/ RootFound(r) \/ RootRenamed(r) \/ Tidy(r)
    <2>1. ASSUME NEW s \in Runs, NEW from, NEW to, Step(s, from, to)
          PROVE  pc'[s] = to /\ \A z \in Runs \ {s} : pc'[z] = pc[z]
      BY <2>1 DEF Step, InstallInv, Shape
    <2>2. CASE Crash
      BY <1>1, <2>2 DEF Crash, Resting
    <2>3. ASSUME NEW s \in Runs, Start(s) PROVE FALSE
      BY <1>1, <2>3 DEF Start, InstallInv, Shape
    <2>4. ASSUME NEW s \in Runs,
                 \/ Lock(s) \/ Refuse(s) \/ Needed(s) \/ Fetched(s) \/ FetchFails(s)
                 \/ ClearEnds(s) \/ Unpacked(s) \/ UnpackTorn(s) \/ UnpackFails(s)
                 \/ RootFails(s) \/ RemoveOld(s) \/ Move(s) \/ SetExecutable(s) \/ ReplaceFails(s)
          PROVE  FALSE
      BY <1>1, <2>1, <2>4
      DEF Lock, Refuse, Needed, Fetched, FetchFails, ClearEnds, Unpacked, UnpackTorn,
          UnpackFails, RootFails, RemoveOld, Move, SetExecutable, ReplaceFails, Return
    <2>5. ASSUME NEW s \in Runs, Skip(s) \/ RootFound(s) \/ RootRenamed(s) \/ Tidy(s) PROVE s = r
      BY <1>1, <2>1, <2>5 DEF Skip, RootFound, RootRenamed, Tidy, Return
    <2> QED
      BY <1>1, <2>2, <2>3, <2>4, <2>5 DEF Next, Install, vars, ClearPart, UnpackPart
  <1> USE DEF InstallInv
  <1>3. CASE Skip(r)
    BY <1>3 DEF Skip, IsAlreadyInstalled, Answers, Works, Answer, PartsOf
  <1>4. ASSUME RootFound(r) \/ RootRenamed(r) PROVE Answers(r)
    <2>1. pc[r] = "root" /\ UNCHANGED tool
      BY <1>4 DEF RootFound, RootRenamed, Return, Step
    <2>2. tool = "yarn" /\ (\A p \in Parts : dir[Root(r)][p] = Version(r)) /\ NothingElse(r)
      BY <2>1 DEF WorkInv, RunInv, StageInv, UnpackedInv
    <2>3. Version(r) # None /\ Version(r) \in Versions
      BY VersionAssumption DEF Version, Shape
    <2>4. \A p \in Parts : dir'["installed"][p] = Version(r)
      <3>1. CASE RootFound(r)
        <4>1. dir["installed"] # Empty /\ dir' = dir
          BY <3>1 DEF RootFound, Exists
        <4>2. PICK p \in Parts : dir["installed"][p] # None
          BY <4>1 DEF Empty, Shape, Dirs
        <4>3. Root(r) = "installed"
          BY <2>1, <2>2, <4>2 DEF NothingElse, Cleared
        <4> QED
          BY <2>2, <4>1, <4>3
      <3>2. CASE RootRenamed(r)
        <4>1. /\ dir["installed"] = Empty
              /\ dir' = [dir EXCEPT !["installed"] = dir[Root(r)], ![Root(r)] = Empty]
          BY <3>2 DEF RootRenamed, Exists
        <4>2. Root(r) # "installed"
          BY <2>2, <2>3, <4>1 DEF Empty, Parts
        <4>3. dir'["installed"] = dir[Root(r)]
          BY <4>1, <4>2 DEF Shape, Dirs
        <4> QED
          BY <2>2, <4>3
      <3> QED
        BY <1>4, <3>1, <3>2
    <2> QED
      BY <2>1, <2>2, <2>3, <2>4 DEF Answers, Works, Answer, PartsOf, Parts
  <1>5. CASE Tidy(r)
    <2>1. pc[r] = "tidy" /\ UNCHANGED <<tool, dir, runnable>>
      BY <1>5 DEF Tidy, Return, Step
    <2>2. tool = "bun" /\ dir["installed"]["launcher"] = Version(r) /\ runnable
      BY <2>1 DEF WorkInv, RunInv, StageInv, UnpackedInv
    <2>3. Version(r) # None
      BY VersionAssumption DEF Version, Shape
    <2> QED
      BY <2>1, <2>2, <2>3 DEF Answers, Works, Answer, PartsOf
  <1> QED
    BY <1>2, <1>3, <1>4, <1>5

(***************************************************************************)
(* Whatever happened before, a goal that succeeds leaves the tool it was   *)
(* asked for, unless a directory of Yarn's resisted deletion.              *)
(***************************************************************************)
THEOREM SuccessesAnswer == Spec => SuccessAnswers
  <1>1. InstallInv /\ [Next]_vars =>
          [\A r \in Runs : Reports(r) /\ (tool = "yarn" => ~warned)
              => Works' /\ (Answer' = Version(r) \/ berry)]_vars
    BY SuccessStep DEF Answers
  <1> QED
    BY InstallInit, InstallNext, <1>1, PTL DEF Spec, SuccessAnswers

-----------------------------------------------------------------------------
\* A run that has the archive of its version, for Bun already unpacked.
Successor(r) ==
    /\ pc[r] \in Steps
    /\ cache[Version(r)] # "absent"
    /\ tool = "bun" => dir["platform"]["launcher"] = Version(r)

LEMMA GivenUpStep ==
    ASSUME InstallInv, [Next]_vars, Works, ~Works'
    PROVE  \E r \in Runs : Successor(r)
  <1> USE DEF InstallInv
  <1>1. UNCHANGED <<tool, dir, runnable>> => FALSE
    BY DEF Works, PartsOf
  <1>2. ASSUME NEW r \in Runs, ClearPart(r) PROVE tool = "yarn" /\ pc[r] = "clear"
    <2>1. pc[r] = "clear" /\ UNCHANGED <<tool, runnable>>
      BY <1>2 DEF ClearPart
    <2>2. CASE tool = "bun"
      <3>1. PICK pd \in Left : dir' = [dir EXCEPT ![pd[2]][pd[1]] = None]
        BY <1>2 DEF ClearPart
      <3>2. pd[2] = "platform"
        BY <2>2 DEF Left, Cleared
      <3>3. dir'["installed"] = dir["installed"]
        BY <3>1, <3>2 DEF Shape, Dirs
      <3> QED
        BY <2>1, <3>3 DEF Works, PartsOf
    <2> QED
      BY <2>1, <2>2 DEF Shape
  <1>3. ASSUME NEW r \in Runs, UnpackPart(r) PROVE FALSE
    <2>1. PICK p \in PartsOf : dir' = [dir EXCEPT ![Root(r)][p] = Version(r)]
      BY <1>3 DEF UnpackPart
    <2>2. /\ p \in Parts /\ Root(r) \in Dirs /\ "installed" \in Dirs
          /\ Version(r) # None /\ PartsOf \subseteq Parts
      BY VersionAssumption DEF PartsOf, Parts, Root, Dirs, Version, Shape
    <2>3. \A q \in PartsOf : dir'["installed"][q] # None
      BY <2>1, <2>2 DEF Works, Shape
    <2> QED
      BY <1>3, <2>3 DEF UnpackPart, Works, PartsOf
  <1>4. ASSUME NEW r \in Runs, UnpackTorn(r) PROVE tool = "yarn" /\ pc[r] = "unpack"
    BY <1>1, <1>4 DEF UnpackTorn, Return, Step, Shape
  <1>5. ASSUME NEW r \in Runs, RootRenamed(r) PROVE FALSE
    <2>1. dir["installed"] = Empty
      BY <1>5 DEF RootRenamed, Exists
    <2> QED
      BY <2>1 DEF Works, Empty, PartsOf, Parts, Shape
  <1>6. ASSUME NEW r \in Runs, RemoveOld(r) \/ Move(r) PROVE Successor(r)
    BY <1>6
    DEF RemoveOld, Move, Step, WorkInv, RunInv, StageInv, UnpackedInv, Obtained, Steps, Successor
  <1>7. ASSUME NEW r \in Runs, SetExecutable(r) PROVE FALSE
    BY <1>7 DEF SetExecutable, Works, PartsOf
  <1>8. ASSUME NEW r \in Runs, tool = "yarn", pc[r] \in {"clear", "unpack"} PROVE Successor(r)
    BY <1>8 DEF WorkInv, RunInv, StageInv, Obtained, Steps, Successor
  <1> QED
    BY <1>1, <1>2, <1>3, <1>4, <1>5, <1>6, <1>7, <1>8
    DEF Next, Install, vars, Crash, Start, Lock, Skip, Refuse, Needed, Fetched, FetchFails,
        ClearEnds, Unpacked, UnpackFails, RootFound, RootFails, ReplaceFails, Tidy

(***************************************************************************)
(* A working install is only given up by a run that has what replaces it,  *)
(* whatever is refused, torn or interrupted.                               *)
(***************************************************************************)
THEOREM GivenUpLate == Spec => GivenUpForAnother
  <1>1. InstallInv /\ [Next]_vars =>
          [Works /\ ~Works' =>
             \E r \in Runs :
                /\ pc[r] \in Steps
                /\ cache[Version(r)] # "absent"
                /\ tool = "bun" => dir["platform"]["launcher"] = Version(r)]_vars
    BY GivenUpStep DEF Successor
  <1> QED
    BY InstallInit, InstallNext, <1>1, PTL DEF Spec, GivenUpForAnother

=============================================================================
