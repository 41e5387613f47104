------------------------ MODULE GoalLifecycle_proofs ------------------------
(***************************************************************************)
(* Proofs about GoalLifecycle, for every plan of goals of whatever kinds.  *)
(***************************************************************************)
EXTENDS GoalLifecycle, TLAPS

LEMMA PlanFacts ==
    /\ Len(Plan) \in Nat
    /\ DOMAIN Plan = 1 .. Len(Plan)
    /\ \A i \in 1 .. Len(Plan) : Plan[i] \in Goals
    /\ \A g \in Goals : \E i \in 1 .. Len(Plan) : Plan[i] = g
    /\ None \notin Goals
  BY PlanAssumption DEF Goals

LEMMA Inputs == \A g \in Goals : InputsOf(g) \subseteq Files
  BY DEF InputsOf, Files

(***************************************************************************)
(* A goal at work has its turn in a running build; without that, nothing   *)
(* bounds the position it goes on to.                                      *)
(***************************************************************************)
TurnInv ==
    running # None =>
        build = "running" /\ next \in 1 .. Len(Plan) /\ Plan[next] = running

TypeInv == TypeOK /\ TurnInv

LEMMA TypeInit == Init => TypeInv
  BY PlanFacts, Inputs DEF Init, TypeInv, TypeOK, TurnInv

LEMMA TypeNext == TypeInv /\ [Next]_vars => TypeInv'
  <1> SUFFICES ASSUME TypeInv, [Next]_vars PROVE TypeInv'
    OBVIOUS
  <1> USE PlanFacts DEF TypeInv, TypeOK, TurnInv
  <1>1. CASE UNCHANGED vars
    BY <1>1 DEF vars
  <1>2. ASSUME NEW f \in Files, Edit(f) PROVE TypeInv'
    BY <1>2 DEF Edit
  <1>3. CASE BeginBuild
    BY <1>3 DEF BeginBuild
  <1>4. CASE EndBuild
    BY <1>4 DEF EndBuild
  <1>5. ASSUME NEW g \in Goals, Skip(g) PROVE TypeInv'
    BY <1>5 DEF Skip, Turn
  <1>6. ASSUME NEW g \in Goals, StandDown(g) PROVE TypeInv'
    BY <1>6 DEF StandDown, Turn
  <1>7. ASSUME NEW g \in Goals, StartTool(g) PROVE TypeInv'
    BY <1>7 DEF StartTool, Turn
  <1>8. ASSUME NEW g \in Goals, ToolSucceeds(g) PROVE TypeInv'
    BY <1>8 DEF ToolSucceeds
  <1>9. ASSUME NEW g \in Goals, ToolFails(g) PROVE TypeInv'
    BY <1>9 DEF ToolFails, Owe
  <1>10. ASSUME NEW g \in Goals, FailureIgnored(g) PROVE TypeInv'
    BY <1>10 DEF FailureIgnored, Owe
  <1> QED
    BY <1>1, <1>2, <1>3, <1>4, <1>5, <1>6, <1>7, <1>8, <1>9, <1>10 DEF Next, Execute

(***************************************************************************)
(* The type of every variable, for every plan.                             *)
(***************************************************************************)
THEOREM TypeCorrect == Spec => []TypeOK
  <1>1. TypeInv => TypeOK
    BY DEF TypeInv
  <1> QED
    BY TypeInit, TypeNext, <1>1, PTL DEF Spec

-----------------------------------------------------------------------------
(***************************************************************************)
(* While a goal is at work, what of its inputs changed since it began is   *)
(* pending, and what it was started for is a change of the build: the      *)
(* first is what remains due if it succeeds, the second if it fails.  Only *)
(* its inputs are ever due to a goal, so that one that stands down has     *)
(* nothing due among the changes of the build.                             *)
(***************************************************************************)
AtWorkInv ==
    running # None =>
        /\ due[running] \subseteq pending
        /\ reading \ excused[running] \subseteq pending \cup delta
        /\ reading \subseteq InputsOf(running)

DueInv == \A g \in Goals : due[g] \subseteq InputsOf(g)

ChangesInv == AtWorkInv /\ DueInv /\ NothingOverlooked

LEMMA ChangesInit == Init => ChangesInv
  BY PlanFacts, Inputs DEF Init, ChangesInv, AtWorkInv, DueInv, NothingOverlooked

LEMMA NothingDueStandsDown ==
    ASSUME NEW g \in Goals, DueInv, StandsDown(g)
    PROVE  due[g] \cap delta = {}
  BY KindAssumption DEF DueInv, StandsDown, PackageJSONUnchanged, ShouldExecute, InputsOf

LEMMA ChangesNext == TypeInv /\ TypeInv' /\ ChangesInv /\ [Next]_vars => ChangesInv'
  <1> SUFFICES ASSUME TypeInv, TypeInv', ChangesInv, [Next]_vars PROVE ChangesInv'
    OBVIOUS
  <1> USE PlanFacts DEF TypeInv, TypeOK, TurnInv, ChangesInv, AtWorkInv, DueInv,
                        NothingOverlooked, ToCome
  <1>1. CASE UNCHANGED vars
    BY <1>1 DEF vars
  <1>2. ASSUME NEW f \in Files, Edit(f) PROVE ChangesInv'
    BY <1>2 DEF Edit
  <1>3. CASE BeginBuild
    BY <1>3 DEF BeginBuild
  <1>4. CASE EndBuild
    BY <1>4 DEF EndBuild
  <1>5. ASSUME NEW g \in Goals, Skip(g) PROVE ChangesInv'
    BY <1>5 DEF Skip, Turn
  <1>6. ASSUME NEW g \in Goals, StandDown(g) PROVE ChangesInv'
    BY <1>6, NothingDueStandsDown DEF StandDown, Turn
  <1>7. ASSUME NEW g \in Goals, StartTool(g) PROVE ChangesInv'
    BY <1>7 DEF StartTool, Turn
  <1>8. ASSUME NEW g \in Goals, ToolSucceeds(g) PROVE ChangesInv'
    BY <1>8 DEF ToolSucceeds
  <1>9. ASSUME NEW g \in Goals, ToolFails(g) PROVE ChangesInv'
    BY <1>9 DEF ToolFails, Owe
  <1>10. ASSUME NEW g \in Goals, FailureIgnored(g) PROVE ChangesInv'
    BY <1>10 DEF FailureIgnored, Owe
  <1> QED
    BY <1>1, <1>2, <1>3, <1>4, <1>5, <1>6, <1>7, <1>8, <1>9, <1>10 DEF Next, Execute

(***************************************************************************)
(* No change is overlooked by the incremental builds of any plan: what is  *)
(* due to a goal the host will still report to it.                         *)
(***************************************************************************)
THEOREM ChangesAreSeen == Spec => []NothingOverlooked
  <1>1. ChangesInv => NothingOverlooked
    BY DEF ChangesInv
  <1> QED
    BY TypeInit, TypeNext, ChangesInit, ChangesNext, <1>1, PTL DEF Spec

-----------------------------------------------------------------------------
(***************************************************************************)
(* GreenIsHonest, already while the build runs; a goal at work may have    *)
(* output the host has not been told of, also in its second execution.     *)
(***************************************************************************)
HonestInv ==
    \A g \in Goals :
        /\ outcome[g] = "failed" /\ build # "failed" =>
             g \notin Installs /\ session.testFailureIgnore /\ session.testing
        /\ outcome[g] = "ok" => g \notin unseen \/ running = g

LEMMA HonestInit == Init => HonestInv
  BY DEF Init, HonestInv

LEMMA HonestNext == TypeInv /\ HonestInv /\ [Next]_vars => HonestInv'
  <1> SUFFICES ASSUME TypeInv, HonestInv, [Next]_vars PROVE HonestInv'
    OBVIOUS
  <1> USE PlanFacts DEF TypeInv, TypeOK, TurnInv, HonestInv
  <1>1. CASE UNCHANGED vars
    BY <1>1 DEF vars
  <1>2. ASSUME NEW f \in Files, Edit(f) PROVE HonestInv'
    BY <1>2 DEF Edit
  <1>3. CASE BeginBuild
    BY <1>3 DEF BeginBuild
  <1>4. CASE EndBuild
    BY <1>4 DEF EndBuild
  <1>5. ASSUME NEW g \in Goals, Skip(g) \/ StandDown(g) \/ StartTool(g)
        PROVE  HonestInv'
    BY <1>5 DEF Skip, StandDown, StartTool, Turn
  <1>6. ASSUME NEW g \in Goals, ToolSucceeds(g) PROVE HonestInv'
    BY <1>6 DEF ToolSucceeds
  <1>7. ASSUME NEW g \in Goals, ToolFails(g) PROVE HonestInv'
    BY <1>7 DEF ToolFails
  <1>8. ASSUME NEW g \in Goals, FailureIgnored(g) PROVE HonestInv'
    BY <1>8 DEF FailureIgnored, MayIgnore
  <1> QED
    BY <1>1, <1>2, <1>3, <1>4, <1>5, <1>6, <1>7, <1>8 DEF Next, Execute

(***************************************************************************)
(* A build of any plan ends well only if nothing failed in it but tasks    *)
(* whose failure is ignored in a testing phase, and the host knows the     *)
(* output of those that succeeded.                                         *)
(***************************************************************************)
THEOREM GreenBuilds == Spec => []GreenIsHonest
  <1>1. TypeInv /\ HonestInv => GreenIsHonest
    BY PlanFacts DEF TypeInv, TurnInv, HonestInv, GreenIsHonest
  <1> QED
    BY TypeInit, TypeNext, HonestInit, HonestNext, <1>1, PTL DEF Spec

=============================================================================
