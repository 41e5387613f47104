--------------------------- MODULE MCGoalLifecycle ---------------------------
(***************************************************************************)
(* An instance of GoalLifecycle: a build that installs Node.js and npm,    *)
(* then packages, and then bundles what a source directory holds.          *)
(***************************************************************************)
EXTENDS GoalLifecycle

MCPlan == <<"install", "npm", "webpack">>

=============================================================================
