--------------------------- MODULE MCDistInstaller ---------------------------
(***************************************************************************)
(* Instances of DistInstaller: two goals that share a process and want one *)
(* of two versions, of which one has an archive with "dist" itself.        *)
(***************************************************************************)
EXTENDS DistInstaller

MCVersions == {"1", "2"}

=============================================================================
