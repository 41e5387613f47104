------------------------- MODULE MCProcessExecutor -------------------------
(***************************************************************************)
(* Instances of ProcessExecutor.  Two pieces on each stream are enough for *)
(* a line in two chunks, two lines in one, a fragment behind a line and a  *)
(* full pipe.                                                              *)
(***************************************************************************)
EXTENDS ProcessExecutor

=============================================================================
