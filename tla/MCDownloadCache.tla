-------------------------- MODULE MCDownloadCache --------------------------
(***************************************************************************)
(* Instances of DownloadCache.  Inodes only need to outnumber the builds   *)
(* by one: each build has at most one file open, and the path names one.   *)
(***************************************************************************)
EXTENDS DownloadCache

ASSUME Cardinality(Inodes) > Cardinality(Builds)

=============================================================================
