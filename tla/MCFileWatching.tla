---------------------------- MODULE MCFileWatching ----------------------------
(***************************************************************************)
(* An instance of FileWatching for TLC: a front end that watches twice.    *)
(* Its clients, one for each connection, share watchers as those of two    *)
(* front ends do.                                                          *)
(***************************************************************************)
EXTENDS FileWatching, TLC

CONSTANTS f, i, j

MCOwner == i :> f @@ j :> f
=============================================================================
