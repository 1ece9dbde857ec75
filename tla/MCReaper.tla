------------------------------- MODULE MCReaper --------------------------------
(***************************************************************************)
(* Small instances of Reaper: four keys on three pages of one.  The first  *)
(* two cannot be deleted, which is as many as a pass may delete.           *)
(***************************************************************************)
EXTENDS Reaper, TLC

FirstKeys == {1, 2}
=============================================================================
