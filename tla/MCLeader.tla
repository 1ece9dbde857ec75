------------------------------- MODULE MCLeader --------------------------------
(***************************************************************************)
(* Small instances of Leader: a provider whose timeout is the default one, *)
(* or longer, and changes.                                                 *)
(***************************************************************************)
EXTENDS Leader

CONSTANTS r1, r2, slow

TwoReplicas == {r1, r2}
OneProvider == {slow}
=============================================================================
