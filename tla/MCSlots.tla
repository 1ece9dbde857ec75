------------------------------- MODULE MCSlots ---------------------------------
(***************************************************************************)
(* Small instances of Slots: three retries, of which one has a sandbox.    *)
(***************************************************************************)
EXTENDS Slots, TLC

CONSTANTS c1, c2, c3

ThreeCallers == {c1, c2, c3}
OneHeld      == {c1}
=============================================================================
