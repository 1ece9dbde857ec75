-------------------------------- MODULE MCE2B --------------------------------
(***************************************************************************)
(* Small instances of E2B.                                                 *)
(***************************************************************************)
EXTENDS E2B, TLC

CONSTANTS s1, s2

TwoSpecs == {s1, s2}

\* With the first a create is whole, and a late one unmarked; with the second it is
\* extended, and a late one shows.
ShortAndLong == {1, 4}
Symmetry == Permutations(TwoSpecs)
=============================================================================
