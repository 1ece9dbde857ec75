------------------------------ MODULE MCClaim -------------------------------
(***************************************************************************)
(* Small instances of Claim.                                               *)
(***************************************************************************)
EXTENDS Claim, TLC

CONSTANTS f1, f2, p1, p2

TwoFlights   == {f1, f2}
TwoProviders == {p1, p2}
FirstFlight  == {f1}

\* One provider is still deleting an older sandbox of either key, and the
\* other has a sandbox of another spec under the first one.
MCBoxes ==
    {[f \in TwoFlights |-> [p \in TwoProviders |->
        IF p = q THEN "dying" ELSE IF f = f1 THEN "other" ELSE "none"]] :
            q \in TwoProviders}

Symmetry == Permutations(TwoProviders)
=============================================================================
