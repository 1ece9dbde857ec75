----------------------------- MODULE MCRegistry ------------------------------
(***************************************************************************)
(* Small instances of Registry.                                            *)
(***************************************************************************)
EXTENDS Registry, TLC

CONSTANTS p1, p2, c1, c2

OneProvider  == {p1}
TwoProviders == {p1, p2}
TwoCallers   == {c1, c2}
Faster       == {1}
\* Bound on what comes together: later seconds with fewer generations, lost
\* reservations and shorter intervals.
Budget ==
    /\ clock + lastGen
         + Cardinality({p \in Providers : sources[p].interval # Default}) <= 4
    /\ \A p \in Providers : clock + strays[p] <= IF lastGen = 2 THEN 2 ELSE 3
Symmetry     == Permutations(TwoCallers)
=============================================================================
