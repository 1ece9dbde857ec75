----------------------------- MODULE MCFlights ------------------------------
(***************************************************************************)
(* Small instances of Flights: two keys and a cache of one completed       *)
(* flight, so that the second key's flight evicts the first's.             *)
(***************************************************************************)
EXTENDS Flights, TLC

CONSTANTS r1, r2, r3, l1, k1, k2, s1, s2, p1, p2

TwoRequests   == {r1, r2}
ThreeRequests == {r1, r2, r3}
OneReleaser   == {l1}
OneKey        == {k1}
TwoKeys       == {k1, k2}
OneSpec       == {s1}
TwoSpecs      == {s1, s2}
OneProvider   == {p1}
TwoProviders  == {p1, p2}
Nothing       == {}

\* For runs in which every provider, or none, may be removed.
Symmetry == Permutations({r1, r2, r3}) \cup Permutations({k1, k2})
            \cup Permutations({s1, s2}) \cup Permutations({p1, p2})
=============================================================================
