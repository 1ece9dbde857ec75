------------------------------ MODULE MCLedger ------------------------------
(***************************************************************************)
(* Small instances of Ledger: a ring of two buckets over three seconds, so *)
(* that seconds 0 and 2 share a bucket and reservations reach carry; words *)
(* of two bits, so that a wrapped count shows; a report that is negative   *)
(* and one that is not.                                                    *)
(***************************************************************************)
EXTENDS Ledger

MCSeconds == 0..2
MCCutoffs == {1, 3}
MCReports == {-1, 2}

\* For three callers in which NeverUnderstates fails (README, section 4).
RaceSeconds == 0..3
RaceCutoffs == {1}
RaceReports == {3}
=============================================================================
