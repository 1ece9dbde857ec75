----------------------------- MODULE WarmCounter -----------------------------
(***************************************************************************)
(* What a provider's reservation ledger promises, without its ring, its    *)
(* carry word or its threads: a number of warm sandboxes the last report   *)
(* showed and a number of reservations outstanding against it.  A          *)
(* reservation is granted only while one is left, every reservation is     *)
(* undone or accounted for at most once, and the count never goes below    *)
(* zero.  Ledger implements this specification.                            *)
(***************************************************************************)
EXTENDS Naturals

CONSTANT MaxWord    \* largest value of one half of the packed state word

VARIABLES warm,     \* warm sandboxes shown by the last report
          out       \* reservations outstanding against it

vars == <<warm, out>>

TypeOK == warm \in 0..MaxWord /\ out \in 0..MaxWord

Init == warm = 0 /\ out = 0

\* A placement claims one warm sandbox that is not yet reserved.
Claim == out < warm /\ out' = out + 1 /\ UNCHANGED warm

\* A failed claim gives one reservation back.
Undo == out > 0 /\ out' = out - 1 /\ UNCHANGED warm

\* A report changes the capacity and leaves the reservations alone.
ReportWarm == warm' \in 0..MaxWord /\ UNCHANGED out

\* A report accounts for some of the outstanding reservations.
Account == out' \in 0..out /\ UNCHANGED warm

Next == Claim \/ Undo \/ ReportWarm \/ Account

Spec == Init /\ [][Next]_vars
=============================================================================
