------------------------------- MODULE Ledger -------------------------------
(***************************************************************************)
(* The lock-free reservation ledger of one provider                        *)
(* (pkg/registry/ledger.go).  Callers reserve and release warm sandboxes;  *)
(* one poller at a time (it holds the registry's lock) records a report    *)
(* and drops the reservations the report accounts for.                     *)
(*                                                                         *)
(* An action is one atomic step on one shared word.  A load followed by a  *)
(* compare-and-swap loop on one word is one action: the swap succeeds only *)
(* on the value the decision was made from.  Seconds are not tied to a     *)
(* clock: a caller may have read the time long before the step that uses   *)
(* it, and the clock may have been stepped back in between.                *)
(***************************************************************************)
EXTENDS Integers, FiniteSets

CONSTANTS NumCallers,    \* goroutines that reserve and release
          RingSize,      \* buckets of the reservation ring
          Seconds,       \* seconds a caller may read from its clock
          Cutoffs,       \* cutoffs a report may come with
          Reports,       \* warm capacities a report may show
          MaxWord,       \* largest value of a 32-bit half of a word
          Ticketless     \* whether callers may also release without a ticket

ASSUME LedgerAssumption ==
    /\ NumCallers \in Nat \ {0}
    /\ RingSize \in Nat \ {0}
    /\ MaxWord \in Nat \ {0}
    /\ Seconds \subseteq 0..MaxWord
    /\ Cutoffs \subseteq 0..MaxWord
    /\ Reports \subseteq Int
    /\ Ticketless \in BOOLEAN

VARIABLES
    state,        \* [warm, out]: capacity reported, reservations outstanding
    ring,         \* bucket -> [sec, count]
    carry,        \* [sec, count] of reservations whose bucket was reused
    clearedSec,   \* latest cutoff passed to clearBefore
    pc,           \* caller -> where it is
    ticket,       \* caller -> second of its reservation
    hand,         \* caller -> [sec, count] between two words
    scan,         \* caller -> buckets takeOne has passed
    poller        \* where the poller is: [at, cutoff, slot, freed]

vars == <<state, ring, carry, clearedSec, pc, ticket, hand, scan, poller>>

Callers == 1..NumCallers
Slots   == 0..(RingSize - 1)
Half    == 0..MaxWord
Word    == [sec : Half, count : Half]
Empty   == [sec |-> 0, count |-> 0]

-----------------------------------------------------------------------------
(* Arithmetic on uint32 halves, and the functions of one bucket word.      *)

Plus(a, b)  == IF a + b <= MaxWord THEN a + b ELSE a + b - (MaxWord + 1)
Minus(a, b) == IF a >= b THEN a - b ELSE a - b + (MaxWord + 1)

\* Seeded fault: a negative capacity is kept as it is.
ClampNoFloor(n) == IF n > MaxWord THEN MaxWord ELSE n

\* setWarm's conversion of the reported int.
Clamp(n) == IF n < 0 THEN 0 ELSE IF n > MaxWord THEN MaxWord ELSE n

SlotOf(s) == s % RingSize

\* ring.add: the bucket afterwards, and what it could not keep.
Added(w, s) ==
    IF w.sec = s THEN [w EXCEPT !.count = Plus(@, 1)]
    ELSE IF w.sec > s THEN w
    ELSE [sec |-> s, count |-> 1]

\* Seeded fault: a bucket that is reused forgets what it held.
SpilledForgetful(w, s) ==
    IF w.sec > s THEN [sec |-> s, count |-> 1] ELSE Empty

Spilled(w, s) ==
    IF w.sec = s THEN Empty
    ELSE IF w.sec > s THEN [sec |-> s, count |-> 1]
    ELSE w

\* Seeded fault: the last count of a word can be taken again and again.
TakenKeepsLast(w) == IF w.count > 1 THEN [w EXCEPT !.count = @ - 1] ELSE w

\* One count less; an emptied word is all zero, its second too.
Taken(w) == IF w.count > 1 THEN [w EXCEPT !.count = @ - 1] ELSE Empty

\* addCarry: the counts add up under the later of the two seconds.
Merged(w, h) == [sec   |-> IF h.sec > w.sec THEN h.sec ELSE w.sec,
                 count |-> Plus(w.count, h.count)]

Droppable(w, cutoff) == w.count > 0 /\ w.sec < cutoff

-----------------------------------------------------------------------------
Idle == [at |-> "idle", cutoff |-> 0, slot |-> 0, freed |-> 0]

Init ==
    /\ state = [warm |-> 0, out |-> 0]
    /\ ring = [i \in Slots |-> Empty]
    /\ carry = Empty
    /\ clearedSec = 0
    /\ pc = [c \in Callers |-> "idle"]
    /\ ticket = [c \in Callers |-> 0]
    /\ hand = [c \in Callers |-> Empty]
    /\ scan = [c \in Callers |-> 0]
    /\ poller = Idle

Goto(c, to) == pc' = [pc EXCEPT ![c] = to]

\* A caller that goes back to idle drops its ticket.
Reset(c) == /\ Goto(c, "idle")
            /\ ticket' = [ticket EXCEPT ![c] = 0]
            /\ scan' = [scan EXCEPT ![c] = 0]

-----------------------------------------------------------------------------
(* tryReserve: the swap on state, then record, then perhaps addCarry.      *)

\* Seeded fault: one reservation more than the report shows warm.
CanReserveOneMore == state.out <= state.warm

CanReserve == state.out < state.warm

Reserve(c, now) ==
    /\ pc[c] = "idle"
    /\ CanReserve
    /\ state' = [state EXCEPT !.out = Plus(@, 1)]
    /\ ticket' = [ticket EXCEPT ![c] = now]
    /\ hand' = [hand EXCEPT ![c] = [sec |-> now, count |-> 1]]
    /\ Goto(c, "record")
    /\ UNCHANGED <<ring, carry, clearedSec, scan, poller>>

Record(c) ==
    LET i == SlotOf(ticket[c])
        spill == Spilled(ring[i], ticket[c])
    IN  /\ pc[c] = "record"
        /\ ring' = [ring EXCEPT ![i] = Added(@, ticket[c])]
        /\ IF spill.count > 0
           THEN /\ hand' = [hand EXCEPT ![c] = spill]
                /\ Goto(c, "carry")
           ELSE /\ hand' = [hand EXCEPT ![c] = Empty]
                /\ Goto(c, "held")
        /\ UNCHANGED <<state, carry, clearedSec, ticket, scan, poller>>

AddCarry(c) ==
    /\ pc[c] = "carry"
    /\ carry' = Merged(carry, hand[c])
    /\ hand' = [hand EXCEPT ![c] = Empty]
    /\ Goto(c, "held")
    /\ UNCHANGED <<state, ring, clearedSec, ticket, scan, poller>>

\* The claim took a sandbox, or may have: the reservation stays until a
\* report accounts for it and the ticket is dropped.
Keep(c) ==
    /\ pc[c] = "held"
    /\ Reset(c)
    /\ UNCHANGED <<state, ring, carry, clearedSec, hand, poller>>

-----------------------------------------------------------------------------
(* releaseAt: takeAt, then the test of clearedSec, then takeFromCarryAt,   *)
(* then decrementState.                                                    *)

ReleaseAt(c) ==
    LET i == SlotOf(ticket[c])
    IN  /\ pc[c] = "held"
        /\ IF ring[i].count > 0 /\ ring[i].sec = ticket[c]
           THEN /\ ring' = [ring EXCEPT ![i] = Taken(@)]
                /\ hand' = [hand EXCEPT ![c] = [sec |-> 0, count |-> 1]]
                /\ Goto(c, "decrement")
           ELSE /\ Goto(c, "test")
                /\ UNCHANGED <<ring, hand>>
        /\ UNCHANGED <<state, carry, clearedSec, ticket, scan, poller>>

TestCleared(c) ==
    /\ pc[c] = "test"
    /\ IF ticket[c] < clearedSec
       THEN Reset(c)
       ELSE Goto(c, "takeCarry") /\ UNCHANGED <<ticket, scan>>
    /\ UNCHANGED <<state, ring, carry, clearedSec, hand, poller>>

TakeFromCarry(c, minSec) ==
    /\ IF carry.count > 0 /\ carry.sec >= minSec
       THEN /\ carry' = Taken(carry)
            /\ hand' = [hand EXCEPT ![c] = [sec |-> 0, count |-> 1]]
            /\ Goto(c, "decrement")
            /\ UNCHANGED <<ticket, scan>>
       ELSE Reset(c) /\ UNCHANGED <<carry, hand>>
    /\ UNCHANGED <<state, ring, clearedSec, poller>>

TakeCarryAt(c) == pc[c] = "takeCarry" /\ TakeFromCarry(c, ticket[c])

Decrement(c) ==
    /\ pc[c] = "decrement"
    /\ state' = IF state.out = 0 THEN state ELSE [state EXCEPT !.out = @ - 1]
    /\ hand' = [hand EXCEPT ![c] = Empty]
    /\ Reset(c)
    /\ UNCHANGED <<ring, carry, clearedSec, poller>>

-----------------------------------------------------------------------------
(* release, without a ticket: takeOne walks the ring back from now, one    *)
(* bucket per step, then takeFromCarryAt(0).                               *)

Release(c, now) ==
    /\ Ticketless
    /\ pc[c] = "held"
    /\ Goto(c, "scan")
    /\ ticket' = [ticket EXCEPT ![c] = now]
    /\ UNCHANGED <<state, ring, carry, clearedSec, hand, scan, poller>>

TakeOne(c) ==
    LET i == SlotOf(ticket[c] + RingSize - scan[c])
    IN  /\ pc[c] = "scan"
        /\ scan[c] < RingSize
        /\ IF ring[i].count > 0
           THEN /\ ring' = [ring EXCEPT ![i] = Taken(@)]
                /\ hand' = [hand EXCEPT ![c] = [sec |-> 0, count |-> 1]]
                /\ Goto(c, "decrement")
                /\ UNCHANGED scan
           ELSE /\ scan' = [scan EXCEPT ![c] = @ + 1]
                /\ UNCHANGED <<ring, hand, pc>>
        /\ UNCHANGED <<state, carry, clearedSec, ticket, poller>>

TakeCarryAny(c) ==
    /\ pc[c] = "scan"
    /\ scan[c] = RingSize
    /\ TakeFromCarry(c, 0)

-----------------------------------------------------------------------------
(* setReport: setWarm, then clearBefore's walk over the words.             *)

SetWarm(n, cutoff) ==
    /\ poller.at = "idle"
    /\ state' = [state EXCEPT !.warm = Clamp(n)]
    /\ poller' = [Idle EXCEPT !.at = "raise", !.cutoff = cutoff]
    /\ UNCHANGED <<ring, carry, clearedSec, pc, ticket, hand, scan>>

RaiseCleared ==
    /\ poller.at = "raise"
    /\ clearedSec' = IF poller.cutoff > clearedSec THEN poller.cutoff
                                                   ELSE clearedSec
    /\ poller' = [poller EXCEPT !.at = "drop"]
    /\ UNCHANGED <<state, ring, carry, pc, ticket, hand, scan>>

DropBucket ==
    LET i == poller.slot
    IN  /\ poller.at = "drop"
        /\ i < RingSize
        /\ IF Droppable(ring[i], poller.cutoff)
           THEN /\ ring' = [ring EXCEPT ![i] = Empty]
                /\ poller' = [poller EXCEPT !.slot = @ + 1,
                                !.freed = Plus(@, ring[i].count)]
           ELSE /\ poller' = [poller EXCEPT !.slot = @ + 1]
                /\ UNCHANGED ring
        /\ UNCHANGED <<state, carry, clearedSec, pc, ticket, hand, scan>>

\* Seeded fault: the carry word is never dropped.
DropCarrySkipped ==
    /\ poller.at = "drop"
    /\ poller.slot = RingSize
    /\ poller' = [poller EXCEPT !.at = "free"]
    /\ UNCHANGED <<state, ring, carry, clearedSec, pc, ticket, hand, scan>>

DropCarry ==
    /\ poller.at = "drop"
    /\ poller.slot = RingSize
    /\ IF Droppable(carry, poller.cutoff)
       THEN /\ carry' = Empty
            /\ poller' = [poller EXCEPT !.at = "free",
                            !.freed = Plus(@, carry.count)]
       ELSE /\ poller' = [poller EXCEPT !.at = "free"]
            /\ UNCHANGED carry
    /\ UNCHANGED <<state, ring, clearedSec, pc, ticket, hand, scan>>

\* The subtraction is unchecked in the code: below zero it would wrap.
SubtractFreed ==
    /\ poller.at = "free"
    /\ state' = [state EXCEPT !.out = Minus(@, poller.freed)]
    /\ poller' = Idle
    /\ UNCHANGED <<ring, carry, clearedSec, pc, ticket, hand, scan>>

-----------------------------------------------------------------------------
\* What a caller does once it has a reservation; none of it waits for anyone.
Finish(c) ==
    \/ Record(c) \/ AddCarry(c) \/ Keep(c)
    \/ ReleaseAt(c) \/ TestCleared(c) \/ TakeCarryAt(c) \/ Decrement(c)
    \/ \E now \in Seconds : Release(c, now)
    \/ TakeOne(c) \/ TakeCarryAny(c)

Poll(n, cutoff) == SetWarm(n, cutoff)

PollerStep == RaiseCleared \/ DropBucket \/ DropCarry \/ SubtractFreed

Next ==
    \/ \E c \in Callers, now \in Seconds : Reserve(c, now)
    \/ \E c \in Callers : Finish(c)
    \/ \E n \in Reports, cutoff \in Cutoffs : Poll(n, cutoff)
    \/ PollerStep

Spec == Init /\ [][Next]_vars

\* A claim attempt always ends, and so does a poll; polls keep succeeding and
\* their cutoffs pass every second a reservation was made in.
LatestPoll == \E n \in Reports, cutoff \in Cutoffs :
    (\A s \in Seconds : s < cutoff) /\ Poll(n, cutoff)

Fairness == /\ \A c \in Callers : WF_vars(Finish(c))
            /\ WF_vars(PollerStep)
            /\ SF_vars(LatestPoll)

FairSpec == Spec /\ Fairness

-----------------------------------------------------------------------------
TypeOK ==
    /\ state \in [warm : Half, out : Half]
    /\ ring \in [Slots -> Word]
    /\ carry \in Word
    /\ clearedSec \in Half
    /\ pc \in [Callers -> {"idle", "record", "carry", "held", "test",
                           "takeCarry", "scan", "decrement"}]
    /\ ticket \in [Callers -> Half]
    /\ hand \in [Callers -> Word]
    /\ scan \in [Callers -> 0..RingSize]
    /\ poller \in [at : {"idle", "raise", "drop", "free"}, cutoff : Half,
                   slot : 0..RingSize, freed : Half]

\* Every place a reservation can be counted in, outside the state word: the
\* buckets, carry, the poller's freed, and what each caller holds in its hand.
NumCells == RingSize + 2 + NumCallers
Count(i) == IF i < RingSize THEN ring[i].count
            ELSE IF i = RingSize THEN carry.count
            ELSE IF i = RingSize + 1 THEN poller.freed
            ELSE hand[i - RingSize - 1].count

\* The reservations counted there, one by one.
Counted == UNION {{i} \X (1..Count(i)) : i \in 0..(NumCells - 1)}

\* ledger.go:24-27 and 333: the count in the state word is raised before a
\* bucket and lowered after one, so it is at any moment exactly the sum of
\* everything still counted somewhere; no interleaving of reservations,
\* releases, reused buckets and polls counts one twice or drops one.
Accounting == state.out = Cardinality(Counted)

\* ledger.go:243 and 333, "never below zero: every count in a bucket was first
\* added here": the poller's unchecked subtraction never wraps, and a release
\* that took a count always finds one to give back.
NoUnderflow ==
    /\ poller.at = "free" => poller.freed <= state.out
    /\ \A c \in Callers : pc[c] = "decrement" => state.out > 0

\* Does not hold (README, section 4). ledger.go:24-27 and 41-44, "between the two
\* it can only overstate reservations": as many are outstanding as there are callers holding a
\* ticket of a second no cutoff has passed.
Holding == {c \in Callers : pc[c] \in {"record", "carry", "held"}
                            /\ ticket[c] >= clearedSec}
NeverUnderstates == Cardinality(Holding) <= state.out

\* registry.go:374-392: the ledger is a reservation counter; see WarmCounter.
Counter == INSTANCE WarmCounter WITH warm <- state.warm, out <- state.out
ImplementsCounter == Counter!Spec

\* registry.go:385-392: nothing leaks. Once callers stop, polls that keep
\* succeeding account for every reservation, wherever it was counted, those
\* of buckets reused and those left behind by a release that lost its race.
Quiet == \A c \in Callers : pc[c] = "idle"
NothingLeaks == []<>(Quiet => state.out = 0)

=============================================================================
