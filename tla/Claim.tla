-------------------------------- MODULE Claim --------------------------------
(***************************************************************************)
(* The claim loop (pkg/binder/binder.go, claimLoop to callLookupNoSlot)    *)
(* with the slots it takes (pkg/binder/slots.go) and the shutdown it must  *)
(* respect: several flights place their sandboxes on providers that        *)
(* refuse, conflict, are busy deleting, or answer nothing at all.          *)
(*                                                                         *)
(* The provider a decision chooses, and whether there is one, is open:     *)
(* filters, scores, health, refusals, cooldowns and a pinned provider only *)
(* narrow the choice.  So are the moments at which a deadline passes, a    *)
(* client leaves or a rate limit refuses, and whether a warm reservation   *)
(* wins its race (module Registry and module Ledger have the counting).    *)
(* A flight's key has at most one object per provider, its box; a create   *)
(* lands before the provider answers a later lookup, or never.             *)
(***************************************************************************)
EXTENDS Integers, FiniteSets

CONSTANTS Flights, Providers,
          WarmOnly,      \* flights whose request asks for a warm sandbox
          Limit,         \* maxInFlight: slots of a provider
          MaxSpill,      \* maxSpill
          InitBoxes      \* what flights' keys may have at the providers

ASSUME ClaimAssumption ==
    /\ WarmOnly \subseteq Flights
    /\ {Limit, MaxSpill} \subseteq Nat \ {0}
    \* A key that may have a sandbox of its own is looked up first (module Flights).
    /\ InitBoxes \subseteq [Flights -> [Providers -> {"none", "other", "dying"}]]

VARIABLES
    flight,     \* flight -> its place in the loop and the loop's variables
    box,        \* flight -> provider -> what is there under its key
    inUse,      \* provider -> slotLimiter.inFlight
    reserved,   \* provider -> warm reservations not released
    closing,    \* Binder.closing
    active,     \* Binder.activeAttempts
    closes      \* times shutdownDone was closed

vars == <<flight, box, inUse, reserved, closing, active, closes>>

shutdown == <<closing, active, closes>>
outside  == <<box, inUse, reserved, shutdown>>

Boxes    == {"none", "mine", "other", "dying"}
Refusals == {"nocap", "unavail", "refused"}    \* refused: Busy or Rejected
\* An answer other than a sandbox or a doubt (504) says that the claim failed.
Answers  == {"ok", "failed", "unknown"}

\* What a provider may answer to a claim, and what it leaves under the key.
\* A lost answer says nothing of whether the create was done.
Outcomes(b) ==
    {<<k, b>> : k \in Refusals \cup {"unknown"}} \cup
    CASE b \in {"none", "mine"} -> {"ok", "unknown"} \X {"mine"}
      [] b = "other"            -> {<<"conflict", b>>}
      [] b = "dying"            -> {<<"keybusy", b>>}

-----------------------------------------------------------------------------
\* mode: "first" attempt; "busy" while the key is busy here; "probe" and
\* "last" while the outcome is unknown, with and without leave to spill.
NewFlight == [at |-> "decide", on |-> "nowhere", mode |-> "first",
              ticket |-> FALSE, tried |-> {}, full |-> {}, waited |-> FALSE,
              left |-> {}, woken |-> FALSE, kept |-> {}, told |-> {},
              answer |-> "none"]

Init ==
    /\ flight = [f \in Flights |-> NewFlight]
    /\ box \in InitBoxes
    /\ inUse = [p \in Providers |-> 0]
    /\ reserved = [p \in Providers |-> 0]
    /\ closing = FALSE
    /\ active = 0
    /\ closes = 0

At(f, s) == flight[f].at = s
On(f)    == flight[f].on

\* The attempt is over: its slot goes back, then the loop goes on or answers.
Leave(c, answer) == [c EXCEPT !.at = "leave", !.answer = answer]
Done(c)          == [c EXCEPT !.at = "done", !.tried = {}, !.full = {},
                              !.waited = FALSE, !.woken = FALSE, !.told = {},
                              !.on = IF c.answer = "failed" THEN "nowhere" ELSE @]
Answer(c, answer) == Done([c EXCEPT !.answer = answer])
Again(c)          == [c EXCEPT !.at = "decide", !.on = "nowhere", !.mode = "first"]

Become(f, c) == flight' = [flight EXCEPT ![f] = c]
Goes(f, s)   == Become(f, [flight[f] EXCEPT !.at = s])

-----------------------------------------------------------------------------
(* claimLoop: decide, take a slot, or wait for one. *)

MoreSpills(f) == Cardinality(flight[f].tried) < MaxSpill

Chosen(f, p) ==
    /\ At(f, "decide")
    /\ MoreSpills(f)
    /\ p \notin flight[f].tried \cup flight[f].full

Acquire(f, p) ==
    /\ Chosen(f, p)
    /\ inUse[p] < Limit
    /\ inUse' = [inUse EXCEPT ![p] = @ + 1]
    /\ Become(f, [flight[f] EXCEPT !.at = "reserve", !.on = p])
    /\ UNCHANGED <<box, reserved, shutdown>>

SlotsFull(f, p) ==
    /\ Chosen(f, p)
    /\ inUse[p] = Limit
    /\ Become(f, [flight[f] EXCEPT !.full = @ \cup {p}])
    /\ UNCHANGED outside

WaitForSlot(f) ==
    /\ At(f, "decide")
    /\ MoreSpills(f)
    /\ flight[f].full # {}
    /\ ~flight[f].waited
    /\ Become(f, [flight[f] EXCEPT !.at = "check", !.waited = TRUE,
                                   !.left = flight[f].full])
    /\ UNCHANGED outside

\* No candidate is left, too many were tried, none has rate left, or the
\* deadline has passed.
Exhausted(f) ==
    /\ At(f, "decide")
    /\ Become(f, Answer(flight[f], "failed"))
    /\ UNCHANGED outside

\* waitAny: each limiter is tested, then each one's signal is fetched.
Opened(c) == [c EXCEPT !.at = "decide", !.full = {}, !.left = {}, !.woken = FALSE]

CheckOpen(f, p) ==
    /\ At(f, "check")
    /\ p \in flight[f].left
    /\ inUse[p] < Limit
    /\ Become(f, Opened(flight[f]))
    /\ UNCHANGED outside

CheckFull(f, p) ==
    /\ At(f, "check")
    /\ p \in flight[f].left
    /\ inUse[p] = Limit
    /\ Become(f, IF flight[f].left = {p}
                 THEN [flight[f] EXCEPT !.at = "subscribe", !.left = flight[f].full]
                 ELSE [flight[f] EXCEPT !.left = @ \ {p}])
    /\ UNCHANGED outside

Subscribe(f, p) ==
    /\ At(f, "subscribe")
    /\ p \in flight[f].left
    /\ Become(f, [flight[f] EXCEPT !.left = @ \ {p},
                                   !.at = IF flight[f].left = {p}
                                          THEN "parked" ELSE @])
    /\ UNCHANGED outside

Wake(f) ==
    /\ At(f, "parked")
    /\ flight[f].woken
    /\ Become(f, Opened(flight[f]))
    /\ UNCHANGED outside

QueueTimeout(f) ==
    /\ At(f, "parked")
    /\ Become(f, Answer(flight[f], "failed"))
    /\ UNCHANGED outside

-----------------------------------------------------------------------------
(* attemptProvider: reserve, then call. *)

\* The filters leave a warm-only request only candidates with warm sandboxes;
\* an elastic provider reports none, and its claims reserve none.
MayGoCold(f) == f \notin WarmOnly

\* Seeded fault: the retry of a busy key does without what it cannot reserve.
ColdRetryAlways(f) == TRUE
ColdRetry(f)       == MayGoCold(f)

ReserveWarm(f) ==
    /\ flight[f].at \in {"reserve", "busy"}
    /\ reserved' = [reserved EXCEPT ![On(f)] = @ + 1]
    /\ Become(f, [flight[f] EXCEPT !.at = "call", !.ticket = TRUE])
    /\ UNCHANGED <<box, inUse, shutdown>>

ReserveCold(f) ==
    /\ \/ At(f, "reserve") /\ MayGoCold(f)
       \/ At(f, "busy") /\ ColdRetry(f)
    /\ Goes(f, "call")
    /\ UNCHANGED outside

\* The last warm sandbox went to another caller, or the rate is used up.
\* Seeded fault: the way back to the decision forgets the slot.
LostRaceKeepsSlot(f) ==
    /\ At(f, "reserve")
    /\ Become(f, Again(flight[f]))
    /\ UNCHANGED outside

LostRace(f) ==
    /\ At(f, "reserve")
    /\ Become(f, Leave(flight[f], "none"))
    /\ UNCHANGED outside

\* retryPinnedKeyBusy ends: no time, no warm sandbox or no rate left.
BusyEnds(f) ==
    /\ At(f, "busy")
    /\ Become(f, Leave(flight[f], "failed"))
    /\ UNCHANGED outside

\* Which reservations an answer gives back.  A refusal for want of capacity
\* keeps it, as do a sandbox and an answer nobody knows.
\* Seeded fault: an unavailable provider keeps it too.
GivesBackLess(k) == k \in {"conflict", "keybusy", "refused"}
GivesBack(k)     == k \in {"conflict", "keybusy", "refused", "unavail"}

Returned(f, k) ==
    IF flight[f].ticket /\ GivesBack(k)
    THEN [reserved EXCEPT ![On(f)] = @ - 1] ELSE reserved

\* Only a first attempt, and the recovery of one, may go on elsewhere.
\* Seeded fault: so may the retries of a busy key.
SpillsAlways(c) == TRUE
Spills(c)       == c.mode \in {"first", "probe"}

Refused(c, k) ==
    LET kept == IF c.ticket /\ k = "nocap" THEN c.kept \cup {c.on} ELSE c.kept
    IN IF Spills(c) THEN Leave([c EXCEPT !.ticket = FALSE, !.kept = kept,
                                         !.tried = @ \cup {c.on}], "none")
       ELSE Leave([c EXCEPT !.ticket = FALSE, !.kept = kept], "failed")

\* The outcome is unknown: stay with this provider until it is not.
\* Seeded fault: the attempt is taken for one that failed.
UnknownRefused(c) == Refused(c, "unavail")
Unknown(c) == [c EXCEPT !.at = "recover",
                        !.mode = CASE @ = "first" -> "probe"
                                   [] @ = "busy"  -> "last"
                                   [] OTHER       -> @]

\* The key's last sandbox is being deleted here: retry here only.
KeyBusy(c) == [c EXCEPT !.at = "busy", !.mode = "busy", !.ticket = FALSE,
                        !.told = @ \cup {c.on}]

Answered(c, k) ==
    CASE k = "ok"        -> Leave(c, "ok")
      [] k = "conflict"  -> Leave([c EXCEPT !.ticket = FALSE], "failed")
      [] k = "keybusy"   -> KeyBusy(c)
      [] k = "unknown"   -> Unknown(c)
      [] k \in Refusals  -> Refused(c, k)

-----------------------------------------------------------------------------
(* invokeClaim and callLookupNoSlot, between startAttempt and finishAttempt. *)

Open == ~closing

StartAttempt(f, s) ==
    /\ Open
    /\ active' = active + 1
    /\ Goes(f, s)
    /\ UNCHANGED <<box, inUse, reserved, closing, closes>>

FinishAttempt ==
    /\ active' = active - 1
    /\ closes' = IF closing /\ active = 1 THEN closes + 1 ELSE closes
    /\ UNCHANGED <<closing, inUse>>

InvokeClaim(f) == At(f, "call") /\ StartAttempt(f, "claiming")

ClaimShutOut(f) ==
    /\ At(f, "call")
    /\ ~Open
    /\ reserved' = Returned(f, "unavail")
    /\ Become(f, Answered(flight[f], "unavail"))
    /\ UNCHANGED <<box, inUse, shutdown>>

ClaimReturns(f) ==
    /\ At(f, "claiming")
    /\ FinishAttempt
    /\ \E o \in Outcomes(box[f][On(f)]) :
          /\ box' = [box EXCEPT ![f][On(f)] = o[2]]
          /\ reserved' = Returned(f, o[1])
          /\ Become(f, Answered(flight[f], o[1]))

\* recoverUnknownOutcome: look the key up here, again and again, until the
\* budget, the rate or the time is used up.
CallLookup(f) == At(f, "recover") /\ StartAttempt(f, "looking")

\* Seeded fault: a flight that cannot find out says it was refused.
GivesUpAs      == "failed"
UnknownOutcome == "unknown"

RecoveryEnds(f) ==
    /\ At(f, "recover")
    /\ Become(f, Leave(flight[f], UnknownOutcome))
    /\ UNCHANGED outside

\* Not found: nothing was created, claim once more or run out of time.
LookupReturns(f) ==
    LET b == box[f][On(f)]
        c == flight[f]
    IN  /\ At(f, "looking")
        /\ FinishAttempt
        /\ UNCHANGED box
        /\ \/ Goes(f, "recover") /\ UNCHANGED reserved
           \/ b = "mine" /\ Become(f, Leave(c, "ok")) /\ UNCHANGED reserved
           \/ /\ b = "none"
              /\ \E n \in {[c EXCEPT !.at = "call"], Leave(c, UnknownOutcome)} :
                    Become(f, n)
              /\ UNCHANGED reserved
           \/ /\ b = "other"
              /\ reserved' = Returned(f, "conflict")
              /\ Become(f, Answered(c, "conflict"))

-----------------------------------------------------------------------------
(* slotLimiter.release: the slot first, then the signal. *)

ReleaseSlot(f) ==
    /\ At(f, "leave")
    /\ inUse' = [inUse EXCEPT ![On(f)] = @ - 1]
    /\ Goes(f, "notify")
    /\ UNCHANGED <<box, reserved, shutdown>>

Subscribed(g, p) ==
    /\ flight[g].at \in {"subscribe", "parked"}
    /\ p \in flight[g].full \ flight[g].left

Notify(f) ==
    /\ At(f, "notify")
    /\ flight' = [g \in Flights |->
          IF g = f
          THEN IF flight[f].answer = "none" THEN Again(flight[f]) ELSE Done(flight[f])
          ELSE [flight[g] EXCEPT !.woken = @ \/ Subscribed(g, On(f))]]
    /\ UNCHANGED outside

\* Shutdown: later attempts are refused, those under way are awaited.
Shutdown ==
    /\ ~closing
    /\ closing' = TRUE
    /\ closes' = IF active = 0 THEN closes + 1 ELSE closes
    /\ UNCHANGED <<flight, box, inUse, reserved, active>>

\* A provider ends a deletion (one that ends later concerns no flight).
Deleted(f, p) ==
    /\ ~At(f, "done")
    /\ box[f][p] = "dying"
    /\ box' = [box EXCEPT ![f][p] = "none"]
    /\ UNCHANGED <<flight, inUse, reserved, shutdown>>

-----------------------------------------------------------------------------
Step(f) ==
    \/ \E p \in Providers :
          \/ Acquire(f, p) \/ SlotsFull(f, p) \/ CheckOpen(f, p)
          \/ CheckFull(f, p) \/ Subscribe(f, p)
    \/ WaitForSlot(f) \/ Exhausted(f) \/ Wake(f) \/ QueueTimeout(f)
    \/ ReserveWarm(f) \/ ReserveCold(f) \/ LostRace(f) \/ BusyEnds(f)
    \/ InvokeClaim(f) \/ ClaimShutOut(f) \/ ClaimReturns(f)
    \/ CallLookup(f) \/ LookupReturns(f) \/ RecoveryEnds(f)
    \/ ReleaseSlot(f) \/ Notify(f)

Next ==
    \/ \E f \in Flights : Step(f) \/ \E p \in Providers : Deleted(f, p)
    \/ Shutdown

Spec == Init /\ [][Next]_vars

-----------------------------------------------------------------------------
(* Properties. *)

Claiming(f, p) == flight[f].on = p /\ flight[f].at \in
                    {"reserve", "busy", "call", "claiming", "recover", "looking", "leave"}

Places == {"decide", "check", "subscribe", "parked", "reserve", "busy", "call",
           "claiming", "recover", "looking", "leave", "notify", "done"}

TypeOK ==
    /\ flight \in [Flights ->
          [at : Places, on : Providers \cup {"nowhere"},
           mode : {"first", "busy", "probe", "last"}, ticket : BOOLEAN,
           tried : SUBSET Providers, full : SUBSET Providers, waited : BOOLEAN,
           left : SUBSET Providers, woken : BOOLEAN, kept : SUBSET Providers,
           told : SUBSET Providers, answer : Answers \cup {"none"}]]
    /\ box \in [Flights -> [Providers -> Boxes]]
    /\ inUse \in [Providers -> Nat]
    /\ reserved \in [Providers -> Nat]
    /\ closing \in BOOLEAN /\ active \in Nat /\ closes \in Nat

Calling == {f \in Flights : flight[f].at \in {"claiming", "looking"}}

\* slots.go:12-18, binder.go:457-495: whichever way an attempt ends, the slots in use
\* are those of attempts under way and at most Limit, no flight spills too often,
\* and Shutdown's channel is closed once, when no call is under way any more.
Balanced ==
    /\ TypeOK
    /\ \A p \in Providers :
          inUse[p] = Cardinality({f \in Flights : Claiming(f, p)}) /\ inUse[p] <= Limit
    /\ \A f \in Flights : Cardinality(flight[f].tried) <= MaxSpill
    /\ active = Cardinality(Calling)
    /\ closes = IF closing /\ Calling = {} THEN 1 ELSE 0

\* However claims are refused, lost, retried and spilled, a flight leaves at
\* most one sandbox behind (recoverUnknownOutcome never spills unless the
\* lookup proves that nothing was created).
OneSandbox ==
    \A f \in Flights : Cardinality({p \in Providers : box[f][p] = "mine"}) <= 1

\* A flight that says its claim failed left nothing behind, and one that
\* answers with a sandbox answers with the one that is there; only the
\* answer "unknown" (504) leaves the question open.
AnswersAreTrue ==
    \A f \in Flights : At(f, "done") =>
        CASE flight[f].answer = "ok"      -> box[f][On(f)] = "mine"
          [] flight[f].answer = "unknown" -> TRUE
          [] OTHER                        -> \A p \in Providers : box[f][p] # "mine"

\* Once a provider said it is still deleting the key's last sandbox, the
\* flight creates one there or nowhere (retryPinnedKeyBusy never spills).
OnlyWhereBusy ==
    \A f \in Flights : \A p \in flight[f].told, q \in Providers :
        box[f][q] = "mine" => q = p

\* A reservation outlives its attempt only for a sandbox that was, or may
\* have been, handed out, or where the provider said it has none left; and
\* none is given back twice.
Held(f, p) ==
    /\ flight[f].ticket /\ flight[f].on = p
    /\ ~At(f, "decide")
    /\ At(f, "done") => flight[f].answer \in {"ok", "unknown"}

TicketsSettled ==
    \A p \in Providers : reserved[p] = Cardinality({f \in Flights : Held(f, p)})
                             + Cardinality({f \in Flights : p \in flight[f].kept})

\* A warm-only request is answered with a sandbox only if one was reserved
\* for it and still is, also when its key was busy or its answer got lost.
WarmHonoured ==
    \A f \in WarmOnly : At(f, "done") /\ flight[f].answer = "ok" =>
        flight[f].ticket

\* Does not hold (README, section 4): a flight that is parked and not signalled waits
\* for providers that are all full, or about to signal.
ParkedMeansFull ==
    \A f \in Flights : At(f, "parked") /\ ~flight[f].woken =>
        \A p \in flight[f].full :
            \/ inUse[p] = Limit
            \/ \E g \in Flights : At(g, "notify") /\ On(g) = p
=============================================================================
