--------------------------------- MODULE Slots ---------------------------------
(***************************************************************************)
(* The calls that share one provider's slots (pkg/binder/slots.go): retry  *)
(* lookups that lookupCoalescer gathers into batches, claim attempts, and  *)
(* the half-open probes with which healthTracker finds out that a demoted  *)
(* claim path works again; under a shutdown of the binder.                 *)
(*                                                                         *)
(* The clock is abstracted to the order in which timers fire: windows end, *)
(* backoffs pass and callers run out of time whenever they may.  A claim   *)
(* attempt is one call here, with the answer healthTracker hears of        *)
(* (module Claim has the loop around it); rejections, which only colour    *)
(* the status, count as answers it does not hear of.  The target is not    *)
(* replaced meanwhile.                                                     *)
(***************************************************************************)
EXTENDS Integers, Sequences, FiniteSets, FiniteSetsExt

CONSTANTS Callers,     \* retries that look their key up, all different
          Held,        \* those whose sandbox the provider has
          MaxBatch,    \* maxCoalesceBatchSize
          Limit,       \* maxInFlight
          Window       \* healthWindowSize

ASSUME SlotsAssumption ==
    /\ Held \subseteq Callers
    /\ {MaxBatch, Limit, Window} \subseteq Nat \ {0}

VARIABLES
    caller,    \* caller -> what it does, then the answer it got
    pending,
    timer,     \* the timer that batchTimer points to
    flushes,   \* flush calls to come besides that timer's
    batches,   \* [items, at]: flushes after the lock
    claims,    \* claim attempts under way
    probes,    \* half-open probes under way
    health,    \* healthTracker
    api,       \* the provider's claim API works
    inUse,     \* slotLimiter.inFlight
    active,    \* Binder.activeAttempts
    closing,
    closes     \* times shutdownDone was closed

vars == <<caller, pending, timer, flushes, batches, claims, probes, health, api,
          inUse, active, closing, closes>>

queue    == <<pending, timer, flushes>>
lookups  == <<caller, queue, batches>>
calls    == <<claims, probes>>
shutdown == <<closing, closes>>
shared   == <<inUse, active, shutdown>>

\* unsure: Busy, Unavailable, or an error that says nothing of the key; so is a
\* caller whose context ends first.
Answers == {"found", "notfound", "unsure"}
Phases  == {"new", "waiting"}

Fresh == [window |-> <<>>, demoted |-> FALSE, probing |-> FALSE, due |-> FALSE]

Init ==
    /\ caller = [c \in Callers |-> "new"]
    /\ pending = <<>> /\ timer = "none" /\ flushes = 0 /\ batches = {}
    /\ claims = 0 /\ probes = 0
    /\ health = Fresh /\ api = TRUE
    /\ inUse = 0 /\ active = 0
    /\ closing = FALSE /\ closes = 0

-----------------------------------------------------------------------------
(* lookupCoalescer: gathering.                                             *)

lookup(c) ==
    LET full == Len(pending) + 1 >= MaxBatch IN
    /\ caller[c] = "new"
    /\ caller' = [caller EXCEPT ![c] = "waiting"]
    /\ pending' = Append(pending, c)
    /\ IF full
       THEN \* A timer that has fired is not stopped.
            /\ timer' = "none"
            /\ flushes' = flushes + IF timer = "fired" THEN 2 ELSE 1
       ELSE /\ timer' = IF timer = "none" THEN "armed" ELSE timer
            /\ UNCHANGED flushes
    /\ UNCHANGED <<batches, calls, health, api, shared>>

GivesUp(c) ==
    /\ caller[c] = "waiting"
    /\ caller' = [caller EXCEPT ![c] = "unsure"]
    /\ UNCHANGED <<queue, batches, calls, health, api, shared>>

WindowEnds ==
    /\ timer = "armed"
    /\ timer' = "fired"
    /\ UNCHANGED <<caller, pending, flushes, batches, calls, health, api, shared>>

Taken == SubSeq(pending, 1, Min({MaxBatch, Len(pending)}))

Rest == SubSeq(pending, Len(Taken) + 1, Len(pending))

\* Seeded fault: a pointer to a timer that is over stays when nothing is left.
NextTimerStale == IF Rest # <<>> THEN "armed"
                  ELSE IF timer = "none" THEN "none" ELSE "over"

\* A timer for what is left; the last one, if it still runs, runs unseen.
NextTimer == IF Rest # <<>> THEN "armed" ELSE "none"

flush ==
    /\ timer = "fired" \/ flushes > 0
    /\ pending' = Rest
    /\ timer' = NextTimer
    /\ flushes' = flushes + (IF timer \in {"armed", "fired"} THEN 1 ELSE 0) - 1
    /\ batches' = IF Taken = <<>> THEN batches
                  ELSE batches \cup {[items |-> Taken, at |-> "token"]}
    /\ UNCHANGED <<caller, calls, health, api, shared>>

-----------------------------------------------------------------------------
(* startAttempt and finishAttempt, tryAcquire and release.                 *)

\* Seeded fault: calls begin whether or not the binder is closing.
OpenAlways == TRUE

Open == ~closing

Room == inUse < Limit

Enter ==
    /\ Open /\ Room
    /\ inUse' = inUse + 1 /\ active' = active + 1
    /\ UNCHANGED shutdown

\* No slot: finishAttempt undoes startAttempt.
FullUp == Open /\ ~Room /\ UNCHANGED shared

Leave ==
    /\ inUse' = inUse - 1 /\ active' = active - 1
    /\ closes' = IF closing /\ active = 1 THEN closes + 1 ELSE closes
    /\ UNCHANGED closing

Shutdown ==
    /\ ~closing
    /\ closing' = TRUE
    /\ closes' = IF active = 0 THEN closes + 1 ELSE closes
    /\ UNCHANGED <<lookups, calls, health, api, inUse, active>>

-----------------------------------------------------------------------------
(* lookupCoalescer: one token, one slot and one call for the batch.        *)

\* Each item's channel gets one answer; nobody may be there to read it.
Told(b, answer) ==
    /\ caller' = [c \in Callers |->
          IF caller[c] = "waiting" /\ \E i \in DOMAIN b.items : b.items[i] = c
          THEN answer[CHOOSE i \in DOMAIN b.items : b.items[i] = c] ELSE caller[c]]
    /\ batches' = batches \ {b}

failBatch(b, err) == Told(b, [i \in DOMAIN b.items |-> err])

\* The limiter is beyond its burst, or the wait beyond attemptTimeout.
RateLimited(b) ==
    /\ b.at = "token"
    /\ failBatch(b, "unsure")
    /\ UNCHANGED <<queue, calls, health, api, shared>>

CallBatch(b) ==
    /\ b.at = "token"
    /\ Enter
    /\ batches' = (batches \ {b}) \cup {[b EXCEPT !.at = "call"]}
    /\ UNCHANGED <<caller, queue, calls, health, api>>

BatchShutOut(b) ==
    /\ b.at = "token" /\ ~Open
    /\ failBatch(b, "unsure")
    /\ UNCHANGED <<queue, calls, health, api, shared>>

BatchFindsNoSlot(b) ==
    /\ b.at = "token"
    /\ FullUp
    /\ failBatch(b, "unsure")
    /\ UNCHANGED <<queue, calls, health, api>>

\* Seeded fault: a result that is missing is an empty one.
OmittedIsZero == "found"

Omitted == "unsure"

\* Results in the order of the requests, perhaps fewer; a panic leaves none.
LookupMany(b) ==
    {[i \in DOMAIN b.items |->
        IF i > n THEN Omitted
        ELSE IF i \in lost THEN "unsure"
        ELSE IF b.items[i] \in Held THEN "found" ELSE "notfound"] :
      n \in 0..Len(b.items), lost \in SUBSET DOMAIN b.items}

BatchReturns(b) ==
    /\ b.at = "call"
    /\ \E answer \in LookupMany(b) : Told(b, answer)
    /\ Leave
    /\ UNCHANGED <<queue, calls, health, api>>

-----------------------------------------------------------------------------
(* healthTracker.                                                          *)

\* pushOutcomeLocked.
Pushed(w, bad) ==
    LET all == Append(w, bad) IN
    IF Len(all) > Window THEN Tail(all) ELSE all

Bad(w) == Cardinality({i \in DOMAIN w : w[i]})

recordSuccess ==
    health' = [health EXCEPT !.window = Pushed(@, FALSE), !.demoted = FALSE,
                             !.probing = FALSE, !.due = FALSE]

recordUnavailable ==
    LET w == Pushed(health.window, TRUE) IN
    health' = IF ~health.demoted /\ Len(w) = Window /\ 2 * Bad(w) >= Window
              THEN [health EXCEPT !.window = w, !.demoted = TRUE, !.due = FALSE]
              ELSE [health EXCEPT !.window = w]

\* nextProbeAt counts from the start of the probe, so it may have passed.
\* Seeded fault: a probe that failed is never over.
probeFailedStays(due) == health' = [health EXCEPT !.due = due]

probeFailed(due) == health' = [health EXCEPT !.probing = FALSE, !.due = due]

probeSucceeded == health' = Fresh

nextProbeAt ==
    /\ health.demoted /\ ~health.due
    /\ health' = [health EXCEPT !.due = TRUE]
    /\ UNCHANGED <<lookups, calls, api, shared>>

-----------------------------------------------------------------------------
(* Claims, which isUsable lets pass or has probe in their stead.           *)

Claim ==
    /\ ~health.demoted
    /\ Enter
    /\ claims' = claims + 1
    /\ UNCHANGED <<lookups, probes, health, api>>

\* A slot is taken and given back, and the refusal is counted as the provider's.
ClaimShutOut ==
    /\ ~health.demoted /\ Room /\ ~Open
    /\ recordUnavailable
    /\ UNCHANGED <<lookups, calls, api, shared>>

ClaimReturns ==
    /\ claims > 0
    /\ \/ api /\ recordSuccess
       \/ ~api /\ recordUnavailable
       \/ UNCHANGED health
    /\ claims' = claims - 1
    /\ Leave
    /\ UNCHANGED <<lookups, probes, api>>

ProbeDue == health.demoted /\ ~health.probing /\ health.due

Probe ==
    /\ ProbeDue
    /\ Enter
    /\ health' = [health EXCEPT !.probing = TRUE]
    /\ probes' = probes + 1
    /\ UNCHANGED <<lookups, claims, api>>

ProbeFindsNoSlot ==
    /\ ProbeDue
    /\ FullUp
    /\ UNCHANGED <<lookups, calls, health, api>>

runHalfOpenProbe ==
    /\ probes > 0
    /\ \/ api /\ probeSucceeded
       \/ ~api /\ \E due \in BOOLEAN : probeFailed(due)
    /\ probes' = probes - 1
    /\ Leave
    /\ UNCHANGED <<lookups, claims, api>>

Provider ==
    /\ api' = ~api
    /\ UNCHANGED <<lookups, calls, health, shared>>

-----------------------------------------------------------------------------
Batch ==
    \E b \in batches : CallBatch(b) \/ BatchShutOut(b) \/ BatchFindsNoSlot(b)

Next ==
    \/ \E c \in Callers : lookup(c) \/ GivesUp(c)
    \/ WindowEnds \/ flush \/ Batch
    \/ \E b \in batches : RateLimited(b) \/ BatchReturns(b)
    \/ Claim \/ ClaimShutOut \/ ClaimReturns
    \/ nextProbeAt \/ Probe \/ ProbeFindsNoSlot \/ runHalfOpenProbe
    \/ Provider \/ Shutdown

Spec == Init /\ [][Next]_vars

\* Timers fire, goroutines run, calls end at their timeout at the latest, and
\* clients go on asking for sandboxes, which is what has isUsable probe.
Fair ==
    /\ WF_vars(WindowEnds) /\ WF_vars(flush) /\ WF_vars(Batch)
    /\ WF_vars(\E b \in batches : BatchReturns(b))
    /\ WF_vars(ClaimReturns) /\ WF_vars(runHalfOpenProbe)
    /\ WF_vars(nextProbeAt) /\ WF_vars(Probe)

FairSpec == Spec /\ Fair

-----------------------------------------------------------------------------
TypeOK ==
    /\ caller \in [Callers -> Phases \cup Answers]
    /\ pending \in Seq(Callers) /\ flushes \in Nat
    /\ timer \in {"none", "armed", "fired"}
    /\ batches \subseteq [items : Seq(Callers), at : {"token", "call"}]
    /\ health \in [window : Seq(BOOLEAN), demoted : BOOLEAN, probing : BOOLEAN,
                   due : BOOLEAN]
    /\ Len(health.window) <= Window
    /\ {api, closing} \subseteq BOOLEAN
    /\ {claims, probes, inUse, active, closes} \subseteq Nat

\* slots.go:160-224, 280-287: lookup waits on one channel that holds one answer. A
\* caller that waits is in the queue or in one batch, once, and one that was answered
\* there in none, so no flush blocks on a second answer; and it is told that its
\* sandbox is there, or is not, only when the provider said so of its key.
OneAnswer ==
    /\ TypeOK
    /\ \A c \in Callers :
        LET places == Cardinality({i \in DOMAIN pending : pending[i] = c}) +
                      Cardinality({b \in batches : \E i \in DOMAIN b.items : b.items[i] = c})
        IN  /\ places <= 1
            /\ caller[c] = "waiting" => places = 1
            /\ caller[c] \in {"new", "found", "notfound"} => places = 0
            /\ caller[c] = "found" => c \in Held
            /\ caller[c] = "notfound" => c \notin Held

\* binder.go:457-459: once Shutdown has returned, no claim, batch or probe calls the
\* provider, and the channel it waits on is closed once.
ShutdownWaits ==
    closes > 0 => closes = 1 /\ claims = 0 /\ probes = 0 /\
                  \A b \in batches : b.at # "call"

\* slots.go:160-216, binder.go:457-475: in the end no caller waits, though timers are
\* stopped, replaced and fire late and flushes find the queue emptied by others; and a
\* shutdown has ended, as all attempts it waits for do.
Settled ==
    <>[]((\A c \in Callers : caller[c] # "waiting") /\ (closing => closes > 0))

\* slots.go:305-311: a demoted provider whose claim API works again is used again, and
\* remains so, although probes fail, find no slot and overlap with late claims.
Recovers == <>[](api /\ ~closing) => <>[](~health.demoted)

=============================================================================
