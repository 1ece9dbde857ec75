------------------------------ MODULE Registry -------------------------------
(***************************************************************************)
(* The capacity registry (pkg/registry/registry.go): sources that come,    *)
(* are replaced and go while they are polled, reports that arrive late,    *)
(* and the reservations placements make against the last report.           *)
(*                                                                         *)
(* Each critical section of Registry.mu is one action.  Placements take no  *)
(* lock: one loads a provider's ledger and reserves on it in a later step,  *)
(* when the provider may be gone, or back with another ledger.  A ledger is *)
(* modelled by its counts per second.  What its ring, its carry and the     *)
(* goroutines under way (module Ledger) make of them is a choice: a report  *)
(* may leave counts it accounts for, a release may find none, or take one   *)
(* of another second that the ring has carried.                             *)
(*                                                                         *)
(* Around the registry stand the providers, whose warm pools shrink when   *)
(* claims land and grow again, and the callers, whose claims show in a     *)
(* provider's pool within the reservation grace or never.  A report's      *)
(* age and last error, which only Reachable and Statuses show, are left    *)
(* out, and so is Refresh, which has no caller outside the tests.          *)
(***************************************************************************)
EXTENDS Integers, FiniteSets, FiniteSetsExt

CONSTANTS Providers,
          Callers,       \* placements under way
          MaxTime,       \* last tick
          MaxGen,        \* sources ever added
          MaxWarm,       \* size of a provider's warm pool
          Grace,         \* reservationGrace
          Ring,          \* seconds a ledger's ring holds before it carries them
          MaxStrays,     \* bound of strays
          Default,       \* default polling interval
          Intervals,     \* intervals SetRefreshInterval may set
          MaxWait        \* longest wait of Run: a minute

ASSUME RegistryAssumption ==
    /\ Providers # {}
    /\ {MaxTime, MaxGen, Grace, MaxStrays} \subseteq Nat
    /\ {MaxWarm, Default, MaxWait} \cup Intervals \subseteq Nat \ {0}
    /\ Ring \in Nat /\ Ring > Grace    \* newLedger

VARIABLES
    clock,
    sources,    \* provider -> [gen, interval, nextDue, inFlight]; gen 0: none
    lastGen,
    wake,       \* Registry.wake holds a token
    timerAt,    \* when Run's timer fires
    entries,    \* provider -> [known, from, warm, cleared, held]
    fetches,    \* polls in flight: [p, gen, at, started, saw]
    caller,     \* caller -> [at, p, sec, orphan]: the ledger it has loaded,
                \* then its claim and its ticket; orphan: the ledger is gone
    pool,       \* provider -> warm sandboxes it really has
    strays      \* history: provider -> reservations its ledger lost

vars == <<clock, sources, lastGen, wake, timerAt, entries, fetches, caller,
          pool, strays>>

schedule == <<sources, lastGen, wake, timerAt>>
world    == <<clock, pool>>

Time == 0..MaxTime

-----------------------------------------------------------------------------
NoSource  == [gen |-> 0, interval |-> Default, nextDue |-> 0, inFlight |-> FALSE]
NoEntry   == [known |-> FALSE, from |-> 0, warm |-> 0, cleared |-> 0,
              held |-> [t \in Time |-> 0]]
NoClaim   == [at |-> "idle", p |-> CHOOSE p \in Providers : TRUE, sec |-> 0,
              orphan |-> FALSE]

Init ==
    /\ clock = 0
    /\ sources = [p \in Providers |-> NoSource]
    /\ lastGen = 0
    /\ wake = FALSE
    /\ timerAt = 0
    /\ entries = [p \in Providers |-> NoEntry]
    /\ fetches = {}
    /\ caller = [c \in Callers |-> NoClaim]
    /\ pool = [p \in Providers |-> MaxWarm]
    /\ strays = [p \in Providers |-> 0]

Registered(p) == sources[p].gen # 0
Claiming(p)   == {c \in Callers : caller[c].at = "claiming" /\ caller[c].p = p}
Loaded(p)     == {c \in Callers : caller[c].at = "loaded" /\ caller[c].p = p}
Orphans(p)    == {c \in Claiming(p) : caller[c].orphan}

\* entry: an entry that exists is kept.
Known(p) == [entries EXCEPT ![p].known = TRUE]

\* The reservations of counts h, one by one.
Tokens(h) == {x \in Time \X (1..MaxWarm) : x[2] <= h[x[1]]}

Out(p) == Cardinality(Tokens(entries[p].held))

\* Seeded fault: the second of the cutoff goes too.
ClearedEarly(h, cutoff) ==
    {l \in [Time -> 0..MaxWarm] :
        \A t \in Time : l[t] <= h[t] /\ (t > cutoff => l[t] = h[t])}

\* clearBefore on the reservations h: those from the cutoff on are kept; any of
\* those before it may be left, in a carry whose label is later or in a hand.
Cleared(h, cutoff) ==
    {l \in [Time -> 0..MaxWarm] :
        \A t \in Time : l[t] <= h[t] /\ (t >= cutoff => l[t] = h[t])}

\* setReport: the capacity, and the reservations left once it accounts for some.
Reported(e, left, warm, cutoff, from) ==
    [e EXCEPT !.known = TRUE, !.from = from, !.warm = warm,
              !.cleared = Max({@, cutoff}), !.held = left]

-----------------------------------------------------------------------------
(* The controller adds, replaces, configures and removes sources.          *)

\* A fetch in flight by the source that is replaced is cancelled and its slot
\* freed; it may answer all the same.
Replaced(p) == [sources EXCEPT ![p].gen = lastGen + 1, ![p].nextDue = 0,
                               ![p].inFlight = FALSE]

\* Seeded fault: Run is not told.
AddSourceQuietly(p) ==
    /\ lastGen < MaxGen
    /\ lastGen' = lastGen + 1
    /\ sources' = Replaced(p)
    /\ entries' = Known(p)
    /\ UNCHANGED <<wake, timerAt, fetches, caller, world, strays>>

AddSource(p) ==
    /\ lastGen < MaxGen
    /\ lastGen' = lastGen + 1
    /\ sources' = Replaced(p)
    /\ entries' = Known(p)
    /\ wake' = TRUE
    /\ UNCHANGED <<timerAt, fetches, caller, world, strays>>

\* The entry goes with its ledger; callers that have loaded it keep it.
RemoveSource(p) ==
    LET lost == strays[p] + Cardinality(Claiming(p) \ Orphans(p))
    IN  /\ entries[p].known
        /\ lost <= MaxStrays
        /\ sources' = [sources EXCEPT ![p] = NoSource]
        /\ entries' = [entries EXCEPT ![p] = NoEntry]
        /\ caller' = [c \in Callers |-> [caller[c] EXCEPT
                         !.orphan = @ \/ c \in Claiming(p) \cup Loaded(p)]]
        /\ strays' = [strays EXCEPT ![p] = lost]
        /\ UNCHANGED <<lastGen, wake, timerAt, fetches, world>>

\* A shorter interval brings the next poll forward.
SetRefreshInterval(p, d) ==
    /\ Registered(p)
    /\ sources[p].interval # d
    /\ sources' = [sources EXCEPT ![p].interval = d,
                     ![p].nextDue = Min({@, clock + d})]
    /\ wake' = TRUE
    /\ UNCHANGED <<lastGen, timerAt, entries, fetches, caller, world, strays>>

SetConfig(p) ==
    /\ entries' = Known(p)
    /\ UNCHANGED <<schedule, fetches, caller, world, strays>>

\* A provider that is not polled pushes a report of its own.
Report(p) ==
    /\ ~Registered(p)
    /\ \E left \in Cleared(entries[p].held, clock - Grace) :
          entries' = [entries EXCEPT ![p] =
                        Reported(@, left, pool[p], clock - Grace, lastGen)]
    /\ UNCHANGED <<schedule, fetches, caller, world, strays>>

-----------------------------------------------------------------------------
(* Run and pollDue: a poll of every source that is due and not in flight.  *)

\* Seeded fault: a source that is being polled is polled again.
FreeAlways(p) == Registered(p)

Free(p) == Registered(p) /\ ~sources[p].inFlight
Due     == {p \in Providers : Free(p) /\ clock >= sources[p].nextDue}

PollDue ==
    LET next(p) == IF p \in Due THEN clock + sources[p].interval
                                ELSE sources[p].nextDue
    IN  /\ \/ wake /\ wake' = FALSE
           \/ clock >= timerAt /\ UNCHANGED wake
        /\ sources' = [p \in Providers |->
             IF p \in Due THEN [sources[p] EXCEPT !.inFlight = TRUE,
                                                  !.nextDue = next(p)]
                          ELSE sources[p]]
        /\ fetches' = fetches \cup
             {[p |-> p, gen |-> sources[p].gen, at |-> "new", started |-> 0,
               saw |-> 0] : p \in Due}
        /\ timerAt' = Min({clock + MaxWait}
                            \cup {next(p) : p \in {q \in Providers : Free(q)}})
        /\ UNCHANGED <<lastGen, entries, caller, world, strays>>

\* poll: it notes the time, the provider answers at some later one.
Moved(f, g) == fetches' = (fetches \ {f}) \cup {g}

Start(f) ==
    /\ f.at = "new"
    /\ Moved(f, [f EXCEPT !.at = "out", !.started = clock])
    /\ UNCHANGED <<schedule, entries, caller, world, strays>>

Fetch(f) ==
    /\ f.at = "out"
    /\ Moved(f, [f EXCEPT !.at = "read", !.saw = pool[f.p]])
    /\ UNCHANGED <<schedule, entries, caller, world, strays>>

\* Seeded fault: the answer of a source that is no longer in use is recorded.
CurrentAlways(f) == TRUE

Current(f) == sources[f.p].gen = f.gen

Done(f) == Moved(f, [f EXCEPT !.at = "done", !.started = 0, !.saw = 0])

Record(f) ==
    /\ f.at = "read"
    /\ Done(f)
    /\ IF Current(f) /\ entries[f.p].known
       THEN \E left \in Cleared(entries[f.p].held, f.started - Grace) :
              entries' = [entries EXCEPT ![f.p] =
                            Reported(@, left, f.saw, f.started - Grace, f.gen)]
       ELSE UNCHANGED entries
    /\ UNCHANGED <<schedule, caller, world, strays>>

\* A fetch that fails, times out or is cancelled leaves the last report.
FetchFails(f) ==
    /\ f.at \in {"new", "out", "read"}
    /\ Done(f)
    /\ UNCHANGED <<schedule, entries, caller, world, strays>>

\* The goroutine of pollDue frees the slot, unless it is no longer its own.
Finish(f) ==
    /\ f.at = "done"
    /\ fetches' = fetches \ {f}
    /\ sources' = IF Current(f) THEN [sources EXCEPT ![f.p].inFlight = FALSE]
                                ELSE sources
    /\ wake' = TRUE
    /\ UNCHANGED <<lastGen, timerAt, entries, caller, world, strays>>

-----------------------------------------------------------------------------
(* Placements reserve against the last report, claim, and give back.       *)

\* The map of ledgers is loaded.
Load(c, p) ==
    /\ caller[c].at = "idle"
    /\ entries[p].known
    /\ caller' = [caller EXCEPT ![c] =
                     [NoClaim EXCEPT !.at = "loaded", !.p = p, !.sec = clock]]
    /\ UNCHANGED <<schedule, entries, fetches, world, strays>>

\* The ledger's word has room: what is held is at most what it counts.
Room(p) == Out(p) < entries[p].warm

\* The reservation is counted under the second the clock was read at, unless a
\* report that accounts for that second is just clearing it.  A ledger that is
\* gone may grant what it had; nobody sees its counts again.
TryReserveWarm(c) ==
    LET p == caller[c].p
        orphan == caller[c].orphan
    IN  /\ caller[c].at = "loaded"
        /\ IF orphan
           THEN /\ strays[p] < MaxStrays
                /\ strays' = [strays EXCEPT ![p] = @ + 1]
           ELSE Room(p) /\ UNCHANGED strays
        /\ \E sec \in caller[c].sec..clock :
              /\ caller' = [caller EXCEPT ![c].at = "claiming", ![c].sec = sec]
              /\ \/ ~orphan /\ entries' = [entries EXCEPT ![p].held[sec] = @ + 1]
                 \/ (orphan \/ sec < entries[p].cleared) /\ UNCHANGED entries
        /\ UNCHANGED <<schedule, fetches, world>>

\* Refused: the word may count more than is held.
NotReserved(c) ==
    /\ caller[c].at = "loaded"
    /\ caller' = [caller EXCEPT ![c] = NoClaim]
    /\ UNCHANGED <<schedule, entries, fetches, world, strays>>

\* The claim takes a sandbox out of the pool, within the grace.
InTime(c) == clock <= caller[c].sec + Grace

Lands(c) ==
    /\ caller[c].at = "claiming" /\ InTime(c)
    /\ pool[caller[c].p] > 0
    /\ pool' = [pool EXCEPT ![caller[c].p] = @ - 1]
    /\ caller' = [caller EXCEPT ![c] = NoClaim]
    /\ UNCHANGED <<clock, schedule, entries, fetches, strays>>

\* The seconds releaseAt may take a count from: the ticket's own, or, when its own
\* is in a goroutine's hand, in another ledger or cleared since clearedSec was read,
\* any that the ring has carried.
Takeable(p, sec) ==
    {t \in Time : /\ entries[p].known /\ entries[p].held[t] > 0
                  /\ t = sec \/ t + Ring <= clock}

\* A count of another second that a report has still to account for.
Misses(p, sec, t) == t # sec /\ t >= entries[p].cleared

\* The claim fails, and its ticket is released in the ledger there is now; it may
\* find nothing to take.
ReleaseReservationTicket(c) ==
    LET p == caller[c].p
        sec == caller[c].sec
    IN  /\ caller[c].at = "claiming"
        /\ caller' = [caller EXCEPT ![c] = NoClaim]
        /\ \/ UNCHANGED <<entries, strays>>
           \/ \E t \in Takeable(p, sec) :
                 /\ entries' = [entries EXCEPT ![p].held[t] = @ - 1]
                 /\ IF Misses(p, sec, t)
                    THEN /\ strays[p] < MaxStrays
                         /\ strays' = [strays EXCEPT ![p] = @ + 1]
                    ELSE UNCHANGED strays
        /\ UNCHANGED <<schedule, fetches, world>>

-----------------------------------------------------------------------------
Replenish(p) ==
    /\ pool[p] < MaxWarm
    /\ pool' = [pool EXCEPT ![p] = @ + 1]
    /\ UNCHANGED <<clock, schedule, entries, fetches, caller, strays>>

Tick ==
    /\ clock < MaxTime
    /\ clock' = clock + 1
    /\ UNCHANGED <<schedule, entries, fetches, caller, pool, strays>>

Operates(p) ==
    \/ AddSource(p) \/ RemoveSource(p) \/ SetConfig(p) \/ Report(p)
    \/ \E d \in Intervals : SetRefreshInterval(p, d)

Polls(f) == Start(f) \/ Fetch(f) \/ Record(f) \/ FetchFails(f) \/ Finish(f)

Next ==
    \/ \E p \in Providers : Operates(p) \/ Replenish(p)
    \/ PollDue
    \/ \E f \in fetches : Polls(f)
    \/ \E c \in Callers :
          \/ \E p \in Providers : Load(c, p)
          \/ TryReserveWarm(c) \/ NotReserved(c)
          \/ Lands(c) \/ ReleaseReservationTicket(c)
    \/ Tick

Spec == Init /\ [][Next]_vars

-----------------------------------------------------------------------------
TypeOK ==
    /\ clock \in Time
    /\ sources \in [Providers ->
          [gen : 0..MaxGen, interval : {Default} \cup Intervals,
           nextDue : Nat, inFlight : BOOLEAN]]
    /\ lastGen \in 0..MaxGen
    /\ wake \in BOOLEAN
    /\ timerAt \in Nat
    /\ entries \in [Providers ->
          [known : BOOLEAN, from : 0..MaxGen, warm : 0..MaxWarm,
           cleared : Time, held : [Time -> 0..MaxWarm]]]
    /\ fetches \subseteq
          [p : Providers, gen : 1..MaxGen, at : {"new", "out", "read", "done"},
           started : Time, saw : 0..MaxWarm]
    /\ caller \in [Callers -> [at : {"idle", "loaded", "claiming"}, p : Providers,
                               sec : Time, orphan : BOOLEAN]]
    /\ pool \in [Providers -> 0..MaxWarm]
    /\ strays \in [Providers -> 0..MaxStrays]

\* registry.go:374-388, ledger.go:24-27: no burst is piled onto a drained pool.
\* However late reports are read and recorded, and whichever claims they show
\* already, every claim that was granted a warm sandbox and may still land finds
\* one, but for as many as there were reservations the provider's ledger lost: made
\* on a ledger that was then removed, or that was gone already (registry.go:415-420),
\* or taken by the release of another (ledger.go:224).
NoOverplacement ==
    \A p \in Providers :
        Cardinality({c \in Claiming(p) : InTime(c)}) <= pool[p] + strays[p]

\* Types; and registry.go:535-536 and 118-122, "a source is never polled twice at once":
\* a source's slot is taken exactly while one fetch of it is in flight, so it is
\* neither polled twice nor, after a replacement, never again.
OnePoll == TypeOK /\
    \A p \in Providers :
        Cardinality({f \in fetches : Registered(p) /\ f.p = p /\ Current(f)})
            = IF sources[p].inFlight THEN 1 ELSE 0

\* registry.go:266-269 and 508-512: the answer of a source that was replaced or
\* removed never lands after the answer of a later one, nor brings back a
\* provider that was removed.
NoOldAnswer ==
    [][\A p \in Providers :
          /\ entries'[p].known => entries'[p].from >= entries[p].from
          /\ entries'[p].known /\ ~entries[p].known => fetches' = fetches]_vars

\* registry.go:257-264, 308-313, 329: Run never oversleeps. A source that was added,
\* replaced, given a shorter interval or polled to its end, at whatever point of
\* Run's loop, has a token waiting or a timer that fires by the time it is due.
NeverOversleeps ==
    \A p \in Providers :
        Free(p) => wake \/ timerAt <= Max({clock, sources[p].nextDue})

=============================================================================
