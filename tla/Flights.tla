------------------------------- MODULE Flights -------------------------------
(***************************************************************************)
(* How the binder keeps one idempotency key from producing two sandboxes   *)
(* (pkg/binder/binder.go): one flight per key that concurrent requests     *)
(* join, a bounded cache of completed flights that later requests replay,  *)
(* and a lookup on every provider when the cache cannot be relied on.      *)
(* Requests run beside releases by handle and by key, beside the reaper's  *)
(* evictions, and beside providers that are registered and removed.        *)
(*                                                                         *)
(* Each critical section of flightsMu is one action, and so is each call   *)
(* to a provider, at the moment the provider does the work.  Providers are *)
(* modelled from the contract of provider.Binder: idempotent claims,       *)
(* consistent lookups.  The choice of a provider inside claimLoop is left  *)
(* open: any provider in the flight's snapshot of the targets.             *)
(***************************************************************************)
EXTENDS Integers, Sequences, SequencesExt, FiniteSets

CONSTANTS Requests,      \* calls of Bind
          Releasers,     \* goroutines that release: clients and the reaper
          Keys,          \* idempotency keys
          Specs,         \* spec hashes
          Providers,     \* provider names
          Removable,     \* providers the controller may remove and add again
          None,          \* no flight, no sandbox, no key
          TTL,           \* ticks a sandbox lives
          MaxTime,       \* last tick
          MaxCompleted,  \* maxCompletedKeys
          MaxJoiners,    \* maxJoinersPerKey
          GlobalMax,     \* globalMaxInFlight
          SweepAt        \* entries from which Bind sweeps the expired (64)

ASSUME FlightsAssumption ==
    /\ None \notin Requests \cup Keys \cup Providers \cup Specs
    /\ IsFiniteSet(Requests) /\ IsFiniteSet(Keys) /\ IsFiniteSet(Providers)
    /\ {TTL, MaxCompleted, MaxJoiners, GlobalMax, SweepAt} \subseteq Nat \ {0}
    /\ MaxTime \in Nat
    /\ Removable \subseteq Providers

VARIABLES
    clock,
    targets,                \* providers registered with the binder
    removing,               \* provider RemoveTarget still has to evict
    flights,                \* key -> request that leads its flight
    completedOrder,         \* keys of completed flights, oldest first
    evictedUnexpiredUntil,
    flight,                 \* leader -> [done, completed, until, joiners]
    req,                    \* request -> what it asked for and where it is
    box,                    \* leader -> the sandbox it created, at a provider
    rel,                    \* releaser -> what it releases and where it is
    doors,                  \* history: keys let out of the flights' care
    strays                  \* history: sandboxes the cache cannot know are gone

vars == <<clock, targets, removing, flights, completedOrder,
          evictedUnexpiredUntil, flight, req, box, rel, doors, strays>>

hist == <<doors, strays>>

cache == <<flights, completedOrder, evictedUnexpiredUntil>>

-----------------------------------------------------------------------------
NoBox     == [live |-> FALSE, prov |-> None, exp |-> 0]
NoFlight  == [done |-> FALSE, completed |-> FALSE, until |-> 0, joiners |-> 0]
NewReq    == [at |-> "new", key |-> None, spec |-> None, retry |-> FALSE,
              on |-> None, snap |-> {}, todo |-> {}, dark |-> {}, got |-> None]
IdleRel   == [at |-> "idle", byKey |-> FALSE, key |-> None, box |-> None,
              todo |-> {}, on |-> None]

Init ==
    /\ clock = 0
    /\ targets = Providers
    /\ removing = None
    /\ flights = [k \in Keys |-> None]
    /\ completedOrder = <<>>
    /\ evictedUnexpiredUntil = 0
    /\ flight = [r \in Requests |-> NoFlight]
    /\ req = [r \in Requests |-> NewReq]
    /\ box = [r \in Requests |-> NoBox]
    /\ rel = [l \in Releasers |-> IdleRel]
    /\ doors = {}
    /\ strays = {}

Over     == {"ok", "failed", "unknown"}
InFlight == Cardinality({r \in Requests : req[r].at \notin Over \cup {"new"}})

\* The sandbox of key k that provider p has, if any.
BoxesAt(p, k) == {b \in Requests : /\ box[b].live /\ box[b].prov = p
                                   /\ req[b].key = k}

\* now.Before(until) is what keeps a completed flight in use.
Expired(f) == flight[f].completed /\ clock >= flight[f].until

\* Key k has a flight that a request can join.
Joinable(k) == flights[k] # None /\ ~Expired(flights[k])

Without(fs, ks) == [k \in Keys |-> IF k \in ks THEN None ELSE fs[k]]
Entries(fs)     == {k \in Keys : fs[k] # None}

-----------------------------------------------------------------------------
(* Bind, up to the point where a request leads a flight or joins one.      *)

\* A request that got no certain answer is retried with retry set.
Unsettled(k) == \E q \in Requests : req[q].key = k /\ req[q].at = "unknown"

Enter(r, k, s, retry, at, on) ==
    req' = [req EXCEPT ![r] = [NewReq EXCEPT !.at = at, !.key = k, !.spec = s,
                                             !.retry = retry, !.on = on]]

TooManyRequests(r) ==
    /\ req[r].at = "new"
    /\ InFlight >= GlobalMax
    /\ req' = [req EXCEPT ![r].at = "failed"]
    /\ UNCHANGED <<clock, targets, removing, cache, flight, box, rel, hist>>

JoinFlight(r, k, s, retry) ==
    /\ req[r].at = "new" /\ InFlight < GlobalMax
    /\ Joinable(k)
    /\ Enter(r, k, s, FALSE, "join", flights[k])
    /\ UNCHANGED <<clock, targets, removing, cache, flight, box, rel, hist>>

\* The expired flight of the key goes; a large map loses every expired one.
LeadFlight(r, k, s, retry) ==
    LET kept  == Without(flights, {k})
        swept == IF Cardinality(Entries(kept)) >= SweepAt
                 THEN Without(kept, {j \in Entries(kept) : Expired(kept[j])})
                 ELSE kept
    IN  /\ req[r].at = "new" /\ InFlight < GlobalMax
        /\ ~Joinable(k)
        /\ flights' = [swept EXCEPT ![k] = r]
        /\ Enter(r, k, s, retry, "lead", None)
        /\ UNCHANGED <<clock, targets, removing, completedOrder,
                       evictedUnexpiredUntil, flight, box, rel, hist>>

-----------------------------------------------------------------------------
(* joinFlight: the checks on entry, then the wait for the flight's outcome.*)

\* Seeded fault: the spec hash is not compared.
SameSpecUnchecked(r) == TRUE

SameSpec(r) == req[req[r].on].spec = req[r].spec

JoinRefused(r) ==
    /\ req[r].at = "join"
    /\ ~SameSpec(r) \/ flight[req[r].on].joiners >= MaxJoiners
    /\ req' = [req EXCEPT ![r].at = "failed", ![r].on = None]
    /\ UNCHANGED <<clock, targets, removing, cache, flight, box, rel, hist>>

JoinAccepted(r) ==
    /\ req[r].at = "join"
    /\ SameSpec(r) /\ flight[req[r].on].joiners < MaxJoiners
    /\ req' = [req EXCEPT ![r].at = "wait"]
    /\ flight' = [flight EXCEPT ![req[r].on].joiners = @ + 1]
    /\ UNCHANGED <<clock, targets, removing, cache, box, rel, hist>>

\* The outcome is the flight's, unless this joiner's own constraints (excluded)
\* rule the provider out; a client that leaves while it waits gets no answer.
Joined(r, at) ==
    /\ req' = [req EXCEPT ![r].at = at, ![r].got = req[req[r].on].got,
                          ![r].on = None]
    /\ flight' = [flight EXCEPT ![req[r].on].joiners = @ - 1]
    /\ UNCHANGED <<clock, targets, removing, cache, box, rel, hist>>

JoinDone(r, excluded) ==
    /\ req[r].at = "wait" /\ flight[req[r].on].done
    /\ LET at == req[req[r].on].at
       IN  Joined(r, IF at = "ok" /\ excluded THEN "failed" ELSE at)

JoinCancelled(r) ==
    /\ req[r].at = "wait"
    /\ req' = [req EXCEPT ![r].at = "unknown", ![r].on = None]
    /\ flight' = [flight EXCEPT ![req[r].on].joiners = @ - 1]
    /\ UNCHANGED <<clock, targets, removing, cache, box, rel, hist>>

-----------------------------------------------------------------------------
(* executeFlight: the targets are loaded once; a retry, and any request    *)
(* while an unexpired flight may have been evicted, looks its key up on    *)
(* every target before it may claim.                                       *)

MustLookUp(r) == req[r].retry \/ clock < evictedUnexpiredUntil

ExecuteFlight(r) ==
    /\ req[r].at = "lead"
    /\ req' = [req EXCEPT ![r].at = IF MustLookUp(r) THEN "probe" ELSE "claim",
                          ![r].retry = FALSE, ![r].snap = targets,
                          ![r].todo = IF MustLookUp(r) THEN targets ELSE {}]
    /\ UNCHANGED <<clock, targets, removing, cache, flight, box, rel, hist>>

\* The lookup reaches one provider.
Probe(r, p) ==
    /\ req[r].at = "probe" /\ p \in req[r].todo
    /\ req' = [req EXCEPT ![r].todo = @ \ {p},
                          ![r].got = IF BoxesAt(p, req[r].key) = {} THEN @
                                     ELSE CHOOSE b \in BoxesAt(p, req[r].key) : TRUE]
    /\ UNCHANGED <<clock, targets, removing, cache, flight, box, rel, hist>>

\* The lookup at one provider is inconclusive.
ProbeDark(r, p) ==
    /\ req[r].at = "probe" /\ p \in req[r].todo
    /\ req' = [req EXCEPT ![r].todo = @ \ {p}, ![r].dark = @ \cup {p}]
    /\ UNCHANGED <<clock, targets, removing, cache, flight, box, rel, hist>>

\* Seeded fault: providers whose lookup was inconclusive are passed over.
ProbedIgnoringDark(r) ==
    /\ req[r].at = "probe" /\ req[r].todo = {}
    /\ req' = [req EXCEPT ![r].dark = {},
          ![r].at = IF req[r].got = None THEN "claim" ELSE "succeed"]
    /\ UNCHANGED <<clock, targets, removing, cache, flight, box, rel, hist>>

\* Every lookup has answered. A sandbox found is the answer, unless its spec is
\* another; without one, the claim may go to the only provider in the dark.
Probed(r) ==
    LET found == req[r].got
        dark  == req[r].dark
    IN  /\ req[r].at = "probe" /\ req[r].todo = {}
        /\ req' = [req EXCEPT
             ![r].dark = {},
             ![r].snap = IF dark = {} THEN @ ELSE dark,
             ![r].at = IF found # None
                       THEN IF req[found].spec = req[r].spec THEN "succeed"
                                                             ELSE "fail"
                       ELSE IF Cardinality(dark) <= 1 THEN "claim" ELSE "fail"]
        /\ UNCHANGED <<clock, targets, removing, cache, flight, box, rel, hist>>

\* A lookup is refused (busy, no tokens), or what it finds is excluded.
ProbeFails(r) ==
    /\ req[r].at = "probe"
    /\ req' = [req EXCEPT ![r].at = "fail", ![r].got = None, ![r].dark = {}]
    /\ UNCHANGED <<clock, targets, removing, cache, flight, box, rel, hist>>

\* A key with a sandbox on a provider that is not registered is out of care.
Unreachable(bx, ts) ==
    {req[b].key : b \in {c \in Requests : bx[c].live /\ bx[c].prov \notin ts}}

\* Claim at provider p: the sandbox of the key is replayed, a conflict if its
\* spec differs, or a new one is created. The answer may get lost on the way.
Claim(r, p, lost) ==
    LET there == BoxesAt(p, req[r].key)
        bx    == IF there = {}
                 THEN [box EXCEPT ![r] = [live |-> TRUE, prov |-> p,
                                          exp |-> clock + TTL]]
                 ELSE box
        mine  == IF there = {} THEN r ELSE CHOOSE b \in there : TRUE
    IN  /\ req[r].at = "claim" /\ p \in req[r].snap
        /\ box' = bx
        /\ doors' = doors \cup Unreachable(bx, targets)
        /\ req' = [req EXCEPT
             ![r].at  = IF lost THEN "lose"
                        ELSE IF req[mine].spec = req[r].spec THEN "succeed"
                        ELSE "fail",
             ![r].got = IF lost \/ req[mine].spec # req[r].spec
                        THEN None ELSE mine]
        /\ UNCHANGED <<clock, targets, removing, cache, flight, rel, strays>>

\* Every provider refuses, or none is left to try.
ClaimFails(r) ==
    /\ req[r].at = "claim"
    /\ req' = [req EXCEPT ![r].at = "fail"]
    /\ UNCHANGED <<clock, targets, removing, cache, flight, box, rel, hist>>

-----------------------------------------------------------------------------
(* The end of a flight, and enforceCompletedFlightCapLocked.               *)

\* Over the flights fs and their records fl: the entries of the keys ks that
\* have completed.
CompletedIn(fs, fl, ks) == {k \in ks : fs[k] # None /\ fl[fs[k]].completed}

Unexpired(fs, fl, ks) ==
    {k \in CompletedIn(fs, fl, ks) : clock < fl[fs[k]].until}

\* Seeded fault: evictions are not remembered.
EnforcedForgetful(fs, fl, order, until) ==
    LET Oldest(n) == ToSet(SubSeq(order, 1, n))
        After(n) == Without(fs, CompletedIn(fs, fl, Oldest(n)))
        n == Min({i \in 0..Len(order) :
               i = Len(order) \/ Cardinality(Entries(After(i))) <= MaxCompleted})
    IN  [flights |-> After(n), order |-> SubSeq(order, n + 1, Len(order)),
         until |-> until]

\* Seeded fault: the map may grow by one entry more.
EnforcedLate(fs, fl, order, until) ==
    LET Oldest(n) == ToSet(SubSeq(order, 1, n))
        After(n) == Without(fs, CompletedIn(fs, fl, Oldest(n)))
        n == Min({i \in 0..Len(order) :
               i = Len(order) \/ Cardinality(Entries(After(i))) <= MaxCompleted + 1})
    IN  [flights |-> After(n), order |-> SubSeq(order, n + 1, Len(order)),
         until |-> IF n = 0 THEN until ELSE MaxTime + TTL]

\* The cap: stale and expired keys leave the front of the order, then completed
\* flights go, oldest key first, while the map is larger than maxCompletedKeys.
\* The time until which an evicted flight would have lasted is remembered.
Enforced(fs, fl, order, until) ==
    LET Oldest(s, n) == ToSet(SubSeq(s, 1, n))
        n  == Min({i \in 0..Len(order) :
                 i = Len(order) \/ order[i + 1] \in Unexpired(fs, fl, Keys)})
        f1 == Without(fs, CompletedIn(fs, fl, Oldest(order, n)))
        o1 == SubSeq(order, n + 1, Len(order))
        After(m) == Without(f1, CompletedIn(f1, fl, Oldest(o1, m)))
        m  == Min({i \in 0..Len(o1) :
                 i = Len(o1) \/ Cardinality(Entries(After(i))) <= MaxCompleted})
        gone == {fl[f1[k]].until : k \in Unexpired(f1, fl, Oldest(o1, m))}
    IN  [flights |-> After(m), order |-> SubSeq(o1, m + 1, Len(o1)),
         until |-> Max(gone \cup {until})]

\* completedUntil: the request's TTL from now, or the sandbox's own expiry when
\* that is still to come and earlier.
Until(b) == IF box[b].exp > clock /\ box[b].exp < clock + TTL
            THEN box[b].exp ELSE clock + TTL

Succeed(r) ==
    LET fl == [flight EXCEPT ![r].done = TRUE, ![r].completed = TRUE,
                             ![r].until = Until(req[r].got)]
        e == Enforced(flights, fl, Append(completedOrder, req[r].key),
                      evictedUnexpiredUntil)
    IN  /\ req[r].at = "succeed"
        /\ req' = [req EXCEPT ![r].at = "ok", ![r].snap = {}]
        /\ flight' = fl
        /\ flights' = e.flights
        /\ completedOrder' = e.order
        /\ evictedUnexpiredUntil' = e.until
        /\ strays' = IF box[req[r].got].live THEN strays
                     ELSE strays \cup {req[r].got}
        /\ UNCHANGED <<clock, targets, removing, box, rel, doors>>

\* Seeded fault: a failed flight does not wake its joiners.
FailSilently(r) ==
    /\ req[r].at \in {"fail", "lose"}
    /\ req' = [req EXCEPT ![r].at = IF @ = "lose" THEN "unknown" ELSE "failed"]
    /\ flights' = Without(flights, {req[r].key})
    /\ UNCHANGED <<clock, targets, removing, completedOrder, flight,
                   evictedUnexpiredUntil, box, rel, hist>>

\* A failed flight leaves the map, if it is still the one there.
Fail(r) ==
    /\ req[r].at \in {"fail", "lose"}
    /\ req' = [req EXCEPT ![r].at = IF @ = "lose" THEN "unknown" ELSE "failed",
                          ![r].snap = {}, ![r].todo = {}]
    /\ flight' = [flight EXCEPT ![r].done = TRUE]
    /\ flights' = IF flights[req[r].key] = r
                  THEN Without(flights, {req[r].key}) ELSE flights
    /\ UNCHANGED <<clock, targets, removing, completedOrder,
                   evictedUnexpiredUntil, box, rel, hist>>

-----------------------------------------------------------------------------
(* Release of a handle: the provider deletes the sandbox, then the flight  *)
(* that completed with it leaves the map. The reaper does the same.        *)

Go(l, at) == rel' = [rel EXCEPT ![l].at = at]

HandedOut == {req[r].got : r \in {q \in Requests : req[q].at = "ok"}}

Release(l, b) ==
    /\ rel[l].at = "idle"
    /\ b \in HandedOut /\ box[b].prov \in targets
    /\ rel' = [rel EXCEPT ![l] = [IdleRel EXCEPT !.at = "drop", !.box = b]]
    /\ UNCHANGED <<clock, targets, removing, cache, flight, req, box, hist>>

\* The provider deletes the sandbox; its answer may get lost.
Drop(l, lost) ==
    LET b == rel[l].box
    IN  /\ rel[l].at = "drop"
        /\ box' = [box EXCEPT ![b].live = FALSE]
        /\ IF lost THEN /\ rel' = [rel EXCEPT ![l] = IdleRel]
                        /\ strays' = strays \cup {b}
                   ELSE Go(l, "evict") /\ UNCHANGED strays
        /\ UNCHANGED <<clock, targets, removing, cache, flight, req, doors>>

\* Seeded fault: no flight is evicted.
CompletedWithNone(bs) == {}

\* The keys whose flight has completed with a sandbox of the set bs.
CompletedWith(bs) ==
    {k \in CompletedIn(flights, flight, Keys) : req[flights[k]].got \in bs}

EvictCompletedFlight(l) ==
    /\ rel[l].at = "evict"
    /\ flights' = Without(flights, CompletedWith({rel[l].box}))
    /\ rel' = IF rel[l].byKey THEN [rel EXCEPT ![l].at = "search"]
                              ELSE [rel EXCEPT ![l] = IdleRel]
    /\ UNCHANGED <<clock, targets, removing, completedOrder,
                   evictedUnexpiredUntil, flight, req, box, hist>>

-----------------------------------------------------------------------------
(* ReleaseByKey: waits for a flight under way, releases what is cached or  *)
(* else whatever a provider has, and deletes the key's entry at the end.   *)

ReleaseByKey(l, k) ==
    LET f == flights[k]
        running == f # None /\ ~flight[f].completed
    IN  /\ rel[l].at = "idle"
        /\ rel' = [rel EXCEPT ![l] =
             [IdleRel EXCEPT !.at = IF running THEN "await" ELSE "cached",
                             !.byKey = TRUE, !.key = k,
                             !.on = IF running THEN f ELSE None]]
        /\ UNCHANGED <<clock, targets, removing, cache, flight, req, box, hist>>

Awaited(l) ==
    /\ rel[l].at = "await" /\ flight[rel[l].on].done
    /\ rel' = [rel EXCEPT ![l].at = "cached", ![l].on = None]
    /\ UNCHANGED <<clock, targets, removing, cache, flight, req, box, hist>>

\* A cached sandbox whose provider is gone is an error, and the entry stays.
Cached(l) ==
    LET k == rel[l].key
        b == IF flights[k] = None THEN None ELSE req[flights[k]].got
    IN  /\ rel[l].at = "cached"
        /\ IF k \notin CompletedIn(flights, flight, Keys)
           THEN rel' = [rel EXCEPT ![l].at = "search", ![l].todo = targets]
           ELSE IF box[b].prov \in targets
           THEN rel' = [rel EXCEPT ![l].at = "drop", ![l].box = b]
           ELSE rel' = [rel EXCEPT ![l] = IdleRel]
        /\ UNCHANGED <<clock, targets, removing, cache, flight, req, box, hist>>

Search(l, p) ==
    LET there == BoxesAt(p, rel[l].key)
    IN  /\ rel[l].at = "search" /\ p \in rel[l].todo
        /\ rel' = [rel EXCEPT
             ![l].todo = @ \ {p},
             ![l].at   = IF there = {} THEN @ ELSE "drop",
             ![l].box  = IF there = {} THEN @ ELSE CHOOSE b \in there : TRUE]
        /\ UNCHANGED <<clock, targets, removing, cache, flight, req, box, hist>>

\* A wait that is cancelled or a call that is refused ends a release early.
GiveUp(l) ==
    /\ rel[l].at \in {"await", "search", "drop"}
    /\ rel' = [rel EXCEPT ![l] = IdleRel]
    /\ UNCHANGED <<clock, targets, removing, cache, flight, req, box, hist>>

\* The entry of the key is deleted, whatever it has become in the meantime.
Forget(l) ==
    LET k == rel[l].key
        f == flights[k]
    IN  /\ rel[l].at = "search" /\ rel[l].todo = {}
        /\ flights' = Without(flights, {k})
        /\ doors' = IF f # None /\ (flight[f].completed => box[req[f].got].live)
                    THEN doors \cup {k} ELSE doors
        /\ rel' = [rel EXCEPT ![l] = IdleRel]
        /\ UNCHANGED <<clock, targets, removing, completedOrder,
                       evictedUnexpiredUntil, flight, req, box, strays>>

-----------------------------------------------------------------------------
(* The controller registers and removes providers; time passes.            *)

SetTarget(p) ==
    /\ removing = None /\ p \notin targets
    /\ targets' = targets \cup {p}
    /\ UNCHANGED <<clock, removing, cache, flight, req, box, rel, hist>>

RemoveTarget(p) ==
    /\ removing = None /\ p \in targets
    /\ targets' = targets \ {p}
    /\ removing' = p
    /\ doors' = doors \cup Unreachable(box, targets \ {p})
    /\ UNCHANGED <<clock, cache, flight, req, box, rel, strays>>

EvictTarget ==
    /\ removing # None
    /\ flights' = Without(flights,
                     CompletedWith({b \in Requests : box[b].prov = removing}))
    /\ removing' = None
    /\ UNCHANGED <<clock, targets, completedOrder, evictedUnexpiredUntil,
                   flight, req, box, rel, hist>>

Tick ==
    /\ clock < MaxTime
    /\ clock' = clock + 1
    /\ box' = [b \in Requests |->
                 [box[b] EXCEPT !.live = @ /\ box[b].exp > clock + 1]]
    /\ UNCHANGED <<targets, removing, cache, flight, req, rel, hist>>

-----------------------------------------------------------------------------
Enters(r) ==
    \/ TooManyRequests(r)
    \/ \E k \in Keys, s \in Specs, retry \in BOOLEAN :
          /\ Unsettled(k) => retry
          /\ JoinFlight(r, k, s, retry) \/ LeadFlight(r, k, s, retry)

\* What a request does once it has entered, without anyone's consent.
Proceeds(r) ==
    \/ JoinRefused(r) \/ JoinAccepted(r)
    \/ \E excluded \in BOOLEAN : JoinDone(r, excluded)
    \/ ExecuteFlight(r) \/ Probed(r) \/ ProbeFails(r) \/ ClaimFails(r)
    \/ \E p \in Providers : Probe(r, p) \/ ProbeDark(r, p)
                           \/ \E lost \in BOOLEAN : Claim(r, p, lost)
    \/ Succeed(r) \/ Fail(r)

Releases(l) ==
    \/ \E lost \in BOOLEAN : Drop(l, lost)
    \/ EvictCompletedFlight(l) \/ Awaited(l) \/ Cached(l) \/ Forget(l)
    \/ \E p \in Providers : Search(l, p)

Next ==
    \/ \E r \in Requests : Enters(r) \/ Proceeds(r) \/ JoinCancelled(r)
    \/ \E l \in Releasers :
          \/ \E b \in Requests : Release(l, b)
          \/ \E k \in Keys : ReleaseByKey(l, k)
          \/ Releases(l) \/ GiveUp(l)
    \/ \E p \in Removable : SetTarget(p) \/ RemoveTarget(p)
    \/ EvictTarget \/ Tick

Spec == Init /\ [][Next]_vars

\* Every attempt ends, by its own timeout if by nothing else, and so does every
\* critical section. No client has to leave for that.
Fairness == /\ \A r \in Requests : WF_vars(Proceeds(r))
            /\ \A l \in Releasers : WF_vars(Releases(l))

FairSpec == Spec /\ Fairness

-----------------------------------------------------------------------------
Time == 0..(MaxTime + TTL)

TypeOK ==
    /\ clock \in 0..MaxTime
    /\ targets \subseteq Providers
    /\ removing \in Providers \cup {None}
    /\ flights \in [Keys -> Requests \cup {None}]
    /\ completedOrder \in Seq(Keys)
    /\ evictedUnexpiredUntil \in Time
    /\ flight \in [Requests -> [done : BOOLEAN, completed : BOOLEAN,
                                until : Time, joiners : 0..MaxJoiners]]
    /\ req \in [Requests ->
          [at : {"new", "join", "wait", "lead", "probe", "claim", "succeed",
                 "fail", "lose"} \cup Over,
           key : Keys \cup {None}, spec : Specs \cup {None}, retry : BOOLEAN,
           on : Requests \cup {None}, snap : SUBSET Providers,
           todo : SUBSET Providers, dark : SUBSET Providers,
           got : Requests \cup {None}]]
    /\ box \in [Requests -> [live : BOOLEAN, prov : Providers \cup {None},
                             exp : Time]]
    /\ rel \in [Releasers ->
          [at : {"idle", "await", "cached", "search", "drop", "evict"},
           byKey : BOOLEAN, key : Keys \cup {None},
           box : Requests \cup {None}, todo : SUBSET Providers,
           on : Requests \cup {None}]]
    /\ doors \subseteq Keys
    /\ strays \subseteq Requests

Leading(k) == {r \in Requests :
                 /\ req[r].key = k
                 /\ req[r].at \in {"lead", "probe", "claim", "succeed", "fail", "lose"}}
Live(k)    == {b \in Requests : box[b].live /\ req[b].key = k}

\* Does not hold (README, section 4). binder.go:168-170, "so concurrent and
\* overlapping requests for the same key share one execution on the leader".
SingleFlight == \A k \in Keys : Cardinality(Leading(k)) <= 1

\* binder.go:5-8, one key never produces two sandboxes: not by the race of two
\* requests, not by a flight evicted under the cap (609-613), not by an answer
\* that got lost, not across any release by handle. The keys in doors are those
\* whose entry ReleaseByKey deleted while it counted, and those with a sandbox
\* on a provider that is not registered.
OneSandbox ==
    \A k \in Keys : k \in doors \/ /\ Cardinality(Live(k)) <= 1
                                   /\ Cardinality(Leading(k)) <= 1

\* binder.go:2016-2018: what the cache replays is still there, or its release
\* has yet to reach the cache. The strays are the sandboxes that were gone before
\* their flight completed, and those deleted by a release that reported an error.
CachedIsLive ==
    \A k \in Keys :
        LET f == flights[k]
        IN  f # None /\ flight[f].completed /\ ~Expired(f) =>
              \/ box[req[f].got].live \/ req[f].got \in strays
              \/ \E l \in Releasers : rel[l].at = "evict" /\ rel[l].box = req[f].got

\* binder.go:609-613: however flights are released, replaced and evicted, and
\* whatever stale keys the order holds, no more completed flights stay than the
\* cap, and each of them has its key in the order, so that it can be evicted.
\* Joiners and the variables' types are within their bounds, too.
CacheBounded ==
    LET done == CompletedIn(flights, flight, Keys)
    IN  TypeOK /\ Cardinality(done) <= MaxCompleted /\ done \subseteq ToSet(completedOrder)

\* pluggable-claims.md:334-338: a request is never given a sandbox that was
\* claimed with another spec, by its flight, by the cache or by a provider.
SpecHonoured ==
    \A r \in Requests : req[r].at = "ok" => req[req[r].got].spec = req[r].spec

\* binder.go:604 and 700-708: every request that entered is answered and every
\* release ends, also those that wait on a flight that has left the map.
Answered ==
    /\ \A r \in Requests : req[r].at # "new" ~> req[r].at \in Over
    /\ \A l \in Releasers : rel[l].at # "idle" ~> rel[l].at = "idle"

=============================================================================
