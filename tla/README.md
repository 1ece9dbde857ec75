# Verification of the sandbox scheduler

TLA+ models of the sandbox scheduler, configurations that model-check them with
TLC, and proofs checked with TLAPS. Paths below are relative to the repository
root; `binder.go` is `pkg/binder/binder.go`, `ledger.go` and `registry.go` are in
`pkg/registry`, `slots.go` in `pkg/binder`, `e2b.go` in `pkg/adapter/e2b`,
`reaper.go` in `pkg/reaper`, `label.go` in `internal/leader`, `main.go` in
`cmd/sandbox-scheduler`; "the controller" is
`internal/controller/sandboxprovider_controller.go`.

    tlc -workers 2 -config MCLedger.cfg MCLedger     # one run
    tlapm LedgerProofs.tla                           # the proofs of one module

Proofs are in LedgerProofs, PlacementProofs (Schedule and Slots), RegistryProofs,
ClaimProofs, FlightsProofs, AdapterProofs (E2B and Reaper), ControllerProofs and
LeaderProofs.

`PROJECT.json` maps every definition to the lines it models, lists the runs, the
properties with a seeded fault each of them catches, the hazards of the code and
the theorems.

## 1. The system

The scheduler places sandboxes on providers (Kubernetes clusters with a warm pool,
hosted APIs). One leader serves; other replicas stand by.

| Component | State | Operations | Talks to |
|---|---|---|---|
| Reservation ledger (`ledger.go`) | one packed word (warm capacity, reservations), a ring of per-second counts, a carry word, `clearedSec`, a ring of cold starts | tryReserve, record, releaseAt, release, setWarm, clearBefore | called by the registry without its lock |
| Capacity registry (`registry.go`) | sources with a generation and a next poll time, entries with the last report, a wake token | AddSource, RemoveSource, SetConfig, SetRefreshInterval, Report, Run/pollDue/poll, TryReserveWarmTicket, ReleaseReservationTicket, Snapshot | providers' `Fetch`; binder, scheduler and controller call it |
| Binder: flights (`binder.go` Bind, joinFlight, executeFlight, Release, ReleaseByKey) | a flight per idempotency key, a bounded cache of completed flights, `evictedUnexpiredUntil`, the targets | Bind, Release, ReleaseByKey, EvictHandle, SetTarget, RemoveTarget | claim loop, reaper, controller |
| Binder: claim loop (`binder.go` claimLoop ... callLookupNoSlot) | the flight's local variables; refusals, cooldowns, health per target; active attempts | decide, take a slot, reserve, claim, spill, wait, recover an unknown outcome, Shutdown | registry, framework, slots, provider |
| Slots, rates, coalescer, health (`slots.go`) | slots in use and their notify channel, pending lookups and a timer, a health window with a probe | tryAcquire, release, waitAny, coalesced lookup and flush, recordSuccess/Unavailable, isUsable, half-open probe | claim loop, Shutdown, providers |
| Hold-off, election, shutdown (`label.go`, `binder.go`, `main.go`) | `electedAt`, the pod's active label, the lease | NotifyElected, holdOffRemaining, clear and set the label, Shutdown in order | Kubernetes, binder |
| Scheduling framework and plugins (`pkg/framework`, `pkg/plugins`) | none | filter, score, pick | HTTP service, binder |
| HTTP service (`pkg/scheduler`) | policies in use | schedule, claim, release | registry, framework, binder |
| API types (`api/v1alpha1`) | none | SelectPolicy, Validate, BuildProfile, BuildRequest | HTTP service, controllers |
| Reaper (`pkg/reaper`) | targets | list owned sandboxes, delete the expired with a version precondition, report what was deleted | adapters; binder's EvictHandle |
| Adapters (`pkg/adapter/agentsandbox`, `pkg/adapter/e2b`) | none of their own: the provider's objects | Claim, Lookup, Release, Fetch, ListOwned | Kubernetes, E2B |
| SandboxProvider controller | the digest each provider was built from | Reconcile, sync, syncClaims, deregister, writeStatus | API server's informers, registry, binder, reaper |
| SandboxPlacementPolicy controller | none | compile a policy, write its status | API server |

What makes them hard, and what must hold:

* **Ledger.** Callers and a poller change four words without a lock. Every
  reservation is counted once, undone or accounted for at most once, never below
  zero, and none is counted for ever.
* **Registry.** Polls answer late, after their source was replaced or removed, while
  claims land. Warm sandboxes are not promised twice; an old answer never lands; a
  source is polled by one poll at a time and never forgotten by the timer.
* **Flights.** Requests with one key race, retry, expire and are evicted from a
  bounded cache, beside releases and removals of providers. One key has one sandbox,
  of the spec that was asked for, and everybody waiting is answered.
* **Claim loop.** A provider refuses, is busy, conflicts or says nothing. One
  sandbox, a true answer, no lost slot and no lost reservation on any way out;
  shutdown waits for what is under way.
* **Scheduling.** Snapshots are stale when used. The loop over lost races ends, and
  on the best provider there was.
* **E2B.** A service without keys or preconditions, with creates that outlive their
  call: the adapter must still find the key's sandbox, the only one.
* **Slots.** Lookups queue behind a timer that fires late or is replaced; batches,
  claims and probes compete for slots, fail in many ways, and a shutdown waits for
  them. Everybody gets one true answer, and a demoted provider is used again.
* **Leadership.** Labels and creations outlive the process that made them. Traffic
  goes to the leader only, and a new leader's creations do not meet an old one's that
  were as fast as what the new leader knows of.
* **Controller.** It reads copies that lag, fails half-way and is called again.
  Registry, binder and reaper agree afterwards, requests that come after claims were
  switched off do not claim, and nothing is disturbed when nothing has changed.
* **Reaper.** A list shifts while it is read and a deletion lands late. Nothing that
  was renewed is deleted, and everything that expired is, as long as a pass can reach it.

The hazards, each at its line and with the properties that catch it, are in
`PROJECT.json`.

## 2. Modules

    module        theorems in        subject
    WarmCounter                      what a ledger promises
      ^ refined by
    Ledger        LedgerProofs       the lock-free ledger
    Registry      RegistryProofs     polls, reports, reservations (counts, not Ledger's words)
    Flights       FlightsProofs      idempotency, cache, releases (claim loop left open)
    Claim         ClaimProofs        claim loop, slots, shutdown (choice of provider open)
    Slots         PlacementProofs    coalesced lookups, probes, health, shutdown
    Schedule      PlacementProofs    one placement from snapshot to answer
    E2B           AdapterProofs      the contract Claim and Flights assume, for one adapter
    Controller    ControllerProofs   what registers providers everywhere
    Leader        LeaderProofs       lease, pod label, hold-off, shutdown of the replicas
    Reaper        AdapterProofs      deletion of expired sandboxes

Each component has a module that could stand alone; where one needs another it
assumes what the other establishes. Flights lets a flight end as Claim's flights can
end; Claim assumes idempotent claims and conclusive lookups, which E2B checks for the
E2B adapter, and that no earlier leader's creation lands, which is Leader's NoOverlap
but for what it excepts (section 4);
Registry's ledgers lose and keep counts in the ways Ledger's words do (which is by
argument, not by a refinement); Flights and Registry have targets and sources come and
go at any time, of which Controller shows the order. `MC*.tla` modules name small sets
of model values for TLC. Schedule and Reaper have their names in `ScheduleInit`,
`ReaperSpec` and the like, because a proof module extends each beside another component.

**Ledger** has one action for each atomic step on one shared word. A load followed by
a compare-and-swap loop on one word is one action, because the swap only succeeds on
the value it was computed from; between two words anything may happen. `state`,
`ring`, `carry`, `clearedSec` are the code's; `pc`, `ticket`, `hand`, `scan` and
`poller` are the goroutines' locals. Seconds are arbitrary: no step assumes that a
caller read its clock recently or that clocks go forward. Words wrap (`Plus`,
`Minus`). The ring of cold starts is left out.

**Registry** has one action per critical section of `Registry.mu`, and per step of a
poll: started, answered by the provider, recorded, finished. A placement loads the
ledger (`Load`) and reserves on it (`TryReserveWarm`) in two steps, as the code does
without a lock; when the provider was removed between them it reserves on a ledger nobody
sees any more (`orphan`). A ledger is a count per second, and what its words may make of
the counts is left open: a report may leave counts it accounts for (`Cleared` is a set),
a reservation may be refused although there is room, may be cleared as it is made, and a
release may find nothing or take the count of another second (`Takeable`). `strays` is a
history variable: per provider, the reservations its ledger lost, made on a ledger that
was removed or was gone already, or taken by the release of another one. NoOverplacement
excepts one claim for each. Around this are the provider's true pool and callers, whose
claims land within the reservation grace or never. The reservations outstanding are the
size of the set of single reservations (`Tokens`), one for each unit of each count.
Pushed reports come only for providers without a source. A report's age and last error
(only Reachable shows them) and Refresh (only tests call it) are left out.

**Flights** has one action per critical section of `flightsMu` and one per provider
call, at the moment the provider acts. A flight is named by the request that leads
it, a sandbox by the flight that made it. `doors` and `strays` are history variables:
keys and sandboxes the code lets out of its care (an entry deleted by ReleaseByKey
while it led a flight, a sandbox on a provider that is not registered; a sandbox gone
before its flight completed, or deleted by a release that reported an error). The
properties exempt exactly these, and `SingleFlight` shows why the first exists.
Cached targets are read in the step that uses them.

**Claim** has the loop's places as `at`, and as `mode` which of attemptProvider,
retryPinnedKeyBusy and recoverUnknownOutcome the attempt is in. Open are the
decision, the moment a deadline or a client's patience ends, rate limits and budgets.
Refusals, cooldowns and health, which only narrow the decision, are left out. Busy
and Rejected are one answer, and so are all answers that say the claim failed.
waitAny's two looks at the limiters (test, then fetch the signal) are two actions.

**Schedule** has handleSchedule's loop; Snapshot reads one ledger at a time in any
order. Filters, scorers, weights and pick are operators. One attribute stands for the
attribute map, a set of labels for a selector, and a cost score is computed in
integers. Reachability and elasticity are fixed per fleet; the answer to a cluster
without providers (503) is left out.

**E2B** has one action per request to the service. A create lies at the service
(`asked`) until it starts, perhaps after the call gave up. `kills` are the background
deletions. `given`, `buried` and `strays` are history: what was handed out, what was
asked for before a Lookup that found nothing, and what the adapter lost sight of (its
create's answer was lost while it was starting, or a full list left it out). The TTL is
any, so a create asks for its whole TTL or for what is left of the call, whichever is
less (`short`). The binder makes one call at a time for a key; a crash ends the call,
not the create, and the next leader holds off. A sandbox is `Doubtful` if it started in
time as a stray, or started late with an end that passes for a confirmed one; the
properties except these sandboxes and no others.

**Controller** has one worker (`rec`, with the place it is at and the removals still
to make) for one provider. Every call on registry, binder and reaper is a step, since
claims, polls and reaping run between them. `seen` are the informers' copies, which
catch up with object and Secret one by one. Configurations and credentials are model
values, `Builds` says which pairs the adapter accepts, and a provider is named by its
digest. Of the status Ready, Claiming and one number of the report are kept; the
merge patch sends what differs from the copy. `last` is a history variable.

**Leader** has one record per replica for its process, its place in `PodLabeler.Start`
(`at`), and its shutdown. Election is given: a lease that is held, renewed, given back
or runs out. Patches fail before or after they took effect. `attempts` are creations
a provider may still carry out: they stay `Grace` longer than their sender waits
(`RemoteTimeoutSkewGrace`), also when it is dead, and remember what they were given
(`span`). Targets come and go and change their timeout at any time. Bind asks for the
hold-off once, when a request comes (`Admit`); the request's flight then loads the targets
known by then (`executeFlight`) and goes by them to its deadline. How long a shutdown takes
is left open. Timers run up or down to their last
meaning, so behaviours are endless and liveness means something.

**Reaper** has reapProvider with its list of expired handles, over offset pages
(`OwnedLister`) of a list that other actions change; a deletion is on the `wire`
between the adapter's request and the gateway, which compares the version. A key
stands for the ID its sandboxes share. `cached` is the binder's completed flight.

**Slots** has `lookup` and `flush` as the critical sections of the coalescer's mutex;
`timer` is the one batchTimer points to, and `flushes` counts flush calls of timers
that fired but were replaced, and of full batches. A batch then takes its token, its
attempt and slot, and answers. `health` is healthTracker; `due` says that nextProbeAt
has passed. Attempts and slots are counts shared with claims and with Shutdown.
No adapter in this repository sets `BatchLookup` or `Lister` yet: coalescer and
reaper are exercised by tests only, so their models say what will hold once one does.

## 3. Runs

Each run ends within three minutes with two workers. A cfg says `CHECK_DEADLOCK FALSE`
where the requests, time or faults of the instance are finite and the system may come
to rest.

| Run | Instance | Shows |
|---|---|---|
| `ledger` | 2 callers, ring of 2, seconds 0-2, cutoffs 1 and 3, reports -1 and 2, 2-bit halves | TypeOK, Accounting, NoUnderflow, the refinement of WarmCounter, NothingLeaks |
| `flights` | 3 requests, 2 keys, 2 specs, 2 providers, cache of 1 | OneSandbox, SpecHonoured, CacheBounded |
| `flights_release` | 2 requests, 1 key, 1 releaser, 2 removable providers | OneSandbox, CachedIsLive with releases, evictions and removals |
| `flights_live` | 2 requests, 1 releaser, 1 key | Answered, under fairness |
| `registry` | 1 provider, 2 callers, 2 generations, pool of 1, times 0-3, ring of 2 | NoOverplacement, OnePoll, NeverOversleeps, NoOldAnswer |
| `claim` | 2 flights (one warm-only), 2 providers with 1 slot, 2 spills | Balanced (slots, attempts, shutdown), OneSandbox, AnswersAreTrue, OnlyWhereBusy, TicketsSettled, WarmHonoured |
| `schedule` | 2 requests, 3 providers, 4 fleets, 3 policies, 4 kinds of request, 1 poll | EndsInTime, NoNeedlessCold, AskedIsGiven |
| `e2b` | 3 calls, 2 sandboxes, 2 specs, TTLs of 1 and 4, lists of 1, times 0-4 | OneSandbox, NotFoundIsFinal |
| `controller` | 3 configurations, one claiming with a Secret, one that only polls, one unknown; 2 contents of the Secret; 2 edits or failures, 1 report | OneProvider, NotBilled, Undisturbed, Converges |
| `leader` | 2 pods, 3 processes, 1 provider with a timeout of 1 or 2 that changes, claim timeout 2, grace 2, lease 2 | NoOverlap, OnlyLeaderSelected, Served |
| `reaper` | 4 keys (2 undeletable), 3 pages of 1, 2 deletions a pass, 2 versions, 2 faults | OnlyExpired, CircuitBreaker, Reaped |
| `slots` | 3 callers, batches of 2, 2 slots, a health window of 2 | OneAnswer, ShutdownWaits, Settled, Recovers |

A module's type invariant is a conjunct of the first of its properties in the table
(`ledger` has it on its own, as it is proved).

Why the bounds suffice:

* Ledger: seconds 0 and 2 share a bucket, so buckets are reused and counts spill to
  carry; two callers and the poller give three threads, and every step touches one
  word that at most two others race for; a count that wraps at 4 shows. The proofs
  lift the bounds.
* Flights: a third request with a second key evicts the first key's completed flight
  from a cache of one; two specs give conflicts; a TTL of 2 in a time of 2 lets a
  flight expire and be replaced. Releases need one key only, as the cache is reached
  by key. `SweepAt` is 2 instead of 64, `GlobalMax` 2, `MaxJoiners` 1: each limit is
  met. Symmetry is used only where all, or no, providers may be removed.
* Registry: two generations give one replacement, or one removal and return, under a
  poll; a grace of 1 puts claims inside and outside the grace, and with a ring of 2 a
  release at time 2 meets a count the ring has carried. One lost reservation
  (`MaxStrays`) and a second claim already make two claims for a pool of one, the case
  NoOverplacement has to tell apart; leave out any one place that counts strays and the
  run fails. `Budget` (a CONSTRAINT) keeps together only what has to meet: time 3 with
  one generation and no stray, a shorter interval or a second generation with less time.
  `MaxWait` is 2 ticks for Run's minute. Providers share only the wake token, which each
  of them sets.
* Claim: with one slot each, two flights meet at a limiter, wait, and wake each
  other; with two providers a flight spills once and returns. One provider is
  deleting an older sandbox of both keys, the other has another spec's sandbox under
  one of them, so all answers occur.
* Schedule: three tied cold providers are the fewest for which sampling matters; a
  pool of one is the fewest that two requests race for. The fleets mix a cheap
  cluster, one with an attribute, hosted providers with and without a score, and an
  unreachable one.
* E2B: a delay of 2 against a timeout of 1 gives creates in time and late; with a TTL
  of 4 a late one shows, with a TTL of 1 it does not, and its create is not extended.
  Three calls let one lose its sandbox, one find nothing and one find it. Two sandboxes
  are more than a list of one holds. Without any one of the exceptions (strays by lost
  answers, strays by full lists, ends that pass for confirmed ones) NotFoundIsFinal fails.
  The proofs lift the bounds.
* Controller: two upsets let a provider be disabled and enabled again, or a Secret change
  and a write fail, and the first spec seen is a third change. One provider is enough,
  as the only state providers share are maps by name; one report distinguishes a
  status that is up to date from one that is not.
* Leader: with three processes a pod is restarted after a crash while the other
  leads, so a stale label, a creation still on its way and a third process's hold-off
  meet. One provider, unknown, as slow as the default or slower, is enough for a hold-off
  to be sized by it or by the default, and for its timeout to be shortened between two
  leaders. A process beyond the last is not started, so the last one serves.
* Reaper: with pages of one, each release or claim shifts what the next page has; two
  deletions are fewer than three expired sandboxes; two versions let a late deletion
  meet a renewed sandbox; two faults give a lost answer and a release, or a crash. Four
  keys are more than three pages, and two undeletable ones are as many as a pass deletes,
  so sandboxes go out of reach in either way, and Reaped fails without either half of
  `InReach`.
* Slots: a third lookup finds a batch of two full or just flushed, with its timer
  armed, fired or gone; two slots are fewer than a batch, a claim and a probe; a
  window of two holds a failure beside a success.

**Fairness.** `ledger`: a caller and the poller finish what they began, as they are
straight-line code with bounded loops, and polls whose cutoff passes every second that
was used keep succeeding, strongly fair because a poll starts only between others.
NothingLeaks says nothing where a provider is never polled successfully again.
`flights_live`: a goroutine inside a request or release keeps going, since each of its
waits has its own timeout (attempt, release and request deadlines in `binder.go`); no
client is assumed to leave and no provider to succeed. `controller`: informers catch
up, the work queue and its timers run; users and failures may stop at any time, so
Converges speaks of what follows their last step. `leader`: time passes, each goroutine of
a process (main, elector, hook, labeler) goes on, processes are started again, and patches
and renewals, which are retried for ever, do not fail for ever. `reaper`: the ticker
fires and requests are served; faults are bounded. `slots`: timers fire, calls end at
their timeout, goroutines run, and clients keep asking, for it is their requests that
start probes; the slot a probe needs must be free long enough (weak fairness).

**Liveness and refinement in one run.** `ledger` states `ImplementsCounter` as a
property: WarmCounter's specification with `warm` and `out` read from the state word.

## 4. Where code and comments disagree

Each of these is a formula that can be tried with the cfg named:

| Formula | Where | What | How to see it |
|---|---|---|---|
| `NeverUnderstates` (Ledger) | `ledger.go:224` | A late release passes the test of `clearedSec`, a poll raises it, and the release takes a newer reservation out of carry: one too few is counted. `ledger.go:24-27` and 41-44 say the ledger can only overstate. | `MCLedger.cfg` with `NumCallers = 3`, `Seconds <- RaceSeconds`, `Cutoffs <- RaceCutoffs`, `Reports <- RaceReports`, `Ticketless = FALSE`, `SPECIFICATION Spec` and the invariant alone |
| `SingleFlight` (Flights) | `binder.go:2132` | ReleaseByKey deletes the key's entry whatever it has become; the next request leads a second flight although `binder.go:168-170` promises one execution. | `FlightsRelease.cfg` with `Removable <- Nothing` and the invariant |
| `ParkedMeansFull` (Claim) | `slots.go:82` | A slot released between waitAny's test and its fetch of the signal channel wakes nobody; `slots.go:76` says waitAny blocks until a slot is free. | `MCClaim.cfg` with the invariant |
| `DefinitelyNone` (E2B) | `e2b.go:319` | A create whose connection breaks before its deadline may start in time after a Lookup found nothing; the key gets a second sandbox, against `provider.go:119-121`. `OneSandbox` and `NotFoundIsFinal` except just the sandboxes that the adapter cannot judge (`Doubtful`). | `MCE2B.cfg` with the invariant |

Seen while modelling, and not stated as formulas:

* `e2b.go:348`: setting the timeout takes effect, its answer is lost, a deletion starts
  in the background, recovery's Lookup hands the sandbox out, and the deletion deletes
  it (in E2B: Extend, Begin, List, Inspect, Detail, Kill).
* `e2b.go:588`: late sandboxes are recognised by a short expiry more than two seconds
  before the full one. Nothing makes a TTL (any positive one, `provider.go:202`) longer
  than the service's delay and the timeout together; where it is not, a late sandbox is
  taken for one in time (`Unmarked`) and handed out.
* `e2b.go:429`: a Lookup reads one list of at most ten sandboxes. With more of them under
  a key (late ones that nobody deleted yet) it may miss the one it should find.
* `binder.go:579`: a handle that expires as its flight finishes is cached for the
  request's whole TTL.
* `registry.go:415`: a placement that has loaded a ledger reserves on it after the
  provider was removed, came back and was polled: two claims for one warm sandbox,
  although `registry.go:380-383` says two requests cannot both get it. Likewise a removal
  forgets the claims under way; a ticket, which names a provider and a second, takes a
  count from the new ledger (433); and the race of `NeverUnderstates` takes a newer
  reservation's count. `NoOverplacement` excepts one claim for each reservation lost in
  one of these ways (`strays`), and no other.
* `service.go:311-316`: template and warm-only filters are added to a policy that does
  not list them, RequiredAttributes is not, so a request's own requirements are not
  enforced under such a policy although `service.go:62` calls them hard.
  `AskedIsGiven` covers what the code does enforce, the policy's own requirements
  included.
* `binder.go:441`: the hold-off is computed from the targets known when a request
  asks, and with their timeouts of that moment; the request asks once. It does not cover
  an earlier leader's creation at a slower provider whose object is seen only later, nor
  one that was sent before the provider's timeout was shortened (SetTarget), although
  `binder.go:48-53` says that any has finished or timed out. `NoOverlap` excepts exactly
  the creations that were given more time than the longest attempt the leader knows of.
* `binder.go:2280`: an attempt whose request deadline has just passed gets the
  target's whole timeout; Leader lets no attempt begin then, as every caller checks.
* `main.go:345`: the server waits for claims `claimTimeout` + 5 s, the manager only
  its own graceful timeout (30 s by default); with longer claim timeouts the process
  ends with attempts under way. Leader lets a process die at any time, so NoOverlap
  does not rest on it.
* The controller, 183-189: a Secret that is unreadable for one reconcile removes the
  binder's target. When it is back SetTarget makes a new limiter, health record and
  rate limiters, while older attempts still hold the old slots: up to twice
  `maxInFlight` calls. `Undisturbed` is about reconciles whose Secret can be read.
* The controller, 181-189: "billable claims must stop immediately" when credentials are
  missing. Removing the target stops the requests that come afterwards. A flight loads
  the targets once (`binder.go:747`), and claimLoop, retryPinnedKeyBusy and
  recoverUnknownOutcome go by that copy: it may start billable claims at the removed
  target until its request's deadline. `NotBilled` is about the binder's target.
* `binder.go:1953`: a release by handle at a provider whose claims are disabled is
  answered as if the sandbox were unknown.
* `reaper.go:278` and 297: every pass begins at the first page and stops after `maxPages`
  pages, or at the first expired sandbox beyond `maxPerCycle`. Expired sandboxes behind
  `maxPages * pageSize` that live, or behind `maxPerCycle` that cannot be deleted, are
  never reached, however many passes are made. `Reaped` is about sandboxes that are in
  reach again and again (`InReach`).
* `reaper.go:342`: a deletion refused because the name was claimed again still evicts
  the new sandbox's cached flight, by ID. The next request finds the sandbox by its
  deterministic name.
* `slots.go:172`: a batch has the attempt timeout of the caller that armed the timer.
* `slots.go:344`: recordSuccess of a claim begun before the demotion clears `probing`
  while a probe runs, so after a new demotion two probes may run, and the older one's
  answer ends the newer demotion.
* `slots.go:321`: `credentialsErr` is cleared by a success or a probe only, and probes
  run only when demoted: a provider that rejected one claim keeps its condition
  until the next claim succeeds.

## 5. Proofs

`LedgerProofs` proves for every number of callers, every ring size, every word width
and all sets of seconds, cutoffs and reports that `LedgerAssumption` allows:

* `TypeCorrect`: `Spec => []TypeOK`. Inductive as it stands.
* `AccountingAlways`: `Spec => []Accounting`.
* `NoUnderflowAlways`: `Spec => []NoUnderflow`.
* `LedgerImplementsCounter`: `Spec => ImplementsCounter`, initial states and steps.

All but the first rest on the invariant

    IInv == TypeOK /\ LocalsOK /\ Sum

`LocalsOK` says what a goroutine's hand and the poller's `freed` may hold at each of
its places. `Sum` is Accounting over cells: the count in the state word is the number
of units counted in the buckets, carry, `freed` and the hands. NoUnderflow needs it
because it is about one cell and the word only: a step that moves a count from a bucket
to a hand keeps NoUnderflow for every other caller only if the word covers all of them
together. The sum is the size of a set, one element for each unit of each cell
(`Units`), so that no fold has to be unfolded. Lemmas `AddUpChange` and `AddUpMove` say
what a change of one cell, or a move between two, does to such a total; each step of the
ledger is then one change (`RecordStep`, `DecrementStep`, ...) or one move
(`AddCarryStep`, `TakeRingStep`, ...). `NextInv` combines the steps and shows in passing
that each is a step of WarmCounter or none.

The words are unbounded in no place: `Plus` and `Minus` wrap in the proofs as in the
runs, and that they never do where it would matter is what `Sum` gives.

`PlacementProofs` proves about Slots, for all callers, batch sizes, slot limits and
windows that `SlotsAssumption` allows:

* `TypeCorrect`: `Spec => []TypeOK`; in particular no counter drops below zero.
* `ShutdownWaitsAlways`: `Spec => []ShutdownWaits`.
* `OneAnswerAlways`: `Spec => []OneAnswer`.

None of them is inductive. A finished shutdown says that `activeAttempts` was zero at one
moment; that nothing calls the provider needs that count to cover claims, probes and
batches at their call together (`CallsCounted`), and that the door, once shut, lets
none begin, so that the channel is closed by the last one only (`ClosedLast`). The
first is an inequality: two equal batches would be one element of `batches`, and
nothing has to be known of their items. `IInv` is the conjunction with TypeOK. Lemmas
`BeginStep`, `EndStep` and `QuietStep` say what a call that begins, one that ends and
a step that does neither do to it; each action is one of the three.

OneAnswer has an invariant of its own, `Lined`: a caller stands in one place at most,
once in the queue or in one batch (`OnePlace`), and its answer agrees with where it
stands and with the provider (`AnswerOK`). A caller that gave up may still stand
somewhere, which is why its answer is left alone when its batch is told. `FlushSplits`
says that what flush takes and what it leaves are the queue, and share nobody.

About Schedule it proves, for all fleets, policies, weights, costs and kinds of request,
any finite numbers of providers and requests, and any polls:

* `EndsInTimeAlways`, `NoNeedlessColdAlways`, `AskedIsGivenAlways`.

The invariant is `ScheduleInv`. A request's copy of the snapshot is the snapshot less
the providers it found empty, each of which was warm in it, one for each race that was
lost (`RacesLost`): the tries and the providers still warm are therefore never more than
those warm at first, which is EndsInTime. Where a request is about to reserve or has
reserved, that provider is feasible and nothing feasible is worth more (`Unbeaten`, kept
in `Chosen`), and a request turned away had nothing feasible; `InPlace` adds that only a
valid policy decides, and that a provider taken cold has nothing warm in the copy.
NoNeedlessCold compares with the snapshot instead of the copy: the two differ only at
the providers found empty, which it excepts. What a decision rests on is fixed from then
on: points depend on ask, policy, copy and fleet (`SamePoints`, `FleetStays`). That there
is a winner is `Unexceeded`, by well-founded minimality: any finite set with a strict
order has an element nothing exceeds. From it come that the greatest cost is a number
(`MaxCostIs`), so all points are (`PointsAreNumbers`), and that `BestOf` is unbeaten
(`BestIsUnbeaten`), and with it whatever a tie is broken to (`PickIsUnbeaten`).

Each of the six modules below proves one inductive `IInv` (`Init => IInv`, every action
preserves it, `IInv` implies the properties); Reaper has `ReaperInv`. Every `IInv`,
`Lined`, `ScheduleInv` and `ReaperInv` was found to hold by TLC on the instance of the
module's run before it was proved.

`RegistryProofs`, for all providers, callers, pools, graces and intervals:

* `NoOverplacementAlways`, `OnePollAlways`, `NeverOversleepsAlways`, `NoOldAnswerAlways`.

The first is the hard one: it is about one report, but a report is taken from the
provider before it is recorded, and claims come and land in between. What has to
balance is every set of seconds that no report has accounted for (`Kept`). In each such
set the ledger has a token for every claim under way, but for as many as there are
strays (`Covered`), so clearing a prefix of the seconds takes away only tokens without
claims. What was last reported plus the claims under way is at most what the pool has
plus the strays (`Spare`) plus the tokens (`Backed`), and so is what a fetch under way
has read, with the tokens its report will leave (`Seen`): a report replaces the one
inequality by the other. `Owed` says that each claim whose ledger is gone has a stray of
its own, so a later removal counts only the others. Claims made, given up or stolen from
all trade claims, tokens and strays second by second (`Exchange`). `Past` says that what
was cleared is older than the grace. OnePoll rests on `Fetching`, one fetch for each slot
that is taken, NoOldAnswer on `Generations`, which only grow.

`ClaimProofs`, for all flights, providers, limits, spills and initial sandboxes:

* `TypeCorrect`, `BalancedAlways`, `OneSandboxAlways`, `AnswersAreTrueAlways`,
  `OnlyWhereBusyAlways`, `TicketsSettledAlways`, `WarmHonouredAlways`.

`FlightOK` says for each place of the loop what a flight's locals and its sandboxes may
be: nothing is anywhere while it decides, nothing is elsewhere while it attempts, and
something is at the provider only after an answer that leaves it open. The counters
(`Slots`, `Tickets`, `Attempts`, `Closes`) are sizes of sets of flights, so a step of
one flight changes each by what it does to that flight (`CountStep`).

`FlightsProofs`, for all requests, releasers, keys, specs and providers and every size
of the cache:

* `OneSandboxAlways`, `SpecHonouredAlways`, `CacheBoundedAlways`, `CachedIsLiveAlways`.

OneSandbox is no invariant of itself: a second sandbox is made by a flight that did not
know of the first, long after whatever made it forget. `Backed` says why every living
sandbox is still known of: the cache keeps it until it expires, or
`evictedUnexpiredUntil` covers it, or its flight is about to end in doubt, or a client
was told so. `LeaderOK` says for each place of a leading flight what it has still to
look at, and that this includes the key's living sandbox; when it claims, none lives but
at the one provider it may claim from. Steps of one request (`ReqStep`, `LeaderStep`)
add at most one sandbox; steps of releases, removals and time only take away, and what
they take out of the cache is gone or covered (`Withdraws`, `WithdrawStep`). CacheBounded
rests on `EnforcedOK`: the loop that enforces the cap meets each of its keys.

`AdapterProofs` proves about E2B, for all specs, timeouts, TTLs, tolerances, delays,
lengths of a list, calls and sandboxes, with answers lost at any time:

* `OneSandboxAlways`, `NotFoundIsFinalAlways`, each but for the `Doubtful` sandboxes.

A sandbox is `Spent` when no call should hand it out any more: it is gone or going,
started after the deadline of its call, or has not started although that deadline has
passed. Spent is stable, and of the sandboxes that are not strays at most one is not
(`Alone`). `Sifted` follows a call through its list, which is old when it is used:
whatever is not left to look at is spent or a stray (`Past`). `Waited` says that what
nobody waits for will start late, or is a stray, which the hold-off of a new leader gives
(`hold`). `Distinct` says that expiries tell late sandboxes from the others, but for
those whose first end reached their expiry (`Unmarked`), so that whatever is handed out
or promoted is in time or Doubtful (`Known`, `Answers`).

About Reaper, for all numbers of keys, page sizes and pages, limits, versions and faults:

* `CircuitBreakerAlways`, `OnlyExpiredAlways` (an action property).

`ReaperInv` says that every handle a pass still has to deal with, and every deletion on
the wire, names a sandbox whose expiry has passed (`Overdue`, which only grows), and that
what was sent and what is left to send are together at most `MaxPerCycle` at each place
of the pass (`Within`). A deletion that arrives late ends a sandbox of just the version
it names, so none whose expiry is still to come.

`ControllerProofs`, for all configurations, credentials, edits, failures and lags:

* `OneProviderAlways`, `NotBilledAlways`, `UndisturbedAlways`.

`Place` says what the worker has done by each place of a reconcile, with the removals
still to be made; `Left` what a whole reconcile of a spec and credentials leaves. That
`Left(last.spec, last.creds)` holds between reconciles (`LastOK`) is what makes
Undisturbed, an action property, inductive.

`LeaderProofs`, for all replicas, providers, timeouts, graces and leases:

* `NoOverlapAlways`, `NoOverlapAtKnownAlways`, `OneLeaderAlways`,
  `OnlyLeaderSelectedAlways`.

`Led` makes the leader unique by the lease, whose remaining time is what the leader's
last renewal left. `Late` is the hold-off's reason: what another process sent has at
most what it was given, and the grace, less the new leader's age to live; timeouts may
change meanwhile. The age counts from
NotifyElected, when the lease is held already, so that from then on nobody else sends.

**Only model-checked:** liveness (NothingLeaks, Answered, Converges, Served, Reaped,
Settled, Recovers), which is beyond the prover with its fairness. Every invariant and
every action property of the runs is stated by a theorem.

Schedule and Reaper state what a loop over a list yields, not how it goes: the winner of
pick is the one that beats every other (`BestOf`), a list in order is one whose elements
ascend (`InOrder`), a page is the sandboxes at its positions. Lists that are folded or
filtered element by element would need inductions over data, which the provers cannot
be given.

## 6. Assumptions about the surroundings

* Providers (`provider.go:101-131`): Claim is idempotent on the key, Lookup a
  consistent read, and no create lands after a lookup that found nothing
  (`docs/design/pluggable-claims.md`, Lease handover). Module E2B examines the last
  one: it holds there for all but the Doubtful sandboxes.
* Clients retry with `retry` set when an answer said that the outcome is unknown
  (`Unsettled` in Flights).
* In Claim, a deletion that ends after its flight did is of no interest, and a
  provider's limiter is not replaced during the run.
* The claims a provider is asked for show in its pool within the reservation grace
  or never (Registry).

* A process that has lost its lease ends before anyone else acquires it (Leader): the
  lease outlasts the renew deadline, and clocks do not drift between replicas.
* Label patches take effect, if at all, before the next patch of the pod is sent
  (Leader).
* The gateway compares a deletion's version at the moment it deletes (Reaper), which
  is Kubernetes' precondition on the UID.
* An informer's copies of one kind come in order; object and Secret in any order
  (Controller).

The proofs use of the constants only what the modules' named `ASSUME`s say, which TLC
evaluates in every run. Beside ranges and distinct names:

* `FlightsAssumption`: requests, keys and providers are finite sets, as any execution
  up to some moment has seen only finitely many; sizes of sets mean something only then.
* `LeaderAssumption`: one of the timeouts a provider may have is the longest, as a
  duration is a 64-bit word, and the lease outlasts the renew deadline.
* `ClaimAssumption`: at the start no flight's key has a sandbox of its own spec; a key
  that may have one is looked up before the loop (Flights).
* `ScheduleAssumption`: providers, numbered by name, and requests are finite sets; costs,
  scores, priorities and weights are integers (negative ones included).
* `ReaperAssumption`: keys, pages and limits are positive numbers.
* `RegistryAssumption`: there is at least one provider, and the ring is longer than the
  grace (`newLedger`, `ledger.go:64-74`).
* `ControllerAssumption`: there is a configuration, and "none" is not one.
* `E2BAssumption`: TTLs, the timeout and the length of a list are positive numbers. That
  E2B tells when a sandbox started, to the second, and does not start one twice is part
  of the model (`e2b.go:589` takes one without a start time for one in time).

## 7. Not modelled

Refusals and cooldowns in the claim loop, and a provider's health in the choice; the
credentials error and the Claiming reasons that follow from the binder's health; a
limiter replaced by SetTarget under attempts; pins by request; a report's age and
last error in the registry. Rate limiters and token waits are open choices
wherever they occur. A dry run of the reaper deletes nothing and is left out.

Smaller things. Duplicate scorers of a policy cannot be stated, as its weights are a
function. In Slots startAttempt and tryAcquire are one step (`Enter`, `FullUp`): between
them a caller holds no slot, and a refusal undoes the attempt at once. In E2B times are
in ticks, longer than the second that a start time without fractions is compared to, and
the answer to a create has its sandbox as it is when the answer is read.

Not planned: metrics, HTTP parsing, authorisation and encoding, adapter construction,
Fetch, the policy controller (it compiles and writes a condition, holding no state),
the conformance tests, generated code, manifests.

## 8. Plan

Done: WarmCounter, Ledger, Flights, Registry, Claim, Schedule, E2B, Controller, Leader,
Reaper and Slots; the proofs LedgerProofs, PlacementProofs, RegistryProofs, ClaimProofs,
FlightsProofs, AdapterProofs, ControllerProofs and LeaderProofs, which cover every safety
property of the runs.

What would come next: a composition of Registry with Ledger as its counter in place of
counts; refusals and health in Claim.
