------------------------------- MODULE Schedule -------------------------------
(***************************************************************************)
(* A placement request from its snapshot to its answer: handleSchedule     *)
(* (pkg/scheduler/service.go) with the policy it selects and compiles      *)
(* (api/v1alpha1/convert.go), the filters and scorers (pkg/plugins), the   *)
(* pipeline that picks a winner (pkg/framework) and the snapshot it works  *)
(* on (pkg/registry).                                                      *)
(*                                                                         *)
(* Providers are numbered in the order of their names.  An attribute map   *)
(* is one attribute, a label selector the set of labels it selects, and a  *)
(* cost score is computed in integers.  Module Ledger has the counting     *)
(* behind a provider's pool, which is one number here.                     *)
(***************************************************************************)
EXTENDS Integers, FiniteSets, FiniteSetsExt

CONSTANTS Providers,     \* numbers, in the order of the names
          Requests,
          Fleets,        \* what may be declared of the providers
          Policies,      \* the policies there are
          DefaultPolicy, \* the one for requests none of them selects
          Asks,          \* what a request may ask
          MaxWarm,       \* the most warm sandboxes a provider has
          MaxPolls       \* polls during a run

VARIABLES
    fleet,      \* provider -> what is declared of it
    pool,       \* provider -> warm sandboxes not reserved
    cold,       \* provider -> cold starts in flight
    polls,
    req         \* request -> its place in handleSchedule

scheduleVars == <<fleet, pool, cold, polls, req>>

ASSUME ScheduleAssumption ==
    /\ Providers \subseteq Nat /\ IsFiniteSet(Providers) /\ IsFiniteSet(Requests)
    /\ MaxWarm \in Nat /\ MaxPolls \in Nat
    /\ \A f \in Fleets, p \in Providers :
          /\ {f[p].cost, f[p].elasticScore} \subseteq Int
          /\ {f[p].elastic, f[p].reachable} \subseteq BOOLEAN
    /\ \A p \in Policies \cup {DefaultPolicy} :
          /\ p.priority \in Int /\ p.name \in Nat
          /\ \A s \in DOMAIN p.weights : p.weights[s] \in Int
    /\ \A a \in Asks : a.warmOnly \in BOOLEAN

MaxScore == 100
Saturation == 5           \* WarmCapacity.Saturation, by default
ElasticScore == 20        \* DefaultElasticWarmScore

-----------------------------------------------------------------------------
(* The policy of a request. *)

Better(p, q) ==
    \/ p.priority > q.priority
    \/ p.priority = q.priority /\ p.name < q.name

SelectPolicy(label) ==
    LET selecting == {p \in Policies : label \in p.selects}
    IN  IF selecting = {} THEN {DefaultPolicy}
        ELSE {p \in selecting : \A o \in selecting : ~Better(o, p)}

KnownFilters == {"RequiredAttributes", "Reachable", "TemplateAvailable", "WarmOnly"}
KnownScorers == {"WarmCapacity", "Reachability", "Affinity", "Cost"}

\* A policy is refused if it names what is not known, weighs anything negatively or
\* requires what its filters do not enforce.
Valid(policy) ==
    /\ policy.filters \subseteq KnownFilters
    /\ DOMAIN policy.weights \subseteq KnownScorers
    /\ \A s \in DOMAIN policy.weights : policy.weights[s] >= 0
    /\ policy.requires # "" => "RequiredAttributes" \in policy.filters

-----------------------------------------------------------------------------
(* The profile: filters, scorers and their weights, for one request. *)

\* The policy's filters, and those the request itself needs.
\* Seeded fault: warm-only is left to the policy.
FiltersOfPolicy(q) ==
    q.policy.filters \cup
    (IF q.ask.template # "" THEN {"TemplateAvailable"} ELSE {})
FiltersOf(q) ==
    FiltersOfPolicy(q) \cup (IF q.ask.warmOnly THEN {"WarmOnly"} ELSE {})

\* The policy's requirement wins over the request's.
Required(q) ==
    IF q.policy.requires # "" THEN q.policy.requires ELSE q.ask.requires

Passes(f, q, p) ==
    CASE f = "Reachable"          -> fleet[p].reachable
      [] f = "RequiredAttributes" -> Required(q) \in {"", fleet[p].attr}
      [] f = "TemplateAvailable"  -> q.ask.template \in {""} \cup fleet[p].templates
      [] f = "WarmOnly"           -> q.ask.warmOnly => q.warm[p] > 0

Feasible(q) ==
    {p \in Providers : \A f \in FiltersOf(q) : Passes(f, q, p)}

Least(a, b) == IF a < b THEN a ELSE b

\* An elasticScore of 0 stands for the default, a negative one for none.
WarmCapacity(p, warm) ==
    IF warm > 0 THEN Least(MaxScore, (warm * MaxScore) \div Saturation)
    ELSE IF ~fleet[p].elastic \/ fleet[p].elasticScore < 0 THEN 0
    ELSE IF fleet[p].elasticScore = 0 THEN ElasticScore
    ELSE Least(MaxScore, fleet[p].elasticScore)

MaxCost == Max({0} \cup {fleet[p].cost : p \in Providers})

Cost(p) ==
    IF MaxCost = 0 \/ fleet[p].cost <= 0 THEN MaxScore
    ELSE ((MaxCost - fleet[p].cost) * MaxScore) \div MaxCost

Score(s, q, p, warm) ==
    CASE s = "WarmCapacity" -> WarmCapacity(p, warm)
      [] s = "Cost"         -> Cost(p)
      [] s = "Reachability" -> IF fleet[p].reachable THEN MaxScore ELSE 0
      [] s = "Affinity"     -> IF q.ask.prefer = p THEN MaxScore ELSE 0

\* A weight of 0 in a policy counts as 1.
Weight(q, s) == IF q.policy.weights[s] = 0 THEN 1 ELSE q.policy.weights[s]

Term(s, q, p, warm) ==
    IF s \in DOMAIN q.policy.weights THEN Weight(q, s) * Score(s, q, p, warm) ELSE 0

Total(q, p, warm) == Term("WarmCapacity", q, p, warm) + Term("Cost", q, p, warm) +
                     Term("Reachability", q, p, warm) + Term("Affinity", q, p, warm)

-----------------------------------------------------------------------------
(* pick: the best score; a tie goes to the first name, or, when all in it  *)
(* are cold, to the less loaded of two that are sampled.                   *)

Points(q, p) == Total(q, p, q.warm[p])

Beats(q, b, p) ==
    Points(q, b) > Points(q, p) \/ (Points(q, b) = Points(q, p) /\ b < p)

BestOf(q) == CHOOSE b \in Feasible(q) : \A p \in Feasible(q) \ {b} : Beats(q, b, p)

Tied(q) == {p \in Feasible(q) : Points(q, p) = Points(q, BestOf(q))}

\* Two indices out of n, the second drawn from one fewer and moved up.
Pairs(n) == {<<i, IF j >= i THEN j + 1 ELSE j>> : i \in 1..n, j \in 1..n - 1}

InOrder(S) == {s \in [1..Cardinality(S) -> S] :
                 \A i, j \in 1..Cardinality(S) : i < j => s[i] < s[j]}

Samples(q) ==
    LET n == Cardinality(Tied(q))
    IN  {<<list[ij[1]], list[ij[2]]>> :
            list \in InOrder(Tied(q)), ij \in IF n = 2 THEN {<<1, 2>>} ELSE Pairs(n)}

Lighter(q, a, b) ==
    IF q.cold[a] = q.cold[b] THEN {a, b}
    ELSE IF q.cold[b] < q.cold[a] THEN {b} ELSE {a}

Pick(q) ==
    IF Cardinality(Tied(q)) = 1 \/ \E p \in Tied(q) : q.warm[p] > 0
    THEN {BestOf(q)}
    ELSE UNION {Lighter(q, ab[1], ab[2]) : ab \in Samples(q)}

-----------------------------------------------------------------------------
Zero == [p \in Providers |-> 0]

NewReq(ask) == [at |-> "read", ask |-> ask, policy |-> DefaultPolicy,
                left |-> Providers, warm |-> Zero, cold |-> Zero, first |-> Zero,
                empty |-> {}, tries |-> 0, on |-> 0, answer |-> "pending"]

ScheduleInit ==
    /\ fleet \in Fleets
    /\ pool \in [Providers -> 0..MaxWarm]
    /\ cold = Zero
    /\ polls = 0
    /\ \E asks \in [Requests -> Asks] : req = [r \in Requests |-> NewReq(asks[r])]

Become(r, q) == req' = [req EXCEPT ![r] = q]
At(r, s)     == req[r].at = s
Answer(q, a) == [q EXCEPT !.at = "done", !.answer = a]

\* Snapshot reads the ledgers one by one while others reserve.
Read(r, p) ==
    /\ At(r, "read")
    /\ p \in req[r].left
    /\ Become(r, [req[r] EXCEPT !.warm[p] = pool[p], !.first[p] = pool[p],
                                !.cold[p] = cold[p], !.left = @ \ {p},
                                !.at = IF req[r].left = {p} THEN "govern" ELSE "read"])
    /\ UNCHANGED <<fleet, pool, cold, polls>>

Govern(r) ==
    /\ At(r, "govern")
    /\ \E policy \in SelectPolicy(req[r].ask.label) :
          LET q == [req[r] EXCEPT !.policy = policy]
          IN  Become(r, IF Valid(policy) THEN [q EXCEPT !.at = "decide"]
                                         ELSE Answer(q, "invalid"))
    /\ UNCHANGED <<fleet, pool, cold, polls>>

Decide(r) ==
    /\ At(r, "decide")
    /\ IF Feasible(req[r]) = {}
       THEN Become(r, Answer(req[r], "none"))
       ELSE \E p \in Pick(req[r]) : Become(r, [req[r] EXCEPT !.at = "take", !.on = p])
    /\ UNCHANGED <<fleet, pool, cold, polls>>

TakeWarm(r) ==
    LET p == req[r].on IN
    /\ At(r, "take")
    /\ req[r].warm[p] > 0
    /\ pool[p] > 0
    /\ pool' = [pool EXCEPT ![p] = @ - 1]
    /\ Become(r, Answer(req[r], "warm"))
    /\ UNCHANGED <<fleet, cold, polls>>

\* Others took the last warm sandbox: this request's copy has none there.
\* Seeded faults: the copy stays as it was; or it loses every warm sandbox.
EmptiedNot(warm, p) == warm
EmptiedAll(warm, p) == Zero
Emptied(warm, p)    == [warm EXCEPT ![p] = 0]

LostRace(r) ==
    LET p == req[r].on IN
    /\ At(r, "take")
    /\ req[r].warm[p] > 0
    /\ pool[p] = 0
    /\ Become(r, [req[r] EXCEPT !.at = "decide", !.warm = Emptied(@, p),
                                !.tries = @ + 1, !.empty = @ \cup {p}])
    /\ UNCHANGED <<fleet, pool, cold, polls>>

GoCold(r) ==
    LET p == req[r].on IN
    /\ At(r, "take")
    /\ req[r].warm[p] = 0
    /\ cold' = [cold EXCEPT ![p] = @ + 1]
    /\ Become(r, Answer(req[r], "cold"))
    /\ UNCHANGED <<fleet, pool, polls>>

\* A poll reports what the pool has now.
Poll(p) ==
    /\ polls < MaxPolls
    /\ polls' = polls + 1
    /\ \E n \in 0..MaxWarm : pool' = [pool EXCEPT ![p] = n]
    /\ UNCHANGED <<fleet, cold, req>>

\* A cold start ages out of the window.
ColdAges(p) ==
    /\ cold[p] > 0
    /\ cold' = [cold EXCEPT ![p] = @ - 1]
    /\ UNCHANGED <<fleet, pool, polls, req>>

ScheduleNext ==
    \/ \E r \in Requests :
          \/ Govern(r) \/ Decide(r) \/ TakeWarm(r) \/ LostRace(r) \/ GoCold(r)
          \/ \E p \in Providers : Read(r, p)
    \/ \E p \in Providers : Poll(p) \/ ColdAges(p)

ScheduleSpec == ScheduleInit /\ [][ScheduleNext]_scheduleVars

-----------------------------------------------------------------------------
(* Properties. *)

ScheduleTypeOK ==
    /\ fleet \in Fleets
    /\ pool \in [Providers -> 0..MaxWarm]
    /\ cold \in [Providers -> 0..Cardinality(Requests)]
    /\ polls \in 0..MaxPolls
    /\ \A r \in Requests :
          LET q == req[r] IN
          /\ q.at \in {"read", "govern", "decide", "take", "done"}
          /\ q.answer \in {"pending", "warm", "cold", "none", "invalid"}
          /\ q.left \cup q.empty \subseteq Providers
          /\ q.policy \in Policies \cup {DefaultPolicy}
          /\ \A p \in Providers : q.warm[p] \in {0, q.first[p]}
          /\ q.at = "take" => q.on \in Feasible(q)

\* The loop ends within one pass for each provider that was warm in the
\* snapshot: every race that is lost leaves one fewer (service.go:356-360).
EndsInTime == ScheduleTypeOK /\
    \A r \in Requests :
        req[r].tries + Cardinality({p \in Providers : req[r].warm[p] > 0})
            <= Cardinality({p \in Providers : req[r].first[p] > 0})

\* A request goes cold, or away, only if each warm provider of its snapshot
\* that it could use was found empty when it tried it, or scored no better
\* than the cold one (service.go:359-360: "on a sandbox that was free or on
\* a cold placement no warm one could have beaten").
NoNeedlessCold ==
    \A r \in Requests : LET q == req[r] IN
        q.answer \in {"cold", "none"} =>
            \A p \in Feasible([q EXCEPT !.warm = q.first]) :
                \/ q.first[p] = 0
                \/ p \in q.empty
                \/ q.answer = "cold" /\ Total(q, p, q.first[p]) <= Total(q, q.on, 0)

\* A request for a warm sandbox or for a template gets one, whatever filters
\* its policy lists and however many races it loses; and what a policy requires
\* holds whatever the request asked for (convert.go:56-81, service.go:311-316).
AskedIsGiven ==
    \A r \in Requests : LET q == req[r] IN
        q.answer \in {"warm", "cold"} =>
            /\ q.ask.warmOnly => q.answer = "warm"
            /\ q.ask.template \in {""} \cup fleet[q.on].templates
            /\ q.policy.requires \in {"", fleet[q.on].attr}

=============================================================================
